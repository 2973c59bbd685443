---------------------------- MODULE ReferenceProofs ----------------------------
(***************************************************************************)
(* What Reference asks of searches, of what the agent holds, of grading,   *)
(* of comparing runs, of reading evidence and answers and of what is       *)
(* reported, for cases of any size.  The cases never change, so that each  *)
(* theorem is one fact about operators.  Much of what is proved here is of *)
(* ranks, how many come before and at a place of an order; the rest is of  *)
(* sums and folds, taken one member further at a time.                     *)
(***************************************************************************)
EXTENDS Reference, FiniteSetTheorems, FunctionTheorems, SequenceTheorems, TLAPS

------------------------------------------------------------------------------
(* Ranks.  `before` is an order of D: pairs, of which the first comes before the
   second. *)
Orders(before, D) ==
    /\ before \in SUBSET (D \X D)
    /\ \A i \in D : <<i, i>> \notin before
    /\ \A i, j \in D : i # j => <<i, j>> \in before \/ <<j, i>> \in before
    /\ \A i, j, k \in D : <<i, j>> \in before /\ <<j, k>> \in before => <<i, k>> \in before
Until(before, D, i) == {j \in D : j = i \/ <<j, i>> \in before}
Rank(before, D) == [i \in D |-> Cardinality(Until(before, D, i))]

(* A rank is a place in 1 to the number of those ranked. *)
LEMMA RankIsAPlace ==
    ASSUME NEW D, IsFiniteSet(D), NEW before, Orders(before, D), NEW i \in D
    PROVE  /\ IsFiniteSet(Until(before, D, i))
           /\ Cardinality(Until(before, D, i)) \in 1..Cardinality(D)
<1> DEFINE U == Until(before, D, i)
<1>1. U \in SUBSET D /\ i \in U
    BY DEF Until
<1>2. /\ IsFiniteSet(U) /\ Cardinality(U) <= Cardinality(D)
    BY <1>1, FS_Subset
<1>3. Cardinality(U) # 0
    BY <1>1, <1>2, FS_EmptySet
<1>4. Cardinality(U) \in Nat /\ Cardinality(D) \in Nat
    BY <1>2, FS_CardinalityType
<1> QED
    BY <1>2, <1>3, <1>4

(* It is one more than the number of those before. *)
LEMMA RankCountsTheEarlier ==
    ASSUME NEW D, IsFiniteSet(D), NEW before, Orders(before, D), NEW i \in D
    PROVE  Cardinality(Until(before, D, i)) = 1 + Cardinality({j \in D : <<j, i>> \in before})
<1> DEFINE U == {j \in D : <<j, i>> \in before}
<1>1. Until(before, D, i) = U \cup {i} /\ i \notin U
    BY DEF Until, Orders
<1>2. IsFiniteSet(U)
    BY FS_Subset
<1>3. Cardinality(U \cup {i}) = Cardinality(U) + 1 /\ Cardinality(U) \in Nat
    BY <1>1, <1>2, FS_AddElement, FS_CardinalityType
<1> QED
    BY <1>1, <1>3

(* What comes before another has the smaller rank. *)
LEMMA RankKeepsTheOrder ==
    ASSUME NEW D, IsFiniteSet(D), NEW before, Orders(before, D),
           NEW i \in D, NEW j \in D, <<i, j>> \in before
    PROVE  Cardinality(Until(before, D, i)) < Cardinality(Until(before, D, j))
<1> DEFINE U == Until(before, D, i)
           V == Until(before, D, j)
<1>1. U \in SUBSET V
    BY DEF Until, Orders
<1>2. j \in V /\ j \notin U
    BY DEF Until, Orders
<1>3. IsFiniteSet(U) /\ IsFiniteSet(V)
    BY RankIsAPlace
<1>4. Cardinality(U) <= Cardinality(V) /\ Cardinality(U) # Cardinality(V)
    BY <1>1, <1>2, <1>3, FS_Subset
<1>5. Cardinality(U) \in Nat /\ Cardinality(V) \in Nat
    BY <1>3, FS_CardinalityType
<1> QED
    BY <1>4, <1>5

(* Every place is the rank of one. *)
LEMMA EveryPlaceIsTaken ==
    ASSUME NEW D, IsFiniteSet(D), NEW before, Orders(before, D), NEW p \in 1..Cardinality(D)
    PROVE  \E i \in D : Cardinality(Until(before, D, i)) = p
<1> DEFINE f == Rank(before, D)
           places == 1..Cardinality(D)
<1>1. f \in [D -> places]
    BY RankIsAPlace DEF Rank
<1>2. ASSUME NEW i \in D, NEW j \in D, f[i] = f[j]
      PROVE  i = j
    <2>1. f[i] \in Nat /\ f[j] \in Nat
        BY <1>1
    <2>2. ~ (f[i] < f[j]) /\ ~ (f[j] < f[i])
        BY <1>2, <2>1
    <2> QED
        BY <2>2, RankKeepsTheOrder DEF Rank, Orders
<1>3. f \in Injection(D, places)
    BY <1>1, <1>2, Zenon DEF Injection, IsInjective
<1>4. Cardinality(D) \in Nat
    BY FS_CardinalityType
<1>5. IsFiniteSet(places) /\ Cardinality(places) = Cardinality(D)
    BY <1>4, FS_Interval
<1>6. f \in Surjection(D, places)
    BY <1>3, <1>5, FS_Injection
<1>7. \E i \in D : f[i] = p
    BY <1>6 DEF Surjection
<1> QED
    BY <1>7 DEF Rank

(* No two have the same place. *)
LEMMA NoPlaceTwice ==
    ASSUME NEW D, IsFiniteSet(D), NEW before, Orders(before, D), NEW i \in D, NEW j \in D,
           Cardinality(Until(before, D, i)) = Cardinality(Until(before, D, j))
    PROVE  i = j
<1>1. Cardinality(Until(before, D, i)) \in Nat /\ Cardinality(Until(before, D, j)) \in Nat
    BY RankIsAPlace
<1>2. <<i, j>> \notin before /\ <<j, i>> \notin before
    BY <1>1, RankKeepsTheOrder
<1> QED
    BY <1>2 DEF Orders

(* What a list has at some of its places. *)
Members(list, places) == {list[i] : i \in places}

(* A list arranged by an order has at every place the member whose rank it is. *)
LEMMA ArrangedAt ==
    ASSUME NEW list, NEW D, IsFiniteSet(D), NEW before, Orders(before, D), NEW p \in 1..Cardinality(D)
    PROVE  \E i \in D : /\ Arranged(list, D, before)[p] = list[i]
                        /\ Cardinality(Until(before, D, i)) = p
<1> DEFINE Place(i) == 1 + Cardinality({j \in D : <<j, i>> \in before})
           at == CHOOSE i \in D : Place(i) = p
<1>1. \A i \in D : Place(i) = Cardinality(Until(before, D, i))
    BY RankCountsTheEarlier
<1>2. \E i \in D : Place(i) = p
    BY <1>1, EveryPlaceIsTaken
<1>3. Arranged(list, D, before)[p] = list[at]
    BY DEF Arranged
<1> HIDE DEF Place
<1>4. at \in D /\ Place(at) = p
    BY <1>2
<1> HIDE DEF at
<1> QED
    BY <1>1, <1>3, <1>4

(* Each member is at the place of its rank. *)
LEMMA PlaceOf ==
    ASSUME NEW list, NEW D, IsFiniteSet(D), NEW before, Orders(before, D), NEW i \in D
    PROVE  /\ Cardinality(Until(before, D, i)) \in 1..Cardinality(D)
           /\ Arranged(list, D, before)[Cardinality(Until(before, D, i))] = list[i]
<1> DEFINE p == Cardinality(Until(before, D, i))
<1>1. p \in 1..Cardinality(D)
    BY RankIsAPlace
<1>2. PICK j \in D : Arranged(list, D, before)[p] = list[j] /\ Cardinality(Until(before, D, j)) = p
    <2> HIDE DEF p
    <2> QED
        BY <1>1, ArrangedAt
<1>3. i = j
    BY <1>2, NoPlaceTwice
<1> QED
    BY <1>1, <1>2, <1>3

(* Its members are among those it is made of. *)
LEMMA Arranging ==
    ASSUME NEW list, NEW D, IsFiniteSet(D), NEW before, Orders(before, D)
    PROVE  /\ Cardinality(D) \in Nat
           /\ Arranged(list, D, before) \in [1..Cardinality(D) -> Members(list, D)]
<1> DEFINE result == Arranged(list, D, before)
<1>1. \A p \in 1..Cardinality(D) : result[p] \in Members(list, D)
    BY ArrangedAt DEF Members
<1>2. result = [p \in 1..Cardinality(D) |-> result[p]]
    BY DEF Arranged
<1>3. Cardinality(D) \in Nat
    BY FS_CardinalityType
<1> HIDE DEF result
<1> QED
    BY <1>1, <1>2, <1>3 DEF result

(* It is a list, of as many. *)
LEMMA ArrangedList ==
    ASSUME NEW list, NEW D, IsFiniteSet(D), NEW before, Orders(before, D)
    PROVE  /\ Arranged(list, D, before) \in Seq(Members(list, D))
           /\ Len(Arranged(list, D, before)) = Cardinality(D)
           /\ DOMAIN Arranged(list, D, before) = 1..Cardinality(D)
           /\ Cardinality(D) \in Nat
<1> DEFINE result == Arranged(list, D, before)
           S == Members(list, D)
           n == Cardinality(D)
<1>1. n \in Nat /\ result \in [1..n -> S]
    BY Arranging
<1> HIDE DEF result, S, n
<1>2. result \in Seq(S) /\ Len(result) = n /\ DOMAIN result = 1..n
    BY <1>1
<1> QED
    BY <1>1, <1>2 DEF result, S, n

(* Places in the order they are in are ordered, and the rank of one is how many of them
   are not after it. *)
LEMMA InOrderOrders ==
    ASSUME NEW places, places \in SUBSET Int
    PROVE  Orders(InOrder(places), places)
<1>1. \A i, j \in places : <<i, j>> \in InOrder(places) <=> i < j
    BY DEF InOrder
<1>2. InOrder(places) \in SUBSET (places \X places)
    BY DEF InOrder
<1> QED
    BY <1>1, <1>2 DEF Orders

(* Some of the members of a list, in order: as many as the places. *)
LEMMA Picking ==
    ASSUME NEW list, NEW n \in Nat, NEW places, places \in SUBSET (1..n)
    PROVE  /\ IsFiniteSet(places) /\ Cardinality(places) \in Nat
           /\ Orders(InOrder(places), places)
           /\ Picked(list, places) \in Seq(Members(list, places))
           /\ Len(Picked(list, places)) = Cardinality(places)
           /\ DOMAIN Picked(list, places) = 1..Cardinality(places)
           /\ \A i \in places : \E p \in DOMAIN Picked(list, places) : Picked(list, places)[p] = list[i]
           /\ \A p \in DOMAIN Picked(list, places) : \E i \in places : Picked(list, places)[p] = list[i]
<1>1. IsFiniteSet(places)
    <2>1. IsFiniteSet(1..n)
        BY FS_Interval
    <2> QED
        BY <2>1, FS_Subset
<1>2. Orders(InOrder(places), places)
    <2>1. places \in SUBSET Int
        OBVIOUS
    <2> QED
        BY <2>1, InOrderOrders
<1>3. Picked(list, places) = Arranged(list, places, InOrder(places))
    BY DEF Picked
<1>4. /\ Arranged(list, places, InOrder(places)) \in Seq(Members(list, places))
      /\ Len(Arranged(list, places, InOrder(places))) = Cardinality(places)
      /\ DOMAIN Arranged(list, places, InOrder(places)) = 1..Cardinality(places)
      /\ Cardinality(places) \in Nat
    BY <1>1, <1>2, ArrangedList
<1>5. \A i \in places : \E p \in 1..Cardinality(places) :
          Arranged(list, places, InOrder(places))[p] = list[i]
    BY <1>1, <1>2, PlaceOf
<1>6. \A p \in 1..Cardinality(places) : \E i \in places :
          Arranged(list, places, InOrder(places))[p] = list[i]
    BY <1>1, <1>2, ArrangedAt
<1> QED
    BY <1>1, <1>2, <1>3, <1>4, <1>5, <1>6

(* At each place of what is picked is the member that so many are not after. *)
LEMMA PickedAt ==
    ASSUME NEW list, NEW places, IsFiniteSet(places), Orders(InOrder(places), places),
           NEW p \in 1..Cardinality(places)
    PROVE  \E i \in places : /\ Picked(list, places)[p] = list[i]
                            /\ Cardinality(Until(InOrder(places), places, i)) = p
BY ArrangedAt DEF Picked

(* Each of the places has its own in what is picked. *)
LEMMA PickedFrom ==
    ASSUME NEW list, NEW places, IsFiniteSet(places), Orders(InOrder(places), places),
           NEW i \in places
    PROVE  \E p \in 1..Cardinality(places) : Picked(list, places)[p] = list[i]
BY PlaceOf DEF Picked

(* Where no value is at two of the places, none is twice in what is picked. *)
LEMMA PickingOnce ==
    ASSUME NEW list, NEW places, IsFiniteSet(places), Orders(InOrder(places), places),
           \A i, j \in places : list[i] = list[j] => i = j,
           NEW p \in 1..Cardinality(places), NEW q \in 1..Cardinality(places),
           Picked(list, places)[p] = Picked(list, places)[q]
    PROVE  p = q
<1>1. PICK i \in places : /\ Picked(list, places)[p] = list[i]
                          /\ Cardinality(Until(InOrder(places), places, i)) = p
    BY PickedAt
<1>2. PICK j \in places : /\ Picked(list, places)[q] = list[j]
                          /\ Cardinality(Until(InOrder(places), places, j)) = q
    BY PickedAt
<1>3. i = j
    BY <1>1, <1>2, Zenon
<1> QED
    BY <1>1, <1>2, <1>3

------------------------------------------------------------------------------
(* The evidence on a service. *)

(* What is rounded is a whole number. *)
LEMMA NearestType ==
    ASSUME NEW n \in Int, NEW d \in Nat \ {0}
    PROVE  Nearest(n, d) \in Int
<1>1. n \div d \in Int
    OBVIOUS
<1> QED
    BY <1>1 DEF Nearest

(* A change is a number, if it is known. *)
LEMMA ChangeType ==
    ASSUME NEW now, NEW before, Average(now), Average(before)
    PROVE  /\ PctChange(now, before) = Missing \/ PctChange(now, before)[1] \in Int
           /\ PctChange(now, before) # Missing => now # Missing /\ before # Missing /\ before # <<0>>
<1>1. CASE before = Missing \/ before = <<0>> \/ now = Missing
    BY <1>1 DEF PctChange
<1>2. CASE ~ (before = Missing \/ before = <<0>> \/ now = Missing)
    <2> DEFINE n == 1000 * AbsoluteOf(now[1] - before[1])
               b == AbsoluteOf(before[1])
    <2> HIDE DEF n, b
    <2>1. now[1] \in Int /\ before[1] \in Int
        BY <1>2 DEF Average
    <2>2. before[1] # 0
        BY <1>2 DEF Average
    <2>3. n \in Int /\ b \in Nat \ {0}
        BY <2>1, <2>2 DEF AbsoluteOf, n, b
    <2>4. Nearest(n, b) \in Int
        BY <2>3, NearestType
    <2>5. PctChange(now, before) = <<Nearest(n, b)>>
        BY <1>2 DEF PctChange, n, b
    <2> QED
        BY <1>2, <2>4, <2>5 DEF Missing
<1> QED
    BY <1>1, <1>2

(* How far a metric has moved says whether it is shown, by three tenths or from zero,
   unless it is shown for its rounding alone. *)
LEMMA MovedShows ==
    ASSUME NEW m, Average(m.now), Average(m.before)
    PROVE  /\ Moved(m) \in Int
           /\ Moved(m) >= MOVED_PCT => MetricShows(m)
           /\ MetricShows(m) /\ ~ OnlyByRounding(m) => Moved(m) >= MOVED_PCT
<1> DEFINE change == PctChange(m.now, m.before)
<1>1. CASE change # Missing
    <2>1. change[1] \in Int
        BY <1>1, ChangeType
    <2>2. Moved(m) = change[1]
        BY <1>1 DEF Moved
    <2>3. /\ MetricShows(m) <=> WasZero(m) \/ change[1] >= MOVED_PCT
          /\ OnlyByRounding(m) <=> WasZero(m) /\ change[1] < MOVED_PCT
        BY <1>1 DEF MetricShows, OnlyByRounding
    <2> QED
        BY <2>1, <2>2, <2>3 DEF MOVED_PCT
<1>2. CASE change = Missing
    <2>1. Moved(m) = IF WasZero(m) THEN Infinite ELSE 0
        BY <1>2 DEF Moved
    <2>2. MetricShows(m) <=> WasZero(m)
        BY <1>2 DEF MetricShows
    <2> QED
        BY <2>1, <2>2 DEF MOVED_PCT, Infinite
<1> QED
    BY <1>1, <1>2

(* The first of what is shown is still there in half of it. *)
LEMMA HalfKeepsTheFirst ==
    ASSUME NEW S, NEW list \in Seq(S)
    PROVE  /\ Half(list) \in Seq(S)
           /\ list # <<>> => Half(list) # <<>>
           /\ \A i \in DOMAIN Half(list) : i \in DOMAIN list /\ Half(list)[i] = list[i]
<1>1. CASE Len(list) > 1
    <2> DEFINE m == Len(list) \div 2
    <2>1. Len(list) \in Nat /\ DOMAIN list = 1..Len(list)
        OBVIOUS
    <2>2. m \in 1..Len(list)
        BY <1>1, <2>1
    <2>3. Half(list) = SubSeq(list, 1, m)
        BY <1>1 DEF Half
    <2>4. /\ SubSeq(list, 1, m) \in Seq(S) /\ Len(SubSeq(list, 1, m)) = m
          /\ \A i \in 1..m : SubSeq(list, 1, m)[i] = list[i]
        BY <2>1, <2>2
    <2> QED
        BY <2>1, <2>2, <2>3, <2>4
<1>2. CASE ~ (Len(list) > 1)
    BY <1>2 DEF Half
<1> QED
    BY <1>1, <1>2

(* Readings of metrics. *)
Legible(readings) ==
    /\ readings \in Seq({readings[i] : i \in DOMAIN readings})
    /\ \A i \in DOMAIN readings : Average(readings[i].now) /\ Average(readings[i].before)

(* It is an order. *)
LEMMA MoreMovedOrders ==
    ASSUME NEW readings, Legible(readings)
    PROVE  /\ Orders(MoreMoved(readings), DOMAIN readings)
           /\ IsFiniteSet(DOMAIN readings) /\ Cardinality(DOMAIN readings) = Len(readings)
           /\ Len(readings) \in Nat /\ DOMAIN readings = 1..Len(readings)
<1>1. Len(readings) \in Nat /\ DOMAIN readings = 1..Len(readings)
    BY DEF Legible
<1>2. \A i \in DOMAIN readings : Moved(readings[i]) \in Int
    BY MovedShows DEF Legible
<1>3. \A i, j \in DOMAIN readings : <<i, j>> \in MoreMoved(readings) <=>
          \/ Moved(readings[i]) > Moved(readings[j])
          \/ Moved(readings[i]) = Moved(readings[j]) /\ i < j
    BY DEF MoreMoved
<1>4. MoreMoved(readings) \in SUBSET ((DOMAIN readings) \X (DOMAIN readings))
    BY DEF MoreMoved
<1>5. Orders(MoreMoved(readings), DOMAIN readings)
    BY <1>1, <1>2, <1>3, <1>4 DEF Orders
<1>6. IsFiniteSet(1..Len(readings)) /\ Cardinality(1..Len(readings)) = Len(readings)
    <2>1. Cardinality(1..Len(readings)) = IF 1 > Len(readings) THEN 0 ELSE Len(readings) - 1 + 1
        BY <1>1, FS_Interval
    <2> QED
        BY <1>1, <2>1, FS_Interval
<1> QED
    BY <1>1, <1>5, <1>6

(* The metrics as they are shown: at each place the reading whose rank it is. *)
LEMMA MetricsAreRanked ==
    ASSUME NEW readings, Legible(readings), NEW p \in DOMAIN readings
    PROVE  \E i \in DOMAIN readings :
              /\ Metrics(readings)[p] = readings[i]
              /\ Cardinality(Until(MoreMoved(readings), DOMAIN readings, i)) = p
<1>1. /\ Orders(MoreMoved(readings), DOMAIN readings) /\ IsFiniteSet(DOMAIN readings)
      /\ p \in 1..Cardinality(DOMAIN readings)
    BY MoreMovedOrders
<1> QED
    BY <1>1, ArrangedAt DEF Metrics

(* What is shown of the metrics first has moved as far as any. *)
LEMMA FirstMovedMost ==
    ASSUME NEW readings, Legible(readings), readings # <<>>, NEW k \in DOMAIN readings
    PROVE  \E i \in DOMAIN readings :
              Metrics(readings)[1] = readings[i] /\ Moved(readings[i]) >= Moved(readings[k])
<1> DEFINE D == DOMAIN readings
           before == MoreMoved(readings)
<1>1. Orders(before, D) /\ IsFiniteSet(D) /\ 1 \in D /\ D = 1..Len(readings)
    BY MoreMovedOrders DEF Legible
<1>2. PICK i \in D : Metrics(readings)[1] = readings[i] /\ Cardinality(Until(before, D, i)) = 1
    BY <1>1, MetricsAreRanked
<1>3. <<k, i>> \notin before
    <2> SUFFICES ASSUME <<k, i>> \in before
                 PROVE  FALSE
        OBVIOUS
    <2>1. Cardinality(Until(before, D, k)) < 1
        BY <1>1, <1>2, RankKeepsTheOrder
    <2>2. Cardinality(Until(before, D, k)) >= 1
        BY <1>1, RankIsAPlace
    <2>3. Cardinality(Until(before, D, k)) \in Nat
        BY <1>1, RankIsAPlace
    <2> QED
        BY <2>1, <2>2, <2>3
<1>4. Moved(readings[i]) \in Int /\ Moved(readings[k]) \in Int
    BY <1>2, MovedShows DEF Legible
<1>5. Moved(readings[i]) >= Moved(readings[k])
    BY <1>3, <1>4 DEF MoreMoved
<1> QED
    BY <1>2, <1>5

(* Half of the metrics shows what is abnormal in all of them, but for the rounding. *)
LEMMA PartialMetrics ==
    ASSUME NEW readings, Legible(readings)
    PROVE  PartialShowsTheSame(readings)
<1> DEFINE S == {readings[i] : i \in DOMAIN readings}
           shown == Metrics(readings)
<1>1. Len(readings) \in Nat /\ DOMAIN readings = 1..Len(readings)
    BY DEF Legible
<1>2. shown \in [DOMAIN readings -> S]
    <2>1. /\ Orders(MoreMoved(readings), DOMAIN readings) /\ IsFiniteSet(DOMAIN readings)
          /\ DOMAIN readings = 1..Cardinality(DOMAIN readings)
        BY MoreMovedOrders
    <2>2. Arranged(readings, DOMAIN readings, MoreMoved(readings))
            \in [1..Cardinality(DOMAIN readings) -> Members(readings, DOMAIN readings)]
        BY <2>1, Arranging
    <2> QED
        BY <2>1, <2>2 DEF Metrics, Members
<1> HIDE DEF shown
<1>3. shown \in Seq(S) /\ DOMAIN shown = DOMAIN readings
    BY <1>1, <1>2
<1>4. ASSUME NEW p \in DOMAIN Half(shown), MetricShows(Half(shown)[p])
      PROVE  \E i \in DOMAIN readings : MetricShows(readings[i])
    <2>1. p \in DOMAIN readings /\ Half(shown)[p] = shown[p]
        BY <1>3, HalfKeepsTheFirst
    <2>2. shown[p] \in S
        BY <1>2, <2>1
    <2> QED
        BY <1>4, <2>1, <2>2
<1>5. ASSUME NEW k \in DOMAIN readings, MetricShows(readings[k]), ~ OnlyByRounding(readings[k])
      PROVE  \E p \in DOMAIN Half(shown) : MetricShows(Half(shown)[p])
    <2>1. readings # <<>> /\ shown # <<>>
        BY <1>1, <1>3
    <2>2. PICK i \in DOMAIN readings :
              shown[1] = readings[i] /\ Moved(readings[i]) >= Moved(readings[k])
        BY <2>1, FirstMovedMost DEF shown
    <2>3. /\ Moved(readings[i]) \in Int /\ Moved(readings[k]) \in Int
          /\ Moved(readings[i]) >= MOVED_PCT => MetricShows(readings[i])
          /\ Moved(readings[k]) >= MOVED_PCT
        BY <1>5, <2>2, MovedShows DEF Legible
    <2>4. MetricShows(readings[i])
        BY <2>2, <2>3 DEF MOVED_PCT
    <2>5. 1 \in DOMAIN Half(shown) /\ Half(shown)[1] = shown[1]
        BY <1>3, <2>1, HalfKeepsTheFirst
    <2> QED
        BY <2>2, <2>4, <2>5
<1> QED
    BY <1>4, <1>5, Zenon DEF PartialShowsTheSame, MetricsShow, shown

(* The smallest of three numbers is one of them and none is smaller. *)
LEMMA MinOfThree ==
    ASSUME NEW a \in Nat, NEW b \in Nat, NEW c \in Nat
    PROVE  /\ Min({a, b, c}) \in Nat /\ Min({a, b, c}) <= a
           /\ Min({a, b, c}) \in {a, b, c}
<1>1. \E x \in {a, b, c} : \A y \in {a, b, c} : x <= y
    OBVIOUS
<1>2. Min({a, b, c}) \in {a, b, c} /\ \A y \in {a, b, c} : Min({a, b, c}) <= y
    BY <1>1 DEF Min
<1> QED
    BY <1>2

(* Log lines, and which of them are asked for. *)
Readable(rows, level, limit) ==
    /\ rows \in Seq({rows[i] : i \in DOMAIN rows})
    /\ \A i \in DOMAIN rows : rows[i].level \in Nat
    /\ level \in Nat /\ limit \in Nat \ {0}
Matching(rows, level) == {i \in DOMAIN rows : rows[i].level >= level}

(* The lines that are shown are lines asked for, and there is one if there is any. *)
LEMMA LinesAreMatching ==
    ASSUME NEW rows, NEW level, NEW limit, Readable(rows, level, limit)
    PROVE  LET lines == ServiceLogs(rows, level, limit).lines IN
           /\ lines \in Seq(Members(rows, Matching(rows, level)))
           /\ lines # <<>> <=> Matching(rows, level) # {}
<1> DEFINE M == Matching(rows, level)
           all == Picked(rows, M)
           m == Min({Cardinality(M), limit, SampleLines})
           S == Members(rows, M)
<1>1. Len(rows) \in Nat /\ M \in SUBSET (1..Len(rows))
    BY DEF Readable, Matching
<1>2. IsFiniteSet(M) /\ Cardinality(M) \in Nat /\ all \in Seq(S) /\ Len(all) = Cardinality(M)
    BY <1>1, Picking
<1>3. Cardinality(M) = 0 <=> M = {}
    BY <1>2, FS_EmptySet
<1>4. m \in Nat /\ m <= Cardinality(M) /\ (m = 0 <=> M = {})
    <2>1. limit \in Nat /\ limit # 0 /\ SampleLines \in Nat /\ SampleLines # 0
        BY EvidenceAssumption DEF Readable
    <2>2. m \in Nat /\ m <= Cardinality(M) /\ m \in {Cardinality(M), limit, SampleLines}
        BY <1>2, <2>1, MinOfThree
    <2> HIDE DEF m
    <2> QED
        BY <1>2, <1>3, <2>1, <2>2
<1>5. ServiceLogs(rows, level, limit).lines = SubSeq(all, 1, m)
    BY DEF ServiceLogs, Matching
<1> HIDE DEF m, all, S, M
<1> DEFINE shown == SubSeq(all, 1, m)
<1>6. shown \in Seq(S) /\ Len(shown) = m
    BY <1>2, <1>4
<1> HIDE DEF shown
<1>7. shown # <<>> <=> m # 0
    BY <1>6
<1> QED
    BY <1>4, <1>5, <1>6, <1>7 DEF S, M, shown

(* What a failure leaves of the error lines shows an error where there was one. *)
LEMMA PartialLogsAreErrors ==
    ASSUME NEW rows, NEW level, NEW limit, Readable(rows, level, limit)
    PROVE  PartialLogsShowTheSame(rows, level, limit)
<1> SUFFICES ASSUME level >= ERROR
             PROVE  LogsShow(PartialLogs(ServiceLogs(rows, level, limit)))
                        <=> \E i \in DOMAIN rows : rows[i].level >= level
    BY DEF PartialLogsShowTheSame
<1> DEFINE logs == ServiceLogs(rows, level, limit)
           S == Members(rows, Matching(rows, level))
           left == PartialLogs(logs).lines
<1>1. logs.lines \in Seq(S) /\ (logs.lines # <<>> <=> Matching(rows, level) # {})
    BY LinesAreMatching
<1>2. left = logs.lines \/ left = Half(logs.lines)
    <2>1. logs = [lines |-> logs.lines, signatures |-> logs.signatures]
        BY DEF ServiceLogs
    <2> HIDE DEF logs
    <2> QED
        BY <2>1 DEF PartialLogs
<1> HIDE DEF logs
<1>3. left \in Seq(S) /\ (left # <<>> <=> logs.lines # <<>>)
    <2>1. Half(logs.lines) \in Seq(S)
        BY <1>1, HalfKeepsTheFirst
    <2>2. logs.lines # <<>> => Half(logs.lines) # <<>>
        BY <1>1, HalfKeepsTheFirst
    <2>3. logs.lines = <<>> => Half(logs.lines) = <<>>
        BY DEF Half
    <2> QED
        BY <1>1, <1>2, <2>1, <2>2, <2>3
<1> HIDE DEF left
<1>4. \A i \in DOMAIN left : left[i].level >= ERROR
    <2>1. ASSUME NEW i \in DOMAIN left
          PROVE  left[i] \in S
        BY <1>3
    <2>2. \A r \in S : r.level >= ERROR
        BY DEF Readable, Matching, ERROR, Members
    <2> QED
        BY <2>1, <2>2
<1>5. left # <<>> <=> \E i \in DOMAIN left : TRUE
    <2> HIDE DEF S
    <2>1. Len(left) \in Nat /\ DOMAIN left = 1..Len(left) /\ (left = <<>> <=> Len(left) = 0)
        BY <1>3
    <2> QED
        BY <2>1
<1>6. LogsShow(PartialLogs(logs)) <=> left # <<>>
    BY <1>4, <1>5 DEF LogsShow, left
<1>7. Matching(rows, level) # {} <=> \E i \in DOMAIN rows : rows[i].level >= level
    BY DEF Matching
<1> QED
    BY <1>1, <1>3, <1>6, <1>7 DEF logs

(* The evidence of a service does not depend on how much of it a failure has cut off,
   whatever its metrics and logs: the gate on actions opens on what is left of a result
   only where it does on the whole, and wherever it does for more than a metric that
   rounding alone shows to have been zero. *)
THEOREM PartialEvidence == Spec => []NothingSeenIsLost
<1>1. Init => NothingSeenIsLost
    <2> SUFFICES ASSUME Init
                 PROVE  NothingSeenIsLost
        OBVIOUS
    <2>1. ASSUME case.kind = "metrics"
          PROVE  case.of \in MetricCases
        BY <2>1 DEF Init, Cases
    <2>2. ASSUME case.kind = "logs"
          PROVE  case.of \in LogCases
        BY <2>2 DEF Init, Cases
    <2>3. case.kind = "metrics" => Legible(case.of)
        BY <2>1, EvidenceAssumption DEF Legible
    <2>4. case.kind = "logs" => Readable(case.of.rows, case.of.level, case.of.limit)
        BY <2>2, EvidenceAssumption DEF Readable
    <2>5. case.kind = "metrics" => PartialShowsTheSame(case.of)
        BY <2>3, PartialMetrics
    <2>6. case.kind = "logs" => PartialLogsShowTheSame(case.of.rows, case.of.level, case.of.limit)
        BY <2>4, PartialLogsAreErrors
    <2> QED
        BY <2>5, <2>6 DEF NothingSeenIsLost
<1>2. NothingSeenIsLost /\ [Next]_case => NothingSeenIsLost'
    BY DEF Next, NothingSeenIsLost
<1> QED
    BY <1>1, <1>2, PTL DEF Spec

------------------------------------------------------------------------------
(* Grading. *)

(* A result, field by field. *)
Graded(abstained, target, identified, completed, remediation, success, note) ==
    [abstained |-> abstained, target |-> target, identified |-> identified,
     completed |-> completed, remediation |-> remediation, success |-> success, note |-> note]
Booleans(scenario, run, first, second) ==
    {scenario.should_abstain, run.abstained, run.failed, run.refused,
     first.mechanism, second.mechanism} \subseteq BOOLEAN

(* Whether the cause is identified and what is noted of a wrong one is of the scenario,
   the reading and the target; the verdict sets the success, and a note where there is
   none. *)
Caught(scenario, reading, target) ==
    scenario.cause # None /\ (scenario.cause \in reading.asserted \/ target = scenario.cause)
ActedOn(scenario, target) == target \in scenario.victims /\ target # scenario.cause
Wrong(scenario, reading, target) ==
    /\ scenario.kind = "cascading"
    /\ ActedOn(scenario, target) \/ ~ Caught(scenario, reading, target)
    /\ ActedOn(scenario, target) \/ reading.asserted \cap scenario.victims # {}
Blame(scenario, target) == IF ActedOn(scenario, target) THEN "acted on victim" ELSE "blamed victim"
Found(scenario, reading, target) ==
    Caught(scenario, reading, target) /\ ~ Wrong(scenario, reading, target)
Reason(found, completed, mechanism) ==
    CASE ~ completed -> "no conclusion"
      [] completed /\ ~ found -> "cause not named"
      [] completed /\ found /\ ~ mechanism -> "other failure mode"
      [] OTHER -> "other action"

(* What identifying does to a result. *)
LEMMA Identifying ==
    ASSUME NEW scenario, NEW reading, NEW a, NEW t, NEW i, NEW c, NEW m, NEW s, NEW n
    PROVE  Identify(scenario, reading, Graded(a, t, i, c, m, s, n))
             = Graded(a, t, Found(scenario, reading, t), c, m, s,
                      IF Wrong(scenario, reading, t) THEN Blame(scenario, t) ELSE n)
<1> DEFINE r == Graded(a, t, i, c, m, s, n)
<1>1. r.target = t /\ r.note = n
    BY DEF Graded
<1>2. Identify(scenario, reading, r)
        = [r EXCEPT !.identified = Found(scenario, reading, t),
                    !.note = IF Wrong(scenario, reading, t) THEN Blame(scenario, t) ELSE n]
    BY <1>1 DEF Identify, Found, Wrong, Blame, Caught, ActedOn
<1> QED
    BY <1>2 DEF Graded

(* What the verdict does to a result. *)
LEMMA GivingVerdict ==
    ASSUME NEW reading, NEW a, NEW t, NEW i, NEW c, NEW m, NEW s, NEW n
    PROVE  LET success == c /\ i /\ reading.mechanism /\ m IN
           Verdict(reading, Graded(a, t, i, c, m, s, n))
             = Graded(a, t, i, c, m, success,
                      IF ~ success /\ n = NoNote THEN Reason(i, c, reading.mechanism) ELSE n)
<1> DEFINE r == Graded(a, t, i, c, m, s, n)
           success == c /\ i /\ reading.mechanism /\ m
<1>1. r.completed = c /\ r.identified = i /\ r.remediation = m /\ r.note = n
    BY DEF Graded
<1>2. Verdict(reading, r)
        = [r EXCEPT !.success = success,
                    !.note = IF ~ success /\ n = NoNote THEN Reason(i, c, reading.mechanism) ELSE n]
    BY <1>1 DEF Verdict, Reason
<1> QED
    BY <1>2 DEF Graded

(* What a grader that reads a conclusion makes of it. *)
Succeeds(scenario, reading, target, completed, remediation) ==
    completed /\ Found(scenario, reading, target) /\ reading.mechanism /\ remediation
Noted(scenario, reading, target, note) ==
    IF Wrong(scenario, reading, target) THEN Blame(scenario, target) ELSE note
Note(scenario, reading, target, completed, remediation, note) ==
    LET noted == Noted(scenario, reading, target, note) IN
    IF ~ Succeeds(scenario, reading, target, completed, remediation) /\ noted = NoNote
    THEN Reason(Found(scenario, reading, target), completed, reading.mechanism)
    ELSE noted

(* Identifying and the verdict together. *)
LEMMA Judging ==
    ASSUME NEW scenario, NEW reading, NEW a, NEW t, NEW i, NEW c, NEW m, NEW s, NEW n
    PROVE  Verdict(reading, Identify(scenario, reading, Graded(a, t, i, c, m, s, n)))
             = Graded(a, t, Found(scenario, reading, t), c, m,
                      Succeeds(scenario, reading, t, c, m), Note(scenario, reading, t, c, m, n))
<1> DEFINE f == Found(scenario, reading, t)
           noted == Noted(scenario, reading, t, n)
<1>1. Identify(scenario, reading, Graded(a, t, i, c, m, s, n)) = Graded(a, t, f, c, m, s, noted)
    BY Identifying DEF Noted
<1>2. Verdict(reading, Graded(a, t, f, c, m, s, noted))
        = Graded(a, t, f, c, m, c /\ f /\ reading.mechanism /\ m,
                 IF ~ (c /\ f /\ reading.mechanism /\ m) /\ noted = NoNote
                 THEN Reason(f, c, reading.mechanism) ELSE noted)
    BY GivingVerdict
<1> QED
    BY <1>1, <1>2, Zenon DEF Succeeds, Note

(* A result with another note. *)
LEMMA NotingAgain ==
    ASSUME NEW a, NEW t, NEW i, NEW c, NEW m, NEW s, NEW n, NEW o
    PROVE  [Graded(a, t, i, c, m, s, n) EXCEPT !.note = o] = Graded(a, t, i, c, m, s, o)
BY DEF Graded

(* A result whose approval was refused. *)
Refuse(r) == [r EXCEPT !.completed = FALSE, !.success = FALSE, !.note = "refused"]

(* It keeps what was read of the conclusion, and fails. *)
LEMMA Refusing ==
    ASSUME NEW a, NEW t, NEW i, NEW c, NEW m, NEW s, NEW n
    PROVE  Refuse(Graded(a, t, i, c, m, s, n)) = Graded(a, t, i, FALSE, m, FALSE, "refused")
<1> DEFINE r == Graded(a, t, i, c, m, s, n)
<1>1. PICK no, o : no = FALSE /\ o = "refused"
    OBVIOUS
<1>2. [r EXCEPT !.completed = no] = Graded(a, t, i, no, m, s, n)
    BY DEF Graded
<1>3. [Graded(a, t, i, no, m, s, n) EXCEPT !.success = no] = Graded(a, t, i, no, m, no, n)
    BY DEF Graded
<1>4. [Graded(a, t, i, no, m, no, n) EXCEPT !.note = o] = Graded(a, t, i, no, m, no, o)
    BY DEF Graded
<1>5. [r EXCEPT !.completed = no, !.success = no, !.note = o]
        = [[[r EXCEPT !.completed = no] EXCEPT !.success = no] EXCEPT !.note = o]
    OBVIOUS
<1>6. [[[r EXCEPT !.completed = no] EXCEPT !.success = no] EXCEPT !.note = o]
        = [[Graded(a, t, i, no, m, s, n) EXCEPT !.success = no] EXCEPT !.note = o]
    BY <1>2, Zenon
<1>7. [r EXCEPT !.completed = no, !.success = no, !.note = o] = Graded(a, t, i, no, m, no, o)
    BY <1>3, <1>4, <1>5, <1>6, Zenon
<1> HIDE DEF r
<1>8. Refuse(r) = [r EXCEPT !.completed = no, !.success = no, !.note = o]
    BY <1>1, Zenon DEF Refuse
<1> QED
    BY <1>1, <1>7, <1>8, Zenon DEF r

(* The note, the abstention and the success are those given. *)
LEMMA Fields ==
    ASSUME NEW a, NEW t, NEW i, NEW c, NEW m, NEW s, NEW n
    PROVE  /\ Graded(a, t, i, c, m, s, n).note = n
           /\ Graded(a, t, i, c, m, s, n).abstained = a
           /\ Graded(a, t, i, c, m, s, n).success = s
BY DEF Graded

(* Grading a saved result again reads it again, unless its note is another's. *)
LEMMA Regrading ==
    ASSUME NEW scenario, ~ scenario.should_abstain, NEW reading,
           NEW a, ~ a, NEW t, NEW i, NEW c, NEW m, NEW s, NEW n
    PROVE  Regrade(scenario, reading, Graded(a, t, i, c, m, s, n))
             = IF n # NoNote /\ n \notin VERDICT_NOTES THEN Graded(a, t, i, c, m, s, n)
               ELSE Graded(a, t, Found(scenario, reading, t), c, m,
                           Succeeds(scenario, reading, t, c, m),
                           Note(scenario, reading, t, c, m, NoNote))
<1> DEFINE r == Graded(a, t, i, c, m, s, n)
<1>1. r.abstained = a /\ r.note = n
    BY Fields
<1>2. [r EXCEPT !.note = NoNote] = Graded(a, t, i, c, m, s, NoNote)
    BY NotingAgain
<1> HIDE DEF r
<1>3. Regrade(scenario, reading, r)
        = IF n # NoNote /\ n \notin VERDICT_NOTES THEN r
          ELSE Verdict(reading, Identify(scenario, reading, Graded(a, t, i, c, m, s, NoNote)))
    BY <1>1, <1>2, Zenon DEF Regrade
<1>4. Verdict(reading, Identify(scenario, reading, Graded(a, t, i, c, m, s, NoNote)))
        = Graded(a, t, Found(scenario, reading, t), c, m, Succeeds(scenario, reading, t, c, m),
                 Note(scenario, reading, t, c, m, NoNote))
    BY Judging
<1> QED
    BY <1>3, <1>4, Zenon DEF r

(* A grader's reading, and what a result is before its verdict: completed or not,
   the mechanism matched or not, with a note or none. *)
Decided(reading) == reading.mechanism \in BOOLEAN
Begun(c, m, n) ==
    /\ c \in BOOLEAN /\ m \in BOOLEAN
    /\ n \in {NoNote, "action failed"} /\ (n = "action failed" => ~ c)
(* A note is one of a verdict, unless it was given with the result, and then only that
   of a victim is written over it: a failure has one, and reading it again gives the
   same. *)
LEMMA NotesOfVerdicts ==
    ASSUME NEW scenario, NEW reading, Decided(reading), NEW t, NEW c, NEW m, NEW n, Begun(c, m, n)
    PROVE  /\ Succeeds(scenario, reading, t, c, m) \in BOOLEAN
           /\ ~ Succeeds(scenario, reading, t, c, m) => Note(scenario, reading, t, c, m, n) # NoNote
           /\ Note(scenario, reading, t, c, m, n) \in VERDICT_NOTES \cup {n}
           /\ Note(scenario, reading, t, c, m, n) \in VERDICT_NOTES \cup {NoNote} =>
                  Note(scenario, reading, t, c, m, n) = Note(scenario, reading, t, c, m, NoNote)
           /\ n # NoNote => Note(scenario, reading, t, c, m, n) \in VICTIM_NOTES \cup {n}
<1> USE DEF Decided, Begun
<1>1. /\ Found(scenario, reading, t) \in BOOLEAN
      /\ Wrong(scenario, reading, t) \in BOOLEAN
    BY DEF Found, Wrong
<1>2. Blame(scenario, t) \in {"acted on victim", "blamed victim"}
    BY DEF Blame
<1>3. Succeeds(scenario, reading, t, c, m) \in BOOLEAN
    BY <1>1 DEF Succeeds
<1>4. Reason(Found(scenario, reading, t), c, reading.mechanism)
        \in {"no conclusion", "cause not named", "other failure mode", "other action"}
    BY <1>1 DEF Reason
<1>5. CASE Wrong(scenario, reading, t)
    BY <1>2, <1>3, <1>5 DEF Note, Noted, NoNote, VERDICT_NOTES, VICTIM_NOTES
<1>6. CASE ~ Wrong(scenario, reading, t)
    BY <1>3, <1>4, <1>6 DEF Note, Noted, NoNote, VERDICT_NOTES
<1> QED
    BY <1>1, <1>5, <1>6

(* Grading a conclusion that does not abstain, of a scenario with a cause. *)
Concluded(run) == run.status \in {"complete", "awaiting_approval"} /\ ~ run.failed
Remedied(scenario, run) == scenario.tools = {} \/ run.tool \in scenario.tools
FirstNote(run) == IF run.failed THEN "action failed" ELSE NoNote
AsRead(scenario, run, reading) ==
    Graded(run.abstained, run.target, Found(scenario, reading, run.target),
           Concluded(run), Remedied(scenario, run),
           Succeeds(scenario, reading, run.target, Concluded(run), Remedied(scenario, run)),
           Note(scenario, reading, run.target, Concluded(run), Remedied(scenario, run), FirstNote(run)))
AsRefused(scenario, run, reading) ==
    Graded(run.abstained, run.target, Found(scenario, reading, run.target),
           FALSE, Remedied(scenario, run), FALSE, "refused")

(* It is what the reading makes of it, or refused. *)
LEMMA GradingAConclusion ==
    ASSUME NEW scenario, NEW run, NEW reading, ~ scenario.should_abstain, ~ run.abstained
    PROVE  RunScenario(scenario, run, reading)
             = IF run.refused THEN AsRefused(scenario, run, reading)
               ELSE AsRead(scenario, run, reading)
<1>1. PICK no : no = FALSE
    OBVIOUS
<1> DEFINE r == Graded(run.abstained, run.target, no, Concluded(run), Remedied(scenario, run),
                       no, FirstNote(run))
<1>2. Grade(scenario, run, reading) = Verdict(reading, Identify(scenario, reading, r))
    BY <1>1, Zenon DEF Grade, Graded, Concluded, Remedied, FirstNote
<1>3. Verdict(reading, Identify(scenario, reading, r)) = AsRead(scenario, run, reading)
    BY Judging DEF AsRead
<1>4. Refuse(AsRead(scenario, run, reading)) = AsRefused(scenario, run, reading)
    BY Refusing, Zenon DEF AsRead, AsRefused
<1> QED
    BY <1>2, <1>3, <1>4, Zenon DEF RunScenario, Refuse

(* Grading again is grading, of a result that says something. *)
LEMMA RegradingAConclusion ==
    ASSUME NEW scenario, NEW run, NEW first, NEW second,
           Booleans(scenario, run, first, second), ~ scenario.should_abstain, ~ run.abstained
    PROVE  RegradeIsFreshGrade(scenario, run, first, second)
<1> DEFINE t == run.target
           c == Concluded(run)
           m == Remedied(scenario, run)
           n == FirstNote(run)
           F(reading) == Found(scenario, reading, t)
           S(reading) == Succeeds(scenario, reading, t, c, m)
           N(reading) == Note(scenario, reading, t, c, m, n)
           anew == Note(scenario, second, t, c, m, NoNote)
           fresh == RunScenario(scenario, run, second)
           saved == RunScenario(scenario, run, first)
           Anew(r) == Regrade(scenario, second, r)
           clean == Graded(run.abstained, t, F(second), c, m, S(second), anew)
<1>1. Begun(c, m, n) /\ Begun(c, m, NoNote)
    BY DEF Booleans, Concluded, Remedied, FirstNote, NoNote, Begun
<1>2. ASSUME NEW reading, Decided(reading)
      PROVE  /\ S(reading) \in BOOLEAN
             /\ ~ S(reading) => N(reading) # NoNote
             /\ N(reading) \in VERDICT_NOTES \cup {n}
             /\ n # NoNote => N(reading) \in VICTIM_NOTES \cup {n}
    <2> HIDE DEF c, m, n, t
    <2> QED
        BY <1>1, <1>2, NotesOfVerdicts
<1>3. Decided(first) /\ Decided(second) /\ run.refused \in BOOLEAN /\ run.failed \in BOOLEAN
    BY DEF Booleans, Decided
<1>4. anew \in VERDICT_NOTES \cup {NoNote} /\ (~ S(second) => anew # NoNote)
    <2> HIDE DEF c, m, t
    <2> QED
        BY <1>1, <1>3, NotesOfVerdicts
<1>5. CASE run.refused
    <2>1. fresh = AsRefused(scenario, run, second) /\ saved = AsRefused(scenario, run, first)
        BY <1>5, GradingAConclusion, Zenon
    <2>2. "refused" # NoNote /\ "refused" \notin VERDICT_NOTES /\ "refused" \notin VICTIM_NOTES
        BY DEF NoNote, VERDICT_NOTES, VICTIM_NOTES
    <2>3. ASSUME NEW reading
          PROVE  /\ Anew(AsRefused(scenario, run, reading)) = AsRefused(scenario, run, reading)
                 /\ AsRefused(scenario, run, reading).success = FALSE
                 /\ AsRefused(scenario, run, reading).note = "refused"
        <3>1. PICK no, o : no = FALSE /\ o = "refused"
            OBVIOUS
        <3>2. AsRefused(scenario, run, reading) = Graded(run.abstained, t, F(reading), no, m, no, o)
            BY <3>1, Zenon DEF AsRefused
        <3> HIDE DEF t, m, F
        <3>3. Anew(Graded(run.abstained, t, F(reading), no, m, no, o))
                = Graded(run.abstained, t, F(reading), no, m, no, o)
            BY <2>2, <3>1, Regrading
        <3>4. /\ Graded(run.abstained, t, F(reading), no, m, no, o).success = no
              /\ Graded(run.abstained, t, F(reading), no, m, no, o).note = o
            BY Fields
        <3> QED
            BY <3>1, <3>2, <3>3, <3>4, Zenon
    <2> QED
        BY <1>5, <2>1, <2>2, <2>3, Zenon DEF RegradeIsFreshGrade, BeforeItsConclusion
<1>6. CASE ~ run.refused
    <2>1. fresh = AsRead(scenario, run, second) /\ saved = AsRead(scenario, run, first)
        BY <1>6, GradingAConclusion, Zenon
    <2>2. ASSUME NEW reading
          PROVE  AsRead(scenario, run, reading)
                   = Graded(run.abstained, t, F(reading), c, m, S(reading), N(reading))
        BY Zenon DEF AsRead
    <2>3. Anew(saved) = IF N(first) # NoNote /\ N(first) \notin VERDICT_NOTES THEN saved ELSE clean
        <3> DEFINE f == F(first)
                   s == S(first)
                   o == N(first)
        <3>1. saved = Graded(run.abstained, t, f, c, m, s, o)
            BY <2>1, <2>2, Zenon
        <3> HIDE DEF t, c, m, f, s, o, saved
        <3>2. Anew(Graded(run.abstained, t, f, c, m, s, o))
                = IF o # NoNote /\ o \notin VERDICT_NOTES
                  THEN Graded(run.abstained, t, f, c, m, s, o) ELSE clean
            BY Regrading
        <3> QED
            BY <3>1, <3>2, Zenon DEF o
    <2>4. Anew(clean) = clean
        <3> DEFINE f == F(second)
                   s == S(second)
                   o == anew
        <3> HIDE DEF t, c, m, f, s, o
        <3>1. Anew(Graded(run.abstained, t, f, c, m, s, o))
                = IF o # NoNote /\ o \notin VERDICT_NOTES
                  THEN Graded(run.abstained, t, f, c, m, s, o) ELSE clean
            BY Regrading
        <3>2. clean = Graded(run.abstained, t, f, c, m, s, o)
            BY Zenon DEF f, s, o
        <3> QED
            BY <1>4, <3>1, <3>2, Zenon DEF o
    <2>5. ASSUME NEW reading
          PROVE  /\ AsRead(scenario, run, reading).success = S(reading)
                 /\ AsRead(scenario, run, reading).note = N(reading)
        <3> DEFINE f == F(reading)
                   s == S(reading)
                   o == N(reading)
        <3>1. AsRead(scenario, run, reading) = Graded(run.abstained, t, f, c, m, s, o)
            BY <2>2, Zenon
        <3> HIDE DEF t, c, m, f, s, o
        <3>2. /\ Graded(run.abstained, t, f, c, m, s, o).success = s
              /\ Graded(run.abstained, t, f, c, m, s, o).note = o
            BY Fields
        <3> QED
            BY <3>1, <3>2, Zenon DEF s, o
    <2>6. clean.success = S(second) /\ clean.note = anew
        <3> DEFINE f == F(second)
                   s == S(second)
                   o == anew
        <3> HIDE DEF t, c, m, f, s, o
        <3>1. /\ Graded(run.abstained, t, f, c, m, s, o).success = s
              /\ Graded(run.abstained, t, f, c, m, s, o).note = o
            BY Fields
        <3> QED
            BY <3>1, Zenon DEF f, s, o
    <2>7. /\ run.failed => ~ c /\ n = "action failed"
          /\ ~ run.failed => n = NoNote
          /\ "action failed" # NoNote /\ "action failed" \notin VERDICT_NOTES
          /\ VICTIM_NOTES \subseteq VERDICT_NOTES
        BY DEF Concluded, FirstNote, NoNote, VERDICT_NOTES, VICTIM_NOTES
    <2>8. ~ c => S(first) = FALSE /\ S(second) = FALSE
        BY Zenon DEF Succeeds
    <2>9. ~ fresh.success => fresh.note # NoNote
        BY <1>2, <1>3, <2>1, <2>5, Zenon
    <2> HIDE DEF t, c, m, n, F, S, N, anew, fresh, saved, clean, Anew
    <2>10. CASE N(first) # NoNote /\ N(first) \notin VERDICT_NOTES
        <3>1. N(first) = n
            BY <1>2, <1>3, <2>10, Zenon
        <3>2. run.failed
            BY <2>7, <2>10, <3>1, Zenon
        <3>3. S(first) = FALSE /\ S(second) = FALSE
            BY <2>7, <2>8, <3>2, Zenon
        <3>4. Anew(saved) = saved
            BY <2>3, <2>10, Zenon
        <3>5. saved.note = N(first) /\ saved.note \notin VICTIM_NOTES
            BY <2>1, <2>5, <2>7, <2>10, Zenon
        <3>6. saved.success = fresh.success
            BY <2>1, <2>5, <3>3, Zenon
        <3>7. BeforeItsConclusion(run)
            BY <3>2 DEF BeforeItsConclusion
        <3> QED
            BY <2>9, <2>10, <3>4, <3>5, <3>6, <3>7, Zenon DEF RegradeIsFreshGrade, fresh, saved, Anew
    <2>11. CASE ~ (N(first) # NoNote /\ N(first) \notin VERDICT_NOTES)
        <3>1. Anew(saved) = clean
            BY <2>3, <2>11, Zenon
        <3>2. ~ BeforeItsConclusion(run) => clean = fresh
            <4> SUFFICES ASSUME ~ BeforeItsConclusion(run)
                         PROVE  clean = fresh
                OBVIOUS
            <4>1. n = NoNote
                BY <2>7 DEF BeforeItsConclusion
            <4>2. N(second) = anew
                BY <4>1, Zenon DEF N, anew
            <4> QED
                BY <2>1, <2>2, <4>2, Zenon DEF clean
        <3>3. BeforeItsConclusion(run) => saved.note \in VICTIM_NOTES
            <4> SUFFICES ASSUME BeforeItsConclusion(run)
                         PROVE  saved.note \in VICTIM_NOTES
                OBVIOUS
            <4>1. run.failed
                BY <1>6 DEF BeforeItsConclusion
            <4>2. n # NoNote /\ N(first) # n
                BY <2>7, <2>11, <4>1, Zenon
            <4>3. N(first) \in VICTIM_NOTES
                BY <1>2, <1>3, <4>2, Zenon
            <4> QED
                BY <2>1, <2>5, <4>3, Zenon
        <3>4. BeforeItsConclusion(run) => clean.note \in VERDICT_NOTES
            <4> SUFFICES ASSUME BeforeItsConclusion(run)
                         PROVE  clean.note \in VERDICT_NOTES
                OBVIOUS
            <4>1. run.failed
                BY <1>6 DEF BeforeItsConclusion
            <4>2. S(second) = FALSE
                BY <2>7, <2>8, <4>1, Zenon
            <4> QED
                BY <1>4, <2>6, <4>2, Zenon
        <3>5. clean.success = fresh.success /\ (~ clean.success => clean.note # NoNote)
            BY <1>4, <2>1, <2>5, <2>6, Zenon
        <3> QED
            BY <2>4, <2>9, <3>1, <3>2, <3>3, <3>4, <3>5, Zenon
            DEF RegradeIsFreshGrade, fresh, saved, Anew
    <2> QED
        BY <2>10, <2>11
<1> QED
    BY <1>3, <1>5, <1>6

(* A result that abstains, or of a scenario without a cause, does not depend on how it is
   read. *)
LEMMA RegradingAnAbstention ==
    ASSUME NEW scenario, NEW run, NEW first, NEW second,
           Booleans(scenario, run, first, second), scenario.should_abstain \/ run.abstained
    PROVE  RegradeIsFreshGrade(scenario, run, first, second)
<1> DEFINE fresh == RunScenario(scenario, run, second)
           saved == RunScenario(scenario, run, first)
<1>1. Grade(scenario, run, first) = Grade(scenario, run, second)
    BY DEF Grade
<1>2. saved = fresh
    BY <1>1, Zenon DEF RunScenario
<1>3. fresh.abstained = run.abstained
    BY DEF RunScenario, Grade
<1>4. ~ fresh.success => fresh.note # NoNote
    BY DEF RunScenario, Grade, NoNote, Booleans
<1> HIDE DEF fresh, saved
<1>5. Regrade(scenario, second, fresh) = fresh
    BY <1>3, Zenon DEF Regrade
<1>6. fresh.note \notin VICTIM_NOTES
    BY DEF RunScenario, Grade, NoNote, VICTIM_NOTES, fresh
<1> QED
    BY <1>2, <1>4, <1>5, <1>6, Zenon DEF RegradeIsFreshGrade, fresh, saved

(* Whatever scenario, run and readings: a saved result graded again is, in all of it,
   what the new grader would have said of the run; if the run failed before its
   conclusion was graded it is as it was, or, where the note of a victim had been written
   over, a failure still; grading once more changes nothing, and no failure is left
   without its reason. *)
THEOREM GradingAgain == Spec => []RegradeIsGrading
<1>1. Init => RegradeIsGrading
    <2> SUFFICES ASSUME Init, case.kind = "regrade"
                 PROVE  RegradeIsFreshGrade(case.of.scenario, case.of.run, case.of.first, case.of.second)
        BY DEF RegradeIsGrading
    <2>1. case.of \in RegradeCases
        BY DEF Init, Cases
    <2>2. Booleans(case.of.scenario, case.of.run, case.of.first, case.of.second)
        BY <2>1, RegradeAssumption, Zenon DEF Booleans
    <2>3. CASE case.of.scenario.should_abstain \/ case.of.run.abstained
        BY <2>2, <2>3, RegradingAnAbstention, Zenon
    <2>4. CASE ~ case.of.scenario.should_abstain /\ ~ case.of.run.abstained
        BY <2>2, <2>4, RegradingAConclusion, Zenon
    <2> QED
        BY <2>3, <2>4
<1>2. RegradeIsGrading /\ [Next]_case => RegradeIsGrading'
    BY DEF Next, RegradeIsGrading
<1> QED
    BY <1>1, <1>2, PTL DEF Spec

------------------------------------------------------------------------------
(* Comparing runs. *)

(* A run of scenarios, each run once, and two that saw them alike. *)
Comparable(run) ==
    /\ run.results \in Seq({run.results[i] : i \in DOMAIN run.results})
    /\ \A i, j \in DOMAIN run.results : run.results[i].id = run.results[j].id => i = j
    /\ \A i \in DOMAIN run.results : Result(run.results[i]) /\ run.results[i].success \in BOOLEAN
SameKinds(a, b) ==
    \A i \in DOMAIN a.results, j \in DOMAIN b.results :
        a.results[i].id = b.results[j].id => a.results[i].kind = b.results[j].kind
Succeeded(run) == {run.results[i].id : i \in {j \in DOMAIN run.results : run.results[j].success}}

(* There are finitely many scenarios in a run. *)
LEMMA FinitelyMany ==
    ASSUME NEW run, Comparable(run)
    PROVE  IsFiniteSet(DOMAIN run.results) /\ IsFiniteSet(Succeeded(run))
<1> DEFINE D == DOMAIN run.results
           S == Succeeded(run)
           J == {i \in D : run.results[i].success}
           f == [i \in J |-> run.results[i].id]
<1>1. Len(run.results) \in Nat /\ D = 1..Len(run.results)
    BY DEF Comparable
<1>2. IsFiniteSet(D)
    BY <1>1, FS_Interval
<1>3. IsFiniteSet(J)
    BY <1>2, FS_Subset
<1>4. f \in Surjection(J, S)
    BY DEF Surjection, Succeeded
<1> QED
    BY <1>2, <1>3, <1>4, FS_Surjection

(* The changes of one kind are as many as the scenarios they are of. *)
LEMMA OneChangeEach ==
    ASSUME NEW a, NEW b, Comparable(a), Comparable(b), NEW C, NEW S,
           C \in SUBSET ((DOMAIN a.results) \X (DOMAIN b.results)),
           \A c \in C : a.results[c[1]].id = b.results[c[2]].id,
           S = {a.results[c[1]].id : c \in C}
    PROVE  IsFiniteSet(C) /\ IsFiniteSet(S) /\ Cardinality(C) = Cardinality(S)
<1> DEFINE f == [c \in C |-> a.results[c[1]].id]
<1>1. IsFiniteSet((DOMAIN a.results) \X (DOMAIN b.results))
    BY FinitelyMany, FS_Product
<1>2. IsFiniteSet(C)
    BY <1>1, FS_Subset
<1>3. f \in Surjection(C, S)
    BY DEF Surjection
<1>4. ASSUME NEW c \in C, NEW d \in C, f[c] = f[d]
      PROVE  c = d
    <2>1. c[1] \in DOMAIN a.results /\ d[1] \in DOMAIN a.results /\ c[1] = d[1]
        BY <1>4 DEF Comparable
    <2>2. c[2] \in DOMAIN b.results /\ d[2] \in DOMAIN b.results
        BY <1>4
    <2>3. b.results[c[2]].id = b.results[d[2]].id
        BY <2>1, Zenon
    <2>4. c[2] = d[2]
        BY <2>2, <2>3 DEF Comparable
    <2>5. c = <<c[1], c[2]>> /\ d = <<d[1], d[2]>>
        BY <1>4
    <2> QED
        BY <2>1, <2>4, <2>5
<1>5. f \in Injection(C, S)
    BY <1>4, <1>3, Zenon DEF Injection, IsInjective, Surjection
<1> QED
    BY <1>2, <1>3, <1>5, FS_Surjection

(* Runs that saw the same scenarios differ by those that changed. *)
LEMMA ComparingRuns ==
    ASSUME NEW a, NEW b, Comparable(a), Comparable(b), SameKinds(a, b)
    PROVE  ComparisonAddsUp(a, b)
<1> DEFINE changed == Changed(a, b)
           A == Succeeded(a)
           B == Succeeded(b)
           fixed == {c \in changed : b.results[c[2]].success /\ ~ a.results[c[1]].success}
           broken == {c \in changed : a.results[c[1]].success /\ ~ b.results[c[2]].success}
<1> SUFFICES ASSUME Warnings(a, b) = {}
             PROVE  /\ Cardinality(B) - Cardinality(A) = Cardinality(fixed) - Cardinality(broken)
                    /\ \A i \in DOMAIN a.results :
                           (\A c \in changed : c[1] # i) => a.results[i] \in Range(b.results)
    BY Zenon DEF ComparisonAddsUp, Succeeded
<1>1. ScenariosOf(a) = ScenariosOf(b)
    BY DEF Warnings
<1>2. \A i \in DOMAIN a.results : \E j \in DOMAIN b.results : a.results[i].id = b.results[j].id
    BY <1>1 DEF ScenariosOf
<1>3. \A j \in DOMAIN b.results : \E i \in DOMAIN a.results : a.results[i].id = b.results[j].id
    BY <1>1 DEF ScenariosOf
<1>4. /\ changed \in SUBSET ((DOMAIN a.results) \X (DOMAIN b.results))
      /\ \A i \in DOMAIN a.results, j \in DOMAIN b.results :
             <<i, j>> \in changed <=>
                 /\ a.results[i].id = b.results[j].id
                 /\ a.results[i].success # b.results[j].success \/ a.results[i].note # b.results[j].note
      /\ \A c \in changed : a.results[c[1]].id = b.results[c[2]].id
    BY DEF Changed
<1> HIDE DEF changed
<1>5. B \ A = {a.results[c[1]].id : c \in fixed}
    <2>1. ASSUME NEW x \in B \ A
          PROVE  x \in {a.results[c[1]].id : c \in fixed}
        <3>1. PICK j \in DOMAIN b.results : b.results[j].success /\ x = b.results[j].id
            BY <2>1 DEF Succeeded
        <3>2. PICK i \in DOMAIN a.results : a.results[i].id = b.results[j].id
            BY <1>3
        <3>3. ~ a.results[i].success
            BY <2>1, <3>1, <3>2 DEF Succeeded
        <3>4. <<i, j>> \in fixed
            BY <1>4, <3>1, <3>2, <3>3
        <3>5. x = a.results[<<i, j>>[1]].id
            BY <3>1, <3>2
        <3> QED
            BY <3>4, <3>5
    <2>2. ASSUME NEW c \in fixed
          PROVE  a.results[c[1]].id \in B \ A
        <3>1. c[1] \in DOMAIN a.results /\ c[2] \in DOMAIN b.results
            BY <1>4
        <3>2. a.results[c[1]].id = b.results[c[2]].id
            BY <1>4
        <3>3. b.results[c[2]].success /\ ~ a.results[c[1]].success
            OBVIOUS
        <3>4. a.results[c[1]].id \in B
            BY <3>1, <3>2, <3>3 DEF Succeeded
        <3>5. ASSUME NEW k \in DOMAIN a.results, a.results[k].success,
                     a.results[c[1]].id = a.results[k].id
              PROVE  FALSE
            <4>1. k = c[1]
                BY <3>1, <3>2, <3>5 DEF Comparable
            <4> QED
                BY <3>3, <3>5, <4>1
        <3> QED
            BY <3>4, <3>5 DEF Succeeded
    <2> HIDE DEF fixed, A, B
    <2> QED
        BY <2>1, <2>2
<1>6. A \ B = {a.results[c[1]].id : c \in broken}
    <2>1. ASSUME NEW x \in A \ B
          PROVE  x \in {a.results[c[1]].id : c \in broken}
        <3>1. PICK i \in DOMAIN a.results : a.results[i].success /\ x = a.results[i].id
            BY <2>1 DEF Succeeded
        <3>2. PICK j \in DOMAIN b.results : a.results[i].id = b.results[j].id
            BY <1>2
        <3>3. ~ b.results[j].success
            BY <2>1, <3>1, <3>2 DEF Succeeded
        <3>4. <<i, j>> \in broken
            BY <1>4, <3>1, <3>2, <3>3
        <3>5. x = a.results[<<i, j>>[1]].id
            BY <3>1, <3>2
        <3> QED
            BY <3>4, <3>5
    <2>2. ASSUME NEW c \in broken
          PROVE  a.results[c[1]].id \in A \ B
        <3>1. c[1] \in DOMAIN a.results /\ c[2] \in DOMAIN b.results
            BY <1>4
        <3>2. a.results[c[1]].id = b.results[c[2]].id
            BY <1>4
        <3>3. a.results[c[1]].success /\ ~ b.results[c[2]].success
            OBVIOUS
        <3>4. a.results[c[1]].id \in A
            BY <3>1, <3>2, <3>3 DEF Succeeded
        <3>5. ASSUME NEW k \in DOMAIN b.results, b.results[k].success,
                     a.results[c[1]].id = b.results[k].id
              PROVE  FALSE
            <4>1. k = c[2]
                BY <3>1, <3>2, <3>5 DEF Comparable
            <4> QED
                BY <3>3, <3>5, <4>1
        <3> QED
            BY <3>4, <3>5 DEF Succeeded
    <2> HIDE DEF broken, A, B
    <2> QED
        BY <2>1, <2>2
<1>7. Cardinality(fixed) = Cardinality(B \ A) /\ Cardinality(broken) = Cardinality(A \ B)
    <2>1. /\ fixed \in SUBSET ((DOMAIN a.results) \X (DOMAIN b.results))
          /\ \A c \in fixed : a.results[c[1]].id = b.results[c[2]].id
        BY <1>4
    <2>2. /\ broken \in SUBSET ((DOMAIN a.results) \X (DOMAIN b.results))
          /\ \A c \in broken : a.results[c[1]].id = b.results[c[2]].id
        BY <1>4
    <2> HIDE DEF fixed, broken, A, B
    <2>3. Cardinality(fixed) = Cardinality(B \ A)
        BY <1>5, <2>1, OneChangeEach
    <2>4. Cardinality(broken) = Cardinality(A \ B)
        BY <1>6, <2>2, OneChangeEach
    <2> QED
        BY <2>3, <2>4
<1>8. Cardinality(B) - Cardinality(A) = Cardinality(B \ A) - Cardinality(A \ B)
    <2>1. IsFiniteSet(A) /\ IsFiniteSet(B)
        BY FinitelyMany
    <2> HIDE DEF A, B
    <2>2. /\ Cardinality(B \ A) = Cardinality(B) - Cardinality(B \cap A)
          /\ Cardinality(A \ B) = Cardinality(A) - Cardinality(A \cap B)
        BY <2>1, FS_Difference
    <2>3. A \cap B = B \cap A
        OBVIOUS
    <2>4. /\ Cardinality(A) \in Nat /\ Cardinality(B) \in Nat
          /\ IsFiniteSet(B \cap A) /\ Cardinality(B \cap A) \in Nat
        BY <2>1, FS_CardinalityType, FS_Intersection
    <2> QED
        BY <2>2, <2>3, <2>4
<1>9. ASSUME NEW i \in DOMAIN a.results, \A c \in changed : c[1] # i
      PROVE  a.results[i] \in Range(b.results)
    <2>1. PICK j \in DOMAIN b.results : a.results[i].id = b.results[j].id
        BY <1>2
    <2>2. <<i, j>> \notin changed
        BY <1>9
    <2>3. a.results[i].success = b.results[j].success /\ a.results[i].note = b.results[j].note
        BY <1>4, <2>1, <2>2
    <2>4. a.results[i].kind = b.results[j].kind
        BY <2>1 DEF SameKinds
    <2>5. Result(a.results[i]) /\ Result(b.results[j])
        BY DEF Comparable
    <2>6. a.results[i] = b.results[j]
        BY <2>1, <2>3, <2>4, <2>5, Zenon DEF Result
    <2> QED
        BY <2>6 DEF Range
<1> QED
    BY <1>7, <1>8, <1>9

(* Any two runs of the same scenarios: the difference of their completions is that of
   the scenarios reported as changed, and what is not reported came out the same. *)
THEOREM Comparing == Spec => []DifferencesAddUp
<1>1. Init => DifferencesAddUp
    <2> SUFFICES ASSUME Init, case.kind = "compare"
                 PROVE  ComparisonAddsUp(case.of.a, case.of.b)
        BY DEF DifferencesAddUp
    <2>1. case.of \in CompareCases
        BY DEF Init, Cases
    <2>2. Comparable(case.of.a) /\ Comparable(case.of.b) /\ SameKinds(case.of.a, case.of.b)
        BY <2>1, CompareAssumption, Zenon DEF Comparable, SameKinds
    <2> QED
        BY <2>2, ComparingRuns, Zenon
<1>2. DifferencesAddUp /\ [Next]_case => DifferencesAddUp'
    BY DEF Next, DifferencesAddUp
<1> QED
    BY <1>1, <1>2, PTL DEF Spec

------------------------------------------------------------------------------
(* Searches. *)

(* Multiplying by a positive number keeps an order, and only so. *)
LEMMA TimesPositive ==
    ASSUME NEW x \in Int, NEW y \in Int, NEW d \in Int, d > 0
    PROVE  x >= y <=> x * d >= y * d
<1>1. (x - y) * d = x * d - y * d
    OBVIOUS
<1>2. x >= y => (x - y) * d >= 0
    OBVIOUS
<1>3. x < y => (x - y) * d < 0
    OBVIOUS
<1>4. x * d \in Int /\ y * d \in Int
    OBVIOUS
<1> QED
    BY <1>1, <1>2, <1>3, <1>4

(* Of three fractions the first is at least the last, if each is at least the next. *)
LEMMA FractionsCompare ==
    ASSUME NEW a \in Int, NEW c \in Int, NEW e \in Int,
           NEW b \in Int, NEW d \in Int, NEW f \in Int, b > 0, d > 0, f > 0,
           a * d >= c * b, c * f >= e * d
    PROVE  a * f >= e * b
<1>1. (a * d) * f >= (c * b) * f
    BY TimesPositive
<1>2. (c * f) * b >= (e * d) * b
    BY TimesPositive
<1>3. /\ (c * b) * f = (c * f) * b
      /\ (a * d) * f = (a * f) * d
      /\ (e * d) * b = (e * b) * d
    OBVIOUS
<1>4. (a * f) * d >= (e * b) * d
    BY <1>1, <1>2, <1>3
<1> QED
    BY <1>4, TimesPositive

(* Sums of fractions compare as what is added. *)
LEMMA SumsCompare ==
    ASSUME NEW a \in Nat, NEW b \in Nat, NEW c \in Nat, NEW d \in Nat, b > 0, d > 0,
           NEW e \in Nat, NEW f \in Nat, NEW g \in Nat, NEW h \in Nat, f > 0, h > 0,
           a * f >= e * b, c * h >= g * d
    PROVE  /\ (a * d + c * b) * (f * h) >= (e * h + g * f) * (b * d)
           /\ a * f > e * b \/ c * h > g * d =>
                  (a * d + c * b) * (f * h) > (e * h + g * f) * (b * d)
<1>1. /\ (a * d + c * b) * (f * h) = (a * f) * (d * h) + (c * h) * (b * f)
      /\ (e * h + g * f) * (b * d) = (e * b) * (d * h) + (g * d) * (b * f)
    OBVIOUS
<1>2. /\ d * h \in Int /\ d * h > 0 /\ b * f \in Int /\ b * f > 0
      /\ a * f \in Int /\ e * b \in Int /\ c * h \in Int /\ g * d \in Int
    OBVIOUS
<1>3. /\ (a * f) * (d * h) >= (e * b) * (d * h)
      /\ (c * h) * (b * f) >= (g * d) * (b * f)
    BY <1>2, TimesPositive
<1>4. /\ a * f > e * b => (a * f) * (d * h) > (e * b) * (d * h)
      /\ c * h > g * d => (c * h) * (b * f) > (g * d) * (b * f)
    BY <1>2, TimesPositive
<1>5. /\ (a * f) * (d * h) \in Int /\ (e * b) * (d * h) \in Int
      /\ (c * h) * (b * f) \in Int /\ (g * d) * (b * f) \in Int
    BY <1>2
<1> QED
    BY <1>1, <1>3, <1>4, <1>5

(* Scores are fractions. *)
Fraction(x) == x[1] \in Int /\ x[2] \in Int /\ x[2] > 0
(* What is no more than what is no more than x is no more than x. *)
LEMMA AtLeastIsTransitive ==
    ASSUME NEW x, NEW y, NEW z, Fraction(x), Fraction(y), Fraction(z), ~ More(y, x), ~ More(z, y)
    PROVE  ~ More(z, x)
<1> DEFINE a == x[1]
           b == x[2]
           c == y[1]
           d == y[2]
           e == z[1]
           f == z[2]
<1>1. /\ a \in Int /\ b \in Int /\ c \in Int /\ d \in Int /\ e \in Int /\ f \in Int
      /\ b > 0 /\ d > 0 /\ f > 0
    BY DEF Fraction
<1>2. ~ (c * b > a * d) /\ ~ (e * d > c * f)
    BY DEF More
<1>3. More(z, x) <=> e * b > a * f
    BY DEF More
<1> HIDE DEF a, b, c, d, e, f
<1>4. a * d >= c * b /\ c * f >= e * d
    <2>1. a * d \in Int /\ c * b \in Int /\ c * f \in Int /\ e * d \in Int
        BY <1>1
    <2> QED
        BY <1>2, <2>1
<1>5. a * f >= e * b
    BY <1>1, <1>4, FractionsCompare
<1>6. a * f \in Int /\ e * b \in Int
    BY <1>1
<1> QED
    BY <1>3, <1>5, <1>6

(* Of two scores one is not more; none is more than itself. *)
LEMMA MoreIsOneWay ==
    ASSUME NEW x, NEW y, Fraction(x), Fraction(y), More(x, y)
    PROVE  ~ More(y, x)
<1>1. x[1] * y[2] \in Int /\ y[1] * x[2] \in Int
    BY DEF Fraction
<1> QED
    BY <1>1 DEF More

(* The order of a result: the higher score first, of equal ones the earlier. *)
LEMMA ByScoreOrders ==
    ASSUME NEW score, NEW D, DOMAIN score = D, D \in SUBSET Int, \A i \in D : Fraction(score[i])
    PROVE  /\ Orders(ByScore(score), D)
           /\ \A i, j \in D : More(score[i], score[j]) => <<i, j>> \in ByScore(score)
<1> DEFINE Better(i, j) == More(score[i], score[j])
<1>1. \A i, j \in D : <<i, j>> \in ByScore(score) <=> Better(i, j) \/ (i < j /\ ~ Better(j, i))
    BY DEF ByScore
<1>2. ByScore(score) \in SUBSET (D \X D)
    BY DEF ByScore
<1>3. \A i, j \in D : Better(i, j) => ~ Better(j, i)
    BY MoreIsOneWay
<1>4. \A i, j, k \in D : ~ Better(j, i) /\ ~ Better(k, j) => ~ Better(k, i)
    BY AtLeastIsTransitive
<1> HIDE DEF Better
<1>5. \A i, j, k \in D : i < j /\ j < k => i < k
    OBVIOUS
<1>6. \A i, j \in D : i = j \/ i < j \/ j < i
    OBVIOUS
<1>7. \A i \in D : ~ (i < i)
    OBVIOUS
<1>8. \A i \in D : <<i, i>> \notin ByScore(score)
    BY <1>1, <1>3, <1>7
<1>9. \A i, j \in D : i # j => <<i, j>> \in ByScore(score) \/ <<j, i>> \in ByScore(score)
    BY <1>1, <1>6
<1>10. ASSUME NEW i \in D, NEW j \in D, NEW k \in D,
              <<i, j>> \in ByScore(score), <<j, k>> \in ByScore(score)
       PROVE  <<i, k>> \in ByScore(score)
    <2>1. ~ Better(j, i) /\ ~ Better(k, j) /\ ~ Better(k, i)
        BY <1>1, <1>3, <1>4, <1>10
    <2>2. CASE i < j /\ j < k
        BY <1>1, <1>5, <2>1, <2>2
    <2>3. CASE Better(i, j)
        <3>1. ~ Better(i, k) => ~ Better(i, j)
            BY <1>4, <2>1
        <3> QED
            BY <1>1, <2>3, <3>1
    <2>4. CASE Better(j, k)
        <3>1. ~ Better(i, k) => ~ Better(j, k)
            BY <1>4, <2>1
        <3> QED
            BY <1>1, <2>4, <3>1
    <2> QED
        BY <1>1, <1>10, <2>2, <2>3, <2>4
<1> QED
    BY <1>1, <1>2, <1>8, <1>9, <1>10 DEF Orders, Better

(* Where a chunk is in a list that names none twice. *)
LEMMA RankOfOne ==
    ASSUME NEW hits, Ranking(hits), NEW x \in Range(hits)
    PROVE  /\ RankIn(hits, x) \in DOMAIN hits /\ hits[RankIn(hits, x)] = x
           /\ \A i \in DOMAIN hits : hits[i] = x => i = RankIn(hits, x)
<1>1. \E r \in DOMAIN hits : hits[r] = x
    BY DEF Range
<1>2. RankIn(hits, x) \in DOMAIN hits /\ hits[RankIn(hits, x)] = x
    BY <1>1 DEF RankIn
<1> QED
    BY <1>2 DEF Ranking

(* The places of a list are 1 to its length. *)
LEMMA RankingIsAList ==
    ASSUME NEW hits, Ranking(hits)
    PROVE  /\ Len(hits) \in Nat /\ DOMAIN hits = 1..Len(hits)
           /\ IsFiniteSet(DOMAIN hits) /\ Cardinality(DOMAIN hits) = Len(hits)
<1>1. Len(hits) \in Nat /\ DOMAIN hits = 1..Len(hits)
    BY DEF Ranking
<1>2. IsFiniteSet(1..Len(hits)) /\ Cardinality(1..Len(hits)) = IF 1 > Len(hits) THEN 0 ELSE Len(hits) - 1 + 1
    BY <1>1, FS_Interval
<1> QED
    BY <1>1, <1>2

(* A list that names nothing twice is a ranking. *)
LEMMA ListedOnce ==
    ASSUME NEW S, NEW list \in Seq(S), \A i, j \in DOMAIN list : list[i] = list[j] => i = j
    PROVE  Ranking(list)
<1> DEFINE T == {list[i] : i \in DOMAIN list}
<1>1. \A i \in DOMAIN list : list[i] \in T
    OBVIOUS
<1>2. Len(list) \in Nat /\ DOMAIN list = 1..Len(list) /\ list \in [1..Len(list) -> S]
    BY LenProperties
<1> HIDE DEF T
<1>3. list \in [1..Len(list) -> T]
    BY <1>1, <1>2
<1>4. list \in Seq(T)
    BY <1>2, <1>3
<1> QED
    BY <1>4 DEF T, Ranking

(* One list after another has the places of both. *)
LEMMA OneAfterAnother ==
    ASSUME NEW S, NEW s \in Seq(S), NEW t \in Seq(S)
    PROVE  /\ s \o t \in Seq(S)
           /\ DOMAIN (s \o t) = 1..Len(s) + Len(t)
           /\ \A i \in 1..Len(s) : (s \o t)[i] = s[i]
           /\ \A i \in 1..Len(t) : (s \o t)[Len(s) + i] = t[i]
<1> DEFINE u == s \o t
           n == Len(s)
           m == Len(t)
<1>1. n \in Nat /\ m \in Nat
    BY LenProperties
<1>2. /\ u \in Seq(S) /\ Len(u) = n + m
      /\ \A i \in 1..n + m : u[i] = IF i <= n THEN s[i] ELSE t[i - n]
    BY ConcatProperties
<1>3. DOMAIN u = 1..Len(u)
    BY <1>2, LenProperties
<1> HIDE DEF u, n, m
<1>4. \A i \in 1..n : i \in 1..n + m /\ i <= n
    BY <1>1
<1>5. \A i \in 1..m : n + i \in 1..n + m /\ ~ (n + i <= n) /\ (n + i) - n = i
    BY <1>1
<1>6. \A i \in 1..n : u[i] = s[i]
    BY <1>2, <1>4
<1>7. \A i \in 1..m : u[n + i] = t[i]
    BY <1>2, <1>5
<1> QED
    BY <1>2, <1>3, <1>6, <1>7 DEF u, n, m

(* What both rankers found, each chunk once. *)
LEMMA Merging ==
    ASSUME NEW vector, NEW keyword, Ranking(vector), Ranking(keyword)
    PROVE  /\ Ranking(Merged(vector, keyword))
           /\ Range(Merged(vector, keyword)) = Range(vector) \cup Range(keyword)
<1> DEFINE new == {i \in DOMAIN keyword : keyword[i] \notin Range(vector)}
           rest == Picked(keyword, new)
           S == Range(vector) \cup Range(keyword)
           ids == Merged(vector, keyword)
           n == Len(vector)
           m == Cardinality(new)
<1>1. /\ n \in Nat /\ DOMAIN vector = 1..n /\ vector \in Seq(S)
      /\ Len(keyword) \in Nat /\ DOMAIN keyword = 1..Len(keyword)
    <2>1. vector \in [1..n -> S] /\ n \in Nat
        BY RankingIsAList DEF Range, Ranking
    <2> QED
        BY <2>1, RankingIsAList
<1>2. new \in SUBSET (1..Len(keyword))
    BY <1>1
<1> HIDE DEF new
<1> DEFINE L == Len(keyword)
<1>3. /\ IsFiniteSet(new) /\ m \in Nat /\ Orders(InOrder(new), new)
      /\ rest \in Seq(Members(keyword, new)) /\ Len(rest) = m /\ DOMAIN rest = 1..m
      /\ \A i \in new : \E p \in DOMAIN rest : rest[p] = keyword[i]
      /\ \A p \in DOMAIN rest : \E i \in new : rest[p] = keyword[i]
    <2>1. L \in Nat /\ new \in SUBSET (1..L)
        BY <1>1, <1>2
    <2> HIDE DEF L
    <2>2. rest = Picked(keyword, new) /\ m = Cardinality(new)
        OBVIOUS
    <2> HIDE DEF rest, m
    <2>3. /\ IsFiniteSet(new) /\ Cardinality(new) \in Nat /\ Orders(InOrder(new), new)
          /\ DOMAIN Picked(keyword, new) = 1..Cardinality(new)
          /\ Len(Picked(keyword, new)) = Cardinality(new)
        BY <2>1, Picking
    <2>4. Picked(keyword, new) \in Seq(Members(keyword, new))
        BY <2>1, Picking
    <2>5. \A i \in new : \E p \in 1..Cardinality(new) : Picked(keyword, new)[p] = keyword[i]
        BY <2>3, PickedFrom
    <2>6. \A p \in 1..Cardinality(new) : \E i \in new : Picked(keyword, new)[p] = keyword[i]
        BY <2>3, PickedAt
    <2> QED
        BY <2>2, <2>3, <2>4, <2>5, <2>6
<1>4. \A p \in 1..m : rest[p] \in Range(keyword) /\ rest[p] \notin Range(vector)
    <2> SUFFICES ASSUME NEW p \in 1..m
                 PROVE  rest[p] \in Range(keyword) /\ rest[p] \notin Range(vector)
        OBVIOUS
    <2>1. PICK i \in new : rest[p] = keyword[i]
        BY <1>3
    <2>2. i \in DOMAIN keyword /\ keyword[i] \notin Range(vector)
        BY DEF new
    <2> QED
        BY <2>1, <2>2 DEF Range
<1>5. rest \in Seq(S)
    BY <1>3, <1>4
<1>6. \A p, q \in 1..m : rest[p] = rest[q] => p = q
    <2>1. \A i, j \in new : keyword[i] = keyword[j] => i = j
        BY DEF Ranking, new
    <2> QED
        BY <1>3, <2>1, PickingOnce
<1>7. ids = vector \o rest
    BY DEF Merged, new
<1> HIDE DEF rest, S, n, m
<1>8. /\ ids \in Seq(S) /\ DOMAIN ids = 1..n + m
      /\ \A i \in 1..n : ids[i] = vector[i]
      /\ \A i \in 1..m : ids[n + i] = rest[i]
    <2>1. Len(rest) = m /\ Len(vector) = n
        BY <1>3 DEF n
    <2>2. vector \in Seq(S)
        BY <1>1
    <2> QED
        BY <1>5, <1>7, <2>1, <2>2, OneAfterAnother
<1>11. \A i \in DOMAIN ids : i \in 1..n \/ \E p \in 1..m : i = n + p
    <2> SUFFICES ASSUME NEW i \in 1..n + m, ~ (i \in 1..n)
                 PROVE  \E p \in 1..m : i = n + p
        BY <1>8
    <2>1. i - n \in 1..m /\ i = n + (i - n)
        BY <1>1, <1>3
    <2> QED
        BY <2>1
<1>12. \A p \in 1..m : n + p \in 1..n + m
    BY <1>1, <1>3
<1> HIDE DEF ids
<1>9. Ranking(ids)
    <2>2. ASSUME NEW i \in 1..n, NEW p \in 1..m
          PROVE  ids[i] # ids[n + p]
        <3>1. vector[i] \in Range(vector)
            BY <1>1 DEF Range
        <3> QED
            BY <1>4, <1>8, <3>1
    <2>3. ASSUME NEW i \in 1..n, NEW j \in 1..n, ids[i] = ids[j]
          PROVE  i = j
        <3>1. i \in DOMAIN vector /\ j \in DOMAIN vector /\ vector[i] = vector[j]
            BY <1>1, <1>8, <2>3
        <3> QED
            BY <3>1 DEF Ranking
    <2>4. ASSUME NEW p \in 1..m, NEW q \in 1..m, ids[n + p] = ids[n + q]
          PROVE  p = q
        BY <1>6, <1>8, <2>4
    <2>5. ASSUME NEW i \in DOMAIN ids, NEW j \in DOMAIN ids, ids[i] = ids[j]
          PROVE  i = j
        BY <1>11, <2>2, <2>3, <2>4, <2>5
    <2> QED
        BY <1>8, <2>5, ListedOnce
<1>10. Range(ids) = S
    <2>1. ASSUME NEW x \in Range(vector)
          PROVE  x \in Range(ids)
        <3>1. PICK i \in 1..n : vector[i] = x
            BY <1>1 DEF Range
        <3>2. i \in DOMAIN ids /\ ids[i] = x
            BY <1>1, <1>3, <1>8, <3>1
        <3> QED
            BY <3>2 DEF Range
    <2>2. ASSUME NEW x \in Range(keyword), x \notin Range(vector)
          PROVE  x \in Range(ids)
        <3>1. PICK i \in DOMAIN keyword : keyword[i] = x
            BY DEF Range
        <3>2. i \in new
            BY <2>2, <3>1 DEF new
        <3>3. PICK p \in 1..m : rest[p] = x
            BY <1>3, <3>1, <3>2
        <3>4. n + p \in DOMAIN ids
            BY <1>8, <1>12
        <3>5. ids[n + p] = x
            BY <1>8, <3>3
        <3> QED
            BY <3>4, <3>5 DEF Range
    <2>3. \A i \in DOMAIN ids : ids[i] \in S
        BY <1>8, ElementOfSeq, LenProperties
    <2> QED
        BY <2>1, <2>2, <2>3 DEF Range, S
<1> QED
    BY <1>9, <1>10 DEF ids, S

(* Two rankers that agree about two chunks are not turned around by the sum of their
   votes. *)
LEMMA VotesAdd ==
    ASSUME NEW vector, NEW keyword, Ranking(vector), Ranking(keyword), NEW a, NEW b,
           NoWorse(vector, a, b), NoWorse(keyword, a, b), a # b,
           b \in Range(vector) \cup Range(keyword)
    PROVE  /\ Fraction(Fuse(vector, keyword, a))
           /\ More(Fuse(vector, keyword, a), Fuse(vector, keyword, b))
<1> DEFINE Weight(w, hits, id) == IF id \in Range(hits) THEN w ELSE 0
           Below(hits, id) == IF id \in Range(hits) THEN RRF_K + RankIn(hits, id) ELSE 1
<1>1. \A w, hits, id : Vote(w, hits, id)[1] = Weight(w, hits, id) /\ Vote(w, hits, id)[2] = Below(hits, id)
    BY DEF Vote
<1>2. ASSUME NEW hits, Ranking(hits), NEW w \in Nat, w > 0, NoWorse(hits, a, b)
      PROVE  /\ Weight(w, hits, a) \in Nat /\ Weight(w, hits, b) \in Nat
             /\ Below(hits, a) \in Nat /\ Below(hits, a) > 0
             /\ Below(hits, b) \in Nat /\ Below(hits, b) > 0
             /\ Weight(w, hits, a) * Below(hits, b) >= Weight(w, hits, b) * Below(hits, a)
             /\ b \in Range(hits) =>
                    Weight(w, hits, a) * Below(hits, b) > Weight(w, hits, b) * Below(hits, a)
    <2>1. ASSUME NEW id \in Range(hits)
          PROVE  RankIn(hits, id) \in Nat /\ RankIn(hits, id) > 0
        <3>1. RankIn(hits, id) \in 1..Len(hits)
            BY <1>2, RankOfOne, RankingIsAList
        <3> QED
            BY <1>2, <3>1, RankingIsAList
    <2>2. CASE b \in Range(hits)
        <3>1. a \in Range(hits) /\ RankIn(hits, a) < RankIn(hits, b)
            BY <1>2, <2>2 DEF NoWorse
        <3> DEFINE p == RankIn(hits, a)
                   q == RankIn(hits, b)
        <3>2. p \in Nat /\ q \in Nat /\ p > 0 /\ q > 0 /\ p < q
            BY <2>1, <2>2, <3>1
        <3>3. /\ Weight(w, hits, a) = w /\ Weight(w, hits, b) = w
              /\ Below(hits, a) = RRF_K + p /\ Below(hits, b) = RRF_K + q
            BY <2>2, <3>1
        <3> HIDE DEF p, q, Weight, Below
        <3>4. RRF_K + p \in Nat /\ RRF_K + q \in Nat /\ RRF_K + q > RRF_K + p /\ RRF_K + p > 0
            BY <3>2 DEF RRF_K
        <3>5. w * (RRF_K + q) > w * (RRF_K + p)
            <4> DEFINE x == RRF_K + p
                       y == RRF_K + q
            <4>1. x \in Int /\ y \in Int /\ y > x
                BY <3>4
            <4> HIDE DEF x, y
            <4>2. ~ (x * w >= y * w)
                BY <1>2, <4>1, TimesPositive
            <4>3. x * w \in Int /\ y * w \in Int /\ x * w = w * x /\ y * w = w * y
                BY <1>2, <4>1
            <4>4. w * y > w * x
                BY <4>2, <4>3
            <4> QED
                BY <4>4 DEF x, y
        <3>6. w * (RRF_K + q) \in Int /\ w * (RRF_K + p) \in Int
            BY <1>2, <3>4
        <3> QED
            BY <1>2, <3>3, <3>4, <3>5, <3>6
    <2>3. CASE b \notin Range(hits)
        <3>1. Weight(w, hits, b) = 0 /\ Below(hits, b) = 1
            BY <2>3
        <3>2. Weight(w, hits, a) \in Nat /\ Below(hits, a) \in Nat /\ Below(hits, a) > 0
            BY <1>2, <2>1 DEF RRF_K
        <3> HIDE DEF Weight, Below
        <3> QED
            BY <2>3, <3>1, <3>2
    <2> QED
        BY <2>2, <2>3
<1> DEFINE va == Weight(VectorWeight, vector, a)
           vb == Weight(VectorWeight, vector, b)
           ka == Weight(KeywordWeight, keyword, a)
           kb == Weight(KeywordWeight, keyword, b)
           wa == Below(vector, a)
           wb == Below(vector, b)
           la == Below(keyword, a)
           lb == Below(keyword, b)
<1>3. VectorWeight \in Nat /\ VectorWeight > 0 /\ KeywordWeight \in Nat /\ KeywordWeight > 0
    BY DEF VectorWeight, KeywordWeight
<1>4. /\ Fuse(vector, keyword, a)[1] = va * la + ka * wa /\ Fuse(vector, keyword, a)[2] = wa * la
      /\ Fuse(vector, keyword, b)[1] = vb * lb + kb * wb /\ Fuse(vector, keyword, b)[2] = wb * lb
    BY <1>1 DEF Fuse, Plus
<1> HIDE DEF Weight, Below
<1>5. /\ va \in Nat /\ vb \in Nat /\ wa \in Nat /\ wa > 0 /\ wb \in Nat /\ wb > 0
      /\ va * wb >= vb * wa
      /\ b \in Range(vector) => va * wb > vb * wa
    BY <1>2, <1>3
<1>6. /\ ka \in Nat /\ kb \in Nat /\ la \in Nat /\ la > 0 /\ lb \in Nat /\ lb > 0
      /\ ka * lb >= kb * la
      /\ b \in Range(keyword) => ka * lb > kb * la
    BY <1>2, <1>3
<1> HIDE DEF va, vb, ka, kb, wa, wb, la, lb
<1>7. (va * la + ka * wa) * (wb * lb) > (vb * lb + kb * wb) * (wa * la)
    <2>1. va * wb > vb * wa \/ ka * lb > kb * la
        BY <1>5, <1>6
    <2> QED
        BY <1>5, <1>6, <2>1, SumsCompare
<1>8. More(Fuse(vector, keyword, a), Fuse(vector, keyword, b))
    BY <1>4, <1>7 DEF More
<1>9. va * la + ka * wa \in Int /\ wa * la \in Int /\ wa * la > 0
    BY <1>5, <1>6
<1> QED
    BY <1>4, <1>8, <1>9 DEF Fraction

(* A chunk's score is a fraction, found by one ranker, by both or by none. *)
LEMMA FusingAddsUp ==
    ASSUME NEW vector, NEW keyword, Ranking(vector), Ranking(keyword), NEW x
    PROVE  Fraction(Fuse(vector, keyword, x))
<1>1. ASSUME NEW hits, Ranking(hits), NEW w \in Nat
      PROVE  Fraction(Vote(w, hits, x))
    <2>1. CASE x \in Range(hits)
        <3>1. RankIn(hits, x) \in 1..Len(hits) /\ Len(hits) \in Nat
            BY <1>1, <2>1, RankOfOne, RankingIsAList
        <3> DEFINE r == RankIn(hits, x)
        <3>2. r \in Nat
            BY <3>1
        <3>3. Vote(w, hits, x)[1] = w /\ Vote(w, hits, x)[2] = RRF_K + r
            BY <2>1 DEF Vote
        <3> HIDE DEF r
        <3> QED
            BY <1>1, <3>2, <3>3 DEF Fraction, RRF_K
    <2>2. CASE x \notin Range(hits)
        BY <2>2 DEF Vote, Fraction
    <2> QED
        BY <2>1, <2>2
<1> DEFINE v == Vote(VectorWeight, vector, x)
           k == Vote(KeywordWeight, keyword, x)
<1>2. VectorWeight \in Nat /\ KeywordWeight \in Nat
    BY DEF VectorWeight, KeywordWeight
<1>3. Fraction(v) /\ Fraction(k)
    BY <1>1, <1>2
<1>4. Fuse(vector, keyword, x) = Plus(v, k)
    BY DEF Fuse
<1> HIDE DEF v, k
<1> DEFINE a == v[1]
           b == v[2]
           c == k[1]
           d == k[2]
<1>5. a \in Int /\ b \in Int /\ b > 0 /\ c \in Int /\ d \in Int /\ d > 0
    BY <1>3 DEF Fraction
<1>6. Plus(v, k)[1] = a * d + c * b /\ Plus(v, k)[2] = b * d
    BY DEF Plus
<1> HIDE DEF a, b, c, d
<1>7. a * d \in Int /\ c * b \in Int /\ b * d \in Int /\ b * d > 0
    BY <1>5
<1> QED
    BY <1>4, <1>6, <1>7 DEF Fraction

(* A ranking in another order is one of the same. *)
LEMMA Reordering ==
    ASSUME NEW ids, Ranking(ids), NEW before, Orders(before, DOMAIN ids)
    PROVE  /\ Ranking(Arranged(ids, DOMAIN ids, before))
           /\ Range(Arranged(ids, DOMAIN ids, before)) = Range(ids)
<1> DEFINE D == DOMAIN ids
           all == Arranged(ids, D, before)
<1>1. IsFiniteSet(D)
    BY RankingIsAList
<1>2. all \in Seq(Members(ids, D)) /\ DOMAIN all = 1..Cardinality(D)
    BY <1>1, ArrangedList
<1>3. \A p \in 1..Cardinality(D) :
          \E i \in D : all[p] = ids[i] /\ Cardinality(Until(before, D, i)) = p
    BY <1>1, ArrangedAt
<1>4. \A i \in D : \E p \in 1..Cardinality(D) : all[p] = ids[i]
    BY <1>1, PlaceOf
<1>5. \A i, j \in D : ids[i] = ids[j] => i = j
    BY DEF Ranking
<1>6. Range(ids) = {ids[i] : i \in D} /\ Range(all) = {all[p] : p \in DOMAIN all}
    BY DEF Range
<1> HIDE DEF D, all
<1>7. ASSUME NEW p \in DOMAIN all, NEW q \in DOMAIN all, all[p] = all[q]
      PROVE  p = q
    <2>1. PICK i \in D : all[p] = ids[i] /\ Cardinality(Until(before, D, i)) = p
        BY <1>2, <1>3
    <2>2. PICK j \in D : all[q] = ids[j] /\ Cardinality(Until(before, D, j)) = q
        BY <1>2, <1>3
    <2>3. i = j
        BY <1>5, <1>7, <2>1, <2>2
    <2> QED
        BY <2>1, <2>2, <2>3
<1>8. Ranking(all)
    BY <1>2, <1>7, ListedOnce
<1>9. Range(all) = Range(ids)
    BY <1>2, <1>3, <1>4, <1>6
<1> QED
    BY <1>8, <1>9 DEF D, all

(* Its place there is its rank. *)
LEMMA Reordered ==
    ASSUME NEW ids, Ranking(ids), NEW before, Orders(before, DOMAIN ids), NEW i \in DOMAIN ids
    PROVE  RankIn(Arranged(ids, DOMAIN ids, before), ids[i]) = Cardinality(Until(before, DOMAIN ids, i))
<1> DEFINE D == DOMAIN ids
           all == Arranged(ids, D, before)
           p == Cardinality(Until(before, D, i))
<1>1. IsFiniteSet(D)
    BY RankingIsAList
<1>2. DOMAIN all = 1..Cardinality(D) /\ Ranking(all)
    BY <1>1, ArrangedList, Reordering
<1>3. p \in 1..Cardinality(D) /\ all[p] = ids[i]
    BY <1>1, PlaceOf
<1> HIDE DEF D, all, p
<1>4. p \in DOMAIN all /\ ids[i] \in Range(all)
    BY <1>2, <1>3 DEF Range
<1>5. p = RankIn(all, ids[i])
    BY <1>2, <1>3, <1>4, RankOfOne
<1> QED
    BY <1>5 DEF D, all, p

(* What fusion orders: all that either ranker found. *)
LEMMA Fusing ==
    ASSUME NEW vector, NEW keyword, Ranking(vector), Ranking(keyword)
    PROVE  /\ Ranking(Ordered("hybrid", vector, keyword))
           /\ Range(Ordered("hybrid", vector, keyword)) = Range(vector) \cup Range(keyword)
<1> DEFINE ids == Merged(vector, keyword)
           score == [i \in DOMAIN ids |-> Fuse(vector, keyword, ids[i])]
           before == ByScore(score)
<1>1. Ranking(ids) /\ Range(ids) = Range(vector) \cup Range(keyword)
    BY Merging
<1>2. Ordered("hybrid", vector, keyword) = Arranged(ids, DOMAIN ids, before)
    BY DEF Ordered, SortedBy
<1>3. \A i \in DOMAIN ids : Fraction(score[i])
    BY FusingAddsUp
<1>4. DOMAIN ids \in SUBSET Int
    BY <1>1, RankingIsAList
<1>5. DOMAIN score = DOMAIN ids
    OBVIOUS
<1> HIDE DEF ids, score
<1>6. Orders(before, DOMAIN ids)
    BY <1>3, <1>4, <1>5, ByScoreOrders
<1> HIDE DEF before
<1>7. Ranking(Arranged(ids, DOMAIN ids, before)) /\ Range(Arranged(ids, DOMAIN ids, before)) = Range(ids)
    BY <1>1, <1>6, Reordering
<1> QED
    BY <1>1, <1>2, <1>7

(* Fusion does not turn the rankers' agreement about two chunks around. *)
LEMMA FusingAgrees ==
    ASSUME NEW vector, NEW keyword, Ranking(vector), Ranking(keyword), NEW a, NEW b,
           NoWorse(vector, a, b), NoWorse(keyword, a, b), a # b,
           b \in Range(vector) \cup Range(keyword)
    PROVE  /\ a \in Range(vector) \cup Range(keyword)
           /\ RankIn(Ordered("hybrid", vector, keyword), a) < RankIn(Ordered("hybrid", vector, keyword), b)
<1> DEFINE ids == Merged(vector, keyword)
           score == [i \in DOMAIN ids |-> Fuse(vector, keyword, ids[i])]
           before == ByScore(score)
           D == DOMAIN ids
<1>1. Ranking(ids) /\ Range(ids) = Range(vector) \cup Range(keyword)
    BY Merging
<1>2. Ordered("hybrid", vector, keyword) = Arranged(ids, D, before)
    BY DEF Ordered, SortedBy
<1>3. \A i \in D : score[i] = Fuse(vector, keyword, ids[i]) /\ Fraction(score[i])
    BY FusingAddsUp
<1>4. D \in SUBSET Int /\ IsFiniteSet(D)
    BY <1>1, RankingIsAList
<1>5. DOMAIN score = D
    OBVIOUS
<1>6. a \in Range(ids) /\ b \in Range(ids)
    BY <1>1 DEF NoWorse
<1>7. PICK i \in D : ids[i] = a
    BY <1>6 DEF Range
<1>8. PICK j \in D : ids[j] = b
    BY <1>6 DEF Range
<1> HIDE DEF ids, score
<1>9. More(score[i], score[j])
    BY <1>3, <1>7, <1>8, VotesAdd
<1>10. Orders(before, D) /\ <<i, j>> \in before
    BY <1>3, <1>4, <1>5, <1>9, ByScoreOrders
<1> HIDE DEF before
<1>11. RankIn(Arranged(ids, D, before), a) = Cardinality(Until(before, D, i))
    BY <1>1, <1>7, <1>10, Reordered
<1>12. RankIn(Arranged(ids, D, before), b) = Cardinality(Until(before, D, j))
    BY <1>1, <1>8, <1>10, Reordered
<1> HIDE DEF D
<1>13. Cardinality(Until(before, D, i)) < Cardinality(Until(before, D, j))
    BY <1>4, <1>10, RankKeepsTheOrder
<1> QED
    BY <1>1, <1>2, <1>6, <1>11, <1>12, <1>13

(* The first of a ranking: those whose place is among them. *)
LEMMA TheFirst ==
    ASSUME NEW hits, Ranking(hits), NEW n \in Nat, n <= Len(hits)
    PROVE  /\ Ranking(SubSeq(hits, 1, n))
           /\ DOMAIN SubSeq(hits, 1, n) = 1..n
           /\ \A i \in 1..n : SubSeq(hits, 1, n)[i] = hits[i]
<1> DEFINE S == {hits[i] : i \in DOMAIN hits}
           top == SubSeq(hits, 1, n)
<1>1. hits \in Seq(S) /\ \A i, j \in DOMAIN hits : hits[i] = hits[j] => i = j
    BY DEF Ranking
<1>2. DOMAIN hits = 1..Len(hits) /\ Len(hits) \in Nat
    BY RankingIsAList
<1>3. \A i \in 1..n : i \in DOMAIN hits /\ hits[i] \in S
    BY <1>2
<1> HIDE DEF S
<1>4. /\ top \in Seq(S) /\ Len(top) = (IF 1 <= n THEN n - 1 + 1 ELSE 0)
      /\ \A i \in 1..n - 1 + 1 : top[i] = hits[1 + i - 1]
    BY <1>3, SubSeqProperties
<1>5. DOMAIN top = 1..Len(top)
    BY <1>4, LenProperties
<1> HIDE DEF top
<1>6. Len(top) = n /\ \A i \in 1..n : top[i] = hits[i]
    BY <1>4
<1>7. \A i, j \in DOMAIN top : top[i] = top[j] => i = j
    BY <1>1, <1>3, <1>5, <1>6
<1>8. Ranking(top)
    BY <1>4, <1>7, ListedOnce
<1> QED
    BY <1>5, <1>6, <1>8 DEF top

(* The first n of a ranking are those of a rank up to n, and keep their ranks. *)
LEMMA AmongTheFirst ==
    ASSUME NEW hits, Ranking(hits), NEW n \in Nat, n <= Len(hits), NEW x
    PROVE  /\ x \in Range(SubSeq(hits, 1, n)) <=> x \in Range(hits) /\ RankIn(hits, x) <= n
           /\ x \in Range(SubSeq(hits, 1, n)) => RankIn(SubSeq(hits, 1, n), x) = RankIn(hits, x)
<1> DEFINE top == SubSeq(hits, 1, n)
<1>1. Ranking(top) /\ DOMAIN top = 1..n /\ \A i \in 1..n : top[i] = hits[i]
    BY TheFirst
<1>2. DOMAIN hits = 1..Len(hits) /\ Len(hits) \in Nat
    BY RankingIsAList
<1>3. \A i \in 1..n : i \in DOMAIN hits /\ i <= n
    BY <1>2
<1> HIDE DEF top
<1>4. ASSUME x \in Range(top)
      PROVE  x \in Range(hits) /\ RankIn(top, x) = RankIn(hits, x) /\ RankIn(hits, x) <= n
    <2> DEFINE r == RankIn(top, x)
    <2>1. r \in DOMAIN top /\ top[r] = x
        BY <1>1, <1>4, RankOfOne
    <2> HIDE DEF r
    <2>2. r \in DOMAIN hits /\ hits[r] = x /\ r <= n
        BY <1>1, <1>3, <2>1
    <2>3. x \in Range(hits)
        BY <2>2 DEF Range
    <2>4. r = RankIn(hits, x)
        BY <2>2, <2>3, RankOfOne
    <2> QED
        BY <2>2, <2>3, <2>4 DEF r
<1>5. ASSUME x \in Range(hits), RankIn(hits, x) <= n
      PROVE  x \in Range(top)
    <2> DEFINE r == RankIn(hits, x)
    <2>1. r \in DOMAIN hits /\ hits[r] = x /\ r <= n
        BY <1>5, RankOfOne
    <2> HIDE DEF r
    <2>2. r \in 1..n
        BY <1>2, <2>1
    <2> QED
        BY <1>1, <2>1, <2>2 DEF Range
<1> QED
    BY <1>4, <1>5 DEF top

(* To look only at a ranker's first candidates changes nothing about their order. *)
LEMMA CuttingAgrees ==
    ASSUME NEW hits, Ranking(hits), NEW n \in Nat, n <= Len(hits), NEW a, NEW b, NoWorse(hits, a, b)
    PROVE  NoWorse(SubSeq(hits, 1, n), a, b)
<1> DEFINE top == SubSeq(hits, 1, n)
<1> SUFFICES ASSUME b \in Range(top)
             PROVE  a \in Range(top) /\ RankIn(top, a) < RankIn(top, b)
    BY DEF NoWorse
<1>1. b \in Range(hits) /\ RankIn(hits, b) <= n /\ RankIn(top, b) = RankIn(hits, b)
    BY AmongTheFirst
<1>2. a \in Range(hits) /\ RankIn(hits, a) < RankIn(hits, b)
    BY <1>1 DEF NoWorse
<1>3. RankIn(hits, a) \in 1..Len(hits) /\ RankIn(hits, b) \in 1..Len(hits) /\ Len(hits) \in Nat
    BY <1>1, <1>2, RankOfOne, RankingIsAList
<1>4. RankIn(hits, a) <= n
    BY <1>1, <1>2, <1>3
<1>5. a \in Range(top) /\ RankIn(top, a) = RankIn(hits, a)
    BY <1>2, <1>4, AmongTheFirst
<1> QED
    BY <1>1, <1>2, <1>5

(* The smaller of two numbers. *)
LEMMA MinOfTwo ==
    ASSUME NEW a \in Nat, NEW b \in Nat
    PROVE  Min({a, b}) \in Nat /\ Min({a, b}) <= a /\ Min({a, b}) <= b /\ Min({a, b}) \in {a, b}
<1>1. \E x \in {a, b} : \A y \in {a, b} : x <= y
    OBVIOUS
<1>2. Min({a, b}) \in {a, b} /\ \A y \in {a, b} : Min({a, b}) <= y
    BY <1>1 DEF Min
<1> QED
    BY <1>2

(* A search cuts the rankers' lists, fuses them and cuts the result. *)
LEMMA Searching ==
    ASSUME NEW vector, NEW keyword, Ranking(vector), Ranking(keyword), NEW limit \in Nat \ {0}
    PROVE  LET v == Candidates(vector, limit)
               k == Candidates(keyword, limit)
               all == Ordered("hybrid", v, k)
               n == Min({Len(all), limit})
           IN /\ Ranking(v) /\ Ranking(k) /\ Ranking(all) /\ n \in Nat /\ n <= Len(all)
              /\ SearchResult("hybrid", vector, keyword, limit) = SubSeq(all, 1, n)
<1>1. ASSUME NEW hits, Ranking(hits)
      PROVE  Ranking(Candidates(hits, limit))
    <2> DEFINE n == Min({Len(hits), limit * CandidateMultiplier})
    <2>1. Len(hits) \in Nat /\ limit * CandidateMultiplier \in Nat
        BY <1>1, RankingIsAList DEF CandidateMultiplier
    <2>2. n \in Nat /\ n <= Len(hits)
        BY <2>1, MinOfTwo
    <2>3. Candidates(hits, limit) = SubSeq(hits, 1, n)
        BY DEF Candidates
    <2> HIDE DEF n
    <2> QED
        BY <1>1, <2>2, <2>3, TheFirst
<1> DEFINE v == Candidates(vector, limit)
           k == Candidates(keyword, limit)
           all == Ordered("hybrid", v, k)
           n == Min({Len(all), limit})
<1>2. SearchResult("hybrid", vector, keyword, limit) = SubSeq(all, 1, n)
    BY DEF SearchResult
<1>3. Ranking(v) /\ Ranking(k)
    BY <1>1
<1> HIDE DEF v, k
<1>4. Ranking(all)
    BY <1>3, Fusing
<1>5. Len(all) \in Nat
    BY <1>4, RankingIsAList
<1> HIDE DEF all
<1>6. n \in Nat /\ n <= Len(all)
    BY <1>5, MinOfTwo
<1> QED
    BY <1>2, <1>3, <1>4, <1>6 DEF v, k, all, n

(* Of each ranker's list the candidates are the first. *)
LEMMA CandidatesAgree ==
    ASSUME NEW hits, Ranking(hits), NEW limit \in Nat \ {0}, NEW a, NEW b, NoWorse(hits, a, b)
    PROVE  NoWorse(Candidates(hits, limit), a, b)
<1> DEFINE n == Min({Len(hits), limit * CandidateMultiplier})
<1>1. Len(hits) \in Nat /\ limit * CandidateMultiplier \in Nat
    BY RankingIsAList DEF CandidateMultiplier
<1>2. n \in Nat /\ n <= Len(hits)
    BY <1>1, MinOfTwo
<1>3. Candidates(hits, limit) = SubSeq(hits, 1, n)
    BY DEF Candidates
<1> HIDE DEF n
<1> QED
    BY <1>2, <1>3, CuttingAgrees

(* A search keeps the agreement of its rankers, in the fusion of all their hits and in
   the results, which are cut from the fusion of the first hits of each. *)
LEMMA SearchAgrees ==
    ASSUME NEW vector, NEW keyword, Ranking(vector), Ranking(keyword), NEW limit \in Nat \ {0}
    PROVE  AgreementIsKept(vector, keyword, limit)
<1> DEFINE all == Ordered("hybrid", vector, keyword)
           top == SearchResult("hybrid", vector, keyword, limit)
           v == Candidates(vector, limit)
           k == Candidates(keyword, limit)
           cut == Ordered("hybrid", v, k)
           n == Min({Len(cut), limit})
<1>1. /\ Ranking(v) /\ Ranking(k) /\ Ranking(cut) /\ n \in Nat /\ n <= Len(cut)
      /\ top = SubSeq(cut, 1, n)
    BY Searching
<1>2. Range(all) = Range(vector) \cup Range(keyword) /\ Range(cut) = Range(v) \cup Range(k)
    BY <1>1, Fusing
<1>3. ASSUME NEW a \in Range(all), NEW b \in Range(all), a # b,
             NoWorse(vector, a, b), NoWorse(keyword, a, b)
      PROVE  RankIn(all, a) < RankIn(all, b) /\ (b \in Range(top) => a \in Range(top))
    <2>1. RankIn(all, a) < RankIn(all, b)
        BY <1>2, <1>3, FusingAgrees
    <2>2. NoWorse(v, a, b) /\ NoWorse(k, a, b)
        BY <1>3, CandidatesAgree
    <2> HIDE DEF v, k, top
    <2>3. ASSUME b \in Range(top)
          PROVE  a \in Range(top)
        <3>1. b \in Range(cut) /\ RankIn(cut, b) <= n
            <4> HIDE DEF n, cut
            <4> QED
                BY <1>1, <2>3, AmongTheFirst
        <3>2. a \in Range(cut) /\ RankIn(cut, a) < RankIn(cut, b)
            BY <1>1, <1>2, <1>3, <2>2, <3>1, FusingAgrees
        <3> HIDE DEF cut, n
        <3>3. RankIn(cut, a) \in 1..Len(cut) /\ RankIn(cut, b) \in 1..Len(cut) /\ Len(cut) \in Nat
            BY <1>1, <3>1, <3>2, RankOfOne, RankingIsAList
        <3>4. RankIn(cut, a) <= n
            BY <1>1, <3>1, <3>2, <3>3
        <3> QED
            BY <1>1, <3>2, <3>4, AmongTheFirst
    <2> QED
        BY <2>1, <2>3
<1> QED
    BY <1>3 DEF AgreementIsKept

(* A search never turns an agreement of its two rankers around: what both put first
   comes first of their fusion, and is among the results when the other is
   (retrieval.search, _fuse). *)
THEOREM Agreement == Spec => []AgreementStands
<1>1. Init => AgreementStands
    <2> SUFFICES ASSUME Init, case.kind = "search"
                 PROVE  AgreementIsKept(case.of.vector, case.of.keyword, case.of.limit)
        BY DEF AgreementStands
    <2>1. case.of \in SearchCases
        BY DEF Init, Cases
    <2>2. /\ Ranking(case.of.vector) /\ Ranking(case.of.keyword) /\ case.of.limit \in Nat \ {0}
        BY <2>1, SearchAssumption
    <2> QED
        BY <2>2, SearchAgrees
<1>2. AgreementStands /\ [Next]_case => AgreementStands'
    BY DEF AgreementStands, Next
<1> QED
    BY <1>1, <1>2, PTL DEF Spec

(* Of each document the best of its chunks stands for it, and k documents are kept. *)
LEMMA DocumentsOnce ==
    ASSUME NEW results, Ranking(results), NEW parent, NEW k \in Nat
    PROVE  /\ Ranking(UniqueDocs(results, parent, k))
           /\ Len(UniqueDocs(results, parent, k)) <= k
<1> DEFINE docs == [i \in DOMAIN results |-> parent[results[i]]]
           firsts == Firsts(docs)
           seen == Picked(docs, firsts)
           m == Min({Len(seen), k})
           n == Len(results)
<1>1. n \in Nat /\ DOMAIN docs = 1..n
    BY RankingIsAList
<1>2. UniqueDocs(results, parent, k) = SubSeq(seen, 1, m)
    BY DEF UniqueDocs
<1> HIDE DEF docs, n
<1>3. firsts \in SUBSET (1..n) /\ \A i, j \in firsts : docs[i] = docs[j] => i = j
    BY <1>1 DEF Firsts
<1> HIDE DEF firsts
<1>4. /\ IsFiniteSet(firsts) /\ Cardinality(firsts) \in Nat /\ Orders(InOrder(firsts), firsts)
      /\ DOMAIN Picked(docs, firsts) = 1..Cardinality(firsts)
      /\ Len(Picked(docs, firsts)) = Cardinality(firsts)
    <2>1. n \in Nat /\ firsts \in SUBSET (1..n)
        BY <1>1, <1>3
    <2> QED
        BY <2>1, Picking
<1>5. Picked(docs, firsts) \in Seq(Members(docs, firsts))
    BY <1>1, <1>3, Picking
<1>6. \A p, q \in DOMAIN seen : seen[p] = seen[q] => p = q
    BY <1>3, <1>4, PickingOnce
<1>7. Len(seen) \in Nat
    BY <1>4
<1>8. seen \in Seq(Members(docs, firsts))
    BY <1>5
<1> HIDE DEF seen
<1>9. Ranking(seen)
    BY <1>6, <1>8, ListedOnce
<1>10. m \in Nat /\ m <= Len(seen) /\ m <= k
    BY <1>7, MinOfTwo
<1> HIDE DEF m
<1>11. Ranking(SubSeq(seen, 1, m)) /\ DOMAIN SubSeq(seen, 1, m) = 1..m
    BY <1>9, <1>10, TheFirst
<1> DEFINE top == SubSeq(seen, 1, m)
<1>12. Len(top) \in Nat /\ DOMAIN top = 1..Len(top)
    BY <1>11, RankingIsAList
<1> HIDE DEF top
<1>13. Ranking(top) /\ 1..m = 1..Len(top)
    BY <1>11, <1>12 DEF top
<1>14. Len(top) = m
    <2>1. IsFiniteSet(DOMAIN top) /\ Cardinality(1..Len(top)) = Len(top)
        BY <1>12, <1>13, RankingIsAList
    <2>2. Cardinality(1..m) = IF 1 > m THEN 0 ELSE m - 1 + 1
        BY <1>10, FS_Interval
    <2> QED
        BY <1>10, <1>13, <2>1, <2>2
<1> QED
    BY <1>2, <1>10, <1>13, <1>14 DEF top

(* Of an order of finitely many, not none, one is before all others. *)
LEMMA OneIsFirst ==
    ASSUME NEW D, IsFiniteSet(D), D # {}, NEW before, Orders(before, D)
    PROVE  \E i \in D : \A j \in D : <<j, i>> \notin before
<1>1. Cardinality(D) \in Nat /\ Cardinality(D) # 0
    BY FS_EmptySet, FS_CardinalityType
<1>2. 1 \in 1..Cardinality(D)
    BY <1>1
<1>3. PICK i \in D : Cardinality(Until(before, D, i)) = 1
    BY <1>2, EveryPlaceIsTaken
<1>4. ASSUME NEW j \in D, <<j, i>> \in before
      PROVE  FALSE
    <2>1. Cardinality(Until(before, D, j)) < Cardinality(Until(before, D, i))
        BY <1>4, RankKeepsTheOrder
    <2>2. Cardinality(Until(before, D, j)) \in 1..Cardinality(D)
        BY RankIsAPlace
    <2> QED
        BY <1>1, <1>3, <2>1, <2>2
<1> QED
    BY <1>4

(* The earliest of some places. *)
LEMMA Earliest ==
    ASSUME NEW n \in Nat, NEW places, places \in SUBSET (1..n), places # {}
    PROVE  Min(places) \in places /\ \A i \in places : Min(places) <= i
<1>1. IsFiniteSet(places)
    <2>1. IsFiniteSet(1..n)
        BY FS_Interval
    <2> QED
        BY <2>1, FS_Subset
<1>2. Orders(InOrder(places), places)
    <2>1. places \in SUBSET Int
        OBVIOUS
    <2> QED
        BY <2>1, InOrderOrders
<1>3. PICK i \in places : \A j \in places : <<j, i>> \notin InOrder(places)
    BY <1>1, <1>2, OneIsFirst
<1>4. \A j \in places : i <= j
    <2>1. i \in 1..n
        OBVIOUS
    <2>2. ASSUME NEW j \in places
          PROVE  i <= j
        <3>1. j \in 1..n
            OBVIOUS
        <3>2. j < i => <<j, i>> \in InOrder(places)
            BY DEF InOrder
        <3>3. ~ (j < i)
            BY <1>3, <3>2
        <3> QED
            BY <2>1, <3>1, <3>3
    <2> QED
        BY <2>2
<1> QED
    BY <1>4 DEF Min

(* What is found of the relevant documents, as a count of places and of documents. *)
LEMMA CountingFound ==
    ASSUME NEW top, Ranking(top), NEW relevant, IsFiniteSet(relevant)
    PROVE  LET found == {i \in DOMAIN top : top[i] \in relevant}
           IN /\ found \in SUBSET (1..Len(top)) /\ Len(top) \in Nat
              /\ IsFiniteSet(found) /\ Cardinality(found) \in Nat
              /\ Cardinality(found) <= Len(top)
              /\ Cardinality(found) <= Cardinality(relevant) /\ Cardinality(relevant) \in Nat
              /\ Cardinality(found) = Cardinality(relevant \cap Range(top))
<1> DEFINE found == {i \in DOMAIN top : top[i] \in relevant}
           both == relevant \cap Range(top)
           f == [i \in found |-> top[i]]
<1>1. /\ Len(top) \in Nat /\ DOMAIN top = 1..Len(top) /\ IsFiniteSet(DOMAIN top)
      /\ Cardinality(DOMAIN top) = Len(top)
    BY RankingIsAList
<1>2. found \in SUBSET DOMAIN top
    OBVIOUS
<1>3. IsFiniteSet(found) /\ Cardinality(found) <= Cardinality(DOMAIN top)
    BY <1>1, <1>2, FS_Subset
<1>4. both \in SUBSET relevant
    OBVIOUS
<1>5. IsFiniteSet(both) /\ Cardinality(both) <= Cardinality(relevant)
    BY <1>4, FS_Subset
<1>6. \A i \in found : i \in DOMAIN top /\ top[i] \in both
    BY DEF Range
<1>7. \A d \in both : \E i \in found : top[i] = d
    BY DEF Range
<1>8. \A i, j \in found : top[i] = top[j] => i = j
    BY DEF Ranking
<1> HIDE DEF found, both
<1>9. f \in [found -> both]
    BY <1>6
<1>10. f \in Injection(found, both)
    BY <1>8, <1>9 DEF Injection, IsInjective
<1>11. f \in Surjection(found, both)
    BY <1>7, <1>9 DEF Surjection
<1>12. Cardinality(found) = Cardinality(both)
    BY <1>5, <1>10, <1>11, FS_Injection
<1>13. Cardinality(found) \in Nat /\ Cardinality(relevant) \in Nat
    BY <1>3, FS_CardinalityType
<1> QED
    BY <1>1, <1>2, <1>3, <1>5, <1>12, <1>13 DEF found, both

(* What the evaluation of a search says of it. *)
LEMMA ScoringASearch ==
    ASSUME NEW vector, NEW keyword, Ranking(vector), Ranking(keyword), NEW parent,
           NEW relevant, IsFiniteSet(relevant), NEW k \in Nat \ {0}
    PROVE  RecallIsAFraction(vector, keyword, parent, relevant, k)
<1> DEFINE results == SearchResult("hybrid", vector, keyword, k * OverFetch)
           top == UniqueDocs(results, parent, k)
           found == {i \in DOMAIN top : top[i] \in relevant}
           s == Score("hybrid", vector, keyword, parent, relevant, k)
<1>1. k * OverFetch \in Nat \ {0}
    BY DEF OverFetch
<1> DEFINE limit == k * OverFetch
           v == Candidates(vector, limit)
           c == Candidates(keyword, limit)
           all == Ordered("hybrid", v, c)
           n == Min({Len(all), limit})
<1>2. Ranking(results)
    <2>1. limit \in Nat \ {0}
        BY <1>1
    <2> HIDE DEF limit
    <2>2. Ranking(all) /\ n \in Nat /\ n <= Len(all) /\ results = SubSeq(all, 1, n)
        BY <2>1, Searching DEF limit
    <2> HIDE DEF results, all, n
    <2> QED
        BY <2>2, TheFirst
<1> HIDE DEF results
<1>3. Ranking(top) /\ Len(top) <= k
    BY <1>2, DocumentsOnce
<1>4. /\ s.hits = Cardinality(found)
      /\ s.recall[1] = Cardinality(found) /\ s.recall[2] = Min({Cardinality(relevant), k})
      /\ s.reciprocal = IF found = {} THEN 0 ELSE Min(found)
    BY DEF Score, results
<1> HIDE DEF top, s
<1>5. /\ found \in SUBSET (1..Len(top)) /\ Len(top) \in Nat
      /\ IsFiniteSet(found) /\ Cardinality(found) \in Nat
      /\ Cardinality(found) <= Len(top)
      /\ Cardinality(found) <= Cardinality(relevant) /\ Cardinality(relevant) \in Nat
      /\ Cardinality(found) = Cardinality(relevant \cap Range(top))
    BY <1>3, CountingFound
<1>6. s.recall[1] <= s.recall[2]
    <2>1. Min({Cardinality(relevant), k}) \in {Cardinality(relevant), k}
        BY <1>5, MinOfTwo
    <2>2. Cardinality(found) <= k
        BY <1>3, <1>5
    <2> QED
        BY <1>4, <1>5, <2>1, <2>2
<1>7. s.hits = Cardinality(relevant \cap Range(top))
    BY <1>4, <1>5
<1>8. s.reciprocal # 0 => \A i \in 1..s.reciprocal - 1 : top[i] \notin relevant
    <2> SUFFICES ASSUME found # {}, NEW i \in 1..Min(found) - 1
                 PROVE  top[i] \notin relevant
        BY <1>4
    <2>1. Min(found) \in found /\ \A j \in found : Min(found) <= j
        BY <1>5, Earliest
    <2> DEFINE first == Min(found)
    <2>2. first \in 1..Len(top) /\ DOMAIN top = 1..Len(top)
        BY <1>3, <1>5, <2>1, RankingIsAList
    <2>3. i \in DOMAIN top /\ ~ (first <= i)
        BY <1>5, <2>2
    <2> QED
        BY <2>1, <2>3
<1> QED
    BY <1>6, <1>7, <1>8 DEF RecallIsAFraction, s, top, results

(* The recall of a search is a fraction of the documents it could find, whatever chunks
   they were cut into, and the first of them is where the reciprocal rank says
   (evals/retrieval_eval.py, _unique_docs, score_one). *)
THEOREM Recall == Spec => []RecallIsOfDocuments
<1>1. Init => RecallIsOfDocuments
    <2> SUFFICES ASSUME Init, case.kind = "search"
                 PROVE  RecallIsAFraction(case.of.vector, case.of.keyword, case.of.parent,
                                          case.of.relevant, case.of.limit)
        BY DEF RecallIsOfDocuments
    <2>1. case.of \in SearchCases
        BY DEF Init, Cases
    <2>2. /\ Ranking(case.of.vector) /\ Ranking(case.of.keyword) /\ case.of.limit \in Nat \ {0}
          /\ IsFiniteSet(case.of.relevant)
        BY <2>1, SearchAssumption
    <2> QED
        BY <2>2, ScoringASearch
<1>2. RecallIsOfDocuments /\ [Next]_case => RecallIsOfDocuments'
    BY DEF RecallIsOfDocuments, Next
<1> QED
    BY <1>1, <1>2, PTL DEF Spec

------------------------------------------------------------------------------
(* What the agent holds. *)

(* A list of documents with scores; one that holds each document once. *)
Scored(list) ==
    list \in Seq({list[i] : i \in DOMAIN list}) /\ \A i \in DOMAIN list : list[i].score \in Int
Holding(list) ==
    /\ Ranking(list)
    /\ \A i \in DOMAIN list : list[i].score \in Int
    /\ \A i, j \in DOMAIN list : list[i].id = list[j].id => i = j

(* A list of scored documents is a list of what is in it. *)
LEMMA ScoredList ==
    ASSUME NEW list, Scored(list)
    PROVE  /\ list \in Seq(Range(list)) /\ Len(list) \in Nat /\ DOMAIN list = 1..Len(list)
           /\ \A d \in Range(list) : d.score \in Int
<1>1. Range(list) = {list[i] : i \in DOMAIN list}
    BY DEF Range
<1>2. list \in Seq(Range(list))
    BY <1>1 DEF Scored
<1>3. Len(list) \in Nat /\ DOMAIN list = 1..Len(list)
    BY <1>2, LenProperties
<1> QED
    BY <1>1, <1>2, <1>3 DEF Scored

(* What is held and what is found, one after the other. *)
LEMMA HeldAndFound ==
    ASSUME NEW held, Scored(held), NEW docs, Scored(docs)
    PROVE  /\ Len(held) \in Nat /\ Len(docs) \in Nat
           /\ DOMAIN (held \o docs) = 1..Len(held) + Len(docs)
           /\ \A i \in DOMAIN held : i \in DOMAIN (held \o docs) /\ (held \o docs)[i] = held[i]
           /\ \A i \in DOMAIN docs : Len(held) + i \in DOMAIN (held \o docs)
                                     /\ (held \o docs)[Len(held) + i] = docs[i]
           /\ \A i \in DOMAIN (held \o docs) : (held \o docs)[i].score \in Int
<1> DEFINE S == Range(held) \cup Range(docs)
           all == held \o docs
           n == Len(held)
           m == Len(docs)
<1>1. /\ n \in Nat /\ DOMAIN held = 1..n /\ m \in Nat /\ DOMAIN docs = 1..m
      /\ \A d \in S : d.score \in Int
    BY ScoredList
<1>2. held \in Seq(S) /\ docs \in Seq(S)
    <2>1. held \in Seq(Range(held)) /\ docs \in Seq(Range(docs))
        BY ScoredList
    <2>2. Range(held) \subseteq S /\ Range(docs) \subseteq S
        OBVIOUS
    <2> HIDE DEF S
    <2> QED
        BY <2>1, <2>2, SeqMonotonic
<1> HIDE DEF S
<1>3. /\ all \in Seq(S) /\ DOMAIN all = 1..n + m
      /\ \A i \in 1..n : all[i] = held[i]
      /\ \A i \in 1..m : all[n + i] = docs[i]
    BY <1>2, OneAfterAnother
<1> HIDE DEF all, n, m
<1>4. \A i \in 1..n : i \in 1..n + m
    BY <1>1
<1>5. \A i \in 1..m : n + i \in 1..n + m
    BY <1>1
<1>6. \A i \in DOMAIN all : all[i] \in S
    BY <1>3, ElementOfSeq, LenProperties
<1>7. /\ \A i \in DOMAIN held : i \in DOMAIN all /\ all[i] = held[i]
      /\ \A i \in DOMAIN docs : n + i \in DOMAIN all /\ all[n + i] = docs[i]
      /\ \A i \in DOMAIN all : all[i].score \in Int
    BY <1>1, <1>3, <1>4, <1>5, <1>6
<1> QED
    BY <1>1, <1>3, <1>7 DEF all, n, m

(* Of the copies of a document the one that is kept has the best score. *)
LEMMA BestOfTheCopies ==
    ASSUME NEW n \in Nat, NEW all, DOMAIN all = 1..n, \A k \in 1..n : all[k].score \in Int,
           NEW i \in 1..n
    PROVE  /\ BestCopy(all, i) \in 1..n /\ all[BestCopy(all, i)].id = all[i].id
           /\ \A k \in 1..n : all[k].id = all[i].id => all[k].score <= all[BestCopy(all, i)].score
<1> DEFINE C == Copies(all, i)
           Sooner(j, k) == all[k].score < all[j].score \/ (all[k].score = all[j].score /\ j < k)
           before == {c \in C \X C : Sooner(c[1], c[2])}
<1>1. C \in SUBSET (1..n) /\ i \in C /\ \A k \in 1..n : k \in C <=> all[k].id = all[i].id
    BY DEF Copies
<1>2. IsFiniteSet(C)
    <2>1. IsFiniteSet(1..n)
        BY FS_Interval
    <2> HIDE DEF C
    <2> QED
        BY <1>1, <2>1, FS_Subset
<1> HIDE DEF C
<1>3. \A j, k \in C : <<j, k>> \in before <=> Sooner(j, k)
    OBVIOUS
<1>4. \A j \in C : j \in Int /\ all[j].score \in Int
    BY <1>1
<1>5. Orders(before, C)
    <2>1. before \in SUBSET (C \X C)
        OBVIOUS
    <2>2. \A j \in C : ~ Sooner(j, j)
        BY <1>4
    <2>3. \A j, k \in C : j # k => Sooner(j, k) \/ Sooner(k, j)
        BY <1>4
    <2>4. \A j, k, l \in C : Sooner(j, k) /\ Sooner(k, l) => Sooner(j, l)
        BY <1>4
    <2> HIDE DEF Sooner, before
    <2> QED
        BY <1>3, <2>1, <2>2, <2>3, <2>4 DEF Orders
<1>6. PICK j \in C : \A k \in C : <<k, j>> \notin before
    <2> HIDE DEF before
    <2> QED
        BY <1>1, <1>2, <1>5, OneIsFirst
<1>7. \A k \in C : all[k].score < all[j].score \/ (all[k].score = all[j].score /\ j <= k)
    <2> SUFFICES ASSUME NEW k \in C
                 PROVE  all[k].score < all[j].score \/ (all[k].score = all[j].score /\ j <= k)
        OBVIOUS
    <2>1. ~ Sooner(k, j)
        BY <1>3, <1>6
    <2> QED
        BY <1>4, <2>1
<1> DEFINE b == BestCopy(all, i)
<1>8. /\ b \in C
      /\ \A k \in C : all[k].score < all[b].score \/ (all[k].score = all[b].score /\ b <= k)
    BY <1>7 DEF BestCopy, C
<1> HIDE DEF b
<1>9. b \in 1..n /\ all[b].id = all[i].id
    BY <1>1, <1>8
<1>10. \A k \in 1..n : all[k].id = all[i].id => all[k].score <= all[b].score
    BY <1>1, <1>4, <1>8
<1> QED
    BY <1>9, <1>10 DEF b

(* Of several documents, with their copies, the best copy of each. *)
BestCopies(all) ==
    Picked([i \in DOMAIN all |-> all[BestCopy(all, i)]], Firsts([i \in DOMAIN all |-> all[i].id]))
(* A merge has one copy of each document, and no two alike. *)
LEMMA OneCopyEach ==
    ASSUME NEW n \in Nat, NEW all, DOMAIN all = 1..n, \A k \in 1..n : all[k].score \in Int
    PROVE  Holding(BestCopies(all))
<1> DEFINE ids == [i \in DOMAIN all |-> all[i].id]
           best == [i \in DOMAIN all |-> all[BestCopy(all, i)]]
           firsts == Firsts(ids)
           merged == Picked(best, firsts)
<1>1. firsts \in SUBSET (1..n) /\ \A i, j \in firsts : all[i].id = all[j].id => i = j
    BY DEF Firsts
<1>2. \A i \in 1..n : best[i].id = all[i].id /\ best[i].score \in Int
    BY BestOfTheCopies
<1>3. BestCopies(all) = merged
    BY DEF BestCopies
<1> HIDE DEF ids, best, firsts
<1>4. /\ IsFiniteSet(firsts) /\ Orders(InOrder(firsts), firsts)
      /\ DOMAIN Picked(best, firsts) = 1..Cardinality(firsts)
    <2>1. n \in Nat /\ firsts \in SUBSET (1..n)
        BY <1>1
    <2> QED
        BY <2>1, Picking
<1>5. Picked(best, firsts) \in Seq(Members(best, firsts))
    BY <1>1, Picking
<1>6. \A p \in 1..Cardinality(firsts) : \E i \in firsts :
          Picked(best, firsts)[p] = best[i] /\ Cardinality(Until(InOrder(firsts), firsts, i)) = p
    <2> DEFINE before == InOrder(firsts)
    <2>1. IsFiniteSet(firsts) /\ Orders(before, firsts)
        BY <1>4
    <2>2. Picked(best, firsts) = Arranged(best, firsts, before)
        BY DEF Picked
    <2> HIDE DEF before
    <2>3. \A p \in 1..Cardinality(firsts) : \E i \in firsts :
              Arranged(best, firsts, before)[p] = best[i] /\ Cardinality(Until(before, firsts, i)) = p
        BY <2>1, ArrangedAt
    <2> QED
        BY <2>2, <2>3 DEF before
<1>7. merged \in Seq(Members(best, firsts)) /\ DOMAIN merged = 1..Cardinality(firsts)
    BY <1>4, <1>5
<1>8. \A p \in DOMAIN merged : \E i \in firsts :
          merged[p] = best[i] /\ Cardinality(Until(InOrder(firsts), firsts, i)) = p
    BY <1>6, <1>7
<1> HIDE DEF merged
<1>9. ASSUME NEW p \in DOMAIN merged, NEW q \in DOMAIN merged, merged[p].id = merged[q].id
      PROVE  p = q
    <2>1. PICK i \in firsts : merged[p] = best[i] /\ Cardinality(Until(InOrder(firsts), firsts, i)) = p
        BY <1>8
    <2>2. PICK j \in firsts : merged[q] = best[j] /\ Cardinality(Until(InOrder(firsts), firsts, j)) = q
        BY <1>8
    <2>3. i \in 1..n /\ j \in 1..n
        BY <1>1
    <2>4. all[i].id = all[j].id
        BY <1>2, <1>9, <2>1, <2>2, <2>3
    <2>5. i = j
        BY <1>1, <2>4
    <2> QED
        BY <2>1, <2>2, <2>5
<1>10. \A p \in DOMAIN merged : merged[p].score \in Int
    BY <1>1, <1>2, <1>8
<1>11. \A p, q \in DOMAIN merged : merged[p] = merged[q] => p = q
    BY <1>9
<1>12. Ranking(merged)
    BY <1>7, <1>11, ListedOnce
<1>13. Holding(merged)
    BY <1>9, <1>10, <1>12 DEF Holding
<1> QED
    BY <1>3, <1>13

(* Of each document found, the merge has a copy at least as good. *)
LEMMA EachIsKept ==
    ASSUME NEW n \in Nat, NEW all, DOMAIN all = 1..n, \A k \in 1..n : all[k].score \in Int,
           NEW i \in 1..n
    PROVE  \E p \in DOMAIN BestCopies(all) :
               BestCopies(all)[p].id = all[i].id /\ BestCopies(all)[p].score >= all[i].score
<1> DEFINE ids == [k \in DOMAIN all |-> all[k].id]
           best == [k \in DOMAIN all |-> all[BestCopy(all, k)]]
           firsts == Firsts(ids)
           same == {k \in 1..n : all[k].id = all[i].id}
           f == Min(same)
<1>1. f \in same /\ \A k \in same : f <= k
    <2>1. same \in SUBSET (1..n) /\ same # {}
        OBVIOUS
    <2> HIDE DEF same
    <2> QED
        BY <2>1, Earliest
<1> HIDE DEF f
<1>2. f \in 1..n /\ all[f].id = all[i].id
    BY <1>1
<1>3. f \in firsts /\ firsts \in SUBSET (1..n)
    BY <1>1, <1>2 DEF Firsts
<1>4. best[f] = all[BestCopy(all, f)]
    BY <1>2
<1>5. best[f].id = all[i].id /\ best[f].score >= all[i].score
    <2> DEFINE b == BestCopy(all, f)
    <2>1. b \in 1..n /\ all[b].id = all[f].id /\ all[i].score <= all[b].score
        BY <1>2, BestOfTheCopies
    <2> HIDE DEF b
    <2>2. all[b].score >= all[i].score
        BY <2>1
    <2> QED
        BY <1>2, <1>4, <2>1, <2>2 DEF b
<1>6. BestCopies(all) = Picked(best, firsts)
    BY DEF BestCopies
<1> HIDE DEF ids, best, firsts
<1>7. /\ IsFiniteSet(firsts) /\ Orders(InOrder(firsts), firsts)
      /\ DOMAIN Picked(best, firsts) = 1..Cardinality(firsts)
    <2>1. n \in Nat /\ firsts \in SUBSET (1..n)
        BY <1>3
    <2> QED
        BY <2>1, Picking
<1>8. \E p \in 1..Cardinality(firsts) : Picked(best, firsts)[p] = best[f]
    BY <1>3, <1>7, PickedFrom
<1> QED
    BY <1>5, <1>6, <1>7, <1>8

(* Documents in the order of their scores. *)
Scores(list) == [i \in DOMAIN list |-> <<list[i].score, 1>>]
(* Sorting by score orders the documents, the better ones before the others. *)
LEMMA ScoresOrder ==
    ASSUME NEW list, Holding(list)
    PROVE  /\ Orders(ByScore(Scores(list)), DOMAIN list)
           /\ \A i, j \in DOMAIN list :
                  list[i].score > list[j].score => <<i, j>> \in ByScore(Scores(list))
<1> DEFINE score == Scores(list)
           D == DOMAIN list
<1>1. Ranking(list) /\ \A i \in D : list[i].score \in Int
    BY DEF Holding
<1>2. D \in SUBSET Int
    BY <1>1, RankingIsAList
<1>3. DOMAIN score = D /\ \A i \in D : Fraction(score[i])
    BY <1>1 DEF Scores, Fraction
<1>4. \A i, j \in D : list[i].score > list[j].score => More(score[i], score[j])
    <2> SUFFICES ASSUME NEW i \in D, NEW j \in D, list[i].score > list[j].score
                 PROVE  More(score[i], score[j])
        OBVIOUS
    <2>1. score[i][1] = list[i].score /\ score[i][2] = 1 /\ score[j][1] = list[j].score /\ score[j][2] = 1
        BY DEF Scores
    <2>2. list[i].score \in Int /\ list[j].score \in Int
        BY <1>1
    <2> DEFINE a == list[i].score
               b == list[j].score
    <2>3. a \in Int /\ b \in Int /\ a > b
        BY <2>2
    <2>4. More(score[i], score[j]) <=> a * 1 > b * 1
        BY <2>1 DEF More
    <2> HIDE DEF a, b
    <2> QED
        BY <2>3, <2>4
<1> HIDE DEF score, D
<1>5. Orders(ByScore(score), D)
    BY <1>2, <1>3, ByScoreOrders
<1>6. \A i, j \in D : More(score[i], score[j]) => <<i, j>> \in ByScore(score)
    BY <1>2, <1>3, ByScoreOrders
<1> QED
    BY <1>4, <1>5, <1>6 DEF score, D

(* As the agent sorts them. *)
BestFirst(list) == Arranged(list, DOMAIN list, ByScore(Scores(list)))
(* Sorted, they are the same documents, the better ones first. *)
LEMMA SortedHolds ==
    ASSUME NEW list, Holding(list)
    PROVE  /\ Holding(BestFirst(list)) /\ Range(BestFirst(list)) = Range(list)
           /\ \A p, q \in DOMAIN BestFirst(list) : p < q => BestFirst(list)[p].score >= BestFirst(list)[q].score
<1> DEFINE before == ByScore(Scores(list))
           D == DOMAIN list
           sorted == Arranged(list, D, before)
<1>1. Ranking(list) /\ Orders(before, D)
    BY ScoresOrder DEF Holding
<1>2. IsFiniteSet(D)
    BY <1>1, RankingIsAList
<1>3. \A i, j \in D : list[i].score > list[j].score => <<i, j>> \in before
    BY ScoresOrder
<1> HIDE DEF before
<1>4. Ranking(sorted) /\ Range(sorted) = Range(list)
    BY <1>1, Reordering
<1>5. DOMAIN sorted = 1..Cardinality(D) /\ Cardinality(D) \in Nat
    BY <1>1, <1>2, ArrangedList
<1>6. \A p \in 1..Cardinality(D) : \E i \in D :
          sorted[p] = list[i] /\ Cardinality(Until(before, D, i)) = p
    BY <1>1, <1>2, ArrangedAt
<1>7. \A i \in D : list[i].score \in Int
    BY DEF Holding
<1>8. \A i, j \in D : list[i].id = list[j].id => i = j
    BY DEF Holding
<1> HIDE DEF sorted, D
<1>9. \A p \in DOMAIN sorted : sorted[p].score \in Int
    BY <1>5, <1>6, <1>7
<1>10. ASSUME NEW p \in DOMAIN sorted, NEW q \in DOMAIN sorted
       PROVE  /\ sorted[p].id = sorted[q].id => p = q
              /\ p < q => sorted[p].score >= sorted[q].score
    <2>1. PICK i \in D : sorted[p] = list[i] /\ Cardinality(Until(before, D, i)) = p
        BY <1>5, <1>6
    <2>2. PICK j \in D : sorted[q] = list[j] /\ Cardinality(Until(before, D, j)) = q
        BY <1>5, <1>6
    <2>3. sorted[p].id = sorted[q].id => p = q
        BY <1>8, <2>1, <2>2
    <2>4. ASSUME p < q
          PROVE  sorted[p].score >= sorted[q].score
        <3>1. p \in Int /\ q \in Int
            BY <1>5
        <3>2. ~ (q < p)
            BY <2>4, <3>1
        <3>3. <<j, i>> \notin before
            BY <1>1, <1>2, <2>1, <2>2, <3>2, RankKeepsTheOrder
        <3>4. ~ (list[j].score > list[i].score) /\ list[i].score \in Int /\ list[j].score \in Int
            BY <1>3, <1>7, <3>3
        <3>5. list[i].score >= list[j].score
            BY <3>4
        <3> QED
            BY <2>1, <2>2, <3>5
    <2> QED
        BY <2>3, <2>4
<1>11. Holding(sorted)
    BY <1>4, <1>9, <1>10 DEF Holding
<1> QED
    BY <1>4, <1>10, <1>11 DEF sorted, D, before, BestFirst

(* Of a document, a copy at least as good is held, or as many others that are. *)
Keeps(held, d) ==
    \/ \E p \in DOMAIN held : held[p].id = d.id /\ held[p].score >= d.score
    \/ Len(held) = MaxHeld /\ \A p \in DOMAIN held : held[p].score >= d.score
(* What is cut off a list comes after a full list. *)
LEMMA CutOrKept ==
    ASSUME NEW len \in Nat, NEW max \in Nat, NEW m \in Nat, m <= len, m \in {len, max},
           NEW q \in 1..len
    PROVE  q \in 1..m \/ (m = max /\ \A p \in 1..m : p < q /\ p \in 1..len)
OBVIOUS

(* What is sorted and cut keeps every document or as many that are as good. *)
LEMMA Holds ==
    ASSUME NEW list, Holding(list), NEW d, d.score \in Int,
           \E p \in DOMAIN list : list[p].id = d.id /\ list[p].score >= d.score
    PROVE  LET m == Min({Len(BestFirst(list)), MaxHeld}) IN Keeps(SubSeq(BestFirst(list), 1, m), d)
<1> DEFINE sorted == BestFirst(list)
           m == Min({Len(sorted), MaxHeld})
           held == SubSeq(sorted, 1, m)
<1>1. Holding(sorted) /\ Range(sorted) = Range(list)
    BY SortedHolds
<1>2. \A p, q \in DOMAIN sorted : p < q => sorted[p].score >= sorted[q].score
    BY SortedHolds
<1> HIDE DEF sorted
<1>3. Ranking(sorted) /\ \A i \in DOMAIN sorted : sorted[i].score \in Int
    BY <1>1 DEF Holding
<1>4. Len(sorted) \in Nat /\ DOMAIN sorted = 1..Len(sorted)
    BY <1>3, RankingIsAList
<1>5. m \in Nat /\ m <= Len(sorted) /\ m <= MaxHeld /\ m \in {Len(sorted), MaxHeld} /\ MaxHeld \in Nat
    BY <1>4, MinOfTwo, HeldAssumption
<1> HIDE DEF m
<1>6. Ranking(held) /\ DOMAIN held = 1..m /\ \A i \in 1..m : held[i] = sorted[i]
    BY <1>3, <1>5, TheFirst
<1>7. Len(held) = m
    BY <1>5, SubSeqProperties, <1>3, <1>4
<1> HIDE DEF held
<1>8. \E q \in DOMAIN sorted : sorted[q].id = d.id /\ sorted[q].score >= d.score
    BY <1>1 DEF Range
<1>9. PICK q \in 1..Len(sorted) : sorted[q].id = d.id /\ sorted[q].score >= d.score
    BY <1>4, <1>8
<1>10. q \in 1..m \/ (m = MaxHeld /\ \A p \in 1..m : p < q /\ p \in 1..Len(sorted))
    BY <1>4, <1>5, CutOrKept
<1>11. CASE q \in 1..m
    BY <1>6, <1>9, <1>11 DEF Keeps, held, m, sorted
<1>12. CASE m = MaxHeld /\ \A p \in 1..m : p < q /\ p \in 1..Len(sorted)
    <2>1. ASSUME NEW p \in 1..m
          PROVE  held[p].score >= d.score
        <3>1. p \in DOMAIN sorted /\ q \in DOMAIN sorted /\ p < q
            BY <1>4, <1>12
        <3>2. sorted[p].score >= sorted[q].score
            BY <1>2, <3>1
        <3>3. sorted[p].score \in Int /\ sorted[q].score \in Int
            BY <1>3, <3>1
        <3>4. sorted[p].score >= d.score
            BY <1>9, <3>2, <3>3
        <3> QED
            BY <1>6, <3>4
    <2>2. Keeps(held, d)
        BY <1>6, <1>7, <1>12, <2>1 DEF Keeps
    <2> QED
        BY <2>2 DEF held, m, sorted
<1> QED
    BY <1>10, <1>11, <1>12

(* What is held after a search: the best copy of each document, sorted and cut. *)
LEMMA UnionIsCut ==
    ASSUME NEW held, NEW docs
    PROVE  LET sorted == BestFirst(BestCopies(held \o docs))
           IN Union(held, docs) = SubSeq(sorted, 1, Min({Len(sorted), MaxHeld}))
BY DEF Union, SortedBy, BestFirst, Scores, BestCopies

(* It is each document once, no more than can be held, the best first. *)
LEMMA UnionHolds ==
    ASSUME NEW held, Scored(held), NEW docs, Scored(docs)
    PROVE  /\ Holding(Union(held, docs)) /\ Len(Union(held, docs)) <= MaxHeld
           /\ \A p, q \in DOMAIN Union(held, docs) :
                  p < q => Union(held, docs)[p].score >= Union(held, docs)[q].score
<1> DEFINE all == held \o docs
           merged == BestCopies(all)
           sorted == BestFirst(merged)
           m == Min({Len(sorted), MaxHeld})
           top == SubSeq(sorted, 1, m)
           n == Len(held) + Len(docs)
<1>1. n \in Nat /\ DOMAIN all = 1..n /\ \A i \in 1..n : all[i].score \in Int
    BY HeldAndFound
<1>2. Union(held, docs) = top
    BY UnionIsCut
<1> HIDE DEF all, n
<1>3. Holding(merged)
    BY <1>1, OneCopyEach
<1> HIDE DEF merged
<1>4. Holding(sorted) /\ \A p, q \in DOMAIN sorted : p < q => sorted[p].score >= sorted[q].score
    BY <1>3, SortedHolds
<1> HIDE DEF sorted
<1>5. Ranking(sorted) /\ \A i \in DOMAIN sorted : sorted[i].score \in Int
    BY <1>4 DEF Holding
<1>6. \A i, j \in DOMAIN sorted : sorted[i].id = sorted[j].id => i = j
    BY <1>4 DEF Holding
<1>7. Len(sorted) \in Nat /\ DOMAIN sorted = 1..Len(sorted)
    BY <1>5, RankingIsAList
<1>8. m \in Nat /\ m <= Len(sorted) /\ m <= MaxHeld /\ MaxHeld \in Nat
    BY <1>7, MinOfTwo, HeldAssumption
<1> HIDE DEF m
<1>9. Ranking(top) /\ DOMAIN top = 1..m /\ \A i \in 1..m : top[i] = sorted[i]
    BY <1>5, <1>8, TheFirst
<1>10. Len(top) = m
    BY <1>5, <1>7, <1>8, SubSeqProperties
<1> HIDE DEF top
<1>11. \A i \in 1..m : i \in DOMAIN sorted
    BY <1>7, <1>8
<1>12. Holding(top)
    BY <1>5, <1>6, <1>9, <1>11 DEF Holding
<1>13. \A p, q \in DOMAIN top : p < q => top[p].score >= top[q].score
    BY <1>4, <1>9, <1>11
<1> QED
    BY <1>2, <1>8, <1>10, <1>12, <1>13

(* Every document that was held or found is kept, or as many that are as good. *)
LEMMA UnionKeeps ==
    ASSUME NEW held, Scored(held), NEW docs, Scored(docs),
           NEW d \in Range(held) \cup Range(docs)
    PROVE  Keeps(Union(held, docs), d)
<1> DEFINE all == held \o docs
           merged == BestCopies(all)
           n == Len(held) + Len(docs)
<1>1. n \in Nat /\ DOMAIN all = 1..n /\ \A i \in 1..n : all[i].score \in Int
    BY HeldAndFound
<1>2. PICK i \in 1..n : all[i] = d
    <2>1. CASE d \in Range(held)
        <3>1. PICK j \in DOMAIN held : held[j] = d
            BY <2>1 DEF Range
        <3>2. j \in DOMAIN all /\ all[j] = held[j]
            BY HeldAndFound
        <3> QED
            BY <1>1, <3>1, <3>2
    <2>2. CASE d \in Range(docs)
        <3>1. PICK j \in DOMAIN docs : docs[j] = d
            BY <2>2 DEF Range
        <3>2. Len(held) + j \in DOMAIN all /\ all[Len(held) + j] = docs[j]
            BY HeldAndFound
        <3> QED
            BY <1>1, <3>1, <3>2
    <2> QED
        BY <2>1, <2>2
<1>3. Union(held, docs) = SubSeq(BestFirst(merged), 1, Min({Len(BestFirst(merged)), MaxHeld}))
    BY UnionIsCut
<1> HIDE DEF all, n
<1>4. d.score \in Int
    BY <1>1, <1>2
<1>5. Holding(merged)
    BY <1>1, OneCopyEach
<1>6. \E p \in DOMAIN merged : merged[p].id = d.id /\ merged[p].score >= d.score
    BY <1>1, <1>2, EachIsKept
<1> HIDE DEF merged
<1>7. Keeps(SubSeq(BestFirst(merged), 1, Min({Len(BestFirst(merged)), MaxHeld})), d)
    BY <1>4, <1>5, <1>6, Holds
<1> QED
    BY <1>3, <1>7

(* What is held is a list of documents with scores. *)
LEMMA HeldIsScored ==
    ASSUME NEW list, Holding(list)
    PROVE  Scored(list)
BY DEF Holding, Ranking, Scored

(* Where as many documents were held as can be, each as good as another, and all of them
   are kept, those held are again as many and as good. *)
LEMMA FullStaysFull ==
    ASSUME NEW held, Holding(held), NEW after, Holding(after), Len(after) <= MaxHeld,
           Len(held) = MaxHeld, NEW d, d.score \in Int, \A p \in DOMAIN held : held[p].score >= d.score,
           \A p \in DOMAIN held :
               \E q \in DOMAIN after : after[q].id = held[p].id /\ after[q].score >= held[p].score
    PROVE  Keeps(after, d)
<1> DEFINE D == DOMAIN held
           A == DOMAIN after
           at == [p \in D |-> CHOOSE q \in A : after[q].id = held[p].id /\ after[q].score >= held[p].score]
<1>1. /\ Ranking(held) /\ Ranking(after)
      /\ \A p \in D : held[p].score \in Int
      /\ \A q \in A : after[q].score \in Int
      /\ \A p, q \in D : held[p].id = held[q].id => p = q
    BY DEF Holding
<1>2. /\ IsFiniteSet(D) /\ Cardinality(D) = Len(held) /\ IsFiniteSet(A) /\ Cardinality(A) = Len(after)
      /\ Len(held) \in Nat /\ Len(after) \in Nat
    BY <1>1, RankingIsAList
<1> HIDE DEF D, A
<1>3. \A p \in D : at[p] \in A /\ after[at[p]].id = held[p].id /\ after[at[p]].score >= held[p].score
    BY DEF D, A
<1>4. at \in [D -> A]
    BY <1>3
<1> HIDE DEF at
<1>5. at \in Injection(D, A)
    BY <1>1, <1>3, <1>4 DEF Injection, IsInjective
<1>6. Cardinality(D) <= Cardinality(A)
    BY <1>2, <1>5, FS_Injection
<1>7. Len(after) = MaxHeld /\ Cardinality(D) = Cardinality(A)
    BY <1>2, <1>6
<1>8. at \in Surjection(D, A)
    BY <1>2, <1>5, <1>7, FS_Injection
<1>9. ASSUME NEW q \in A
      PROVE  after[q].score >= d.score
    <2>1. PICK p \in D : at[p] = q
        BY <1>8 DEF Surjection
    <2>2. after[q].score >= held[p].score /\ held[p].score >= d.score
        BY <1>3, <2>1 DEF D
    <2>3. after[q].score \in Int /\ held[p].score \in Int
        BY <1>1
    <2> QED
        BY <2>2, <2>3
<1> QED
    BY <1>7, <1>9 DEF Keeps, A

(* Two searches. *)
LEMMA HoldingTheBest ==
    ASSUME NEW first, Scored(first), NEW second, Scored(second)
    PROVE  BestAreHeld(first, second)
<1> DEFINE once == Union(<<>>, first)
           held == Union(once, second)
<1>1. Scored(<<>>)
    BY DEF Scored
<1>2. Holding(once) /\ Scored(once)
    BY <1>1, UnionHolds, HeldIsScored
<1>3. \A d \in Range(first) : Keeps(once, d) /\ d.score \in Int
    BY <1>1, UnionKeeps, ScoredList
<1> HIDE DEF once
<1>4. /\ Holding(held) /\ Len(held) <= MaxHeld
      /\ \A p, q \in DOMAIN held : p < q => held[p].score >= held[q].score
    BY <1>2, UnionHolds
<1>5. \A d \in Range(once) \cup Range(second) : Keeps(held, d)
    BY <1>2, UnionKeeps
<1>6. \A d \in Range(second) : d.score \in Int
    BY ScoredList
<1> HIDE DEF held
<1>7. /\ \A p, q \in DOMAIN held : held[p].id = held[q].id => p = q
      /\ \A p \in DOMAIN held : held[p].score \in Int /\ p \in Int
    <2>1. DOMAIN held = 1..Len(held) /\ Len(held) \in Nat
        BY <1>4, RankingIsAList DEF Holding
    <2> QED
        BY <1>4, <2>1 DEF Holding
<1>8. \A p \in DOMAIN once : once[p] \in Range(once) /\ once[p].score \in Int
    BY <1>2 DEF Range, Holding
<1>9. ASSUME NEW d \in Range(first)
      PROVE  Keeps(held, d)
    <2>1. d.score \in Int
        BY <1>3
    <2>2. ASSUME NEW p \in DOMAIN once, once[p].score >= d.score,
                 Len(held) = MaxHeld, \A q \in DOMAIN held : held[q].score >= once[p].score
          PROVE  Keeps(held, d)
        <3>1. ASSUME NEW q \in DOMAIN held
              PROVE  held[q].score >= d.score
            <4>1. held[q].score \in Int /\ once[p].score \in Int
                BY <1>7, <1>8
            <4>2. held[q].score >= once[p].score
                BY <2>2
            <4> QED
                BY <2>1, <2>2, <4>1, <4>2
        <3> QED
            BY <2>2, <3>1 DEF Keeps
    <2>3. CASE \E p \in DOMAIN once : once[p].id = d.id /\ once[p].score >= d.score
        <3>1. PICK p \in DOMAIN once : once[p].id = d.id /\ once[p].score >= d.score
            BY <2>3
        <3>2. Keeps(held, once[p])
            BY <1>5, <1>8
        <3>3. CASE \E q \in DOMAIN held : held[q].id = once[p].id /\ held[q].score >= once[p].score
            <4>1. PICK q \in DOMAIN held : held[q].id = once[p].id /\ held[q].score >= once[p].score
                BY <3>3
            <4>2. held[q].score \in Int /\ once[p].score \in Int
                BY <1>7, <1>8
            <4>3. held[q].id = d.id /\ held[q].score >= d.score
                BY <2>1, <3>1, <4>1, <4>2
            <4> QED
                BY <4>3 DEF Keeps
        <3> QED
            BY <2>2, <3>1, <3>2, <3>3 DEF Keeps
    <2>4. CASE Len(once) = MaxHeld /\ \A p \in DOMAIN once : once[p].score >= d.score
        <3>1. CASE \A p \in DOMAIN once :
                       \E q \in DOMAIN held : held[q].id = once[p].id /\ held[q].score >= once[p].score
            BY <1>2, <1>4, <2>1, <2>4, <3>1, FullStaysFull
        <3>2. CASE \E p \in DOMAIN once :
                       ~ \E q \in DOMAIN held : held[q].id = once[p].id /\ held[q].score >= once[p].score
            <4>1. PICK p \in DOMAIN once :
                      ~ \E q \in DOMAIN held : held[q].id = once[p].id /\ held[q].score >= once[p].score
                BY <3>2
            <4>2. Keeps(held, once[p])
                BY <1>5, <1>8
            <4>3. Len(held) = MaxHeld /\ \A q \in DOMAIN held : held[q].score >= once[p].score
                BY <4>1, <4>2 DEF Keeps
            <4> QED
                BY <2>2, <2>4, <4>3
        <3> QED
            BY <3>1, <3>2
    <2> QED
        BY <1>3, <2>3, <2>4 DEF Keeps
<1>10. \A i, j \in DOMAIN held : i < j => held[i].id # held[j].id /\ held[i].score >= held[j].score
    <2> SUFFICES ASSUME NEW i \in DOMAIN held, NEW j \in DOMAIN held, i < j
                 PROVE  held[i].id # held[j].id /\ held[i].score >= held[j].score
        OBVIOUS
    <2>1. i # j
        BY <1>7
    <2> QED
        BY <1>4, <1>7, <2>1
<1>11. \A d \in Range(first) \cup Range(second) : Keeps(held, d)
    BY <1>5, <1>9
<1> QED
    BY <1>10, <1>11 DEF BestAreHeld, Keeps, held, once

(* The agent holds the best of what two searches found: of each document a copy at
   least as good, or as many others that are (nodes.retrieve). *)
THEOREM HoldsTheBest == Spec => []BestOfBoth
<1>1. Init => BestOfBoth
    <2> SUFFICES ASSUME Init, case.kind = "held"
                 PROVE  BestAreHeld(case.of.first, case.of.second)
        BY DEF BestOfBoth
    <2>1. case.of \in HeldCases
        BY DEF Init, Cases
    <2>2. Scored(case.of.first) /\ Scored(case.of.second)
        BY <2>1, HeldAssumption DEF Scored
    <2> QED
        BY <2>2, HoldingTheBest
<1>2. BestOfBoth /\ [Next]_case => BestOfBoth'
    BY DEF BestOfBoth, Next
<1> QED
    BY <1>1, <1>2, PTL DEF Spec

(* A search keeps the best of its two rankers, from their fusion to the documents the
   agent holds and to the recall it is given for them (retrieval.py, nodes.retrieve,
   retrieval_eval.py). *)
THEOREM BestIsKept == Spec => []SearchKeepsTheBest
<1>1. AgreementStands /\ RecallIsOfDocuments /\ BestOfBoth => SearchKeepsTheBest
    BY DEF SearchKeepsTheBest
<1> QED
    BY <1>1, Agreement, Recall, HoldsTheBest, PTL

------------------------------------------------------------------------------
(* Sums.  A sum over a finite set is taken member by member, in whatever order. *)

(* A set of numbers that holds 0, and each number whose predecessor it holds. *)
LEMMA Climbing ==
    ASSUME NEW n \in Nat, NEW P, 0 \in P, \A k \in 1..n : k - 1 \in P => k \in P
    PROVE  n \in P
<1> SUFFICES ASSUME n \notin P
             PROVE  FALSE
    OBVIOUS
<1> DEFINE missing == {k \in 1..n : k \notin P}
<1>1. missing \in SUBSET (1..n) /\ missing # {}
    OBVIOUS
<1>2. Min(missing) \in missing /\ \A i \in missing : Min(missing) <= i
    BY <1>1, Earliest
<1> DEFINE k == Min(missing)
<1>3. k \in 1..n /\ k - 1 \notin P
    BY <1>2
<1>4. k - 1 \in 1..n
    <2>1. k # 1
        BY <1>3
    <2> QED
        BY <1>3, <2>1
<1>5. k - 1 \in missing
    BY <1>3, <1>4
<1>6. k <= k - 1
    BY <1>2, <1>5
<1> QED
    BY <1>3, <1>6

(* Those of U that are of one of the kinds of s. *)
OfOneOf(U, kind, s) == {i \in U : kind[i] \in s}

(* A kind more adds those of it. *)
LEMMA OneKindMore ==
    ASSUME NEW U, IsFiniteSet(U), NEW kind, NEW s, NEW x \in s
    PROVE  /\ Cardinality(OfOneOf(U, kind, s)) \in Nat
           /\ Cardinality(OfOneOf(U, kind, {x})) \in Nat
           /\ Cardinality(OfOneOf(U, kind, s))
                  = Cardinality(OfOneOf(U, kind, {x})) + Cardinality(OfOneOf(U, kind, s \ {x}))
<1> DEFINE A == OfOneOf(U, kind, {x})
           B == OfOneOf(U, kind, s \ {x})
           C == OfOneOf(U, kind, s)
<1>1. C = A \cup B /\ A \cap B = {}
    BY DEF OfOneOf
<1>2. A \in SUBSET U /\ B \in SUBSET U /\ C \in SUBSET U
    BY DEF OfOneOf
<1> HIDE DEF A, B, C
<1>3. IsFiniteSet(A) /\ IsFiniteSet(B) /\ IsFiniteSet(C)
    BY <1>2, FS_Subset
<1>4. Cardinality(A) \in Nat /\ Cardinality(B) \in Nat /\ Cardinality(C) \in Nat
    BY <1>3, FS_CardinalityType
<1>5. Cardinality(A \cup B) = Cardinality(A) + Cardinality(B) - Cardinality(A \cap B)
    BY <1>3, FS_Union
<1>6. Cardinality(A \cap B) = 0
    BY <1>1, FS_EmptySet
<1>7. Cardinality(C) = Cardinality(A) + Cardinality(B)
    BY <1>1, <1>4, <1>5, <1>6
<1> QED
    BY <1>4, <1>7 DEF A, B, C

(* What the sum of a function is computed by: over any set of its places, one of them
   and the sum over the others. *)
Sums(fun, g) ==
    g = [s \in SUBSET (DOMAIN fun) |->
            IF s = {} THEN 0
            ELSE fun[CHOOSE x \in s : TRUE] + g[s \ {CHOOSE x \in s : TRUE}]]

(* The sum of a function is computed that way. *)
LEMMA SumIsComputed ==
    ASSUME NEW fun, NEW g, Sums(fun, g)
    PROVE  \E h : Sums(fun, h) /\ SumFunction(fun) = h[DOMAIN fun]
<1> DEFINE h == CHOOSE h : Sums(fun, h)
<1>1. Sums(fun, h)
    OBVIOUS
<1>2. SumFunction(fun) = h[DOMAIN fun]
    BY DEF SumFunction, SumFunctionOnSet, FoldFunctionOnSet, MapThenFoldSet, Sums
<1> QED
    BY <1>1, <1>2

(* How it goes on, at one set of places. *)
LEMMA SumsStep ==
    ASSUME NEW fun, NEW g, Sums(fun, g), NEW s \in SUBSET (DOMAIN fun)
    PROVE  /\ s = {} => g[s] = 0
           /\ s # {} => \E x \in s : g[s] = fun[x] + g[s \ {x}]
<1>1. g[s] = IF s = {} THEN 0 ELSE fun[CHOOSE x \in s : TRUE] + g[s \ {CHOOSE x \in s : TRUE}]
    BY Zenon DEF Sums
<1>2. s # {} => (CHOOSE x \in s : TRUE) \in s
    OBVIOUS
<1> QED
    BY <1>1, <1>2

(* How many there are of each kind is computed that way, and adds up to all. *)
LEMMA KindsAreSummed ==
    ASSUME NEW U, IsFiniteSet(U), NEW kind, NEW fun,
           \A k \in DOMAIN fun : fun[k] = Cardinality(OfOneOf(U, kind, {k}))
    PROVE  Sums(fun, [s \in SUBSET (DOMAIN fun) |-> Cardinality(OfOneOf(U, kind, s))])
<1> DEFINE K == DOMAIN fun
           g == [s \in SUBSET K |-> Cardinality(OfOneOf(U, kind, s))]
<1>1. ASSUME NEW s \in SUBSET K
      PROVE  g[s] = IF s = {} THEN 0
                    ELSE fun[CHOOSE x \in s : TRUE] + g[s \ {CHOOSE x \in s : TRUE}]
    <2>1. CASE s = {}
        <3>1. OfOneOf(U, kind, s) = {}
            BY <2>1 DEF OfOneOf
        <3> QED
            BY <2>1, <3>1, FS_EmptySet
    <2>2. CASE s # {}
        <3> DEFINE x == CHOOSE x \in s : TRUE
        <3>1. x \in s
            BY <2>2
        <3> HIDE DEF x
        <3>2. g[s] = Cardinality(OfOneOf(U, kind, s)) /\ g[s \ {x}] = Cardinality(OfOneOf(U, kind, s \ {x}))
            OBVIOUS
        <3>3. fun[x] = Cardinality(OfOneOf(U, kind, {x}))
            BY <3>1
        <3>4. g[s] = fun[x] + g[s \ {x}]
            BY <3>1, <3>2, <3>3, OneKindMore
        <3> QED
            BY <2>2, <3>4 DEF x
    <2> QED
        BY <2>1, <2>2
<1>2. g = [s \in SUBSET K |-> g[s]]
    OBVIOUS
<1> HIDE DEF g
<1>3. g = [s \in SUBSET K |->
              IF s = {} THEN 0 ELSE fun[CHOOSE x \in s : TRUE] + g[s \ {CHOOSE x \in s : TRUE}]]
    BY <1>1, <1>2, Zenon
<1> QED
    BY <1>3 DEF Sums, g

(* There is one sum. *)
LEMMA SumIsOne ==
    ASSUME NEW fun, IsFiniteSet(DOMAIN fun), NEW g, NEW h, Sums(fun, g), Sums(fun, h)
    PROVE  g[DOMAIN fun] = h[DOMAIN fun]
<1> DEFINE K == DOMAIN fun
           n == Cardinality(K)
           P == {k \in 0..n : \A s \in SUBSET K : Cardinality(s) = k => g[s] = h[s]}
<1>1. n \in Nat
    BY FS_CardinalityType
<1>2. \A s \in SUBSET K : IsFiniteSet(s) /\ Cardinality(s) \in Nat
    BY FS_Subset, FS_CardinalityType
<1>3. 0 \in P
    <2>1. \A s \in SUBSET K : Cardinality(s) = 0 => s = {}
        BY <1>2, FS_EmptySet
    <2>2. g[{}] = 0 /\ h[{}] = 0
        BY SumsStep
    <2> QED
        BY <1>1, <2>1, <2>2
<1>4. ASSUME NEW k \in 1..n, k - 1 \in P
      PROVE  k \in P
    <2> SUFFICES ASSUME NEW s \in SUBSET K, Cardinality(s) = k
                 PROVE  g[s] = h[s]
        BY <1>1
    <2> DEFINE x == CHOOSE x \in s : TRUE
    <2>1. s # {}
        BY <1>1, FS_EmptySet
    <2>2. x \in s
        BY <2>1
    <2>3. g[s] = fun[x] + g[s \ {x}] /\ h[s] = fun[x] + h[s \ {x}]
        BY <2>1, Zenon DEF Sums
    <2> HIDE DEF x
    <2>4. s \ {x} \in SUBSET K /\ Cardinality(s \ {x}) = k - 1
        BY <1>2, <2>2, FS_RemoveElement
    <2> QED
        BY <1>4, <2>3, <2>4
<1> HIDE DEF P
<1>5. n \in P
    BY <1>1, <1>3, <1>4, Climbing
<1> QED
    BY <1>5 DEF P

(* How many there are of each kind adds up to how many there are. *)
LEMMA Counting ==
    ASSUME NEW U, IsFiniteSet(U), NEW kind, NEW fun, IsFiniteSet(DOMAIN fun),
           \A i \in U : kind[i] \in DOMAIN fun,
           \A k \in DOMAIN fun : fun[k] = Cardinality(OfOneOf(U, kind, {k}))
    PROVE  SumFunction(fun) = Cardinality(U)
<1> DEFINE g == [s \in SUBSET (DOMAIN fun) |-> Cardinality(OfOneOf(U, kind, s))]
<1>1. Sums(fun, g)
    BY KindsAreSummed
<1>2. OfOneOf(U, kind, DOMAIN fun) = U
    BY DEF OfOneOf
<1>3. g[DOMAIN fun] = Cardinality(U)
    BY <1>2
<1> HIDE DEF g
<1>4. PICK h : Sums(fun, h) /\ SumFunction(fun) = h[DOMAIN fun]
    BY <1>1, SumIsComputed
<1>5. g[DOMAIN fun] = h[DOMAIN fun]
    BY <1>1, <1>4, SumIsOne
<1> QED
    BY <1>3, <1>4, <1>5

------------------------------------------------------------------------------
(* The agreement with the judge. *)

(* Pairs of claims given the same label, by the one and by the other. *)
Alike(a, b) == {p \in (DOMAIN a) \X (DOMAIN b) : a[p[1]] = b[p[2]]}
Labelled(a, label) == {i \in DOMAIN a : a[i] = label}
Expected(a, b) ==
    SumFunction([label \in Range(a) \cup Range(b) |->
                    Cardinality(Labelled(a, label)) * Cardinality(Labelled(b, label))])
Agreed(a, b) == {i \in DOMAIN a : a[i] = b[i]}
Verdicts(a) == a \in Seq({a[i] : i \in DOMAIN a})

(* Kappa, by its parts. *)
LEMMA KappaIs ==
    ASSUME NEW a, NEW b
    PROVE  Kappa(a, b) =
               IF Len(a) = 0 \/ Len(a) # Len(b) THEN <<0, 1>>
               ELSE IF Expected(a, b) >= Len(a) * Len(a)
                    THEN <<IF Cardinality(Agreed(a, b)) = Len(a) THEN 1 ELSE 0, 1>>
                    ELSE <<Len(a) * Cardinality(Agreed(a, b)) - Expected(a, b),
                           Len(a) * Len(a) - Expected(a, b)>>
BY Zenon DEF Kappa, Expected, Labelled, Agreed

(* There are finitely many claims. *)
LEMMA ClaimsAreFinite ==
    ASSUME NEW a, Verdicts(a)
    PROVE  /\ Len(a) \in Nat /\ DOMAIN a = 1..Len(a) /\ IsFiniteSet(DOMAIN a)
           /\ Cardinality(DOMAIN a) = Len(a) /\ IsFiniteSet(Range(a))
<1>1. Len(a) \in Nat /\ DOMAIN a = 1..Len(a)
    BY DEF Verdicts
<1>2. IsFiniteSet(1..Len(a)) /\ Cardinality(1..Len(a)) = IF 1 > Len(a) THEN 0 ELSE Len(a) - 1 + 1
    BY <1>1, FS_Interval
<1>3. a \in Surjection(DOMAIN a, Range(a))
    <2>1. a = [i \in DOMAIN a |-> a[i]]
        BY DEF Verdicts
    <2> QED
        BY <2>1 DEF Surjection, Range
<1> QED
    BY <1>1, <1>2, <1>3, FS_Surjection

(* A pair of them is one of the product. *)
LEMMA PairsOfClaims ==
    ASSUME NEW a, NEW b, Verdicts(a), Verdicts(b)
    PROVE  /\ IsFiniteSet((DOMAIN a) \X (DOMAIN b))
           /\ Cardinality((DOMAIN a) \X (DOMAIN b)) = Len(a) * Len(b)
<1>1. /\ IsFiniteSet(DOMAIN a) /\ IsFiniteSet(DOMAIN b)
      /\ Cardinality(DOMAIN a) = Len(a) /\ Cardinality(DOMAIN b) = Len(b)
    BY ClaimsAreFinite
<1> QED
    BY <1>1, FS_Product

(* What agreement is expected of the two is how many pairs are alike. *)
LEMMA ExpectedIsAlike ==
    ASSUME NEW a, NEW b, Verdicts(a), Verdicts(b)
    PROVE  /\ IsFiniteSet(Alike(a, b)) /\ Cardinality(Alike(a, b)) \in Nat
           /\ Cardinality(Alike(a, b)) <= Len(a) * Len(b)
           /\ Expected(a, b) = Cardinality(Alike(a, b))
<1> DEFINE E == Alike(a, b)
           K == Range(a) \cup Range(b)
           kind == [p \in E |-> a[p[1]]]
           Size(label) == Cardinality(Labelled(a, label)) * Cardinality(Labelled(b, label))
           fun == [label \in K |-> Size(label)]
<1>1. IsFiniteSet(DOMAIN a) /\ IsFiniteSet(DOMAIN b)
    BY ClaimsAreFinite
<1>2. /\ IsFiniteSet((DOMAIN a) \X (DOMAIN b))
      /\ Cardinality((DOMAIN a) \X (DOMAIN b)) = Len(a) * Len(b)
    BY PairsOfClaims
<1>3. E \in SUBSET ((DOMAIN a) \X (DOMAIN b))
    BY DEF Alike
<1>4. IsFiniteSet(E) /\ Cardinality(E) <= Len(a) * Len(b)
    BY <1>2, <1>3, FS_Subset
<1>5. Cardinality(E) \in Nat
    BY <1>4, FS_CardinalityType
<1>6. IsFiniteSet(K)
    BY ClaimsAreFinite, FS_Union
<1>7. ASSUME NEW label \in K
      PROVE  Size(label) = Cardinality(OfOneOf(E, kind, {label}))
    <2> DEFINE A == Labelled(a, label)
               B == Labelled(b, label)
    <2>1. A \in SUBSET DOMAIN a /\ B \in SUBSET DOMAIN b
        BY DEF Labelled
    <2>2. OfOneOf(E, kind, {label}) = A \X B
        BY DEF OfOneOf, Alike, Labelled
    <2> HIDE DEF A, B
    <2>3. IsFiniteSet(A) /\ IsFiniteSet(B)
        BY <1>1, <2>1, FS_Subset
    <2>4. Cardinality(A \X B) = Cardinality(A) * Cardinality(B)
        BY <2>3, FS_Product
    <2> QED
        BY <2>2, <2>4 DEF A, B
<1>8. \A p \in E : kind[p] \in K
    BY <1>3 DEF Range
<1>9. DOMAIN fun = K /\ \A label \in K : fun[label] = Size(label)
    OBVIOUS
<1>10. Expected(a, b) = SumFunction(fun)
    BY DEF Expected
<1> HIDE DEF fun, kind, K, E, Size
<1>11. SumFunction(fun) = Cardinality(E)
    BY <1>4, <1>6, <1>7, <1>8, <1>9, Counting
<1> QED
    BY <1>4, <1>5, <1>10, <1>11 DEF E

(* All claims are agreed on only where the verdicts are the same. *)
LEMMA FullAgreement ==
    ASSUME NEW a, NEW b, Verdicts(a), Verdicts(b), Len(a) = Len(b)
    PROVE  /\ Cardinality(Agreed(a, b)) \in 0..Len(a)
           /\ Cardinality(Agreed(a, b)) = Len(a) <=> a = b
           /\ Len(a) # 0 /\ Cardinality(Alike(a, b)) = Len(a) * Len(a) => a = b
<1>1. /\ Len(a) \in Nat /\ DOMAIN a = 1..Len(a) /\ DOMAIN b = DOMAIN a
      /\ IsFiniteSet(DOMAIN a) /\ Cardinality(DOMAIN a) = Len(a)
    BY ClaimsAreFinite
<1>2. Agreed(a, b) \in SUBSET DOMAIN a
    BY DEF Agreed
<1>3. /\ IsFiniteSet(Agreed(a, b)) /\ Cardinality(Agreed(a, b)) <= Len(a)
      /\ Cardinality(Agreed(a, b)) = Len(a) => Agreed(a, b) = DOMAIN a
    BY <1>1, <1>2, FS_Subset
<1>4. Cardinality(Agreed(a, b)) \in Nat
    BY <1>3, FS_CardinalityType
<1>5. (\A i \in DOMAIN a : a[i] = b[i]) => a = b
    <2>1. a = [i \in DOMAIN a |-> a[i]] /\ b = [i \in DOMAIN b |-> b[i]]
        BY DEF Verdicts
    <2> QED
        BY <1>1, <2>1
<1>6. Agreed(a, b) = DOMAIN a <=> \A i \in DOMAIN a : a[i] = b[i]
    BY DEF Agreed
<1>7. /\ IsFiniteSet((DOMAIN a) \X (DOMAIN b))
      /\ Cardinality((DOMAIN a) \X (DOMAIN b)) = Len(a) * Len(a)
    BY PairsOfClaims
<1>8. Len(a) # 0 /\ Cardinality(Alike(a, b)) = Len(a) * Len(a) => a = b
    <2> SUFFICES ASSUME Cardinality(Alike(a, b)) = Len(a) * Len(a)
                 PROVE  \A i \in DOMAIN a : a[i] = b[i]
        BY <1>5
    <2>2. Alike(a, b) \in SUBSET ((DOMAIN a) \X (DOMAIN b))
        BY DEF Alike
    <2>3. Alike(a, b) = (DOMAIN a) \X (DOMAIN b)
        BY <1>7, <2>2, FS_Subset
    <2>4. \A i \in DOMAIN a : <<i, i>> \in Alike(a, b)
        BY <1>1, <2>3
    <2> QED
        BY <2>4 DEF Alike
<1> QED
    BY <1>1, <1>3, <1>4, <1>5, <1>6, <1>8

(* A judge that says the same of every claim agrees as often as is expected. *)
LEMMA OneVerdict ==
    ASSUME NEW a, NEW b, Verdicts(a), Verdicts(b), Len(a) = Len(b), Cardinality(Range(b)) = 1
    PROVE  Cardinality(Alike(a, b)) = Len(a) * Cardinality(Agreed(a, b))
<1>1. /\ Len(a) \in Nat /\ DOMAIN b = DOMAIN a
      /\ IsFiniteSet(DOMAIN a) /\ Cardinality(DOMAIN a) = Len(a) /\ IsFiniteSet(Range(b))
    BY ClaimsAreFinite
<1>2. PICK verdict : Range(b) = {verdict}
    BY <1>1, FS_Singleton
<1>3. \A i \in DOMAIN a : b[i] = verdict
    BY <1>1, <1>2 DEF Range
<1>4. Alike(a, b) = Agreed(a, b) \X DOMAIN a
    BY <1>1, <1>3 DEF Alike, Agreed
<1>5. IsFiniteSet(Agreed(a, b))
    <2>1. Agreed(a, b) \in SUBSET DOMAIN a
        BY DEF Agreed
    <2> QED
        BY <1>1, <2>1, FS_Subset
<1>6. Cardinality(Agreed(a, b) \X DOMAIN a) = Cardinality(Agreed(a, b)) * Len(a)
    BY <1>1, <1>5, FS_Product
<1>7. Cardinality(Agreed(a, b)) \in Nat
    BY <1>5, FS_CardinalityType
<1> QED
    BY <1>1, <1>4, <1>6, <1>7

(* An agreement that is no more than expected is worth nothing, and only full agreement
   is worth all. *)
LEMMA EarningKappa ==
    ASSUME NEW a, NEW b, Verdicts(a), Verdicts(b)
    PROVE  KappaIsEarned(a, b)
<1> DEFINE k == Kappa(a, b)
           n == Len(a)
           g == Cardinality(Agreed(a, b))
           e == Expected(a, b)
<1> SUFFICES ASSUME a # <<>>
             PROVE  /\ k[1] <= k[2] /\ k[2] > 0
                    /\ k[1] = k[2] <=> a = b
                    /\ Cardinality(Range(b)) = 1 /\ a # b => k[1] = 0
    BY DEF KappaIsEarned
<1>1. n \in Nat /\ n # 0
    BY ClaimsAreFinite DEF Verdicts
<1>2. k = IF n = 0 \/ n # Len(b) THEN <<0, 1>>
          ELSE IF e >= n * n THEN <<IF g = n THEN 1 ELSE 0, 1>>
          ELSE <<n * g - e, n * n - e>>
    BY KappaIs
<1>3. CASE n # Len(b)
    <2>1. a # b
        BY <1>3
    <2> QED
        BY <1>2, <1>3, <2>1
<1>4. CASE n = Len(b)
    <2>1. /\ e = Cardinality(Alike(a, b)) /\ e \in Nat /\ e <= n * n
          /\ g \in 0..n /\ (g = n <=> a = b) /\ (e = n * n => a = b)
        BY <1>1, <1>4, ExpectedIsAlike, FullAgreement
    <2>2. Cardinality(Range(b)) = 1 => e = n * g
        BY <1>4, <2>1, OneVerdict
    <2> HIDE DEF k, n, g, e
    <2>3. n * n \in Nat /\ n * g \in Nat
        BY <1>1, <2>1
    <2>4. n * g <= n * n /\ (n * g = n * n <=> g = n)
        <3>1. n * n >= n * g /\ (n * g >= n * n => g >= n)
            BY <1>1, <2>1, TimesPositive
        <3> QED
            BY <1>1, <2>1, <2>3, <3>1
    <2>5. CASE e >= n * n
        <3>1. e = n * n
            BY <2>1, <2>3, <2>5
        <3>2. a = b /\ g = n
            BY <2>1, <3>1
        <3>3. k = <<1, 1>>
            BY <1>1, <1>2, <1>4, <2>5, <3>2 DEF n
        <3> QED
            BY <3>2, <3>3
    <2>6. CASE ~ (e >= n * n)
        <3>1. k = <<n * g - e, n * n - e>>
            BY <1>1, <1>2, <1>4, <2>6
        <3> QED
            BY <2>1, <2>2, <2>3, <2>4, <2>6, <3>1
    <2> QED
        BY <2>5, <2>6
<1> QED
    BY <1>3, <1>4

------------------------------------------------------------------------------
(* What is reported of a run. *)

(* The results of a run. *)
Reported(results) ==
    /\ results \in Seq({results[i] : i \in DOMAIN results}) /\ results # <<>>
    /\ \A i \in DOMAIN results :
           /\ results[i].latency \in Nat /\ results[i].success \in BOOLEAN
           /\ ~ results[i].success => results[i].note # NoNote

(* A run has results, finitely many. *)
LEMMA ResultsAreFinite ==
    ASSUME NEW results, Reported(results)
    PROVE  /\ Len(results) \in Nat \ {0} /\ DOMAIN results = 1..Len(results)
           /\ IsFiniteSet(DOMAIN results) /\ Cardinality(DOMAIN results) = Len(results)
<1>1. Len(results) \in Nat /\ DOMAIN results = 1..Len(results) /\ Len(results) # 0
    BY DEF Reported
<1>2. IsFiniteSet(1..Len(results))
      /\ Cardinality(1..Len(results)) = IF 1 > Len(results) THEN 0 ELSE Len(results) - 1 + 1
    BY <1>1, FS_Interval
<1> QED
    BY <1>1, <1>2

(* Numbers in ascending order are in an order. *)
LEMMA UpwardsOrders ==
    ASSUME NEW list, DOMAIN list \in SUBSET Int, \A i \in DOMAIN list : list[i] \in Int
    PROVE  Orders(Upwards(list), DOMAIN list)
<1> DEFINE D == DOMAIN list
<1>1. \A i, j \in D : <<i, j>> \in Upwards(list) <=> list[i] < list[j] \/ (list[i] = list[j] /\ i < j)
    BY DEF Upwards
<1>2. Upwards(list) \in SUBSET (D \X D)
    BY DEF Upwards
<1>3. \A i \in D : i \in Int /\ list[i] \in Int
    OBVIOUS
<1> QED
    BY <1>1, <1>2, <1>3 DEF Orders

(* 95 of 100, rounded up. *)
LEMMA CeilOf95 ==
    ASSUME NEW n \in Nat \ {0}
    PROVE  LET c == CeilOf95Percent(n)
           IN c \in 1..n /\ 100 * c >= 95 * n /\ 100 * (c - 1) < 95 * n
BY DEF CeilOf95Percent

(* The place of the 95th percentile is one of the list's. *)
LEMMA CeilIsAPlace ==
    ASSUME NEW n \in Nat \ {0}
    PROVE  Min({n, CeilOf95Percent(n)}) = CeilOf95Percent(n)
<1> DEFINE c == CeilOf95Percent(n)
<1>1. c \in 1..n
    BY CeilOf95
<1> HIDE DEF c
<1>2. Min({n, c}) \in {n, c} /\ Min({n, c}) <= c
    BY <1>1, MinOfTwo
<1>3. Min({n, c}) = c
    BY <1>1, <1>2
<1> QED
    BY <1>3 DEF c

(* p95 is one of the numbers, that at least 95 of 100 do not exceed, and no smaller one is
   so. *)
LEMMA NinetyFive ==
    ASSUME NEW list, NEW n \in Nat \ {0}, DOMAIN list = 1..n, \A i \in 1..n : list[i] \in Int
    PROVE  /\ P95(Ascending(list)) \in Int
           /\ 100 * Cardinality({i \in 1..n : list[i] <= P95(Ascending(list))}) >= 95 * n
           /\ \A i \in 1..n :
                  100 * Cardinality({j \in 1..n : list[j] <= list[i]}) >= 95 * n
                      => P95(Ascending(list)) <= list[i]
<1> DEFINE D == 1..n
           up == Upwards(list)
           c == CeilOf95Percent(n)
           NotAbove(l) == {j \in D : list[j] <= l}
<1>1. IsFiniteSet(D) /\ Cardinality(D) = n
    BY FS_Interval
<1>2. Orders(up, D)
    BY UpwardsOrders
<1>a. DOMAIN list = D
    OBVIOUS
<1> HIDE DEF D, up
<1>3. Len(Arranged(list, D, up)) = n
    BY <1>1, <1>2, ArrangedList
<1>4. P95(Ascending(list)) = Arranged(list, D, up)[c]
    BY <1>3, <1>a, CeilIsAPlace DEF P95, Ascending, up
<1>5. c \in 1..n /\ 100 * c >= 95 * n /\ 100 * (c - 1) < 95 * n
    BY CeilOf95
<1>6. \A i, j \in D : <<i, j>> \in up <=> list[i] < list[j] \/ (list[i] = list[j] /\ i < j)
    BY <1>a DEF Upwards, up
<1> HIDE DEF c
<1>7. c \in 1..Cardinality(D)
    BY <1>1, <1>5
<1>8. PICK i \in D : Arranged(list, D, up)[c] = list[i] /\ Cardinality(Until(up, D, i)) = c
    BY <1>1, <1>2, <1>7, ArrangedAt
<1>9. \A l : IsFiniteSet(NotAbove(l)) /\ Cardinality(NotAbove(l)) \in Nat
    BY <1>1, FS_Subset, FS_CardinalityType
<1>10. IsFiniteSet(Until(up, D, i))
    BY <1>1, <1>2, RankIsAPlace
<1>11. 100 * Cardinality(NotAbove(list[i])) >= 95 * n
    <2>1. Until(up, D, i) \in SUBSET NotAbove(list[i])
        BY <1>6 DEF Until, D
    <2> HIDE DEF NotAbove
    <2>2. c <= Cardinality(NotAbove(list[i]))
        BY <1>8, <1>9, <2>1, FS_Subset
    <2> QED
        BY <1>5, <1>9, <2>2
<1>12. ASSUME NEW j \in D, 100 * Cardinality(NotAbove(list[j])) >= 95 * n, list[j] < list[i]
       PROVE  FALSE
    <2>1. NotAbove(list[j]) \in SUBSET Until(up, D, i)
        BY <1>6, <1>12 DEF Until, D
    <2>2. i \in Until(up, D, i) /\ i \notin NotAbove(list[j])
        BY <1>12 DEF Until, D
    <2> HIDE DEF NotAbove
    <2>3. Cardinality(NotAbove(list[j])) <= c /\ Cardinality(NotAbove(list[j])) # c
        BY <1>8, <1>10, <2>1, <2>2, FS_Subset
    <2>4. Cardinality(NotAbove(list[j])) <= c - 1
        BY <1>5, <1>9, <2>3
    <2> QED
        BY <1>5, <1>9, <1>12, <2>4
<1>13. \A j \in D : 100 * Cardinality(NotAbove(list[j])) >= 95 * n => list[i] <= list[j]
    BY <1>12, <1>8 DEF D
<1> QED
    BY <1>4, <1>8, <1>11, <1>13 DEF D

(* The parts of a summary. *)
LEMMA SummaryParts ==
    ASSUME NEW results
    PROVE  /\ Aggregate(results).task_completion = Rate(DOMAIN results, Completed(results))
           /\ Aggregate(results).p95_latency = P95(Ascending(Latencies(results)))
           /\ Aggregate(results).by_kind
                  = [k \in Kinds(results) |-> Rate(OfKind(results, k), Completed(results))]
BY DEF Aggregate

(* The 95th percentile of the latencies of a run. *)
LEMMA LatencyIsReported ==
    ASSUME NEW results, Reported(results)
    PROVE  LET NotAbove(l) == Cardinality({i \in DOMAIN results : results[i].latency <= l})
               p95 == Aggregate(results).p95_latency
           IN /\ 100 * NotAbove(p95) >= 95 * Len(results)
              /\ \A i \in DOMAIN results :
                     100 * NotAbove(results[i].latency) >= 95 * Len(results)
                         => p95 <= results[i].latency
<1> DEFINE list == Latencies(results)
           n == Len(results)
           p95 == Aggregate(results).p95_latency
<1>1. n \in Nat \ {0} /\ DOMAIN results = 1..n
    BY ResultsAreFinite
<1>2. DOMAIN list = 1..n /\ \A i \in 1..n : list[i] = results[i].latency /\ list[i] \in Int
    BY <1>1 DEF Latencies, Reported
<1>3. p95 = P95(Ascending(list))
    BY SummaryParts
<1> HIDE DEF list, p95, n
<1>4. /\ 100 * Cardinality({i \in 1..n : list[i] <= p95}) >= 95 * n
      /\ \A i \in 1..n :
             100 * Cardinality({j \in 1..n : list[j] <= list[i]}) >= 95 * n => p95 <= list[i]
    BY <1>1, <1>2, <1>3, NinetyFive
<1>5. \A l : {i \in 1..n : list[i] <= l} = {i \in DOMAIN results : results[i].latency <= l}
    BY <1>1, <1>2
<1> QED
    BY <1>1, <1>2, <1>4, <1>5 DEF p95, n

(* The kinds of the results. *)
KindOf(results) == [i \in DOMAIN results |-> results[i].kind]
NoteOf(results) == [i \in DOMAIN results |-> results[i].note]

(* The kinds make up the whole. *)
LEMMA KindsMakeUpTheWhole ==
    ASSUME NEW results, Reported(results)
    PROVE  LET s == Aggregate(results)
           IN /\ s.task_completion[1] = SumFunction([k \in Kinds(results) |-> s.by_kind[k][1]])
              /\ s.task_completion[2] = SumFunction([k \in Kinds(results) |-> s.by_kind[k][2]])
<1> DEFINE D == DOMAIN results
           K == Kinds(results)
           s == Aggregate(results)
           kind == KindOf(results)
           done == Completed(results)
<1>1. IsFiniteSet(D) /\ Cardinality(D) = Len(results) /\ D # {}
    BY ResultsAreFinite
<1>2. IsFiniteSet(done) /\ done \in SUBSET D
    <2>1. done \in SUBSET D
        BY DEF Completed
    <2> QED
        BY <1>1, <2>1, FS_Subset
<1>3. IsFiniteSet(K)
    <2>1. kind \in Surjection(D, K)
        BY DEF KindOf, Kinds, Surjection
    <2> QED
        BY <1>1, <2>1, FS_Surjection
<1>4. \A i \in D : kind[i] \in K
    BY DEF KindOf, Kinds
<1>5. s.task_completion = <<Cardinality(done), Cardinality(D)>>
    <2>1. D \cap done = done
        BY <1>2
    <2> QED
        BY <1>1, <2>1, SummaryParts DEF Rate
<1>6. ASSUME NEW k \in K
      PROVE  s.by_kind[k] = <<Cardinality(OfOneOf(done, kind, {k})), Cardinality(OfOneOf(D, kind, {k}))>>
    <2>1. OfKind(results, k) = OfOneOf(D, kind, {k})
        BY DEF OfKind, OfOneOf, KindOf
    <2>2. OfKind(results, k) \cap done = OfOneOf(done, kind, {k})
        BY <1>2, <2>1 DEF OfOneOf
    <2>3. OfKind(results, k) # {}
        BY DEF OfKind, Kinds
    <2>4. s.by_kind[k] = Rate(OfKind(results, k), done)
        BY SummaryParts
    <2> QED
        BY <2>1, <2>2, <2>3, <2>4 DEF Rate
<1> DEFINE first == [k \in K |-> s.by_kind[k][1]]
           second == [k \in K |-> s.by_kind[k][2]]
<1>7. /\ DOMAIN first = K /\ DOMAIN second = K
      /\ \A k \in K : first[k] = Cardinality(OfOneOf(done, kind, {k}))
      /\ \A k \in K : second[k] = Cardinality(OfOneOf(D, kind, {k}))
    BY <1>6
<1> HIDE DEF first, second, kind, K, D, done, s
<1>8. SumFunction(first) = Cardinality(done)
    BY <1>2, <1>3, <1>4, <1>7, Counting
<1>9. SumFunction(second) = Cardinality(D)
    BY <1>1, <1>3, <1>4, <1>7, Counting
<1>10. s.task_completion[1] = SumFunction(first) /\ s.task_completion[2] = SumFunction(second)
    BY <1>5, <1>8, <1>9
<1> QED
    BY <1>10 DEF first, second, K, s

(* Every failure is counted once. *)
LEMMA FailuresAreCounted ==
    ASSUME NEW results, Reported(results)
    PROVE  Len(results) - Aggregate(results).task_completion[1] = SumFunction(FailureAnalysis(results))
<1> DEFINE D == DOMAIN results
           failed == {i \in D : ~ results[i].success /\ results[i].note # NoNote}
           done == Completed(results)
           N == {results[i].note : i \in failed}
           note == NoteOf(results)
           fun == FailureAnalysis(results)
<1>1. IsFiniteSet(D) /\ Cardinality(D) = Len(results) /\ D # {}
    BY ResultsAreFinite
<1>2. failed \in SUBSET D /\ done = D \ failed /\ done \cap D = done
    BY DEF Completed, Reported
<1>3. fun = [k \in N |-> Cardinality({i \in failed : results[i].note = k})]
    BY DEF FailureAnalysis
<1>4. \A i \in failed : note[i] = results[i].note /\ note[i] \in N
    BY DEF NoteOf
<1> DEFINE restricted == [i \in failed |-> results[i].note]
<1>5. restricted \in Surjection(failed, N)
    BY DEF Surjection
<1>6. \A k : {i \in failed : results[i].note = k} = OfOneOf(failed, note, {k})
    BY <1>4 DEF OfOneOf
<1>7. Aggregate(results).task_completion[1] = Cardinality(done)
    <2>1. D \cap done = done
        BY <1>2
    <2>2. Aggregate(results).task_completion = <<Cardinality(done), Cardinality(D)>>
        BY <1>1, <2>1, SummaryParts DEF Rate
    <2> HIDE DEF done, D
    <2> QED
        BY <2>2
<1> HIDE DEF failed, done, N, note, D
<1>8. DOMAIN fun = N /\ \A k \in N : fun[k] = Cardinality(OfOneOf(failed, note, {k}))
    BY <1>3, <1>6
<1> HIDE DEF fun, restricted
<1>9. IsFiniteSet(failed) /\ IsFiniteSet(N)
    BY <1>1, <1>2, <1>5, FS_Subset, FS_Surjection
<1>10. SumFunction(fun) = Cardinality(failed)
    BY <1>4, <1>8, <1>9, Counting
<1>11. Cardinality(D \ failed) = Cardinality(D) - Cardinality(failed)
    <2>1. D \cap failed = failed
        BY <1>2
    <2>2. Cardinality(D \ failed) = Cardinality(D) - Cardinality(D \cap failed)
        BY <1>1, <1>9, FS_Difference
    <2> QED
        BY <2>1, <2>2
<1>12. Cardinality(D) \in Nat /\ Cardinality(failed) \in Nat
    BY <1>1, <1>9, FS_CardinalityType
<1> QED
    BY <1>1, <1>2, <1>7, <1>10, <1>11, <1>12 DEF fun

(* What is reported of a run is what its results say. *)
LEMMA Summarising ==
    ASSUME NEW results, Reported(results)
    PROVE  SummaryIsOfTheResults(results)
BY LatencyIsReported, KindsMakeUpTheWhole, FailuresAreCounted, Zenon DEF SummaryIsOfTheResults

------------------------------------------------------------------------------
(* Folds.  A fold over a list is one over each of its beginnings, one place further. *)

(* The last of some places. *)
LEMMA Latest ==
    ASSUME NEW n \in Nat, NEW places, places \in SUBSET (1..n), places # {}
    PROVE  Max(places) \in places /\ \A i \in places : i <= Max(places)
<1> DEFINE mirrored == {n + 1 - i : i \in places}
<1>1. mirrored \in SUBSET (1..n) /\ mirrored # {}
    <2>1. \A i \in places : i \in 1..n
        OBVIOUS
    <2>2. \A i \in places : n + 1 - i \in 1..n
        BY <2>1
    <2> QED
        BY <2>2
<1>2. Min(mirrored) \in mirrored /\ \A i \in mirrored : Min(mirrored) <= i
    BY <1>1, Earliest
<1>3. PICK last \in places : Min(mirrored) = n + 1 - last
    BY <1>2
<1>4. \A i \in places : n + 1 - i \in mirrored
    OBVIOUS
<1> HIDE DEF mirrored
<1>5. \A i \in places : i \in 1..n
    OBVIOUS
<1>6. \A i \in places : i <= last
    BY <1>2, <1>3, <1>4, <1>5
<1> QED
    BY <1>6 DEF Max

(* The last of 1 to k is k, and of a set of them that has it. *)
LEMMA LatestIs ==
    ASSUME NEW k \in Nat, NEW s \in SUBSET (1..k), k \in s
    PROVE  Max(s) = k
<1>1. Max(s) \in s /\ k <= Max(s)
    BY Latest
<1>2. Max(s) \in 1..k
    BY <1>1
<1> QED
    BY <1>1, <1>2

(* A fold from the left of n members, by what each member does to what is folded. *)
FoldsBy(n, base, next, g) ==
    g = [s \in SUBSET (1..n) |-> IF s = {} THEN base ELSE next[Max(s)][g[s \ {Max(s)}]]]

(* A fold of one member more. *)
LEMMA FoldOneMore ==
    ASSUME NEW k \in Nat \ {0}, NEW base, NEW next, NEW g, FoldsBy(k - 1, base, next, g)
    PROVE  FoldsBy(k, base, next,
               [s \in SUBSET (1..k) |-> IF k \in s THEN next[k][g[s \ {k}]] ELSE g[s]])
<1> DEFINE h == [s \in SUBSET (1..k) |-> IF k \in s THEN next[k][g[s \ {k}]] ELSE g[s]]
<1>1. ASSUME NEW s \in SUBSET (1..k)
      PROVE  h[s] = IF s = {} THEN base ELSE next[Max(s)][h[s \ {Max(s)}]]
    <2>1. CASE k \in s
        <3>1. Max(s) = k
            BY <2>1, LatestIs
        <3>2. s \ {k} \in SUBSET (1..k) /\ k \notin s \ {k}
            OBVIOUS
        <3>3. h[s \ {k}] = g[s \ {k}]
            BY <3>2
        <3>4. h[s] = next[k][g[s \ {k}]]
            BY <2>1
        <3> QED
            BY <2>1, <3>1, <3>3, <3>4
    <2>2. CASE k \notin s
        <3>1. s \in SUBSET (1..k - 1)
            BY <2>2
        <3>2. g[s] = IF s = {} THEN base ELSE next[Max(s)][g[s \ {Max(s)}]]
            BY <3>1, Zenon DEF FoldsBy
        <3>3. h[s] = g[s]
            BY <2>2
        <3>4. s \ {Max(s)} \in SUBSET (1..k) /\ k \notin s \ {Max(s)}
            BY <2>2
        <3>5. h[s \ {Max(s)}] = g[s \ {Max(s)}]
            BY <3>4
        <3> QED
            BY <3>2, <3>3, <3>5
    <2> QED
        BY <2>1, <2>2
<1>2. h = [s \in SUBSET (1..k) |-> h[s]]
    OBVIOUS
<1> HIDE DEF h
<1>3. h = [s \in SUBSET (1..k) |-> IF s = {} THEN base ELSE next[Max(s)][h[s \ {Max(s)}]]]
    BY <1>1, <1>2, Zenon
<1> QED
    BY <1>3 DEF FoldsBy, h

(* There is a fold of any number of members. *)
LEMMA FoldExists ==
    ASSUME NEW n \in Nat, NEW base, NEW next
    PROVE  \E g : FoldsBy(n, base, next, g)
<1> DEFINE P == {k \in 0..n : \E g : FoldsBy(k, base, next, g)}
<1>1. 0 \in P
    <2> DEFINE g == [s \in SUBSET (1..0) |-> base]
    <2>1. \A s \in SUBSET (1..0) : s = {}
        OBVIOUS
    <2>2. g = [s \in SUBSET (1..0) |-> IF s = {} THEN base ELSE next[Max(s)][g[s \ {Max(s)}]]]
        BY <2>1
    <2>3. FoldsBy(0, base, next, g)
        BY <2>2, Zenon DEF FoldsBy
    <2> QED
        BY <2>3
<1>2. ASSUME NEW k \in 1..n, k - 1 \in P
      PROVE  k \in P
    <2>1. PICK g : FoldsBy(k - 1, base, next, g)
        BY <1>2
    <2>2. k \in Nat \ {0}
        OBVIOUS
    <2>3. \E h : FoldsBy(k, base, next, h)
        BY <2>1, <2>2, FoldOneMore, Zenon
    <2> QED
        BY <2>3
<1> HIDE DEF P
<1>3. n \in P
    BY <1>1, <1>2, Climbing
<1> QED
    BY <1>3 DEF P

(* What is folded stays of its kind. *)
LEMMA FoldStays ==
    ASSUME NEW n \in Nat, NEW A, NEW base \in A, NEW next, \A i \in 1..n : \A a \in A : next[i][a] \in A,
           NEW g, FoldsBy(n, base, next, g), NEW s \in SUBSET (1..n)
    PROVE  g[s] \in A
<1> DEFINE P == {k \in 0..n : \A t \in SUBSET (1..n) : Cardinality(t) = k => g[t] \in A}
<1>1. IsFiniteSet(1..n)
    BY FS_Interval
<1>2. \A t \in SUBSET (1..n) : IsFiniteSet(t) /\ Cardinality(t) \in Nat /\ Cardinality(t) <= n
    <2>1. Cardinality(1..n) = n
        BY FS_Interval
    <2> QED
        BY <1>1, <2>1, FS_Subset, FS_CardinalityType
<1>3. \A t \in SUBSET (1..n) : g[t] = IF t = {} THEN base ELSE next[Max(t)][g[t \ {Max(t)}]]
    BY Zenon DEF FoldsBy
<1>4. 0 \in P
    BY <1>2, <1>3, FS_EmptySet
<1>5. ASSUME NEW k \in 1..n, k - 1 \in P
      PROVE  k \in P
    <2> SUFFICES ASSUME NEW t \in SUBSET (1..n), Cardinality(t) = k
                 PROVE  g[t] \in A
        OBVIOUS
    <2>1. t # {}
        BY FS_EmptySet
    <2>2. Max(t) \in t
        BY <2>1, Latest
    <2> DEFINE x == Max(t)
    <2>3. g[t] = next[x][g[t \ {x}]]
        BY <1>3, <2>1
    <2>4. x \in t /\ x \in 1..n
        BY <2>2
    <2> HIDE DEF x
    <2>5. t \ {x} \in SUBSET (1..n) /\ Cardinality(t \ {x}) = k - 1
        BY <1>2, <2>4, FS_RemoveElement
    <2>6. g[t \ {x}] \in A
        BY <1>5, <2>5
    <2> QED
        BY <2>3, <2>4, <2>6
<1> HIDE DEF P
<1>6. \A k \in 0..n : k \in P
    <2> SUFFICES ASSUME NEW k \in 0..n PROVE k \in P
        OBVIOUS
    <2>1. \A i \in 1..k : i \in 1..n
        OBVIOUS
    <2> QED
        BY <1>4, <1>5, <2>1, Climbing
<1> QED
    BY <1>2, <1>6 DEF P

(* Fractions, none negative, and what their sum is computed by. *)
Fractions == Nat \X (Nat \ {0})
Summing(x, h) ==
    h = [s \in SUBSET (DOMAIN x) |->
            IF s = {} THEN <<0, 1>> ELSE Plus(h[s \ {Max(s)}], x[Max(s)])]

(* A sum of fractions is one. *)
LEMMA PlusIsAFraction ==
    ASSUME NEW a \in Fractions, NEW b \in Fractions
    PROVE  Plus(a, b) \in Fractions
<1>1. PICK p \in Nat, q \in Nat \ {0} : a = <<p, q>>
    BY DEF Fractions
<1>2. PICK r \in Nat, t \in Nat \ {0} : b = <<r, t>>
    BY DEF Fractions
<1>3. Plus(a, b) = <<p * t + r * q, q * t>>
    BY <1>1, <1>2 DEF Plus
<1>4. p * t + r * q \in Nat /\ q * t \in Nat \ {0}
    OBVIOUS
<1> QED
    BY <1>3, <1>4 DEF Fractions

(* There is such a sum. *)
LEMMA SummingExists ==
    ASSUME NEW n \in Nat, NEW x, DOMAIN x = 1..n, \A i \in 1..n : x[i] \in Fractions
    PROVE  \E h : Summing(x, h)
<1> DEFINE next == [i \in 1..n |-> [a \in Fractions |-> Plus(a, x[i])]]
<1>1. <<0, 1>> \in Fractions
    BY DEF Fractions
<1>2. PICK g : FoldsBy(n, <<0, 1>>, next, g)
    BY FoldExists
<1>3. \A i \in 1..n : \A a \in Fractions : next[i][a] = Plus(a, x[i])
    OBVIOUS
<1>4. \A i \in 1..n : \A a \in Fractions : next[i][a] \in Fractions
    BY PlusIsAFraction
<1> HIDE DEF next
<1>5. \A s \in SUBSET (1..n) : g[s] \in Fractions
    BY <1>1, <1>2, <1>4, FoldStays
<1>6. \A s \in SUBSET (1..n) :
          s # {} => next[Max(s)][g[s \ {Max(s)}]] = Plus(g[s \ {Max(s)}], x[Max(s)])
    <2> SUFFICES ASSUME NEW s \in SUBSET (1..n), s # {}
                 PROVE  next[Max(s)][g[s \ {Max(s)}]] = Plus(g[s \ {Max(s)}], x[Max(s)])
        OBVIOUS
    <2>1. Max(s) \in 1..n
        BY Latest
    <2> DEFINE m == Max(s)
    <2> HIDE DEF m
    <2>2. g[s \ {m}] \in Fractions
        BY <1>5
    <2> QED
        BY <1>3, <2>1, <2>2 DEF m
<1>7. g = [s \in SUBSET (1..n) |->
              IF s = {} THEN <<0, 1>> ELSE next[Max(s)][g[s \ {Max(s)}]]]
    BY <1>2 DEF FoldsBy
<1>8. g = [s \in SUBSET (1..n) |->
              IF s = {} THEN <<0, 1>> ELSE Plus(g[s \ {Max(s)}], x[Max(s)])]
    BY <1>6, <1>7, Zenon
<1>9. Summing(x, g)
    BY <1>8 DEF Summing
<1> QED
    BY <1>9

(* Fractions are summed one after the other. *)
LEMMA SummedStepwise ==
    ASSUME NEW n \in Nat, NEW x, DOMAIN x = 1..n, \A i \in 1..n : x[i] \in Fractions
    PROVE  \E t : /\ t[0] = <<0, 1>>
                  /\ \A k \in 1..n : t[k] = Plus(t[k - 1], x[k])
                  /\ Summed(x) = t[n]
<1> DEFINE h == CHOOSE h : Summing(x, h)
           t == [k \in 0..n |-> h[1..k]]
<1>1. Summing(x, h)
    BY SummingExists
<1>2. Summed(x) = h[1..n]
    BY DEF Summed, FoldLeft, MapThenFoldSet, Summing
<1> HIDE DEF h
<1>3. \A s \in SUBSET (1..n) :
          h[s] = IF s = {} THEN <<0, 1>> ELSE Plus(h[s \ {Max(s)}], x[Max(s)])
    BY <1>1, Zenon DEF Summing
<1>4. t[0] = <<0, 1>>
    <2>1. 1..0 = {} /\ {} \in SUBSET (1..n) /\ 0 \in 0..n
        OBVIOUS
    <2> QED
        BY <1>3, <2>1
<1>5. ASSUME NEW k \in 1..n
      PROVE  t[k] = Plus(t[k - 1], x[k])
    <2>1. 1..k \in SUBSET (1..n) /\ k \in 1..k /\ 1..k # {} /\ k \in Nat
        OBVIOUS
    <2>2. Max(1..k) = k
        BY <2>1, LatestIs
    <2>3. (1..k) \ {k} = 1..k - 1
        OBVIOUS
    <2>4. k \in 0..n /\ k - 1 \in 0..n
        OBVIOUS
    <2>5. h[1..k] = Plus(h[1..k - 1], x[k])
        BY <1>3, <2>1, <2>2, <2>3
    <2> QED
        BY <2>4, <2>5
<1>6. t[n] = h[1..n]
    OBVIOUS
<1> HIDE DEF t
<1> QED
    BY <1>2, <1>4, <1>5, <1>6

------------------------------------------------------------------------------
(* The figures of a configuration, and the theorem about figures. *)

(* The places, up to k, of fractions that are not zero. *)
NotZero(x, k) == {i \in 1..k : x[i][1] > 0}

(* One place more. *)
LEMMA OnePlaceMore ==
    ASSUME NEW x, NEW k \in Nat \ {0}, x[k][1] \in Nat
    PROVE  /\ IsFiniteSet(NotZero(x, k - 1)) /\ Cardinality(NotZero(x, k - 1)) \in Nat
           /\ x[k][1] = 0 => NotZero(x, k) = NotZero(x, k - 1)
           /\ x[k][1] > 0 => /\ NotZero(x, k) # {}
                             /\ Cardinality(NotZero(x, k)) = Cardinality(NotZero(x, k - 1)) + 1
<1>1. IsFiniteSet(NotZero(x, k - 1))
    <2>1. IsFiniteSet(1..k - 1)
        BY FS_Interval
    <2>2. NotZero(x, k - 1) \in SUBSET (1..k - 1)
        BY DEF NotZero
    <2> QED
        BY <2>1, <2>2, FS_Subset
<1>2. x[k][1] = 0 => NotZero(x, k) = NotZero(x, k - 1)
    <2> SUFFICES ASSUME x[k][1] = 0
                 PROVE  \A i : i \in NotZero(x, k) <=> i \in NotZero(x, k - 1)
        OBVIOUS
    <2>1. \A i \in 1..k : i # k => i \in 1..k - 1
        OBVIOUS
    <2>2. \A i \in 1..k - 1 : i \in 1..k
        OBVIOUS
    <2> QED
        BY <2>1, <2>2 DEF NotZero
<1>3. x[k][1] > 0 => NotZero(x, k) = NotZero(x, k - 1) \cup {k} /\ k \notin NotZero(x, k - 1)
    <2>1. \A i \in 1..k : i # k => i \in 1..k - 1
        OBVIOUS
    <2>2. \A i \in 1..k - 1 : i \in 1..k
        OBVIOUS
    <2>3. k \in 1..k /\ k \notin 1..k - 1
        OBVIOUS
    <2> QED
        BY <2>1, <2>2, <2>3 DEF NotZero
<1>4. k \notin NotZero(x, k - 1) =>
          Cardinality(NotZero(x, k - 1) \cup {k}) = Cardinality(NotZero(x, k - 1)) + 1
    BY <1>1, FS_AddElement
<1>5. Cardinality(NotZero(x, k - 1)) \in Nat
    BY <1>1, FS_CardinalityType
<1> QED
    BY <1>1, <1>2, <1>3, <1>4, <1>5

(* Adding a fraction of at most one. *)
LEMMA AddingAPart ==
    ASSUME NEW a \in Fractions, NEW b \in Fractions, NEW c \in Nat, a[1] <= c * a[2], b[1] <= b[2]
    PROVE  /\ b[1] = 0 => /\ Plus(a, b)[1] <= c * Plus(a, b)[2]
                          /\ Plus(a, b)[1] > 0 <=> a[1] > 0
           /\ b[1] > 0 => /\ Plus(a, b)[1] <= (c + 1) * Plus(a, b)[2]
                          /\ Plus(a, b)[1] > 0
<1> DEFINE p == a[1]
           q == a[2]
           r == b[1]
           t == b[2]
<1>1. p \in Nat /\ q \in Nat \ {0} /\ r \in Nat /\ t \in Nat \ {0}
    BY DEF Fractions
<1>2. Plus(a, b)[1] = p * t + r * q /\ Plus(a, b)[2] = q * t
    BY DEF Plus
<1>3. p <= c * q /\ r <= t
    OBVIOUS
<1> HIDE DEF p, q, r, t
<1>4. p * t <= (c * q) * t
    <2>1. c * q \in Int
        BY <1>1
    <2> QED
        BY <1>1, <1>3, <2>1, TimesPositive
<1>5. r * q <= t * q
    BY <1>1, <1>3, TimesPositive
<1>6. p * t \in Nat /\ r * q \in Nat /\ c * (q * t) = (c * q) * t /\ (c + 1) * (q * t) = (c * q) * t + t * q
    BY <1>1
<1>7. (c * q) * t \in Nat /\ t * q \in Nat
    BY <1>1
<1>8. p > 0 => p * t > 0
    <2>1. 0 >= p <=> 0 * t >= p * t
        BY <1>1, TimesPositive
    <2> QED
        BY <1>1, <1>6, <2>1
<1>9. r > 0 => r * q > 0
    <2>1. 0 >= r <=> 0 * q >= r * q
        BY <1>1, TimesPositive
    <2> QED
        BY <1>1, <1>6, <2>1
<1>10. p = 0 => p * t = 0
    BY <1>1
<1>11. r = 0 => r * q = 0
    BY <1>1
<1>12. r = 0 => /\ p * t + r * q <= c * (q * t)
                /\ p * t + r * q > 0 <=> p > 0
    BY <1>1, <1>4, <1>6, <1>7, <1>8, <1>10, <1>11
<1>13. r > 0 => /\ p * t + r * q <= (c + 1) * (q * t)
                /\ p * t + r * q > 0
    BY <1>1, <1>4, <1>5, <1>6, <1>7, <1>9
<1> QED
    BY <1>2, <1>12, <1>13 DEF p, r

(* The sum of fractions of at most one is at most how many are not zero, and is zero
   where none is. *)
LEMMA SumOfParts ==
    ASSUME NEW n \in Nat, NEW x, DOMAIN x = 1..n,
           \A i \in 1..n : x[i] \in Fractions /\ x[i][1] <= x[i][2]
    PROVE  /\ Summed(x) \in Fractions
           /\ Summed(x)[1] <= Cardinality(NotZero(x, n)) * Summed(x)[2]
           /\ Summed(x)[1] > 0 <=> NotZero(x, n) # {}
           /\ Cardinality(NotZero(x, n)) \in Nat
<1>1. PICK t : /\ t[0] = <<0, 1>>
               /\ \A k \in 1..n : t[k] = Plus(t[k - 1], x[k])
               /\ Summed(x) = t[n]
    BY SummedStepwise
<1> DEFINE Told(k) == /\ t[k] \in Fractions
                      /\ t[k][1] <= Cardinality(NotZero(x, k)) * t[k][2]
                      /\ t[k][1] > 0 <=> NotZero(x, k) # {}
                      /\ Cardinality(NotZero(x, k)) \in Nat
           P == {k \in 0..n : Told(k)}
<1>2. 0 \in P
    <2>1. NotZero(x, 0) = {}
        BY DEF NotZero
    <2>2. Cardinality(NotZero(x, 0)) = 0
        BY <2>1, FS_EmptySet
    <2>3. t[0] \in Fractions /\ t[0][1] = 0 /\ t[0][2] = 1
        BY <1>1 DEF Fractions
    <2>4. Told(0)
        BY <2>1, <2>2, <2>3
    <2>5. 0 \in 0..n
        OBVIOUS
    <2> HIDE DEF Told
    <2> QED
        BY <2>4, <2>5
<1>3. ASSUME NEW k \in 1..n, k - 1 \in P
      PROVE  k \in P
    <2> DEFINE a == t[k - 1]
               b == x[k]
               c == Cardinality(NotZero(x, k - 1))
    <2>1. a \in Fractions /\ a[1] <= c * a[2] /\ (a[1] > 0 <=> NotZero(x, k - 1) # {}) /\ c \in Nat
        BY <1>3
    <2>2. b \in Fractions /\ b[1] <= b[2] /\ b[1] \in Nat
        BY DEF Fractions
    <2>3. t[k] = Plus(a, b)
        BY <1>1
    <2>4. Plus(a, b) \in Fractions
        BY <2>1, <2>2, PlusIsAFraction
    <2>5. k \in Nat \ {0} /\ k \in 0..n
        OBVIOUS
    <2>6. /\ b[1] = 0 => NotZero(x, k) = NotZero(x, k - 1)
          /\ b[1] > 0 => NotZero(x, k) # {} /\ Cardinality(NotZero(x, k)) = c + 1
        BY <2>2, <2>5, OnePlaceMore
    <2>7. /\ b[1] = 0 => /\ Plus(a, b)[1] <= c * Plus(a, b)[2]
                         /\ Plus(a, b)[1] > 0 <=> a[1] > 0
          /\ b[1] > 0 => /\ Plus(a, b)[1] <= (c + 1) * Plus(a, b)[2]
                         /\ Plus(a, b)[1] > 0
        BY <2>1, <2>2, AddingAPart
    <2>8. CASE b[1] = 0
        <3>1. Cardinality(NotZero(x, k)) = c
            BY <2>6, <2>8
        <3> HIDE DEF a, b, c
        <3>2. Told(k)
            BY <2>1, <2>3, <2>4, <2>6, <2>7, <2>8, <3>1
        <3> QED
            BY <2>5, <3>2
    <2>9. CASE b[1] > 0
        <3> HIDE DEF a, b, c
        <3>1. c + 1 \in Nat
            BY <2>1
        <3>2. Told(k)
            BY <2>3, <2>4, <2>6, <2>7, <2>9, <3>1
        <3> QED
            BY <2>5, <3>2
    <2> QED
        BY <2>2, <2>8, <2>9
<1> HIDE DEF P
<1>4. n \in P
    BY <1>2, <1>3, Climbing
<1>5. Told(n)
    BY <1>4 DEF P
<1> QED
    BY <1>1, <1>5

(* A sum compares with how many of its fractions are not zero. *)
LEMMA SumIsOfThoseFound ==
    ASSUME NEW n \in Nat, NEW x, DOMAIN x = 1..n,
           \A i \in 1..n : x[i] \in Fractions /\ x[i][1] <= x[i][2],
           NEW hits, hits = Cardinality(NotZero(x, n))
    PROVE  /\ ~ More(Summed(x), <<hits, 1>>)
           /\ hits > 0 <=> More(Summed(x), <<0, 1>>)
<1> DEFINE y == Summed(x)
<1>1. /\ y \in Fractions /\ y[1] <= hits * y[2] /\ (y[1] > 0 <=> NotZero(x, n) # {})
      /\ hits \in Nat
    BY SumOfParts
<1>2. hits > 0 <=> NotZero(x, n) # {}
    <2>1. IsFiniteSet(NotZero(x, n))
        <3>1. IsFiniteSet(1..n)
            BY FS_Interval
        <3>2. NotZero(x, n) \in SUBSET (1..n)
            BY DEF NotZero
        <3> QED
            BY <3>1, <3>2, FS_Subset
    <2>2. hits = 0 <=> NotZero(x, n) = {}
        BY <2>1, FS_EmptySet
    <2> QED
        BY <1>1, <2>2
<1>3. y[1] \in Nat /\ y[2] \in Nat
    BY <1>1 DEF Fractions
<1> HIDE DEF y
<1>4. More(y, <<hits, 1>>) <=> y[1] * 1 > hits * y[2]
    BY DEF More
<1>5. More(y, <<0, 1>>) <=> y[1] * 1 > 0 * y[2]
    BY DEF More
<1>6. hits * y[2] \in Nat /\ y[1] * 1 = y[1] /\ 0 * y[2] = 0
    BY <1>1, <1>3
<1> QED
    BY <1>1, <1>2, <1>3, <1>4, <1>5, <1>6 DEF y

(* A case to search and score. *)
Measured(c) == Ranking(c.vector) /\ Ranking(c.keyword) /\ IsFiniteSet(c.relevant)

(* What a search finds is a ranking. *)
LEMMA SearchIsRanked ==
    ASSUME NEW vector, NEW keyword, Ranking(vector), Ranking(keyword), NEW k \in Nat \ {0}
    PROVE  Ranking(SearchResult("hybrid", vector, keyword, k * OverFetch))
<1> DEFINE limit == k * OverFetch
<1>1. limit \in Nat \ {0}
    BY DEF OverFetch
<1> HIDE DEF limit
<1> DEFINE all == Ordered("hybrid", Candidates(vector, limit), Candidates(keyword, limit))
           n == Min({Len(all), limit})
<1>2. /\ Ranking(all) /\ n \in Nat /\ n <= Len(all)
      /\ SearchResult("hybrid", vector, keyword, limit) = SubSeq(all, 1, n)
    BY <1>1, Searching
<1> HIDE DEF all, n
<1>3. Ranking(SubSeq(all, 1, n))
    BY <1>2, TheFirst
<1> QED
    BY <1>2, <1>3 DEF limit

(* The score of a case that has something to find. *)
LEMMA ScoreOfACase ==
    ASSUME NEW c, Measured(c), c.relevant # {}, NEW parent, NEW k \in Nat \ {0}
    PROVE  LET s == Score("hybrid", c.vector, c.keyword, parent, c.relevant, k)
           IN /\ s.hits \in Nat
              /\ s.recall \in Fractions /\ s.recall[1] <= s.recall[2] /\ s.recall[1] = s.hits
              /\ Reciprocal(s.reciprocal) \in Fractions
              /\ Reciprocal(s.reciprocal)[1] <= Reciprocal(s.reciprocal)[2]
              /\ Reciprocal(s.reciprocal)[1] > 0 <=> s.hits > 0
<1> DEFINE results == SearchResult("hybrid", c.vector, c.keyword, k * OverFetch)
           top == UniqueDocs(results, parent, k)
           found == {i \in DOMAIN top : top[i] \in c.relevant}
           s == Score("hybrid", c.vector, c.keyword, parent, c.relevant, k)
<1>1. Ranking(c.vector) /\ Ranking(c.keyword) /\ IsFiniteSet(c.relevant)
    BY DEF Measured
<1>2. s.recall[1] <= s.recall[2]
    BY <1>1, ScoringASearch DEF RecallIsAFraction
<1>3. Ranking(top)
    BY <1>1, SearchIsRanked, DocumentsOnce
<1>4. /\ s.hits = Cardinality(found)
      /\ s.recall = <<Cardinality(found), Min({Cardinality(c.relevant), k})>>
      /\ s.reciprocal = IF found = {} THEN 0 ELSE Min(found)
    BY DEF Score
<1> HIDE DEF top, s
<1>5. /\ found \in SUBSET (1..Len(top)) /\ Len(top) \in Nat /\ IsFiniteSet(found)
      /\ Cardinality(found) \in Nat /\ Cardinality(c.relevant) \in Nat
    BY <1>1, <1>3, CountingFound
<1>6. Min({Cardinality(c.relevant), k}) \in Nat \ {0}
    <2>1. Cardinality(c.relevant) # 0
        BY <1>1, FS_EmptySet
    <2>2. Min({Cardinality(c.relevant), k}) \in {Cardinality(c.relevant), k}
        BY <1>5, MinOfTwo
    <2> QED
        BY <1>5, <2>1, <2>2
<1>7. s.recall \in Fractions /\ s.recall[1] = s.hits
    BY <1>4, <1>5, <1>6 DEF Fractions
<1>8. CASE found = {}
    <2>1. s.reciprocal = 0 /\ s.hits = 0
        BY <1>4, <1>8, FS_EmptySet
    <2>2. Reciprocal(s.reciprocal) = <<0, 1>>
        BY <2>1 DEF Reciprocal
    <2> QED
        BY <1>2, <1>7, <2>1, <2>2 DEF Fractions, s
<1>9. CASE found # {}
    <2> HIDE DEF found
    <2>1. Min(found) \in found
        BY <1>5, <1>9, Earliest
    <2>2. s.reciprocal \in Nat \ {0}
        <3>1. s.reciprocal = Min(found)
            BY <1>4, <1>9
        <3>2. Min(found) \in 1..Len(top) /\ Len(top) \in Nat
            BY <1>5, <2>1
        <3> QED
            BY <3>1, <3>2
    <2>3. s.hits > 0
        <3>1. Cardinality(found) # 0
            BY <1>5, <1>9, FS_EmptySet
        <3> QED
            BY <1>4, <1>5, <3>1
    <2>4. Reciprocal(s.reciprocal) = <<1, s.reciprocal>>
        BY <2>2 DEF Reciprocal
    <2>5. s.hits \in Nat
        BY <1>4, <1>5
    <2> QED
        BY <1>2, <1>7, <2>2, <2>3, <2>4, <2>5 DEF Fractions, s
<1> QED
    BY <1>8, <1>9

(* A configuration's scores are of all the cases with something to find. *)
LEMMA MeasuringAConfiguration ==
    ASSUME NEW cases, cases \in Seq({cases[i] : i \in DOMAIN cases}),
           \A i \in DOMAIN cases : Measured(cases[i]), NEW parent, NEW k \in Nat \ {0}
    PROVE  EveryCaseCounts(cases, parent, k)
<1> DEFINE D == DOMAIN cases
           N == Len(cases)
           places == {i \in D : cases[i].relevant # {}}
           scored == Picked(cases, places)
           scores == [i \in DOMAIN scored |->
                         Score("hybrid", scored[i].vector, scored[i].keyword, parent,
                               scored[i].relevant, k)]
           n == Len(scored)
           recalls == [i \in DOMAIN scores |-> scores[i].recall]
           ranks == [i \in DOMAIN scores |-> Reciprocal(scores[i].reciprocal)]
           hits == Cardinality({i \in DOMAIN scores : scores[i].hits > 0})
           c == RunConfig("hybrid", cases, parent, k)
<1>1. /\ c.n_scored = n /\ c.recall = Summed(recalls) /\ c.hits = hits /\ c.mrr = Summed(ranks)
    BY DEF RunConfig
<1>2. N \in Nat /\ D = 1..N
    OBVIOUS
<1>3. places \in SUBSET (1..N)
    BY <1>2
<1> HIDE DEF c
<1>4. /\ IsFiniteSet(places) /\ Cardinality(places) \in Nat /\ n = Cardinality(places)
      /\ DOMAIN scored = 1..n
      /\ \A p \in DOMAIN scored : \E i \in places : scored[p] = cases[i]
    <2>0. N \in Nat /\ places \in SUBSET (1..N)
        BY <1>2, <1>3
    <2> HIDE DEF places, N, D
    <2>1. /\ IsFiniteSet(places) /\ Cardinality(places) \in Nat
          /\ Len(Picked(cases, places)) = Cardinality(places)
          /\ DOMAIN Picked(cases, places) = 1..Cardinality(places)
          /\ Orders(InOrder(places), places)
        BY <2>0, Picking
    <2>2. \A p \in 1..Cardinality(places) : \E i \in places : Picked(cases, places)[p] = cases[i]
        BY <2>1, PickedAt
    <2> QED
        BY <2>1, <2>2
<1>5. n + Cardinality(Abstention(cases)) = N
    <2>1. Abstention(cases) = D \ places
        BY DEF Abstention
    <2>2. IsFiniteSet(D) /\ Cardinality(D) = N
        BY <1>2, FS_Interval
    <2>3. D \cap places = places
        OBVIOUS
    <2> HIDE DEF D, places, N, n
    <2>4. Cardinality(D \ places) = Cardinality(D) - Cardinality(D \cap places)
        BY <1>4, <2>2, FS_Difference
    <2>5. n \in Nat /\ n = Cardinality(places) /\ N \in Nat
        BY <1>2, <1>4
    <2>6. Cardinality(D \cap places) = n
        BY <2>3, <2>5
    <2>7. Cardinality(Abstention(cases)) = N - n
        BY <2>1, <2>2, <2>4, <2>6
    <2> QED
        BY <2>5, <2>7
<1>6. \A i \in 1..n : Measured(scored[i]) /\ scored[i].relevant # {}
    BY <1>4
<1>7. DOMAIN scores = 1..n /\ DOMAIN recalls = 1..n /\ DOMAIN ranks = 1..n /\ n \in Nat
    BY <1>4
<1> HIDE DEF places, n, scored, N, D
<1>8. ASSUME NEW i \in 1..n
      PROVE  /\ recalls[i] \in Fractions /\ recalls[i][1] <= recalls[i][2]
             /\ recalls[i][1] > 0 <=> scores[i].hits > 0
             /\ ranks[i] \in Fractions /\ ranks[i][1] <= ranks[i][2]
             /\ ranks[i][1] > 0 <=> scores[i].hits > 0
    <2>1. /\ scores[i] = Score("hybrid", scored[i].vector, scored[i].keyword, parent,
                               scored[i].relevant, k)
          /\ recalls[i] = scores[i].recall /\ ranks[i] = Reciprocal(scores[i].reciprocal)
        BY <1>7
    <2> DEFINE one == scored[i]
    <2>2. Measured(one) /\ one.relevant # {}
        BY <1>6
    <2> HIDE DEF one
    <2> DEFINE s == Score("hybrid", one.vector, one.keyword, parent, one.relevant, k)
    <2>3. /\ s.hits \in Nat
          /\ s.recall \in Fractions /\ s.recall[1] <= s.recall[2] /\ s.recall[1] = s.hits
          /\ Reciprocal(s.reciprocal) \in Fractions
          /\ Reciprocal(s.reciprocal)[1] <= Reciprocal(s.reciprocal)[2]
          /\ Reciprocal(s.reciprocal)[1] > 0 <=> s.hits > 0
        BY <2>2, ScoreOfACase
    <2>4. scores[i] = s
        BY <2>1 DEF one
    <2> HIDE DEF s, scores, recalls, ranks
    <2> QED
        BY <2>1, <2>3, <2>4
<1> HIDE DEF scores, recalls, ranks
<1>9. hits = Cardinality(NotZero(recalls, n)) /\ hits = Cardinality(NotZero(ranks, n))
    <2>1. NotZero(recalls, n) = {i \in DOMAIN scores : scores[i].hits > 0}
        BY <1>7, <1>8 DEF NotZero
    <2>2. NotZero(ranks, n) = {i \in DOMAIN scores : scores[i].hits > 0}
        BY <1>7, <1>8 DEF NotZero
    <2> QED
        BY <2>1, <2>2
<1> HIDE DEF hits
<1>10. /\ ~ More(Summed(recalls), <<hits, 1>>)
       /\ hits > 0 <=> More(Summed(recalls), <<0, 1>>)
    BY <1>7, <1>8, <1>9, SumIsOfThoseFound
<1>11. /\ ~ More(Summed(ranks), <<hits, 1>>)
       /\ hits > 0 <=> More(Summed(ranks), <<0, 1>>)
    BY <1>7, <1>8, <1>9, SumIsOfThoseFound
<1>12. /\ (hits > 0) = More(Summed(recalls), <<0, 1>>)
       /\ (hits > 0) = More(Summed(ranks), <<0, 1>>)
    BY <1>10, <1>11 DEF More
<1>13. c.n_scored + Cardinality(Abstention(cases)) = Len(cases)
    BY <1>1, <1>5 DEF N
<1>14. /\ ~ More(c.recall, <<c.hits, 1>>) /\ ~ More(c.mrr, <<c.hits, 1>>)
       /\ (c.hits > 0) = More(c.recall, <<0, 1>>) /\ (c.hits > 0) = More(c.mrr, <<0, 1>>)
    BY <1>1, <1>10, <1>11, <1>12
<1> QED
    BY <1>13, <1>14 DEF EveryCaseCounts, c

(* What is reported is of the results: the 95th percentile, the kinds and the notes of a
   run (evals/run.py, aggregate), an agreement with the judge that had to be earned
   (evals/calibration.py, cohens_kappa) and no case dropped from the figures of a
   configuration (evals/retrieval_eval.py, run_config). *)
THEOREM Figures == Spec => []FiguresAreOfTheResults
<1>1. Init => FiguresAreOfTheResults
    <2> SUFFICES ASSUME Init
                 PROVE  FiguresAreOfTheResults
        OBVIOUS
    <2>1. case.kind = "report" => SummaryIsOfTheResults(case.of)
        <3> SUFFICES ASSUME case.kind = "report"
                     PROVE  SummaryIsOfTheResults(case.of)
            OBVIOUS
        <3>1. case.of \in ReportCases
            BY DEF Init, Cases
        <3>2. Reported(case.of)
            BY <3>1, ReportAssumption DEF Reported
        <3> QED
            BY <3>2, Summarising
    <2>2. case.kind = "sheet" => KappaIsEarned(case.of.human, case.of.judge)
        <3> SUFFICES ASSUME case.kind = "sheet"
                     PROVE  KappaIsEarned(case.of.human, case.of.judge)
            OBVIOUS
        <3>1. case.of \in SheetCases
            BY DEF Init, Cases
        <3>2. Verdicts(case.of.human) /\ Verdicts(case.of.judge)
            BY <3>1, SheetAssumption DEF Verdicts
        <3> QED
            BY <3>2, EarningKappa
    <2>3. case.kind = "config" => EveryCaseCounts(case.of.cases, case.of.parent, 2)
        <3> SUFFICES ASSUME case.kind = "config"
                     PROVE  EveryCaseCounts(case.of.cases, case.of.parent, 2)
            OBVIOUS
        <3>1. case.of \in ConfigCases
            BY DEF Init, Cases
        <3> DEFINE cases == case.of.cases
        <3>2. cases \in Seq({cases[i] : i \in DOMAIN cases})
            BY <3>1, ConfigAssumption
        <3>3. \A i \in DOMAIN cases : Measured(cases[i])
            BY <3>1, ConfigAssumption DEF Measured
        <3> HIDE DEF cases
        <3>4. EveryCaseCounts(cases, case.of.parent, 2)
            BY <3>2, <3>3, MeasuringAConfiguration
        <3> QED
            BY <3>4 DEF cases
    <2> QED
        BY <2>1, <2>2, <2>3 DEF FiguresAreOfTheResults
<1>2. FiguresAreOfTheResults /\ [Next]_case => FiguresAreOfTheResults'
    BY DEF FiguresAreOfTheResults, Next
<1> QED
    BY <1>1, <1>2, PTL DEF Spec

------------------------------------------------------------------------------
(* Reading an answer.  The scan of an answer is a fold: after k tokens it has found the
   spans of braces that pair up within them, and its depth is that of the k-th. *)

(* The scan of an answer, token by token. *)
ScanStep(text, s, i) ==
    IF Opens(text[i])
    THEN [s EXCEPT !.depth = @ + 1, !.start = IF s.depth = 0 THEN i ELSE @]
    ELSE IF ~ Closes(text[i]) THEN s
    ELSE IF s.depth = 1 /\ s.start # 0
         THEN [depth |-> 0, start |-> 0, found |-> Append(s.found, SubSeq(text, s.start, i))]
         ELSE [s EXCEPT !.depth = @ - 1]
ScanStart == [depth |-> 0, start |-> 0, found |-> <<>>]
Scanning(text, h) ==
    h = [s \in SUBSET (DOMAIN text) |->
            IF s = {} THEN ScanStart
            ELSE ScanStep(text, h[s \ {Max(s)}], [i \in DOMAIN text |-> i][Max(s)])]
ListOf(text) == text \in Seq({text[i] : i \in DOMAIN text})
Scanned(text) == [depth : Int, start : Nat, found : Seq(Seq({text[i] : i \in DOMAIN text}))]

(* An answer is a list. *)
LEMMA AnswerIsAList ==
    ASSUME NEW text, ListOf(text)
    PROVE  Len(text) \in Nat /\ DOMAIN text = 1..Len(text)
BY DEF ListOf

(* Every step leaves a depth, a start and a list of parts. *)
LEMMA ScanStepStays ==
    ASSUME NEW text, ListOf(text), NEW s \in Scanned(text), NEW i \in 1..Len(text)
    PROVE  ScanStep(text, s, i) \in Scanned(text)
<1> DEFINE T == {text[j] : j \in DOMAIN text}
<1>1. text \in Seq(T) /\ Len(text) \in Nat
    BY DEF ListOf
<1>2. s.depth \in Int /\ s.start \in Nat /\ s.found \in Seq(Seq(T)) /\ i \in Nat
    BY AnswerIsAList DEF Scanned
<1> HIDE DEF T
<1>3. CASE Opens(text[i])
    <2>1. ScanStep(text, s, i)
              = [s EXCEPT !.depth = s.depth + 1, !.start = IF s.depth = 0 THEN i ELSE s.start]
        BY <1>3 DEF ScanStep
    <2>2. s.depth + 1 \in Int /\ (IF s.depth = 0 THEN i ELSE s.start) \in Nat
        BY <1>2
    <2> DEFINE depth == s.depth + 1
               start == IF s.depth = 0 THEN i ELSE s.start
    <2>3. ScanStep(text, s, i) = [s EXCEPT !.depth = depth, !.start = start]
        BY <2>1
    <2> HIDE DEF depth, start
    <2>4. depth \in Int /\ start \in Nat
        BY <2>2 DEF depth, start
    <2> QED
        BY <2>3, <2>4 DEF Scanned
<1>4. CASE ~ Opens(text[i]) /\ ~ Closes(text[i])
    <2>1. ScanStep(text, s, i) = s
        BY <1>4 DEF ScanStep
    <2> QED
        BY <2>1
<1>5. CASE ~ Opens(text[i]) /\ Closes(text[i]) /\ s.depth = 1 /\ s.start # 0
    <2>1. ScanStep(text, s, i)
              = [depth |-> 0, start |-> 0, found |-> Append(s.found, SubSeq(text, s.start, i))]
        BY <1>5 DEF ScanStep
    <2>2. \A j \in s.start..i : j \in DOMAIN text
        BY <1>2, <1>5, AnswerIsAList
    <2>3. SubSeq(text, s.start, i) \in Seq(T)
        <3>1. \A j \in s.start..i : text[j] \in T
            BY <2>2 DEF T
        <3> QED
            BY <1>2, <3>1, SubSeqProperties
    <2>4. Append(s.found, SubSeq(text, s.start, i)) \in Seq(Seq(T))
        BY <1>2, <2>3, AppendProperties
    <2> QED
        BY <2>1, <2>4 DEF Scanned, T
<1>6. CASE ~ Opens(text[i]) /\ Closes(text[i]) /\ ~ (s.depth = 1 /\ s.start # 0)
    <2>1. ScanStep(text, s, i) = [s EXCEPT !.depth = @ - 1]
        BY <1>6 DEF ScanStep
    <2> QED
        BY <1>2, <2>1 DEF Scanned
<1> QED
    BY <1>3, <1>4, <1>5, <1>6

(* There is such a scan. *)
LEMMA ScanningExists ==
    ASSUME NEW text, ListOf(text)
    PROVE  \E h : Scanning(text, h) /\ \A s \in SUBSET (DOMAIN text) : h[s] \in Scanned(text)
<1> DEFINE n == Len(text)
           A == Scanned(text)
           next == [i \in 1..n |-> [s \in A |-> ScanStep(text, s, i)]]
<1>1. n \in Nat /\ DOMAIN text = 1..n
    BY AnswerIsAList
<1>2. ScanStart \in A
    BY DEF ScanStart, Scanned
<1>3. PICK g : FoldsBy(n, ScanStart, next, g)
    BY <1>1, FoldExists
<1>4. \A i \in 1..n : \A s \in A : next[i][s] = ScanStep(text, s, i)
    OBVIOUS
<1>5. \A i \in 1..n : \A s \in A : next[i][s] \in A
    BY <1>4, ScanStepStays
<1> HIDE DEF next, A, n
<1>6. \A s \in SUBSET (1..n) : g[s] \in A
    BY <1>1, <1>2, <1>3, <1>5, FoldStays
<1>7. \A s \in SUBSET (1..n) :
          s # {} => next[Max(s)][g[s \ {Max(s)}]]
                        = ScanStep(text, g[s \ {Max(s)}], [i \in DOMAIN text |-> i][Max(s)])
    <2> SUFFICES ASSUME NEW s \in SUBSET (1..n), s # {}
                 PROVE  next[Max(s)][g[s \ {Max(s)}]]
                            = ScanStep(text, g[s \ {Max(s)}], [i \in DOMAIN text |-> i][Max(s)])
        OBVIOUS
    <2> DEFINE m == Max(s)
    <2>1. m \in s
        BY <1>1, Latest
    <2>2. m \in 1..n
        BY <2>1
    <2> HIDE DEF m
    <2>3. g[s \ {m}] \in A
        BY <1>6
    <2>4. [i \in DOMAIN text |-> i][m] = m
        BY <1>1, <2>2
    <2>5. next[m][g[s \ {m}]] = ScanStep(text, g[s \ {m}], m)
        BY <1>4, <2>2, <2>3
    <2>6. next[m][g[s \ {m}]] = ScanStep(text, g[s \ {m}], [i \in DOMAIN text |-> i][m])
        BY <2>4, <2>5
    <2> QED
        BY <2>6 DEF m
<1>8. g = [s \in SUBSET (1..n) |->
              IF s = {} THEN ScanStart ELSE next[Max(s)][g[s \ {Max(s)}]]]
    BY <1>3 DEF FoldsBy
<1>9. g = [s \in SUBSET (1..n) |->
              IF s = {} THEN ScanStart
              ELSE ScanStep(text, g[s \ {Max(s)}], [i \in DOMAIN text |-> i][Max(s)])]
    BY <1>7, <1>8, Zenon
<1>10. Scanning(text, g)
    BY <1>1, <1>9 DEF Scanning
<1>11. \A s \in SUBSET (DOMAIN text) : g[s] \in A
    BY <1>1, <1>6
<1> QED
    BY <1>10, <1>11 DEF A

(* What the scan finds. *)
LEMMA ScanIs ==
    ASSUME NEW text
    PROVE  Scan(text) = (CHOOSE h : Scanning(text, h))[DOMAIN text].found
BY DEF Scan, FoldLeft, MapThenFoldSet, Scanning, ScanStep, ScanStart

(* The first k of n, and one more than n. *)
LEMMA UpTo ==
    ASSUME NEW n \in Nat, NEW k \in 1..n
    PROVE  /\ 1..k \in SUBSET (1..n) /\ k \in 1..k /\ 1..k # {} /\ k \in Nat
           /\ (1..k) \ {k} = 1..k - 1
           /\ k \in 0..n /\ k - 1 \in 0..n
OBVIOUS

(* A place up to n + 1 is up to n, or n + 1. *)
LEMMA OneMore ==
    ASSUME NEW n \in Nat
    PROVE  \A m \in 1..n + 1 : m \in 1..n \/ m = n + 1
OBVIOUS

(* An answer is scanned from its first token to its last. *)
LEMMA ScanStepwise ==
    ASSUME NEW text, ListOf(text)
    PROVE  \E t : /\ t[0] = ScanStart
                  /\ \A k \in 1..Len(text) : t[k] = ScanStep(text, t[k - 1], k)
                  /\ \A k \in 0..Len(text) : t[k] \in Scanned(text)
                  /\ Scan(text) = t[Len(text)].found
<1> DEFINE h == CHOOSE h : Scanning(text, h)
           n == Len(text)
           t == [k \in 0..n |-> h[1..k]]
<1>1. n \in Nat /\ DOMAIN text = 1..n
    BY AnswerIsAList
<1>2. Scanning(text, h)
    BY ScanningExists
<1>3. Scan(text) = h[1..n].found
    BY <1>1, ScanIs
<1> HIDE DEF h, n
<1>4. \A s \in SUBSET (1..n) :
          h[s] = IF s = {} THEN ScanStart
                 ELSE ScanStep(text, h[s \ {Max(s)}], [i \in DOMAIN text |-> i][Max(s)])
    BY <1>1, <1>2, Zenon DEF Scanning
<1>5. t[0] = ScanStart
    <2>1. 1..0 = {} /\ {} \in SUBSET (1..n) /\ 0 \in 0..n
        BY <1>1
    <2> QED
        BY <1>4, <2>1
<1>6. ASSUME NEW k \in 1..n
      PROVE  t[k] = ScanStep(text, t[k - 1], k)
    <2>1. 1..k \in SUBSET (1..n) /\ k \in 1..k /\ 1..k # {} /\ k \in Nat
        BY <1>1, UpTo
    <2>2. Max(1..k) = k
        BY <2>1, LatestIs
    <2>3. (1..k) \ {k} = 1..k - 1
        BY <1>1, UpTo
    <2>4. k \in 0..n /\ k - 1 \in 0..n
        BY <1>1, UpTo
    <2>5. [i \in DOMAIN text |-> i][k] = k
        BY <1>1
    <2>6. h[1..k] = ScanStep(text, h[1..k - 1], k)
        <3>1. h[1..k] = ScanStep(text, h[(1..k) \ {Max(1..k)}], [i \in DOMAIN text |-> i][Max(1..k)])
            BY <1>4, <2>1
        <3> QED
            BY <2>2, <2>3, <2>5, <3>1
    <2> QED
        BY <2>4, <2>6
<1>7. t[n] = h[1..n]
    BY <1>1
<1> HIDE DEF t
<1> DEFINE P == {k \in 0..n : t[k] \in Scanned(text)}
<1>8. 0 \in P
    <2>1. ScanStart \in Scanned(text)
        BY DEF ScanStart, Scanned
    <2> QED
        BY <1>1, <1>5, <2>1
<1>9. ASSUME NEW k \in 1..n, k - 1 \in P
      PROVE  k \in P
    <2>1. t[k - 1] \in Scanned(text)
        BY <1>9
    <2>2. ScanStep(text, t[k - 1], k) \in Scanned(text)
        BY <2>1, ScanStepStays DEF n
    <2> QED
        BY <1>1, <1>6, <2>2
<1> HIDE DEF P
<1>10. ASSUME NEW k \in 0..n
       PROVE  k \in P
    <2>1. k \in Nat /\ \A i \in 1..k : i \in 1..n
        BY <1>1
    <2> QED
        BY <1>8, <1>9, <2>1, Climbing
<1>11. \A k \in 0..n : t[k] \in Scanned(text)
    BY <1>10 DEF P
<1> QED
    BY <1>3, <1>5, <1>6, <1>7, <1>11 DEF n

(* A brace is one deeper, or one less. *)
LEMMA OneMoreOf ==
    ASSUME NEW k \in Nat \ {0}, NEW Q
    PROVE  /\ Cardinality({j \in 1..k : j \in Q}) \in Nat
           /\ Cardinality({j \in 1..k - 1 : j \in Q}) \in Nat
           /\ k \in Q => Cardinality({j \in 1..k : j \in Q}) = Cardinality({j \in 1..k - 1 : j \in Q}) + 1
           /\ k \notin Q => Cardinality({j \in 1..k : j \in Q}) = Cardinality({j \in 1..k - 1 : j \in Q})
<1> DEFINE A == {j \in 1..k : j \in Q}
           B == {j \in 1..k - 1 : j \in Q}
<1>1. IsFiniteSet(A) /\ IsFiniteSet(B)
    <2>1. IsFiniteSet(1..k) /\ IsFiniteSet(1..k - 1)
        BY FS_Interval
    <2>2. A \in SUBSET (1..k) /\ B \in SUBSET (1..k - 1)
        OBVIOUS
    <2> QED
        BY <2>1, <2>2, FS_Subset
<1>2. \A j \in 1..k : j # k => j \in 1..k - 1
    OBVIOUS
<1>3. k \in 1..k /\ k \notin 1..k - 1 /\ \A j \in 1..k - 1 : j \in 1..k
    OBVIOUS
<1>4. k \in Q => A = B \cup {k} /\ k \notin B
    BY <1>2, <1>3
<1>5. k \notin Q => A = B
    BY <1>2, <1>3
<1> HIDE DEF A, B
<1>6. k \notin B => Cardinality(B \cup {k}) = Cardinality(B) + 1
    BY <1>1, FS_AddElement
<1>7. Cardinality(A) \in Nat /\ Cardinality(B) \in Nat
    BY <1>1, FS_CardinalityType
<1> QED
    BY <1>4, <1>5, <1>6, <1>7 DEF A, B

(* So the depth after a brace is one more or one less than before it, and as before where
   there is none. *)
LEMMA DepthStep ==
    ASSUME NEW text, NEW k \in Nat \ {0}
    PROVE  /\ Depth(text, k) \in Int /\ Depth(text, k - 1) \in Int
           /\ Opens(text[k]) => Depth(text, k) = Depth(text, k - 1) + 1
           /\ Closes(text[k]) => Depth(text, k) = Depth(text, k - 1) - 1
           /\ ~ Opens(text[k]) /\ ~ Closes(text[k]) => Depth(text, k) = Depth(text, k - 1)
           /\ ~ (Opens(text[k]) /\ Closes(text[k]))
<1> DEFINE O == {j \in 1..k : Opens(text[j])}
           C == {j \in 1..k : Closes(text[j])}
           o == Cardinality({j \in 1..k : Opens(text[j])})
           c == Cardinality({j \in 1..k : Closes(text[j])})
           p == Cardinality({j \in 1..k - 1 : Opens(text[j])})
           q == Cardinality({j \in 1..k - 1 : Closes(text[j])})
<1>1. k \in 1..k /\ \A j \in 1..k - 1 : j \in 1..k
    OBVIOUS
<1>2. /\ {j \in 1..k : j \in O} = {j \in 1..k : Opens(text[j])}
      /\ {j \in 1..k : j \in C} = {j \in 1..k : Closes(text[j])}
      /\ {j \in 1..k - 1 : j \in O} = {j \in 1..k - 1 : Opens(text[j])}
      /\ {j \in 1..k - 1 : j \in C} = {j \in 1..k - 1 : Closes(text[j])}
      /\ k \in O <=> Opens(text[k])
      /\ k \in C <=> Closes(text[k])
    BY <1>1
<1> HIDE DEF O, C
<1>3. /\ o \in Nat /\ p \in Nat
      /\ Opens(text[k]) => o = p + 1
      /\ ~ Opens(text[k]) => o = p
    BY <1>2, OneMoreOf
<1>4. /\ c \in Nat /\ q \in Nat
      /\ Closes(text[k]) => c = q + 1
      /\ ~ Closes(text[k]) => c = q
    BY <1>2, OneMoreOf
<1>5. ~ (Opens(text[k]) /\ Closes(text[k]))
    BY DEF Opens, Closes
<1>6. Depth(text, k) = o - c /\ Depth(text, k - 1) = p - q
    BY DEF Depth
<1> HIDE DEF o, c, p, q
<1> QED
    BY <1>3, <1>4, <1>5, <1>6

(* Spans from an outermost brace to the one that closes it. *)
Braced(text) ==
    {s \in (DOMAIN text) \X (DOMAIN text) :
        /\ Opens(text[s[1]]) /\ Closes(text[s[2]]) /\ s[1] < s[2]
        /\ Depth(text, s[1] - 1) = 0 /\ Depth(text, s[2]) = 0
        /\ \A i \in s[1]..s[2] - 1 : Depth(text, i) > 0}

(* What the scan knows after k tokens; `at` are the spans of what it has found. *)
KnowsUntil(text, k, s, at) ==
    /\ s.depth = Depth(text, k)
    /\ s.depth > 0 => /\ s.start \in 1..k /\ Opens(text[s.start]) /\ Depth(text, s.start - 1) = 0
                      /\ \A i \in s.start..k : Depth(text, i) > 0
    /\ \A m \in 1..Len(s.found) :
           at[m] \in Braced(text) /\ at[m][2] <= k /\ s.found[m] = SubSeq(text, at[m][1], at[m][2])
    /\ \A m, l \in 1..Len(s.found) : m < l => at[m][2] < at[l][1]
    /\ \A b \in Braced(text) : b[2] <= k => \E m \in 1..Len(s.found) : at[m] = b

(* A span that ends here ends at a brace that closes the last one open. *)
LEMMA EndsAtTheLastBrace ==
    ASSUME NEW text, ListOf(text), NEW b \in Braced(text), NEW k \in 1..Len(text), b[2] = k
    PROVE  Closes(text[k]) /\ Depth(text, k - 1) = 1
<1>1. /\ b[1] \in 1..Len(text) /\ b[2] \in 1..Len(text) /\ Len(text) \in Nat
      /\ Closes(text[b[2]]) /\ b[1] < b[2] /\ Depth(text, b[2]) = 0
    BY AnswerIsAList DEF Braced
<1>2. k \in Nat \ {0}
    BY <1>1
<1>3. Depth(text, k) = Depth(text, k - 1) - 1 /\ Depth(text, k - 1) \in Int
    BY <1>1, <1>2, DepthStep
<1> QED
    BY <1>1, <1>3

(* The span that ends here starts where the scan is in it. *)
LEMMA StartsWhereItStarted ==
    ASSUME NEW text, ListOf(text), NEW b \in Braced(text), NEW k \in 1..Len(text), b[2] = k,
           NEW start \in 1..k - 1, Depth(text, start - 1) = 0, \A i \in start..k - 1 : Depth(text, i) > 0
    PROVE  b[1] = start
<1>1. /\ b[1] \in 1..Len(text) /\ Len(text) \in Nat /\ b[1] < b[2]
      /\ Depth(text, b[1] - 1) = 0 /\ \A i \in b[1]..k - 1 : Depth(text, i) > 0
    BY AnswerIsAList DEF Braced
<1>2. ~ (b[1] < start)
    <2> SUFFICES ASSUME b[1] < start
                 PROVE  FALSE
        OBVIOUS
    <2>1. start - 1 \in b[1]..k - 1
        BY <1>1
    <2> QED
        BY <1>1, <2>1
<1>3. ~ (start < b[1])
    <2> SUFFICES ASSUME start < b[1]
                 PROVE  FALSE
        OBVIOUS
    <2>1. b[1] - 1 \in start..k - 1
        BY <1>1
    <2> QED
        BY <1>1, <2>1
<1> QED
    BY <1>1, <1>2, <1>3

(* Where no span ends, nothing more is found. *)
LEMMA NothingEndsHere ==
    ASSUME NEW text, ListOf(text), NEW k \in 1..Len(text), NEW s, NEW r, NEW at,
           KnowsUntil(text, k - 1, s, at), r.found = s.found, Len(s.found) \in Nat,
           ~ (Closes(text[k]) /\ Depth(text, k - 1) = 1),
           r.depth = Depth(text, k),
           r.depth > 0 => /\ r.start \in 1..k /\ Opens(text[r.start]) /\ Depth(text, r.start - 1) = 0
                          /\ \A i \in r.start..k : Depth(text, i) > 0
    PROVE  KnowsUntil(text, k, r, at)
<1>1. \A b \in Braced(text) : b[1] \in Int /\ b[2] \in Int
    BY AnswerIsAList DEF Braced
<1>2. \A b \in Braced(text) : b[2] # k
    BY EndsAtTheLastBrace
<1>3. \A b \in Braced(text) : b[2] <= k => b[2] <= k - 1
    BY <1>1, <1>2
<1>4. \A b \in Braced(text) : b[2] <= k - 1 => b[2] <= k
    BY <1>1
<1>5. \A m \in 1..Len(r.found) :
          at[m] \in Braced(text) /\ at[m][2] <= k /\ r.found[m] = SubSeq(text, at[m][1], at[m][2])
    BY <1>4 DEF KnowsUntil
<1>6. \A m, l \in 1..Len(r.found) : m < l => at[m][2] < at[l][1]
    BY DEF KnowsUntil
<1>7. \A b \in Braced(text) : b[2] <= k => \E m \in 1..Len(r.found) : at[m] = b
    BY <1>3 DEF KnowsUntil
<1> QED
    BY <1>5, <1>6, <1>7 DEF KnowsUntil

(* Where one ends, it is the next found. *)
LEMMA OneEndsHere ==
    ASSUME NEW text, ListOf(text), NEW k \in 1..Len(text), NEW s \in Scanned(text), NEW at,
           KnowsUntil(text, k - 1, s, at), Closes(text[k]), s.depth = 1
    PROVE  KnowsUntil(text, k, [depth |-> 0, start |-> 0, found |-> Append(s.found, SubSeq(text, s.start, k))],
                      [m \in 1..Len(s.found) + 1 |-> IF m <= Len(s.found) THEN at[m] ELSE <<s.start, k>>])
<1> DEFINE start == s.start
           n == Len(s.found)
           found == Append(s.found, SubSeq(text, s.start, k))
           r == [depth |-> 0, start |-> 0, found |-> found]
           next == [m \in 1..n + 1 |-> IF m <= n THEN at[m] ELSE <<start, k>>]
           T == {text[j] : j \in DOMAIN text}
<1>1. n \in Nat /\ s.found \in Seq(Seq(T)) /\ Len(text) \in Nat /\ DOMAIN text = 1..Len(text)
    BY AnswerIsAList DEF Scanned
<1>2. /\ start \in 1..k - 1 /\ Opens(text[start]) /\ Depth(text, start - 1) = 0
      /\ \A i \in start..k - 1 : Depth(text, i) > 0 /\ Depth(text, k - 1) = 1
    BY DEF KnowsUntil
<1>3. Depth(text, k - 1) = 1
    BY DEF KnowsUntil
<1>4. Depth(text, k) = 0
    <2>1. k \in Nat \ {0}
        BY <1>1
    <2> QED
        BY <1>3, <2>1, DepthStep
<1>5. <<start, k>> \in Braced(text)
    BY <1>1, <1>2, <1>4 DEF Braced
<1>6. /\ Len(found) = n + 1 /\ found[n + 1] = SubSeq(text, start, k)
      /\ \A m \in 1..n : found[m] = s.found[m]
    <2>1. SubSeq(text, start, k) \in Seq(T)
        <3>1. \A j \in start..k : text[j] \in T
            BY <1>1, <1>2
        <3>2. start \in Int /\ k \in Int
            BY <1>1, <1>2
        <3> HIDE DEF T, start
        <3> QED
            BY <3>1, <3>2, SubSeqProperties
    <2> DEFINE x == SubSeq(text, start, k)
    <2>2. x \in Seq(T) /\ s.found \in Seq(Seq(T))
        BY <1>1, <2>1
    <2> HIDE DEF T, x
    <2>3. /\ Len(Append(s.found, x)) = Len(s.found) + 1
          /\ Append(s.found, x)[Len(s.found) + 1] = x
          /\ \A m \in 1..Len(s.found) : Append(s.found, x)[m] = s.found[m]
        BY <2>2, AppendProperties
    <2>4. found = Append(s.found, x) /\ n = Len(s.found)
        BY DEF x
    <2> HIDE DEF found, n
    <2> QED
        BY <2>3, <2>4 DEF x
<1>7. /\ \A m \in 1..n : next[m] = at[m]
      /\ next[n + 1] = <<start, k>>
    BY <1>1
<1>8. \A m \in 1..n : at[m] \in Braced(text) /\ at[m][2] <= k - 1 /\ s.found[m] = SubSeq(text, at[m][1], at[m][2])
    BY DEF KnowsUntil
<1>9. \A m, l \in 1..n : m < l => at[m][2] < at[l][1]
    BY DEF KnowsUntil
<1>10. \A b \in Braced(text) : b[2] <= k - 1 => \E m \in 1..n : at[m] = b
    BY DEF KnowsUntil
<1>11. \A m \in 1..n + 1 : m \in 1..n \/ m = n + 1
    <2>1. n \in Nat
        BY <1>1
    <2> HIDE DEF n
    <2> QED
        BY <2>1, OneMore
<1>12. \A b \in Braced(text) : b[1] \in 1..Len(text) /\ b[2] \in 1..Len(text) /\ Depth(text, b[2]) = 0
    BY <1>1 DEF Braced
<1>13. \A m \in 1..n : at[m][2] < start
    <2> SUFFICES ASSUME NEW m \in 1..n, ~ (at[m][2] < start)
                 PROVE  FALSE
        OBVIOUS
    <2>1. at[m][2] \in start..k - 1
        BY <1>1, <1>2, <1>8, <1>12
    <2>2. Depth(text, at[m][2]) = 0
        BY <1>8, <1>12
    <2> QED
        BY <1>2, <2>1, <2>2
<1>14. \A b \in Braced(text) : b[2] = k => b = <<start, k>>
    <2> SUFFICES ASSUME NEW b \in Braced(text), b[2] = k
                 PROVE  b = <<start, k>>
        OBVIOUS
    <2>1. b[1] = start
        BY <1>2, StartsWhereItStarted
    <2>2. b = <<b[1], b[2]>>
        BY DEF Braced
    <2> QED
        BY <2>1, <2>2
<1> HIDE DEF next, n, found, start, T
<1>15. \A m \in 1..n + 1 :
           next[m] \in Braced(text) /\ next[m][2] <= k /\ found[m] = SubSeq(text, next[m][1], next[m][2])
    <2>1. \A m \in 1..n : at[m][2] <= k
        BY <1>1, <1>8, <1>12
    <2>2. \A m \in 1..n : next[m] \in Braced(text) /\ next[m][2] <= k /\ found[m] = SubSeq(text, next[m][1], next[m][2])
        BY <1>6, <1>7, <1>8, <2>1
    <2>3. next[n + 1] \in Braced(text) /\ next[n + 1][1] = start /\ next[n + 1][2] = k
        BY <1>5, <1>7
    <2> QED
        BY <1>1, <1>6, <1>11, <2>2, <2>3
<1>16. \A m, l \in 1..n + 1 : m < l => next[m][2] < next[l][1]
    <2> SUFFICES ASSUME NEW m \in 1..n + 1, NEW l \in 1..n + 1, m < l
                 PROVE  next[m][2] < next[l][1]
        OBVIOUS
    <2>1. m \in 1..n
        BY <1>1, <1>11
    <2>2. CASE l \in 1..n
        BY <1>7, <1>9, <2>1, <2>2
    <2>3. CASE l = n + 1
        BY <1>7, <1>13, <2>1, <2>3
    <2> QED
        BY <1>11, <2>2, <2>3
<1>17. \A b \in Braced(text) : b[2] <= k => \E m \in 1..n + 1 : next[m] = b
    <2> SUFFICES ASSUME NEW b \in Braced(text), b[2] <= k
                 PROVE  \E m \in 1..n + 1 : next[m] = b
        OBVIOUS
    <2>1. CASE b[2] = k
        <3>1. n + 1 \in 1..n + 1
            BY <1>1
        <3> QED
            BY <1>7, <1>14, <2>1, <3>1
    <2>2. CASE b[2] # k
        <3>1. b[2] <= k - 1
            BY <1>1, <1>12, <2>2
        <3>2. PICK m \in 1..n : at[m] = b
            BY <1>10, <3>1
        <3>3. m \in 1..n + 1
            BY <1>1
        <3> QED
            BY <1>7, <3>2, <3>3
    <2> QED
        BY <2>1, <2>2
<1>18. KnowsUntil(text, k, r, next)
    BY <1>4, <1>6, <1>15, <1>16, <1>17 DEF KnowsUntil
<1> QED
    BY <1>18 DEF next, n, found, start

(* Before the first token no brace is open. *)
LEMMA NoDepthAtFirst ==
    ASSUME NEW text
    PROVE  Depth(text, 0) = 0
<1>1. {j \in 1..0 : Opens(text[j])} = {} /\ {j \in 1..0 : Closes(text[j])} = {}
    OBVIOUS
<1>2. Cardinality({}) = 0
    BY FS_EmptySet
<1> QED
    BY <1>1, <1>2 DEF Depth

(* A token more: an opening brace. *)
LEMMA OneOpens ==
    ASSUME NEW text, ListOf(text), NEW k \in 1..Len(text), NEW s \in Scanned(text),
           NEW at, KnowsUntil(text, k - 1, s, at), Opens(text[k])
    PROVE  KnowsUntil(text, k, ScanStep(text, s, k), at)
<1> DEFINE r == ScanStep(text, s, k)
           d == s.depth
           a == s.start
<1>1. Len(text) \in Nat /\ k \in Nat \ {0} /\ Len(s.found) \in Nat /\ d \in Int /\ a \in Nat
    BY AnswerIsAList DEF Scanned
<1>2. /\ d = Depth(text, k - 1)
      /\ d > 0 => /\ a \in 1..k - 1 /\ Opens(text[a]) /\ Depth(text, a - 1) = 0
                  /\ \A i \in a..k - 1 : Depth(text, i) > 0
    BY DEF KnowsUntil
<1>3. r = [s EXCEPT !.depth = @ + 1, !.start = IF s.depth = 0 THEN k ELSE @]
    BY DEF ScanStep
<1>4. r.found = s.found /\ r.depth = d + 1 /\ r.start = IF d = 0 THEN k ELSE a
    BY <1>3 DEF Scanned
<1>5. Depth(text, k) = d + 1 /\ ~ Closes(text[k])
    BY <1>1, <1>2, DepthStep
<1> HIDE DEF r
<1>6. ASSUME d >= 0
      PROVE  /\ r.start \in 1..k /\ Opens(text[r.start]) /\ Depth(text, r.start - 1) = 0
             /\ \A i \in r.start..k : Depth(text, i) > 0
    <2>1. CASE d = 0
        <3>1. r.start = k /\ \A i \in k..k : i = k
            BY <1>1, <1>4, <2>1
        <3>2. Depth(text, k) > 0 /\ Depth(text, k - 1) = 0
            BY <1>2, <1>5, <2>1
        <3> QED
            BY <1>1, <3>1, <3>2
    <2>2. CASE d # 0
        <3>1. d > 0
            BY <1>1, <1>6, <2>2
        <3>2. r.start = a /\ a \in 1..k - 1
            BY <1>2, <1>4, <2>2, <3>1
        <3>3. \A i \in a..k : i \in a..k - 1 \/ i = k
            BY <1>1
        <3>4. Depth(text, k) > 0
            BY <1>1, <1>5, <3>1
        <3>5. a \in 1..k
            BY <1>1, <3>2
        <3>6. \A i \in a..k : Depth(text, i) > 0
            BY <1>2, <3>1, <3>3, <3>4
        <3> HIDE DEF a
        <3> QED
            BY <1>2, <3>1, <3>2, <3>5, <3>6
    <2> QED
        BY <2>1, <2>2
<1>7. r.depth = Depth(text, k) /\ ~ (Closes(text[k]) /\ Depth(text, k - 1) = 1)
    BY <1>4, <1>5
<1>8. r.depth > 0 => d >= 0
    BY <1>1, <1>4
<1> QED
    BY <1>1, <1>4, <1>6, <1>7, <1>8, NothingEndsHere DEF r

(* One that is no brace. *)
LEMMA OneIsNoBrace ==
    ASSUME NEW text, ListOf(text), NEW k \in 1..Len(text), NEW s \in Scanned(text),
           NEW at, KnowsUntil(text, k - 1, s, at), ~ Opens(text[k]), ~ Closes(text[k])
    PROVE  KnowsUntil(text, k, ScanStep(text, s, k), at)
<1> DEFINE d == s.depth
           a == s.start
<1>1. Len(text) \in Nat /\ k \in Nat \ {0} /\ Len(s.found) \in Nat /\ d \in Int /\ a \in Nat
    BY AnswerIsAList DEF Scanned
<1>2. /\ d = Depth(text, k - 1)
      /\ d > 0 => /\ a \in 1..k - 1 /\ Opens(text[a]) /\ Depth(text, a - 1) = 0
                  /\ \A i \in a..k - 1 : Depth(text, i) > 0
    BY DEF KnowsUntil
<1>3. ScanStep(text, s, k) = s
    BY DEF ScanStep
<1>4. Depth(text, k) = d
    BY <1>1, <1>2, DepthStep
<1>5. d > 0 => /\ a \in 1..k /\ Opens(text[a]) /\ Depth(text, a - 1) = 0
               /\ \A i \in a..k : Depth(text, i) > 0
    <2> SUFFICES ASSUME d > 0
                 PROVE  /\ a \in 1..k /\ Opens(text[a]) /\ Depth(text, a - 1) = 0
                        /\ \A i \in a..k : Depth(text, i) > 0
        OBVIOUS
    <2>1. \A i \in a..k : i \in a..k - 1 \/ i = k
        BY <1>1
    <2>2. a \in 1..k
        BY <1>1, <1>2
    <2> QED
        BY <1>2, <1>4, <2>1, <2>2
<1> QED
    BY <1>1, <1>3, <1>4, <1>5, NothingEndsHere

(* A closing one. *)
LEMMA OneCloses ==
    ASSUME NEW text, ListOf(text), NEW k \in 1..Len(text), NEW s \in Scanned(text),
           NEW at, KnowsUntil(text, k - 1, s, at), Closes(text[k])
    PROVE  \E next : KnowsUntil(text, k, ScanStep(text, s, k), next)
<1> DEFINE r == ScanStep(text, s, k)
           d == s.depth
           a == s.start
<1>1. Len(text) \in Nat /\ k \in Nat \ {0} /\ Len(s.found) \in Nat /\ d \in Int /\ a \in Nat
    BY AnswerIsAList DEF Scanned
<1>2. /\ d = Depth(text, k - 1)
      /\ d > 0 => /\ a \in 1..k - 1 /\ Opens(text[a]) /\ Depth(text, a - 1) = 0
                  /\ \A i \in a..k - 1 : Depth(text, i) > 0
    BY DEF KnowsUntil
<1>3. Depth(text, k) = d - 1 /\ ~ Opens(text[k])
    BY <1>1, <1>2, DepthStep
<1>4. CASE d = 1
    <2>1. a # 0
        BY <1>1, <1>2, <1>4
    <2>2. r = [depth |-> 0, start |-> 0, found |-> Append(s.found, SubSeq(text, s.start, k))]
        BY <1>3, <1>4, <2>1 DEF ScanStep
    <2> HIDE DEF r
    <2> QED
        BY <1>4, <2>2, OneEndsHere, Zenon DEF r
<1>5. CASE d # 1
    <2>1. r = [s EXCEPT !.depth = @ - 1]
        BY <1>3, <1>5 DEF ScanStep
    <2>2. r.found = s.found /\ r.depth = d - 1 /\ r.start = a
        BY <2>1 DEF Scanned
    <2> HIDE DEF r
    <2>3. Depth(text, k - 1) # 1
        BY <1>2, <1>5
    <2>4. \A i \in a..k : i \in a..k - 1 \/ i = k
        BY <1>1
    <2>5. ASSUME Depth(text, k) > 0
          PROVE  d > 0 /\ a \in 1..k
        BY <1>1, <1>2, <1>3, <2>5
    <2>6. ASSUME Depth(text, k) > 0
          PROVE  \A i \in a..k : Depth(text, i) > 0
        BY <1>2, <2>4, <2>5, <2>6
    <2>7. ASSUME Depth(text, k) > 0
          PROVE  /\ r.start \in 1..k /\ Opens(text[r.start]) /\ Depth(text, r.start - 1) = 0
                 /\ \A i \in r.start..k : Depth(text, i) > 0
        BY <1>2, <2>2, <2>5, <2>6, <2>7
    <2>8. r.depth = Depth(text, k)
        BY <1>3, <2>2
    <2>9. KnowsUntil(text, k, r, at)
        BY <1>1, <2>2, <2>3, <2>7, <2>8, NothingEndsHere
    <2> QED
        BY <2>9 DEF r
<1> QED
    BY <1>4, <1>5

(* After the last token the scan has found every span, in their order. *)
LEMMA ScanFindsTheSpans ==
    ASSUME NEW text, ListOf(text)
    PROVE  /\ Scan(text) \in Seq(Seq({text[i] : i \in DOMAIN text}))
           /\ \E s, at : s.found = Scan(text) /\ KnowsUntil(text, Len(text), s, at)
<1> DEFINE n == Len(text)
<1>1. n \in Nat
    BY AnswerIsAList
<1>2. PICK t : /\ t[0] = ScanStart
               /\ \A k \in 1..n : t[k] = ScanStep(text, t[k - 1], k)
               /\ \A k \in 0..n : t[k] \in Scanned(text)
               /\ Scan(text) = t[n].found
    BY ScanStepwise
<1> DEFINE P == {k \in 0..n : \E at : KnowsUntil(text, k, t[k], at)}
<1>3. Depth(text, 0) = 0
    BY NoDepthAtFirst
<1> HIDE DEF n
<1>4. 0 \in P
    <2>1. \A b \in Braced(text) : b[2] \in 1..Len(text) /\ Len(text) \in Nat
        BY AnswerIsAList DEF Braced
    <2>2. \A b \in Braced(text) : ~ (b[2] <= 0)
        BY <2>1
    <2>3. ScanStart.depth = 0 /\ ScanStart.found = <<>> /\ Len(<<>>) = 0
        BY DEF ScanStart
    <2>4. \A m \in 1..Len(ScanStart.found) : FALSE
        BY <2>3
    <2>5. KnowsUntil(text, 0, ScanStart, <<>>)
        BY <1>3, <2>2, <2>3, <2>4 DEF KnowsUntil
    <2>6. 0 \in 0..n
        BY <1>1
    <2> QED
        BY <1>2, <2>5, <2>6
<1>5. ASSUME NEW k \in 1..n, k - 1 \in P
      PROVE  k \in P
    <2>1. PICK at : KnowsUntil(text, k - 1, t[k - 1], at)
        BY <1>5
    <2> DEFINE s == t[k - 1]
    <2>2. s \in Scanned(text) /\ k \in 0..n /\ k \in 1..Len(text)
        BY <1>1, <1>2, UpTo DEF n
    <2> HIDE DEF s
    <2>3. KnowsUntil(text, k - 1, s, at)
        BY <2>1 DEF s
    <2>4. \E next : KnowsUntil(text, k, ScanStep(text, s, k), next)
        <3>1. CASE Opens(text[k])
            BY <2>2, <2>3, <3>1, OneOpens
        <3>2. CASE Closes(text[k])
            BY <2>2, <2>3, <3>2, OneCloses
        <3>3. CASE ~ Opens(text[k]) /\ ~ Closes(text[k])
            BY <2>2, <2>3, <3>3, OneIsNoBrace
        <3> QED
            BY <3>1, <3>2, <3>3
    <2>5. t[k] = ScanStep(text, s, k)
        BY <1>2 DEF s
    <2> QED
        BY <2>2, <2>4, <2>5
<1> HIDE DEF P
<1>6. n \in P
    BY <1>1, <1>4, <1>5, Climbing
<1>7. n \in 0..n
    BY <1>1
<1>8. Scan(text) \in Seq(Seq({text[i] : i \in DOMAIN text}))
    BY <1>2, <1>7 DEF Scanned
<1>9. PICK at : KnowsUntil(text, n, t[n], at)
    BY <1>6 DEF P
<1> QED
    BY <1>2, <1>8, <1>9 DEF n

(* Of a list, the places of the members that are objects. *)
Parsed(list) == {m \in DOMAIN list : Parses(list[m])}

(* The objects of an answer are the spans that the scan found and that parse. *)
LEMMA FoundObjects ==
    ASSUME NEW text, ListOf(text), NEW s, NEW at, KnowsUntil(text, Len(text), s, at),
           NEW L \in Nat, Len(s.found) = L, DOMAIN s.found = 1..L
    PROVE  /\ \A m \in Parsed(s.found) : at[m] \in Objects(text)
           /\ \A b \in Objects(text) : \E m \in Parsed(s.found) : at[m] = b
<1>1. Objects(text) = {b \in Braced(text) : Parses(SubSeq(text, b[1], b[2]))}
    BY Zenon DEF Objects, Braced
<1>2. /\ \A m \in 1..L : at[m] \in Braced(text) /\ s.found[m] = SubSeq(text, at[m][1], at[m][2])
      /\ \A b \in Braced(text) : b[2] <= Len(text) => \E m \in 1..L : at[m] = b
    BY DEF KnowsUntil
<1>3. \A b \in Braced(text) : b[2] <= Len(text)
    BY AnswerIsAList DEF Braced
<1>4. \A m \in Parsed(s.found) : at[m] \in Objects(text)
    BY <1>1, <1>2 DEF Parsed
<1>5. ASSUME NEW b \in Objects(text)
      PROVE  \E m \in Parsed(s.found) : at[m] = b
    <2>1. b \in Braced(text) /\ Parses(SubSeq(text, b[1], b[2]))
        BY <1>1
    <2>2. PICK m \in 1..L : at[m] = b
        BY <1>2, <1>3, <2>1
    <2>3. Parses(s.found[m])
        BY <1>2, <2>1, <2>2
    <2> QED
        BY <2>2, <2>3 DEF Parsed
<1> QED
    BY <1>4, <1>5

(* The first of them that parses is the first object. *)
LEMMA FirstOfTheFound ==
    ASSUME NEW text, ListOf(text)
    PROVE  LET first == {s \in Objects(text) : \A t \in Objects(text) : s[1] <= t[1]}
           IN /\ Parsed(Scan(text)) = {} => first = {}
              /\ Parsed(Scan(text)) # {} =>
                     /\ first # {}
                     /\ \A b \in first : Scan(text)[Min(Parsed(Scan(text)))] = SubSeq(text, b[1], b[2])
<1> DEFINE found == Scan(text)
           L == Len(found)
           first == {s \in Objects(text) : \A t \in Objects(text) : s[1] <= t[1]}
<1>1. found \in Seq(Seq({text[i] : i \in DOMAIN text}))
    BY ScanFindsTheSpans
<1>2. L \in Nat /\ DOMAIN found = 1..L
    BY <1>1
<1> HIDE DEF found
<1>3. PICK s, at : s.found = found /\ KnowsUntil(text, Len(text), s, at)
    BY ScanFindsTheSpans DEF found
<1>4. /\ \A m \in Parsed(found) : at[m] \in Objects(text)
      /\ \A b \in Objects(text) : \E m \in Parsed(found) : at[m] = b
    <2> HIDE DEF L
    <2>1. L \in Nat /\ Len(s.found) = L /\ DOMAIN s.found = 1..L
        BY <1>2, <1>3 DEF L
    <2> QED
        BY <1>3, <2>1, FoundObjects
<1>5. CASE Parsed(found) = {}
    BY <1>4, <1>5 DEF found
<1>6. CASE Parsed(found) # {}
    <2> DEFINE m == Min(Parsed(found))
    <2>1. m \in Parsed(found) /\ \A l \in Parsed(found) : m <= l
        <3>1. Parsed(found) \in SUBSET (1..L)
            BY <1>2 DEF Parsed
        <3> QED
            BY <1>2, <1>6, <3>1, Earliest
    <2> HIDE DEF m
    <2>2. m \in 1..L /\ \A l \in Parsed(found) : l \in 1..L
        BY <1>2, <2>1 DEF Parsed
    <2>3. /\ \A k, l \in 1..L : k < l => at[k][2] < at[l][1]
          /\ \A l \in 1..L : found[l] = SubSeq(text, at[l][1], at[l][2])
        BY <1>3 DEF KnowsUntil
    <2>4. \A b \in Objects(text) : b[1] \in Int /\ b[2] \in Int /\ b[1] < b[2]
        BY AnswerIsAList DEF Objects
    <2>5. \A l \in Parsed(found) : l # m => at[m][1] < at[l][1]
        <3> SUFFICES ASSUME NEW l \in Parsed(found), l # m
                     PROVE  at[m][1] < at[l][1]
            OBVIOUS
        <3>1. m < l
            BY <1>2, <2>1, <2>2
        <3>2. at[m][2] < at[l][1]
            BY <2>2, <2>3, <3>1
        <3>3. at[m] \in Objects(text) /\ at[l] \in Objects(text)
            BY <1>4, <2>1
        <3> QED
            BY <2>4, <3>2, <3>3
    <2>6. at[m] \in first
        <3>1. at[m] \in Objects(text)
            BY <1>4, <2>1
        <3>2. ASSUME NEW t \in Objects(text)
              PROVE  at[m][1] <= t[1]
            <4>1. PICK l \in Parsed(found) : at[l] = t
                BY <1>4
            <4> QED
                BY <2>4, <2>5, <3>1, <4>1
        <3> QED
            BY <3>1, <3>2
    <2>7. ASSUME NEW b \in first
          PROVE  b = at[m]
        <3>1. PICK l \in Parsed(found) : at[l] = b
            BY <1>4
        <3>2. b[1] <= at[m][1] /\ b[1] \in Int /\ at[m][1] \in Int
            BY <1>4, <2>1, <2>4
        <3>3. ~ (at[m][1] < b[1])
            BY <3>2
        <3> QED
            BY <2>5, <3>1, <3>3
    <2>8. \A b \in first : found[m] = SubSeq(text, b[1], b[2])
        BY <2>2, <2>3, <2>7
    <2> QED
        BY <1>6, <2>6, <2>8 DEF m, found
<1> QED
    BY <1>5, <1>6 DEF found

(* The scan of any answer is a list of parts of it. *)
LEMMA ScanFound ==
    ASSUME NEW text, ListOf(text)
    PROVE  Scan(text) \in Seq(Seq({text[i] : i \in DOMAIN text}))
<1>1. PICK t : /\ \A k \in 0..Len(text) : t[k] \in Scanned(text)
               /\ Scan(text) = t[Len(text)].found
    BY ScanStepwise
<1>2. Len(text) \in 0..Len(text)
    BY AnswerIsAList
<1> QED
    BY <1>1, <1>2 DEF Scanned

(* A code block is one or none. *)
LEMMA OneBlock ==
    ASSUME NEW text
    PROVE  Fenced(text) = <<>> \/ \E x : Fenced(text) = <<x>>
BY Zenon DEF Fenced

(* What is read of an answer with no code block, and with one. *)
LEMMA ReadAfter ==
    ASSUME NEW S, NEW found \in Seq(S)
    PROVE  /\ <<>> \o found = found
           /\ \A x : LET all == <<x>> \o found IN
                  /\ DOMAIN all = 1..Len(found) + 1
                  /\ all[1] = x /\ \A m \in 1..Len(found) : all[m + 1] = found[m]
<1>1. <<>> \o found = found
    OBVIOUS
<1>2. ASSUME NEW x
      PROVE  LET all == <<x>> \o found IN
                  /\ DOMAIN all = 1..Len(found) + 1
                  /\ all[1] = x /\ \A m \in 1..Len(found) : all[m + 1] = found[m]
    <2> DEFINE T == S \cup {x}
               all == <<x>> \o found
    <2>1. found \in Seq(T) /\ <<x>> \in Seq(T) /\ Len(<<x>>) = 1 /\ <<x>>[1] = x
        OBVIOUS
    <2>2. /\ Len(all) = 1 + Len(found) /\ all \in Seq(T)
          /\ \A i \in 1..1 + Len(found) : all[i] = IF i <= 1 THEN <<x>>[i] ELSE found[i - 1]
        BY <2>1, ConcatProperties
    <2>3. Len(found) \in Nat /\ DOMAIN all = 1..Len(all)
        BY <2>2
    <2>4. all[1] = x
        BY <2>1, <2>2, <2>3
    <2> HIDE DEF all
    <2>5. \A m \in 1..Len(found) : m + 1 \in 1..1 + Len(found) /\ ~ (m + 1 <= 1) /\ (m + 1) - 1 = m
        BY <2>3
    <2>6. \A m \in 1..Len(found) : all[m + 1] = found[m]
        BY <2>2, <2>5
    <2>7. DOMAIN all = 1..Len(found) + 1
        BY <2>2, <2>3
    <2> QED
        BY <2>4, <2>6, <2>7 DEF all
<1> QED
    BY <1>1, <1>2

(* What a node is given is the first object, or that of the code block. *)
LEMMA ReadingAnAnswer ==
    ASSUME NEW text, ListOf(text), NEW fields
    PROVE  FirstObjectIsRead(text, fields)
<1> DEFINE found == Scan(text)
           all == Fenced(text) \o found
           objects == Parsed(all)
           first == {s \in Objects(text) : \A t \in Objects(text) : s[1] <= t[1]}
           block == {b \in Range(Fenced(text)) : Parses(b)}
           given == AskJson(text, fields)
           S == Seq({text[i] : i \in DOMAIN text})
<1>1. found \in Seq(S)
    BY ScanFound
<1>2. ExtractJson(text) = IF objects = {} THEN Nothing ELSE all[Min(objects)]
    BY Zenon DEF ExtractJson, Parsed
<1>3. given = IF fields = "none" THEN Nothing ELSE ExtractJson(text)
    BY DEF AskJson
<1> HIDE DEF found, first, S
<1>4. Len(found) \in Nat /\ DOMAIN found = 1..Len(found)
    BY <1>1
<1>5. CASE Fenced(text) = <<>>
    <2>1. all = found /\ block = {}
        BY <1>1, <1>5, ReadAfter DEF Range
    <2> HIDE DEF all, block
    <2>2. objects # {} => Min(objects) \in objects
        <3>1. objects \in SUBSET (1..Len(found))
            BY <1>4, <2>1 DEF Parsed
        <3> QED
            BY <1>4, <3>1, Earliest
    <2>3. given # Nothing => Parses(given)
        BY <1>2, <1>3, <2>2 DEF Parsed
    <2>4. fields # "none" =>
              given = IF block # {} THEN CHOOSE b \in block : TRUE
                      ELSE IF first = {} THEN Nothing
                      ELSE LET s == CHOOSE s \in first : TRUE IN SubSeq(text, s[1], s[2])
        <3> SUFFICES ASSUME fields # "none"
                     PROVE  given = IF first = {} THEN Nothing
                                    ELSE LET s == CHOOSE s \in first : TRUE IN SubSeq(text, s[1], s[2])
            BY <2>1
        <3>1. /\ Parsed(found) = {} => first = {}
              /\ Parsed(found) # {} =>
                     first # {} /\ \A b \in first : found[Min(Parsed(found))] = SubSeq(text, b[1], b[2])
            BY FirstOfTheFound DEF found, first
        <3>2. given = IF Parsed(found) = {} THEN Nothing ELSE found[Min(Parsed(found))]
            BY <1>2, <1>3, <2>1
        <3> QED
            BY <3>1, <3>2
    <2> QED
        BY <2>3, <2>4 DEF FirstObjectIsRead, first, given, block
<1>6. CASE \E x : Fenced(text) = <<x>>
    <2>1. PICK x : Fenced(text) = <<x>>
        BY <1>6
    <2>2. /\ DOMAIN all = 1..Len(found) + 1
          /\ all[1] = x /\ \A m \in 1..Len(found) : all[m + 1] = found[m]
        BY <1>1, <2>1, ReadAfter
    <2>3. Range(Fenced(text)) = {x}
        BY <2>1 DEF Range
    <2> HIDE DEF all
    <2>4. block = IF Parses(x) THEN {x} ELSE {}
        BY <2>3
    <2> HIDE DEF block
    <2>5. objects \in SUBSET (1..Len(found) + 1) /\ Len(found) + 1 \in Nat
        BY <1>4, <2>2 DEF Parsed
    <2>6. objects # {} => Min(objects) \in objects /\ \A i \in objects : Min(objects) <= i
        BY <2>5, Earliest
    <2>7. given # Nothing => Parses(given)
        BY <1>2, <1>3, <2>6 DEF Parsed
    <2>8. fields # "none" =>
              given = IF block # {} THEN CHOOSE b \in block : TRUE
                      ELSE IF first = {} THEN Nothing
                      ELSE LET s == CHOOSE s \in first : TRUE IN SubSeq(text, s[1], s[2])
        <3> SUFFICES ASSUME fields # "none"
                     PROVE  given = IF block # {} THEN CHOOSE b \in block : TRUE
                                    ELSE IF first = {} THEN Nothing
                                    ELSE LET s == CHOOSE s \in first : TRUE IN SubSeq(text, s[1], s[2])
            OBVIOUS
        <3>1. given = IF objects = {} THEN Nothing ELSE all[Min(objects)]
            BY <1>2, <1>3
        <3>2. /\ Parsed(found) = {} => first = {}
              /\ Parsed(found) # {} =>
                     first # {} /\ \A b \in first : found[Min(Parsed(found))] = SubSeq(text, b[1], b[2])
            BY FirstOfTheFound DEF found, first
        <3>3. CASE Parses(x)
            <4>1. 1 \in objects
                BY <1>4, <2>2, <3>3 DEF Parsed
            <4>2. Min(objects) = 1
                <5>1. Min(objects) \in 1..Len(found) + 1 /\ Min(objects) <= 1
                    BY <2>5, <2>6, <4>1
                <5> QED
                    BY <1>4, <5>1
            <4>3. given = x
                BY <2>2, <3>1, <4>1, <4>2
            <4> QED
                BY <2>4, <3>3, <4>3
        <3>4. CASE ~ Parses(x)
            <4>1. \A m \in Parsed(found) : m + 1 \in objects
                BY <1>4, <2>2 DEF Parsed
            <4>2. \A i \in objects : i - 1 \in Parsed(found)
                <5> SUFFICES ASSUME NEW i \in objects
                             PROVE  i - 1 \in Parsed(found)
                    OBVIOUS
                <5>1. i \in 1..Len(found) + 1 /\ Parses(all[i])
                    BY <2>2 DEF Parsed
                <5>2. i # 1
                    BY <2>2, <3>4, <5>1
                <5>3. i - 1 \in 1..Len(found)
                    BY <1>4, <5>1, <5>2
                <5>4. all[(i - 1) + 1] = found[i - 1] /\ (i - 1) + 1 = i
                    BY <2>2, <5>1, <5>3
                <5> QED
                    BY <1>4, <5>1, <5>3, <5>4 DEF Parsed
            <4>3. CASE objects = {}
                <5>1. Parsed(found) = {}
                    BY <4>1, <4>3
                <5> QED
                    BY <2>4, <3>1, <3>2, <3>4, <4>3, <5>1
            <4>4. CASE objects # {}
                <5>1. Parsed(found) # {}
                    BY <4>2, <4>4
                <5> DEFINE m == Min(Parsed(found))
                           i == Min(objects)
                <5>2. m \in Parsed(found) /\ \A l \in Parsed(found) : m <= l
                    <6>1. Parsed(found) \in SUBSET (1..Len(found))
                        BY <1>4 DEF Parsed
                    <6> QED
                        BY <1>4, <5>1, <6>1, Earliest
                <5>3. i \in objects /\ \A j \in objects : i <= j
                    BY <2>6, <4>4
                <5> HIDE DEF m, i
                <5>4. m \in 1..Len(found) /\ i \in 1..Len(found) + 1
                    BY <1>4, <2>5, <5>2, <5>3 DEF Parsed
                <5>5. i <= m + 1 /\ m <= i - 1
                    BY <4>1, <4>2, <5>2, <5>3
                <5>6. i = m + 1
                    BY <1>4, <5>4, <5>5
                <5>7. all[i] = found[m]
                    BY <2>2, <5>4, <5>6
                <5>8. given = found[m]
                    BY <3>1, <4>4, <5>7 DEF i
                <5>9. first # {} /\ \A b \in first : found[m] = SubSeq(text, b[1], b[2])
                    BY <3>2, <5>1 DEF m
                <5> QED
                    BY <2>4, <3>4, <5>8, <5>9
            <4> QED
                BY <4>3, <4>4
        <3> QED
            BY <3>3, <3>4
    <2> QED
        BY <2>7, <2>8 DEF FirstObjectIsRead, first, given, block
<1> QED
    BY <1>5, <1>6, OneBlock

(* Whatever the answer of a model, its braces paired or not, a node is given the object
   of its code block, or else the first that has as many braces closed as opened before
   it (llm/base.py, extract_json; agent/nodes.py, _ask_json). *)
THEOREM AnswersAreRead == Spec => []ObjectIsRead
<1>1. Init => ObjectIsRead
    <2> SUFFICES ASSUME Init, case.kind = "answer"
                 PROVE  FirstObjectIsRead(case.of.text, case.of.fields)
        BY DEF ObjectIsRead
    <2>1. case.of \in AnswerCases
        BY DEF Init, Cases
    <2>2. ListOf(case.of.text)
        BY <2>1, AnswerAssumption DEF ListOf
    <2> QED
        BY <2>2, ReadingAnAnswer
<1>2. ObjectIsRead /\ [Next]_case => ObjectIsRead'
    BY DEF ObjectIsRead, Next
<1> QED
    BY <1>1, <1>2, PTL DEF Spec

------------------------------------------------------------------------------
(* Whom a failure is blamed on.  The fold over the spans finds the asserting ones that
   have none inside them; what is listed of a clause is its stretches without the
   segments that assert nothing. *)

(* A conclusion is a list of segments, clause by clause. *)
Conclusion(text) ==
    /\ text \in Seq({text[n] : n \in DOMAIN text})
    /\ \A n \in DOMAIN text : text[n].clause \in Nat
    /\ \A m, n \in DOMAIN text : m <= n => text[m].clause <= text[n].clause

(* Its segments are 1 to how many there are. *)
LEMMA SegmentsAre ==
    ASSUME NEW text, Conclusion(text)
    PROVE  Len(text) \in Nat /\ DOMAIN text = 1..Len(text)
BY DEF Conclusion

(* The owner of a segment is who it names, or else that of the one before it. *)
Owning(text, owner) ==
    owner = [n \in DOMAIN text |->
                IF ServicesOf(text, n) = {} /\ GoesOn(text, n)
                THEN IF n = 1 THEN {} ELSE owner[n - 1]
                ELSE ServicesOf(text, n)]
(* They are computed that way. *)
LEMMA OwnersOwn ==
    ASSUME NEW text
    PROVE  Owners(text) = CHOOSE owner : Owning(text, owner)
BY DEF Owners, Owning

(* One segment that names nobody and goes on is about what the one before is. *)
LEMMA OwnerGoesOn ==
    ASSUME NEW text, NEW n \in Nat, n > 1, ServicesOf(text, n) = {}, GoesOn(text, n)
    PROVE  OwnerOf(text, n) = OwnerOf(text, n - 1)
<1> DEFINE now == {m \in 1..n : ServicesOf(text, m) # {}}
           then == {m \in 1..n - 1 : ServicesOf(text, m) # {}}
<1>1. now = then
    OBVIOUS
<1>2. CASE now = {}
    BY <1>1, <1>2 DEF OwnerOf
<1>3. CASE now # {}
    <2> DEFINE last == Max(now)
    <2>1. last \in now
        BY <1>3, Latest
    <2>2. last \in 1..n - 1
        BY <1>1, <2>1
    <2> HIDE DEF last
    <2>3. (\A m \in last + 1..n : GoesOn(text, m)) <=> (\A m \in last + 1..n - 1 : GoesOn(text, m))
        <3>1. \A m \in last + 1..n : m \in last + 1..n - 1 \/ m = n
            BY <2>2
        <3>2. \A m \in last + 1..n - 1 : m \in last + 1..n
            BY <2>2
        <3> QED
            BY <3>1, <3>2
    <2>4. OwnerOf(text, n) = IF \A m \in last + 1..n : GoesOn(text, m) THEN ServicesOf(text, last) ELSE {}
        BY <1>3 DEF OwnerOf, last
    <2>5. OwnerOf(text, n - 1) = IF \A m \in last + 1..n - 1 : GoesOn(text, m) THEN ServicesOf(text, last) ELSE {}
        BY <1>1, <1>3 DEF OwnerOf, last
    <2> QED
        BY <2>3, <2>4, <2>5
<1> QED
    BY <1>2, <1>3

(* Whom a segment is about is computed that way. *)
LEMMA OwnerStep ==
    ASSUME NEW text, NEW n \in Nat, n >= 1
    PROVE  OwnerOf(text, n) = IF ServicesOf(text, n) = {} /\ GoesOn(text, n)
                              THEN IF n = 1 THEN {} ELSE OwnerOf(text, n - 1)
                              ELSE ServicesOf(text, n)
<1> DEFINE named == {m \in 1..n : ServicesOf(text, m) # {}}
<1>1. CASE ServicesOf(text, n) # {}
    <2>1. n \in named /\ named \in SUBSET (1..n)
        BY <1>1
    <2>2. Max(named) = n
        BY <2>1, LatestIs
    <2>3. n + 1..n = {}
        OBVIOUS
    <2> QED
        BY <1>1, <2>1, <2>2, <2>3 DEF OwnerOf
<1>2. CASE ServicesOf(text, n) = {} /\ ~ GoesOn(text, n)
    <2>1. CASE named = {}
        BY <1>2, <2>1 DEF OwnerOf
    <2>2. CASE named # {}
        <3> DEFINE last == Max(named)
        <3>1. last \in named
            BY <2>2, Latest
        <3>2. last \in 1..n /\ last # n
            BY <1>2, <3>1
        <3> HIDE DEF last
        <3>3. n \in last + 1..n
            BY <3>2
        <3> QED
            BY <1>2, <3>3 DEF OwnerOf, last
    <2> QED
        BY <2>1, <2>2
<1>3. CASE ServicesOf(text, n) = {} /\ GoesOn(text, n) /\ n = 1
    <2>1. named = {}
        BY <1>3
    <2> QED
        BY <1>3, <2>1 DEF OwnerOf
<1>4. CASE ServicesOf(text, n) = {} /\ GoesOn(text, n) /\ n # 1
    BY <1>4, OwnerGoesOn
<1> QED
    BY <1>1, <1>2, <1>3, <1>4

(* The owners found for the segments are those they are about. *)
LEMMA OwnersAre ==
    ASSUME NEW text, Conclusion(text), NEW n \in DOMAIN text
    PROVE  Owners(text)[n] = OwnerOf(text, n)
<1> DEFINE D == DOMAIN text
           about == [m \in D |-> OwnerOf(text, m)]
           owner == CHOOSE o : Owning(text, o)
<1>1. Len(text) \in Nat /\ D = 1..Len(text)
    BY SegmentsAre
<1> HIDE DEF D
<1>2. Owning(text, about)
    <2>1. \A m \in D : about[m] = IF ServicesOf(text, m) = {} /\ GoesOn(text, m)
                                  THEN IF m = 1 THEN {} ELSE about[m - 1]
                                  ELSE ServicesOf(text, m)
        <3> SUFFICES ASSUME NEW m \in D
                     PROVE  about[m] = IF ServicesOf(text, m) = {} /\ GoesOn(text, m)
                                       THEN IF m = 1 THEN {} ELSE about[m - 1]
                                       ELSE ServicesOf(text, m)
            OBVIOUS
        <3>1. m \in Nat /\ m >= 1 /\ (m # 1 => m - 1 \in D)
            BY <1>1
        <3>2. OwnerOf(text, m) = IF ServicesOf(text, m) = {} /\ GoesOn(text, m)
                                 THEN IF m = 1 THEN {} ELSE OwnerOf(text, m - 1)
                                 ELSE ServicesOf(text, m)
            BY <3>1, OwnerStep
        <3> QED
            BY <3>1, <3>2
    <2>2. about = [m \in D |-> about[m]]
        OBVIOUS
    <2> HIDE DEF about
    <2>3. about = [m \in D |-> IF ServicesOf(text, m) = {} /\ GoesOn(text, m)
                               THEN IF m = 1 THEN {} ELSE about[m - 1]
                               ELSE ServicesOf(text, m)]
        BY <2>1, <2>2, Zenon
    <2> QED
        BY <2>3 DEF Owning, D
<1>3. Owning(text, owner)
    BY <1>2
<1> HIDE DEF owner
<1>4. \A m \in D : owner[m] = IF ServicesOf(text, m) = {} /\ GoesOn(text, m)
                              THEN IF m = 1 THEN {} ELSE owner[m - 1]
                              ELSE ServicesOf(text, m)
    BY <1>3, Zenon DEF Owning, D
<1>5. \A m \in D : about[m] = IF ServicesOf(text, m) = {} /\ GoesOn(text, m)
                              THEN IF m = 1 THEN {} ELSE about[m - 1]
                              ELSE ServicesOf(text, m)
    BY <1>2, Zenon DEF Owning, D
<1> HIDE DEF about
<1> DEFINE P == {k \in 0..Len(text) : k = 0 \/ owner[k] = about[k]}
<1>6. 0 \in P
    BY <1>1
<1>7. ASSUME NEW k \in 1..Len(text), k - 1 \in P
      PROVE  k \in P
    <2>1. k \in D /\ (k # 1 => k - 1 # 0)
        BY <1>1
    <2> QED
        BY <1>1, <1>4, <1>5, <1>7, <2>1
<1> HIDE DEF P
<1>8. n \in 1..Len(text) /\ \A i \in 1..n : i \in 1..Len(text)
    BY <1>1 DEF D
<1>9. n \in P
    <2>1. n \in Nat /\ \A k \in 1..n : k - 1 \in P => k \in P
        BY <1>1, <1>7, <1>8
    <2> QED
        BY <1>6, <2>1, Climbing
<1>10. owner[n] = about[n]
    BY <1>1, <1>8, <1>9 DEF P
<1> QED
    BY <1>1, <1>8, <1>10, OwnersOwn DEF about, owner, D

(* A span is two places. *)
LEMMA SpanIs ==
    ASSUME NEW n \in Nat, NEW s \in AllSpans(n)
    PROVE  /\ s = <<s[1], s[2]>> /\ s[1] \in 1..n /\ s[2] \in 1..n /\ s[1] <= s[2]
           /\ s[1] \in Int /\ s[2] \in Int
BY DEF AllSpans

(* Spans of which neither is shorter, nor earlier, are one. *)
LEMMA ShorterOrEarlier ==
    ASSUME NEW a \in Int, NEW b \in Int, NEW c \in Int, NEW d \in Int
    PROVE  /\ ~ (b - a < d - c) /\ ~ (d - c < b - a) => b - a = d - c
           /\ b - a = d - c /\ a = c => b = d
OBVIOUS

(* By their lengths, and where they start, spans are in an order. *)
LEMMA ShorterOrders ==
    ASSUME NEW n \in Nat
    PROVE  Orders(Shorter(AllSpans(n)), AllSpans(n)) /\ IsFiniteSet(AllSpans(n))
<1> DEFINE all == AllSpans(n)
           before == Shorter(all)
           Less(s, t) == \/ s[2] - s[1] < t[2] - t[1]
                         \/ s[2] - s[1] = t[2] - t[1] /\ s[1] < t[1]
<1>1. IsFiniteSet(all)
    <2>1. IsFiniteSet(1..n)
        BY FS_Interval
    <2>2. IsFiniteSet((1..n) \X (1..n))
        BY <2>1, FS_Product
    <2>3. all \in SUBSET ((1..n) \X (1..n))
        BY DEF AllSpans
    <2> QED
        BY <2>2, <2>3, FS_Subset
<1>2. before \in SUBSET (all \X all)
    BY DEF Shorter
<1>3. ASSUME NEW s \in all, NEW t \in all
      PROVE  <<s, t>> \in before <=> Less(s, t)
    BY DEF Shorter
<1> HIDE DEF before
<1>4. \A s \in all : <<s, s>> \notin before
    <2> SUFFICES ASSUME NEW s \in all
                 PROVE  ~ Less(s, s)
        BY <1>3
    <2> QED
        BY SpanIs
<1>5. ASSUME NEW s \in all, NEW t \in all, s # t
      PROVE  <<s, t>> \in before \/ <<t, s>> \in before
    <2>1. /\ s = <<s[1], s[2]>> /\ s[1] \in Int /\ s[2] \in Int
          /\ t = <<t[1], t[2]>> /\ t[1] \in Int /\ t[2] \in Int
        BY SpanIs
    <2>2. s[1] # t[1] \/ s[2] # t[2]
        BY <1>5, <2>1
    <2>3. Less(s, t) \/ Less(t, s)
        BY <2>1, <2>2
    <2> QED
        BY <1>3, <2>3
<1>6. ASSUME NEW s \in all, NEW t \in all, NEW u \in all, <<s, t>> \in before, <<t, u>> \in before
      PROVE  <<s, u>> \in before
    <2>1. /\ s[1] \in Int /\ s[2] \in Int /\ t[1] \in Int /\ t[2] \in Int
          /\ u[1] \in Int /\ u[2] \in Int
        BY SpanIs
    <2>2. Less(s, t) /\ Less(t, u)
        BY <1>3, <1>6
    <2>3. Less(s, u)
        BY <2>1, <2>2
    <2> QED
        BY <1>3, <2>3
<1> HIDE DEF all
<1> QED
    BY <1>1, <1>2, <1>4, <1>5, <1>6 DEF Orders, all, before

(* A span inside another is shorter. *)
LEMMA InsideIsShorter ==
    ASSUME NEW n \in Nat, NEW s \in AllSpans(n), NEW t \in AllSpans(n), Inside(s, t), s # t
    PROVE  <<s, t>> \in Shorter(AllSpans(n))
<1>1. /\ s = <<s[1], s[2]>> /\ s[1] \in Int /\ s[2] \in Int
      /\ t = <<t[1], t[2]>> /\ t[1] \in Int /\ t[2] \in Int
    BY SpanIs
<1>2. s[1] # t[1] \/ s[2] # t[2]
    BY <1>1
<1>3. t[1] <= s[1] /\ s[2] <= t[2]
    BY DEF Inside
<1>4. s[2] - s[1] < t[2] - t[1]
    BY <1>1, <1>2, <1>3
<1> QED
    BY <1>4 DEF Shorter

(* All spans are listed, each after those inside it. *)
SpanPlace(n, s) == Cardinality(Until(Shorter(AllSpans(n)), AllSpans(n), s))
(* So are their places in the list. *)
LEMMA SpansListed ==
    ASSUME NEW n \in Nat
    PROVE  /\ Spans(n) \in Seq(AllSpans(n)) /\ Len(Spans(n)) \in Nat
           /\ DOMAIN Spans(n) = 1..Len(Spans(n))
           /\ \A s \in AllSpans(n) : SpanPlace(n, s) \in 1..Len(Spans(n)) /\ Spans(n)[SpanPlace(n, s)] = s
           /\ \A p \in 1..Len(Spans(n)) : Spans(n)[p] \in AllSpans(n) /\ SpanPlace(n, Spans(n)[p]) = p
           /\ \A s, t \in AllSpans(n) : Inside(s, t) /\ s # t => SpanPlace(n, s) < SpanPlace(n, t)
<1> DEFINE all == AllSpans(n)
           before == Shorter(all)
           list == [s \in all |-> s]
<1>1. IsFiniteSet(all) /\ Orders(before, all)
    BY ShorterOrders
<1>2. \A s \in all : list[s] = s
    OBVIOUS
<1>3. Members(list, all) = all
    BY <1>2 DEF Members
<1>4. Spans(n) = Arranged(list, all, before)
    BY DEF Spans
<1>5. ASSUME NEW s \in all, NEW t \in all, Inside(s, t), s # t
      PROVE  SpanPlace(n, s) < SpanPlace(n, t)
    <2>1. <<s, t>> \in before
        BY <1>5, InsideIsShorter
    <2> QED
        BY <1>1, <2>1, RankKeepsTheOrder DEF SpanPlace
<1> HIDE DEF list, before, all
<1>6. Spans(n) \in Seq(all) /\ Len(Spans(n)) = Cardinality(all) /\ DOMAIN Spans(n) = 1..Cardinality(all)
      /\ Cardinality(all) \in Nat
    BY <1>1, <1>3, <1>4, ArrangedList
<1>7. \A s \in all : SpanPlace(n, s) \in 1..Cardinality(all) /\ Spans(n)[SpanPlace(n, s)] = s
    <2> SUFFICES ASSUME NEW s \in all
                 PROVE  SpanPlace(n, s) \in 1..Cardinality(all) /\ Spans(n)[SpanPlace(n, s)] = s
        OBVIOUS
    <2>1. /\ Cardinality(Until(before, all, s)) \in 1..Cardinality(all)
          /\ Arranged(list, all, before)[Cardinality(Until(before, all, s))] = list[s]
        BY <1>1, PlaceOf
    <2> QED
        BY <1>2, <1>4, <2>1 DEF SpanPlace, before, all
<1>8. \A p \in 1..Cardinality(all) : Spans(n)[p] \in all /\ SpanPlace(n, Spans(n)[p]) = p
    <2> SUFFICES ASSUME NEW p \in 1..Cardinality(all)
                 PROVE  Spans(n)[p] \in all /\ SpanPlace(n, Spans(n)[p]) = p
        OBVIOUS
    <2>1. PICK s \in all : /\ Arranged(list, all, before)[p] = list[s]
                           /\ Cardinality(Until(before, all, s)) = p
        BY <1>1, ArrangedAt
    <2> QED
        BY <1>2, <1>4, <2>1 DEF SpanPlace, before, all
<1> QED
    BY <1>5, <1>6, <1>7, <1>8 DEF all

(* What is found, span by span. *)
FindStep(texts, archetype, found, s) ==
    IF \E f \in found : Inside(f, s) THEN found
    ELSE IF SpanAsserts(texts, s, archetype) THEN found \cup {s} ELSE found
Finding(texts, archetype, h) ==
    h = [places \in SUBSET (DOMAIN Spans(Len(texts))) |->
            IF places = {} THEN {}
            ELSE FindStep(texts, archetype, h[places \ {Max(places)}], Spans(Len(texts))[Max(places)])]
(* What is found at the end. *)
LEMMA MatchesAreFound ==
    ASSUME NEW texts, NEW archetype
    PROVE  SmallestMatches(texts, archetype)
               = (CHOOSE h : Finding(texts, archetype, h))[DOMAIN Spans(Len(texts))]
BY DEF SmallestMatches, FoldLeft, MapThenFoldSet, Finding, FindStep

(* There is such a finding, of spans. *)
LEMMA FindingExists ==
    ASSUME NEW texts, Len(texts) \in Nat, NEW archetype
    PROVE  \E h : Finding(texts, archetype, h)
<1> DEFINE A == SUBSET AllSpans(Len(texts))
           spans == Spans(Len(texts))
           n == Len(spans)
           next == [i \in 1..n |-> [found \in A |-> FindStep(texts, archetype, found, spans[i])]]
<1>1. n \in Nat /\ DOMAIN spans = 1..n /\ \A i \in 1..n : spans[i] \in AllSpans(Len(texts))
    BY SpansListed
<1>2. {} \in A
    OBVIOUS
<1>3. PICK g : FoldsBy(n, {}, next, g)
    BY <1>1, FoldExists
<1>4. \A i \in 1..n : \A found \in A : next[i][found] = FindStep(texts, archetype, found, spans[i])
    OBVIOUS
<1>5. \A i \in 1..n : \A found \in A : next[i][found] \in A
    <2> SUFFICES ASSUME NEW i \in 1..n, NEW found \in A
                 PROVE  FindStep(texts, archetype, found, spans[i]) \in A
        BY <1>4
    <2> QED
        BY <1>1 DEF FindStep
<1> HIDE DEF next, A, n, spans
<1>6. \A places \in SUBSET (1..n) : g[places] \in A
    BY <1>1, <1>2, <1>3, <1>5, FoldStays
<1>7. \A places \in SUBSET (1..n) :
          places # {} => next[Max(places)][g[places \ {Max(places)}]]
                             = FindStep(texts, archetype, g[places \ {Max(places)}], spans[Max(places)])
    <2> SUFFICES ASSUME NEW places \in SUBSET (1..n), places # {}
                 PROVE  next[Max(places)][g[places \ {Max(places)}]]
                             = FindStep(texts, archetype, g[places \ {Max(places)}], spans[Max(places)])
        OBVIOUS
    <2> DEFINE m == Max(places)
    <2>1. m \in places
        BY <1>1, Latest
    <2>2. m \in 1..n
        BY <2>1
    <2> HIDE DEF m
    <2>3. g[places \ {m}] \in A
        BY <1>6
    <2>4. next[m][g[places \ {m}]] = FindStep(texts, archetype, g[places \ {m}], spans[m])
        BY <1>4, <2>2, <2>3
    <2> QED
        BY <2>4 DEF m
<1>8. g = [places \in SUBSET (1..n) |->
              IF places = {} THEN {} ELSE next[Max(places)][g[places \ {Max(places)}]]]
    BY <1>3 DEF FoldsBy
<1>9. g = [places \in SUBSET (1..n) |->
              IF places = {} THEN {}
              ELSE FindStep(texts, archetype, g[places \ {Max(places)}], spans[Max(places)])]
    BY <1>7, <1>8, Zenon
<1>10. Finding(texts, archetype, g)
    BY <1>1, <1>9 DEF Finding, spans
<1> QED
    BY <1>10

(* They are found one after the other. *)
LEMMA FoundStepwise ==
    ASSUME NEW texts, Len(texts) \in Nat, NEW archetype
    PROVE  \E t : /\ t[0] = {}
                  /\ \A k \in 1..Len(Spans(Len(texts))) :
                         t[k] = FindStep(texts, archetype, t[k - 1], Spans(Len(texts))[k])
                  /\ SmallestMatches(texts, archetype) = t[Len(Spans(Len(texts)))]
<1> DEFINE spans == Spans(Len(texts))
           n == Len(spans)
           h == CHOOSE h : Finding(texts, archetype, h)
           t == [k \in 0..n |-> h[1..k]]
<1>1. n \in Nat /\ DOMAIN spans = 1..n
    BY SpansListed
<1>2. Finding(texts, archetype, h)
    BY FindingExists
<1>3. SmallestMatches(texts, archetype) = h[1..n]
    BY <1>1, MatchesAreFound
<1> HIDE DEF h, n, spans
<1>4. \A places \in SUBSET (1..n) :
          h[places] = IF places = {} THEN {}
                      ELSE FindStep(texts, archetype, h[places \ {Max(places)}], spans[Max(places)])
    BY <1>1, <1>2, Zenon DEF Finding, spans
<1>5. t[0] = {}
    <2>1. 1..0 = {} /\ {} \in SUBSET (1..n) /\ 0 \in 0..n
        BY <1>1
    <2> QED
        BY <1>4, <2>1
<1>6. ASSUME NEW k \in 1..n
      PROVE  t[k] = FindStep(texts, archetype, t[k - 1], spans[k])
    <2>1. 1..k \in SUBSET (1..n) /\ k \in 1..k /\ 1..k # {} /\ k \in Nat
        BY <1>1, UpTo
    <2>2. Max(1..k) = k
        BY <2>1, LatestIs
    <2>3. (1..k) \ {k} = 1..k - 1
        BY <1>1, UpTo
    <2>4. k \in 0..n /\ k - 1 \in 0..n
        BY <1>1, UpTo
    <2>5. h[1..k] = FindStep(texts, archetype, h[1..k - 1], spans[k])
        <3>1. h[1..k] = FindStep(texts, archetype, h[(1..k) \ {Max(1..k)}], spans[Max(1..k)])
            BY <1>4, <2>1
        <3> QED
            BY <2>2, <2>3, <3>1
    <2> QED
        BY <2>4, <2>5
<1>7. t[n] = h[1..n]
    BY <1>1
<1> HIDE DEF t
<1> QED
    BY <1>3, <1>5, <1>6, <1>7 DEF n, spans

(* The spans that assert an archetype and have none inside them that does. *)
Minimal(texts, archetype) ==
    {s \in AllSpans(Len(texts)) :
        /\ SpanAsserts(texts, s, archetype)
        /\ \A t \in AllSpans(Len(texts)) : Inside(t, s) /\ SpanAsserts(texts, t, archetype) => t = s}

(* A span inside one inside another is inside that. *)
LEMMA InsideIsTransitive ==
    ASSUME NEW n \in Nat, NEW s \in AllSpans(n), NEW t \in AllSpans(n), NEW u \in AllSpans(n),
           Inside(s, t), Inside(t, u)
    PROVE  Inside(s, u)
<1>1. /\ s[1] \in Int /\ s[2] \in Int /\ t[1] \in Int /\ t[2] \in Int /\ u[1] \in Int /\ u[2] \in Int
    BY SpanIs
<1> QED
    BY <1>1 DEF Inside

(* In every span that asserts an archetype is one with none inside it. *)
LEMMA OneIsMinimal ==
    ASSUME NEW texts, Len(texts) \in Nat, NEW archetype, NEW s \in AllSpans(Len(texts)),
           SpanAsserts(texts, s, archetype)
    PROVE  \E m \in Minimal(texts, archetype) : Inside(m, s)
<1> DEFINE n == Len(texts)
           all == AllSpans(n)
           D == {t \in all : Inside(t, s) /\ SpanAsserts(texts, t, archetype)}
           places == {SpanPlace(n, t) : t \in D}
<1> HIDE DEF n
<1>1. n \in Nat /\ s \in all
    BY DEF n
<1>2. Inside(s, s)
    <2>1. s[1] \in Int /\ s[2] \in Int
        BY <1>1, SpanIs
    <2> QED
        BY <2>1 DEF Inside
<1>3. Len(Spans(n)) \in Nat /\ \A t \in all : SpanPlace(n, t) \in 1..Len(Spans(n))
    BY <1>1, SpansListed
<1>4. places \in SUBSET (1..Len(Spans(n))) /\ places # {}
    BY <1>1, <1>2, <1>3
<1>5. Min(places) \in places /\ \A p \in places : Min(places) <= p
    BY <1>3, <1>4, Earliest
<1>6. PICK m \in D : SpanPlace(n, m) = Min(places)
    BY <1>5
<1>7. \A t \in D : SpanPlace(n, m) <= SpanPlace(n, t)
    BY <1>5, <1>6
<1>8. ASSUME NEW t \in all, Inside(t, m), SpanAsserts(texts, t, archetype), t # m
      PROVE  FALSE
    <2>1. Inside(t, s)
        BY <1>1, <1>6, <1>8, InsideIsTransitive
    <2>2. t \in D
        BY <1>8, <2>1
    <2>3. SpanPlace(n, t) < SpanPlace(n, m)
        BY <1>1, <1>6, <1>8, SpansListed
    <2>4. SpanPlace(n, t) \in Int /\ SpanPlace(n, m) \in Int
        BY <1>3, <1>6, <1>8
    <2> QED
        BY <1>7, <2>2, <2>3, <2>4
<1>9. m \in Minimal(texts, archetype)
    BY <1>6, <1>8 DEF Minimal, n
<1> QED
    BY <1>6, <1>9

(* One span more. *)
LEMMA OneSpanMore ==
    ASSUME NEW texts, Len(texts) \in Nat, NEW archetype, NEW k \in 1..Len(Spans(Len(texts))),
           NEW found,
           found = {s \in Minimal(texts, archetype) : SpanPlace(Len(texts), s) <= k - 1}
    PROVE  FindStep(texts, archetype, found, Spans(Len(texts))[k])
               = {s \in Minimal(texts, archetype) : SpanPlace(Len(texts), s) <= k}
<1> DEFINE n == Len(texts)
           all == AllSpans(n)
           s == Spans(n)[k]
           minimal == Minimal(texts, archetype)
<1> HIDE DEF n
<1>1. n \in Nat /\ k \in 1..Len(Spans(n)) /\ Len(Spans(n)) \in Nat
    BY SpansListed DEF n
<1>2. s \in all /\ SpanPlace(n, s) = k
    BY <1>1, SpansListed
<1>3. \A t \in all : SpanPlace(n, t) \in 1..Len(Spans(n)) /\ (SpanPlace(n, t) = k => t = s)
    BY <1>1, SpansListed
<1>4. minimal \in SUBSET all
    BY DEF Minimal, n
<1>5. \A t \in all : SpanPlace(n, t) <= k <=> SpanPlace(n, t) <= k - 1 \/ t = s
    <2> SUFFICES ASSUME NEW t \in all
                 PROVE  SpanPlace(n, t) <= k <=> SpanPlace(n, t) <= k - 1 \/ t = s
        OBVIOUS
    <2>1. SpanPlace(n, t) \in Int /\ k \in Int /\ (SpanPlace(n, t) = k => t = s)
        BY <1>1, <1>3
    <2>2. t = s => SpanPlace(n, t) = k
        BY <1>2
    <2> HIDE DEF s
    <2> QED
        BY <2>1, <2>2
<1>6. \A f \in found : f \in minimal /\ f \in all /\ SpanPlace(n, f) <= k - 1 /\ f # s
    <2>1. \A f \in found : f \in minimal /\ f \in all /\ SpanPlace(n, f) <= k - 1
        BY <1>4 DEF n
    <2>2. ~ (k <= k - 1)
        BY <1>1
    <2> QED
        BY <1>2, <2>1, <2>2
<1>7. {t \in minimal : SpanPlace(n, t) <= k}
          = IF s \in minimal THEN found \cup {s} ELSE found
    <2> HIDE DEF minimal, s, all
    <2>1. found = {t \in minimal : SpanPlace(n, t) <= k - 1}
        BY DEF n, minimal
    <2> QED
        BY <1>4, <1>5, <2>1
<1>8. CASE \E f \in found : Inside(f, s)
    <2>1. PICK f \in found : Inside(f, s)
        BY <1>8
    <2>2. SpanAsserts(texts, f, archetype) /\ f \in all /\ f # s
        BY <1>6 DEF Minimal
    <2>3. s \notin minimal
        BY <2>1, <2>2 DEF Minimal, n
    <2> QED
        BY <1>7, <1>8, <2>3 DEF FindStep, n
<1>9. CASE ~ (\E f \in found : Inside(f, s)) /\ SpanAsserts(texts, s, archetype)
    <2>1. PICK m \in minimal : Inside(m, s)
        BY <1>2, <1>9, OneIsMinimal DEF n
    <2>2. m = s
        <3> SUFFICES ASSUME m # s
                     PROVE  FALSE
            OBVIOUS
        <3>1. SpanPlace(n, m) < k
            BY <1>1, <1>2, <1>4, <2>1, SpansListed
        <3>2. SpanPlace(n, m) \in Int /\ k \in Int
            BY <1>1, <1>3, <1>4
        <3>3. SpanPlace(n, m) <= k - 1
            BY <3>1, <3>2
        <3>4. m \in found
            BY <3>3 DEF n
        <3> QED
            BY <1>9, <2>1, <3>4
    <2> QED
        BY <1>7, <1>9, <2>1, <2>2 DEF FindStep, n
<1>10. CASE ~ (\E f \in found : Inside(f, s)) /\ ~ SpanAsserts(texts, s, archetype)
    <2>1. s \notin minimal
        BY <1>10 DEF Minimal
    <2> QED
        BY <1>7, <1>10, <2>1 DEF FindStep, n
<1> QED
    BY <1>8, <1>9, <1>10

(* What is found are those. *)
LEMMA MinimalAreFound ==
    ASSUME NEW texts, Len(texts) \in Nat, NEW archetype
    PROVE  SmallestMatches(texts, archetype) = Minimal(texts, archetype)
<1> DEFINE spans == Spans(Len(texts))
           n == Len(spans)
           UpToPlace(k) == {s \in Minimal(texts, archetype) : SpanPlace(Len(texts), s) <= k}
<1>1. PICK t : /\ t[0] = {}
               /\ \A k \in 1..n : t[k] = FindStep(texts, archetype, t[k - 1], spans[k])
               /\ SmallestMatches(texts, archetype) = t[n]
    BY FoundStepwise
<1> DEFINE P == {k \in 0..n : t[k] = UpToPlace(k)}
<1>2. n \in Nat /\ \A s \in AllSpans(Len(texts)) : SpanPlace(Len(texts), s) \in 1..n
    BY SpansListed
<1>3. \A s \in Minimal(texts, archetype) : SpanPlace(Len(texts), s) \in 1..n
    BY <1>2 DEF Minimal
<1>4. 0 \in P
    <2> HIDE DEF n
    <2>1. UpToPlace(0) = {}
        BY <1>2, <1>3
    <2> QED
        BY <1>1, <1>2, <2>1
<1>5. ASSUME NEW k \in 1..n, k - 1 \in P
      PROVE  k \in P
    <2>1. t[k - 1] = UpToPlace(k - 1)
        BY <1>5
    <2>2. FindStep(texts, archetype, t[k - 1], spans[k]) = UpToPlace(k)
        <3> DEFINE found == t[k - 1]
        <3>1. found = {s \in Minimal(texts, archetype) : SpanPlace(Len(texts), s) <= k - 1}
            BY <2>1
        <3> HIDE DEF found
        <3>2. FindStep(texts, archetype, found, Spans(Len(texts))[k])
                  = {s \in Minimal(texts, archetype) : SpanPlace(Len(texts), s) <= k}
            BY <3>1, OneSpanMore, Zenon
        <3> QED
            BY <3>2 DEF found
    <2>3. k \in 0..n
        BY <1>2, UpTo
    <2> QED
        BY <1>1, <2>2, <2>3
<1> HIDE DEF P
<1>6. n \in P
    BY <1>2, <1>4, <1>5, Climbing
<1>7. t[n] = UpToPlace(n)
    BY <1>6 DEF P
<1>8. UpToPlace(n) = Minimal(texts, archetype)
    <2> HIDE DEF n
    <2> QED
        BY <1>2, <1>3
<1> QED
    BY <1>1, <1>7, <1>8

(* The segments of a clause that assert something, and what they do. *)
Asserting(text, c) == {n \in InClause(text, c) : Asserts(text, n) # {}}
TextsOf(text, c) == [i \in DOMAIN Stated(text, c) |-> Asserts(text, Stated(text, c)[i])]

(* A conclusion has so many segments, in the order of their clauses. *)
LEMMA ClausesAscend ==
    ASSUME NEW text, Conclusion(text), NEW m \in DOMAIN text, NEW n \in DOMAIN text,
           text[m].clause = text[n].clause, NEW k \in m..n
    PROVE  k \in DOMAIN text /\ text[k].clause = text[n].clause
<1>1. Len(text) \in Nat /\ DOMAIN text = 1..Len(text)
    BY SegmentsAre
<1>2. k \in DOMAIN text /\ m <= k /\ k <= n
    BY <1>1
<1>3. text[m].clause <= text[k].clause /\ text[k].clause <= text[n].clause
    BY <1>2 DEF Conclusion
<1>4. text[k].clause \in Nat /\ text[n].clause \in Nat /\ text[m].clause \in Nat
    BY <1>2 DEF Conclusion
<1> QED
    BY <1>2, <1>3, <1>4

(* They are listed in order. *)
LEMMA StatedAre ==
    ASSUME NEW text, Conclusion(text), NEW c
    PROVE  /\ Len(Stated(text, c)) \in Nat /\ DOMAIN Stated(text, c) = 1..Len(Stated(text, c))
           /\ \A i \in DOMAIN Stated(text, c) : Stated(text, c)[i] \in Asserting(text, c)
           /\ \A n \in Asserting(text, c) : \E i \in DOMAIN Stated(text, c) : Stated(text, c)[i] = n
           /\ \A i, j \in DOMAIN Stated(text, c) : i < j => Stated(text, c)[i] < Stated(text, c)[j]
<1> DEFINE P == Asserting(text, c)
           list == [n \in DOMAIN text |-> n]
           before == InOrder(P)
           places == Stated(text, c)
<1>1. Len(text) \in Nat /\ DOMAIN text = 1..Len(text)
    BY SegmentsAre
<1>2. P \in SUBSET (1..Len(text))
    BY <1>1 DEF Asserting, InClause
<1>3. places = Picked(list, P)
    BY DEF Stated, Asserting
<1>4. \A n \in P : list[n] = n
    BY <1>1, <1>2
<1> HIDE DEF list, P, places
<1>5. /\ IsFiniteSet(P) /\ Cardinality(P) \in Nat
      /\ Orders(before, P)
      /\ Len(places) = Cardinality(P)
      /\ DOMAIN places = 1..Cardinality(P)
    <2>1. /\ IsFiniteSet(P) /\ Cardinality(P) \in Nat /\ Orders(InOrder(P), P)
          /\ Len(Picked(list, P)) = Cardinality(P)
          /\ DOMAIN Picked(list, P) = 1..Cardinality(P)
        BY <1>1, <1>2, Picking
    <2> QED
        BY <1>3, <2>1
<1>6. \A p \in 1..Cardinality(P) : places[p] \in P /\ Cardinality(Until(before, P, places[p])) = p
    <2> SUFFICES ASSUME NEW p \in 1..Cardinality(P)
                 PROVE  places[p] \in P /\ Cardinality(Until(before, P, places[p])) = p
        OBVIOUS
    <2>1. PICK i \in P : Picked(list, P)[p] = list[i] /\ Cardinality(Until(before, P, i)) = p
        <3>1. IsFiniteSet(P) /\ Orders(InOrder(P), P)
            BY <1>5
        <3>2. \E i \in P : Picked(list, P)[p] = list[i] /\ Cardinality(Until(InOrder(P), P, i)) = p
            BY <3>1, PickedAt
        <3> QED
            BY <3>2
    <2> QED
        BY <1>3, <1>4, <2>1
<1>7. \A p, q \in 1..Cardinality(P) : p < q => places[p] < places[q]
    <2> SUFFICES ASSUME NEW p \in 1..Cardinality(P), NEW q \in 1..Cardinality(P), p < q
                 PROVE  places[p] < places[q]
        OBVIOUS
    <2> DEFINE i == places[p]
               j == places[q]
    <2>1. i \in P /\ j \in P /\ Cardinality(Until(before, P, i)) = p
          /\ Cardinality(Until(before, P, j)) = q
        BY <1>6
    <2> HIDE DEF i, j
    <2>2. p \in Int /\ q \in Int
        BY <1>5
    <2>3. <<j, i>> \in before => q < p
        BY <1>5, <2>1, RankKeepsTheOrder
    <2>4. i # j
        BY <2>1, <2>2
    <2>5. <<i, j>> \in before
        BY <1>5, <2>1, <2>2, <2>3, <2>4 DEF Orders
    <2>6. i < j
        BY <2>5 DEF InOrder
    <2> QED
        BY <2>6 DEF i, j
<1>8. \A n \in P : \E i \in DOMAIN places : places[i] = n
    <2> SUFFICES ASSUME NEW n \in P
                 PROVE  \E i \in 1..Cardinality(P) : places[i] = n
        BY <1>5
    <2>1. IsFiniteSet(P) /\ Orders(InOrder(P), P)
        BY <1>5
    <2>2. \E i \in 1..Cardinality(P) : Picked(list, P)[i] = list[n]
        BY <2>1, PickedFrom
    <2> QED
        BY <1>3, <1>4, <2>2
<1> QED
    BY <1>5, <1>6, <1>7, <1>8 DEF places, P

(* What is asserted by them has as many parts. *)
LEMMA TextsAre ==
    ASSUME NEW text, Conclusion(text), NEW c
    PROVE  /\ Len(TextsOf(text, c)) = Len(Stated(text, c))
           /\ DOMAIN TextsOf(text, c) = 1..Len(Stated(text, c))
           /\ \A i \in 1..Len(Stated(text, c)) : TextsOf(text, c)[i] = Asserts(text, Stated(text, c)[i])
<1> DEFINE L == Len(Stated(text, c))
           T == {Asserts(text, Stated(text, c)[i]) : i \in 1..L}
<1>1. L \in Nat /\ DOMAIN Stated(text, c) = 1..L
    BY StatedAre
<1>2. TextsOf(text, c) \in [1..L -> T]
    BY <1>1 DEF TextsOf
<1>3. \A i \in 1..L : TextsOf(text, c)[i] = Asserts(text, Stated(text, c)[i])
    BY <1>1 DEF TextsOf
<1> HIDE DEF L, T
<1>4. TextsOf(text, c) \in Seq(T)
    BY <1>1, <1>2
<1>5. Len(TextsOf(text, c)) = L
    BY <1>1, <1>2, <1>4
<1> QED
    BY <1>2, <1>3, <1>5 DEF L

(* Between two of them, those that assert something are those between them. *)
LEMMA StatedBetween ==
    ASSUME NEW text, Conclusion(text), NEW c,
           NEW p \in DOMAIN Stated(text, c), NEW q \in DOMAIN Stated(text, c)
    PROVE  {Stated(text, c)[i] : i \in p..q}
               = {n \in Stated(text, c)[p]..Stated(text, c)[q] : Asserts(text, n) # {}}
<1> DEFINE places == Stated(text, c)
           D == DOMAIN places
           L == Len(places)
<1>1. /\ L \in Nat /\ D = 1..L
      /\ \A i \in D : places[i] \in Asserting(text, c)
      /\ \A n \in Asserting(text, c) : \E i \in D : places[i] = n
      /\ \A i, j \in D : i < j => places[i] < places[j]
    BY StatedAre
<1> HIDE DEF L, places
<1>2. \A i \in D : /\ places[i] \in DOMAIN text /\ text[places[i]].clause = c
                   /\ Asserts(text, places[i]) # {} /\ places[i] \in Int
    <2>1. DOMAIN text = 1..Len(text) /\ Len(text) \in Nat
        BY SegmentsAre
    <2> QED
        BY <1>1, <2>1 DEF Asserting, InClause
<1>3. ASSUME NEW i \in p..q
      PROVE  places[i] \in places[p]..places[q] /\ Asserts(text, places[i]) # {}
    <2>1. i \in D /\ p \in D /\ q \in D /\ p <= i /\ i <= q /\ i \in Int /\ p \in Int /\ q \in Int
        BY <1>1 DEF places
    <2>2. places[p] <= places[i]
        <3>1. p = i \/ p < i
            BY <2>1
        <3> QED
            BY <1>1, <1>2, <2>1, <3>1
    <2>3. places[i] <= places[q]
        <3>1. q = i \/ i < q
            BY <2>1
        <3> QED
            BY <1>1, <1>2, <2>1, <3>1
    <2> QED
        BY <1>2, <2>1, <2>2, <2>3
<1>4. ASSUME NEW n \in places[p]..places[q], Asserts(text, n) # {}
      PROVE  \E i \in p..q : places[i] = n
    <2>1. p \in D /\ q \in D
        BY DEF places
    <2>2. n \in DOMAIN text /\ text[n].clause = c
        BY <1>2, <2>1, ClausesAscend
    <2>3. n \in Asserting(text, c)
        BY <1>4, <2>2 DEF Asserting, InClause
    <2>4. PICK i \in D : places[i] = n
        BY <1>1, <2>3
    <2>5. places[p] <= places[i] /\ places[i] <= places[q]
        BY <2>4
    <2>6. ~ (i < p) /\ ~ (q < i)
        BY <1>1, <1>2, <2>1, <2>5
    <2>7. i \in p..q
        BY <1>1, <2>1, <2>6
    <2> QED
        BY <2>4, <2>7
<1> HIDE DEF D
<1>5. {places[i] : i \in p..q} = {n \in places[p]..places[q] : Asserts(text, n) # {}}
    BY <1>3, <1>4
<1> QED
    BY <1>5 DEF places

(* What a stretch of segments says, and where one of the listed starts and ends. *)
Words(text, s) == UNION {Says(Asserts(text, n)) : n \in s[1]..s[2]}
From(text, c, t) == <<Stated(text, c)[t[1]], Stated(text, c)[t[2]]>>

(* Segments that assert nothing say nothing. *)
LEMMA OnlyThoseSay ==
    ASSUME NEW text, NEW D
    PROVE  UNION {Says(Asserts(text, n)) : n \in {m \in D : Asserts(text, m) # {}}}
               = UNION {Says(Asserts(text, n)) : n \in D}
<1>1. \A n \in D : Asserts(text, n) = {} => Says(Asserts(text, n)) = {}
    BY DEF Says
<1> QED
    BY <1>1

(* A span of what is listed says what its stretch of the conclusion does. *)
LEMMA SpanSays ==
    ASSUME NEW text, Conclusion(text), NEW c, NEW archetype,
           NEW t \in AllSpans(Len(TextsOf(text, c)))
    PROVE  /\ t[1] \in DOMAIN Stated(text, c) /\ t[2] \in DOMAIN Stated(text, c) /\ t[1] <= t[2]
           /\ SpanAsserts(TextsOf(text, c), t, archetype) <=> Matches(Words(text, From(text, c, t)), archetype) # {}
<1> DEFINE places == Stated(text, c)
           texts == TextsOf(text, c)
<1>1. /\ Len(places) \in Nat /\ DOMAIN places = 1..Len(places)
      /\ Len(texts) = Len(places)
      /\ \A i \in 1..Len(places) : texts[i] = Asserts(text, places[i])
    BY StatedAre, TextsAre
<1>2. t[1] \in DOMAIN places /\ t[2] \in DOMAIN places /\ t[1] <= t[2]
    BY <1>1, SpanIs
<1>3. {places[i] : i \in t[1]..t[2]} = {n \in places[t[1]]..places[t[2]] : Asserts(text, n) # {}}
    BY <1>2, StatedBetween
<1> HIDE DEF places, texts
<1>4. \A i \in t[1]..t[2] : texts[i] = Asserts(text, places[i])
    BY <1>1, <1>2
<1>5. UNION {Says(texts[i]) : i \in t[1]..t[2]}
          = UNION {Says(Asserts(text, n)) : n \in {places[i] : i \in t[1]..t[2]}}
    BY <1>4
<1>6. UNION {Says(Asserts(text, n)) : n \in {m \in places[t[1]]..places[t[2]] : Asserts(text, m) # {}}}
          = UNION {Says(Asserts(text, n)) : n \in places[t[1]]..places[t[2]]}
    <2> DEFINE D == places[t[1]]..places[t[2]]
    <2> HIDE DEF D
    <2>1. UNION {Says(Asserts(text, n)) : n \in {m \in D : Asserts(text, m) # {}}}
              = UNION {Says(Asserts(text, n)) : n \in D}
        BY OnlyThoseSay
    <2> QED
        BY <2>1 DEF D
<1>7. UNION {Says(texts[i]) : i \in t[1]..t[2]} = UNION {Says(Asserts(text, n)) : n \in places[t[1]]..places[t[2]]}
    BY <1>3, <1>5, <1>6
<1>8. Words(text, From(text, c, t)) = UNION {Says(Asserts(text, n)) : n \in places[t[1]]..places[t[2]]}
    BY DEF Words, From, places
<1>9. SpanAsserts(texts, t, archetype) <=> Matches(UNION {Says(texts[i]) : i \in t[1]..t[2]}, archetype) # {}
    BY DEF SpanAsserts
<1> QED
    BY <1>2, <1>7, <1>8, <1>9 DEF texts, places

(* And is about whom its stretch is about. *)
LEMMA SpanBlames ==
    ASSUME NEW text, Conclusion(text), NEW c, NEW t \in AllSpans(Len(TextsOf(text, c)))
    PROVE  UNION {Owners(text)[Stated(text, c)[i]] : i \in t[1]..t[2]} = Blamed(text, From(text, c, t))
<1> DEFINE places == Stated(text, c)
<1>1. /\ Len(places) \in Nat /\ DOMAIN places = 1..Len(places)
      /\ \A i \in DOMAIN places : places[i] \in Asserting(text, c)
    BY StatedAre
<1>2. t[1] \in DOMAIN places /\ t[2] \in DOMAIN places /\ t[1] <= t[2]
    BY SpanSays
<1>3. {places[i] : i \in t[1]..t[2]} = {n \in places[t[1]]..places[t[2]] : Asserts(text, n) # {}}
    BY <1>2, StatedBetween
<1> HIDE DEF places
<1>4. \A i \in t[1]..t[2] : Owners(text)[places[i]] = OwnerOf(text, places[i])
    <2> SUFFICES ASSUME NEW i \in t[1]..t[2]
                 PROVE  Owners(text)[places[i]] = OwnerOf(text, places[i])
        OBVIOUS
    <2>1. i \in DOMAIN places
        BY <1>1, <1>2
    <2>2. places[i] \in DOMAIN text
        BY <1>1, <2>1 DEF Asserting, InClause
    <2> QED
        BY <2>2, OwnersAre
<1>5. UNION {Owners(text)[places[i]] : i \in t[1]..t[2]}
          = UNION {OwnerOf(text, n) : n \in {places[i] : i \in t[1]..t[2]}}
    BY <1>4
<1> QED
    BY <1>3, <1>5 DEF Blamed, From, places

(* One stretch is inside another just as the spans are. *)
LEMMA InsideThere ==
    ASSUME NEW text, Conclusion(text), NEW c,
           NEW s \in AllSpans(Len(TextsOf(text, c))), NEW t \in AllSpans(Len(TextsOf(text, c)))
    PROVE  /\ Inside(From(text, c, s), From(text, c, t)) <=> Inside(s, t)
           /\ From(text, c, s) = From(text, c, t) => s = t
<1> DEFINE places == Stated(text, c)
           D == DOMAIN places
<1>1. /\ Len(places) \in Nat /\ D = 1..Len(places)
      /\ \A i, j \in D : i < j => places[i] < places[j]
      /\ \A i \in D : places[i] \in Asserting(text, c)
    BY StatedAre
<1>2. \A i \in D : places[i] \in Int
    <2>1. DOMAIN text = 1..Len(text) /\ Len(text) \in Nat
        BY SegmentsAre
    <2> QED
        BY <1>1, <2>1 DEF Asserting, InClause
<1>3. \A i, j \in D : (i <= j <=> places[i] <= places[j]) /\ (places[i] = places[j] => i = j)
    <2> SUFFICES ASSUME NEW i \in D, NEW j \in D
                 PROVE  (i <= j <=> places[i] <= places[j]) /\ (places[i] = places[j] => i = j)
        OBVIOUS
    <2> HIDE DEF places, D
    <2>1. i \in Int /\ j \in Int /\ places[i] \in Int /\ places[j] \in Int
        BY <1>1, <1>2
    <2>2. (i < j => places[i] < places[j]) /\ (j < i => places[j] < places[i])
        BY <1>1
    <2> QED
        BY <2>1, <2>2
<1>4. /\ s[1] \in D /\ s[2] \in D /\ t[1] \in D /\ t[2] \in D
    BY SpanSays
<1>5. s = <<s[1], s[2]>> /\ t = <<t[1], t[2]>>
    BY DEF AllSpans
<1> HIDE DEF places, D
<1>6. /\ From(text, c, s)[1] = places[s[1]] /\ From(text, c, s)[2] = places[s[2]]
      /\ From(text, c, t)[1] = places[t[1]] /\ From(text, c, t)[2] = places[t[2]]
    BY DEF From, places
<1>7. Inside(From(text, c, s), From(text, c, t)) <=> Inside(s, t)
    BY <1>3, <1>4, <1>6 DEF Inside
<1>8. ASSUME From(text, c, s) = From(text, c, t)
      PROVE  s = t
    <2>1. places[s[1]] = places[t[1]] /\ places[s[2]] = places[t[2]]
        BY <1>6, <1>8
    <2>2. s[1] = t[1] /\ s[2] = t[2]
        BY <1>3, <1>4, <2>1
    <2> QED
        BY <1>5, <2>2
<1> QED
    BY <1>7, <1>8

(* A span of a clause that fails asserts something just where its stretch does. *)
LEMMA FromIsAStretch ==
    ASSUME NEW text, Conclusion(text), NEW c, Fails(text, c), NEW archetype,
           NEW t \in AllSpans(Len(TextsOf(text, c)))
    PROVE  /\ SpanAsserts(TextsOf(text, c), t, archetype) <=> From(text, c, t) \in Stretches(text, archetype)
           /\ text[From(text, c, t)[1]].clause = c
<1> DEFINE places == Stated(text, c)
           s == From(text, c, t)
<1>1. /\ t[1] \in DOMAIN places /\ t[2] \in DOMAIN places /\ t[1] <= t[2]
      /\ SpanAsserts(TextsOf(text, c), t, archetype) <=> Matches(Words(text, s), archetype) # {}
    BY SpanSays
<1>2. /\ Len(places) \in Nat /\ DOMAIN places = 1..Len(places)
      /\ \A i \in DOMAIN places : places[i] \in Asserting(text, c)
      /\ \A i, j \in DOMAIN places : i < j => places[i] < places[j]
    BY StatedAre
<1>3. s = <<places[t[1]], places[t[2]]>>
    BY DEF From
<1> HIDE DEF places, s
<1>4. /\ s[1] = places[t[1]] /\ s[2] = places[t[2]]
    BY <1>3
<1>5. /\ s[1] \in DOMAIN text /\ s[2] \in DOMAIN text
      /\ text[s[1]].clause = c /\ text[s[2]].clause = c
    BY <1>1, <1>2, <1>4 DEF Asserting, InClause
<1>6. s[1] <= s[2]
    <2>1. DOMAIN text = 1..Len(text) /\ Len(text) \in Nat
        BY SegmentsAre
    <2>2. t[1] = t[2] \/ t[1] < t[2]
        BY <1>1, <1>2
    <2> QED
        BY <1>1, <1>2, <1>4, <1>5, <2>1, <2>2
<1>7. s \in (DOMAIN text) \X (DOMAIN text)
    BY <1>3, <1>4, <1>5
<1>8. s \in Stretches(text, archetype) <=> Matches(Words(text, s), archetype) # {}
    BY <1>5, <1>6, <1>7 DEF Stretches, Words
<1> QED
    BY <1>1, <1>5, <1>8 DEF s

(* A stretch that matches a phrasing asserts something. *)
LEMMA StretchSays ==
    ASSUME NEW text, NEW archetype \in Archetypes, NEW s, Matches(Words(text, s), archetype) # {}
    PROVE  \E n \in s[1]..s[2] : Asserts(text, n) # {}
<1>1. PICK phrasing \in Phrasings[archetype] : phrasing \subseteq Words(text, s)
    BY DEF Matches
<1>2. phrasing # {}
    BY <1>1, PhrasingsAssumption
<1>3. Words(text, s) # {}
    BY <1>1, <1>2
<1>4. PICK n \in s[1]..s[2] : Says(Asserts(text, n)) # {}
    BY <1>3 DEF Words
<1> QED
    BY <1>4 DEF Says

(* In every stretch is one of what is listed of its clause, that says the same. *)
LEMMA StretchHasASpan ==
    ASSUME NEW text, Conclusion(text), NEW archetype \in Archetypes,
           NEW s \in Stretches(text, archetype), NEW c, c = text[s[1]].clause
    PROVE  \E t \in AllSpans(Len(TextsOf(text, c))) :
               SpanAsserts(TextsOf(text, c), t, archetype) /\ Inside(From(text, c, t), s)
<1> DEFINE places == Stated(text, c)
           some == {n \in s[1]..s[2] : Asserts(text, n) # {}}
           first == Min(some)
           last == Max(some)
<1>1. Len(text) \in Nat /\ DOMAIN text = 1..Len(text)
    BY SegmentsAre
<1>2. /\ s[1] \in DOMAIN text /\ s[2] \in DOMAIN text /\ s[1] <= s[2]
      /\ text[s[2]].clause = c /\ Matches(Words(text, s), archetype) # {}
    BY DEF Stretches, Words
<1>3. some # {}
    BY <1>2, StretchSays
<1>4. \A n \in some : n \in DOMAIN text /\ text[n].clause = c
    <2> SUFFICES ASSUME NEW n \in some
                 PROVE  n \in DOMAIN text /\ text[n].clause = c
        OBVIOUS
    <2>1. n \in s[1]..s[2]
        OBVIOUS
    <2> QED
        BY <1>2, <2>1, ClausesAscend
<1>5. some \in SUBSET Asserting(text, c) /\ some \in SUBSET (1..Len(text))
    BY <1>1, <1>4 DEF Asserting, InClause
<1>6. first \in some /\ last \in some /\ \A n \in some : first <= n /\ n <= last
    BY <1>1, <1>3, <1>5, Earliest, Latest
<1> HIDE DEF first, last
<1>7. /\ Len(places) \in Nat /\ DOMAIN places = 1..Len(places)
      /\ \A n \in Asserting(text, c) : \E i \in DOMAIN places : places[i] = n
      /\ \A i, j \in DOMAIN places : i < j => places[i] < places[j]
    BY StatedAre
<1>8. PICK p \in DOMAIN places : places[p] = first
    BY <1>5, <1>6, <1>7
<1>9. PICK q \in DOMAIN places : places[q] = last
    BY <1>5, <1>6, <1>7
<1>10. first \in Int /\ last \in Int /\ s[1] \in Int /\ s[2] \in Int /\ first <= last
       /\ s[1] <= first /\ last <= s[2]
    BY <1>1, <1>2, <1>5, <1>6
<1>11. p <= q
    <2>1. ~ (q < p)
        BY <1>7, <1>8, <1>9, <1>10
    <2> QED
        BY <1>7, <2>1
<1> DEFINE t == <<p, q>>
<1>12. t \in AllSpans(Len(TextsOf(text, c)))
    <2>1. Len(TextsOf(text, c)) = Len(places)
        BY TextsAre
    <2> QED
        BY <1>7, <1>11, <2>1 DEF AllSpans
<1>13. From(text, c, t) = <<first, last>>
    BY <1>8, <1>9 DEF From
<1> HIDE DEF t, places
<1>14. Inside(From(text, c, t), s)
    BY <1>10, <1>13 DEF Inside
<1>15. Words(text, From(text, c, t)) = Words(text, s)
    <2>1. {n \in first..last : Asserts(text, n) # {}} = some
        <3>1. \A n \in first..last : n \in s[1]..s[2]
            BY <1>10
        <3>2. \A n \in some : n \in first..last
            BY <1>6, <1>10
        <3> QED
            BY <3>1, <3>2
    <2> DEFINE D == first..last
               E == s[1]..s[2]
    <2>2. Words(text, From(text, c, t)) = UNION {Says(Asserts(text, n)) : n \in D}
        BY <1>13 DEF Words
    <2>3. Words(text, s) = UNION {Says(Asserts(text, n)) : n \in E}
        BY DEF Words
    <2>4. {m \in D : Asserts(text, m) # {}} = {m \in E : Asserts(text, m) # {}}
        BY <2>1
    <2> HIDE DEF D, E
    <2>5. UNION {Says(Asserts(text, n)) : n \in {m \in D : Asserts(text, m) # {}}}
              = UNION {Says(Asserts(text, n)) : n \in D}
        BY OnlyThoseSay
    <2>6. UNION {Says(Asserts(text, n)) : n \in {m \in E : Asserts(text, m) # {}}}
              = UNION {Says(Asserts(text, n)) : n \in E}
        BY OnlyThoseSay
    <2> QED
        BY <2>2, <2>3, <2>4, <2>5, <2>6
<1>16. SpanAsserts(TextsOf(text, c), t, archetype)
    BY <1>2, <1>12, <1>15, SpanSays
<1> QED
    BY <1>12, <1>14, <1>16

(* A stretch inside another is of the same clause. *)
LEMMA InsideOneClause ==
    ASSUME NEW text, Conclusion(text), NEW archetype, NEW s \in Stretches(text, archetype),
           NEW t \in Stretches(text, archetype), Inside(t, s)
    PROVE  text[t[1]].clause = text[s[1]].clause
<1>1. Len(text) \in Nat /\ DOMAIN text = 1..Len(text)
    BY SegmentsAre
<1>2. /\ s[1] \in DOMAIN text /\ s[2] \in DOMAIN text /\ text[s[1]].clause = text[s[2]].clause
      /\ t[1] \in DOMAIN text /\ t[2] \in DOMAIN text /\ t[1] <= t[2]
    BY DEF Stretches
<1>3. t[1] \in s[1]..s[2]
    BY <1>1, <1>2 DEF Inside
<1> QED
    BY <1>2, <1>3, ClausesAscend

(* Each inside the other, they are one. *)
LEMMA InsideEachOther ==
    ASSUME NEW text, Conclusion(text), NEW archetype, NEW s \in Stretches(text, archetype),
           NEW t \in Stretches(text, archetype), Inside(s, t), Inside(t, s)
    PROVE  s = t
<1>1. Len(text) \in Nat /\ DOMAIN text = 1..Len(text)
    BY SegmentsAre
<1>2. /\ s = <<s[1], s[2]>> /\ s[1] \in DOMAIN text /\ s[2] \in DOMAIN text
      /\ t = <<t[1], t[2]>> /\ t[1] \in DOMAIN text /\ t[2] \in DOMAIN text
    BY DEF Stretches
<1>3. s[1] = t[1] /\ s[2] = t[2]
    BY <1>1, <1>2 DEF Inside
<1> QED
    BY <1>2, <1>3

(* One inside one inside another is inside that. *)
LEMMA InsideOnwards ==
    ASSUME NEW text, Conclusion(text), NEW archetype, NEW s \in Stretches(text, archetype),
           NEW t \in Stretches(text, archetype), NEW u \in Stretches(text, archetype),
           Inside(s, t), Inside(t, u)
    PROVE  Inside(s, u)
<1>1. Len(text) \in Nat /\ DOMAIN text = 1..Len(text)
    BY SegmentsAre
<1>2. /\ s[1] \in DOMAIN text /\ s[2] \in DOMAIN text /\ t[1] \in DOMAIN text
      /\ t[2] \in DOMAIN text /\ u[1] \in DOMAIN text /\ u[2] \in DOMAIN text
    BY DEF Stretches
<1> QED
    BY <1>1, <1>2 DEF Inside

(* The smallest stretches of a clause are those of the spans found in it. *)
LEMMA SmallestOfAClause ==
    ASSUME NEW text, Conclusion(text), NEW archetype \in Archetypes, NEW c, Fails(text, c)
    PROVE  {s \in Smallest(Stretches(text, archetype)) : text[s[1]].clause = c}
               = {From(text, c, t) : t \in Minimal(TextsOf(text, c), archetype)}
<1> DEFINE texts == TextsOf(text, c)
           all == AllSpans(Len(texts))
           stretches == Stretches(text, archetype)
           F(t) == From(text, c, t)
<1>1. ASSUME NEW s \in Smallest(stretches), text[s[1]].clause = c
      PROVE  \E t \in Minimal(texts, archetype) : s = F(t)
    <2>1. s \in stretches /\ \A u \in stretches : Inside(u, s) => u = s
        BY DEF Smallest
    <2>2. PICK t \in all : SpanAsserts(texts, t, archetype) /\ Inside(F(t), s)
        BY <1>1, <2>1, StretchHasASpan
    <2>3. F(t) \in stretches
        BY <2>2, FromIsAStretch
    <2>4. F(t) = s
        BY <2>1, <2>2, <2>3
    <2>5. ASSUME NEW u \in all, Inside(u, t), SpanAsserts(texts, u, archetype)
          PROVE  u = t
        <3>1. F(u) \in stretches
            BY <2>5, FromIsAStretch
        <3>2. Inside(F(u), F(t))
            BY <2>5, InsideThere
        <3>3. F(u) = F(t)
            BY <2>1, <2>4, <3>1, <3>2
        <3> QED
            BY <3>3, InsideThere
    <2>6. t \in Minimal(texts, archetype)
        BY <2>2, <2>5 DEF Minimal
    <2> QED
        BY <2>4, <2>6
<1>2. ASSUME NEW t \in Minimal(texts, archetype)
      PROVE  F(t) \in Smallest(stretches) /\ text[F(t)[1]].clause = c
    <2>1. t \in all /\ SpanAsserts(texts, t, archetype)
          /\ \A u \in all : Inside(u, t) /\ SpanAsserts(texts, u, archetype) => u = t
        BY DEF Minimal
    <2>2. F(t) \in stretches /\ text[F(t)[1]].clause = c
        BY <2>1, FromIsAStretch
    <2>3. ASSUME NEW s \in stretches, Inside(s, F(t))
          PROVE  s = F(t)
        <3>1. text[s[1]].clause = c
            BY <2>2, <2>3, InsideOneClause
        <3>2. PICK u \in all : SpanAsserts(texts, u, archetype) /\ Inside(F(u), s)
            BY <3>1, StretchHasASpan
        <3>3. F(u) \in stretches
            BY <3>2, FromIsAStretch
        <3>4. Inside(F(u), F(t))
            BY <2>2, <2>3, <3>2, <3>3, InsideOnwards
        <3>5. Inside(u, t)
            BY <2>1, <3>4, InsideThere
        <3>6. u = t
            BY <2>1, <3>2, <3>5
        <3> QED
            BY <2>2, <2>3, <3>2, <3>6, InsideEachOther
    <2> QED
        BY <2>2, <2>3 DEF Smallest
<1> HIDE DEF F, stretches, texts
<1>3. {s \in Smallest(stretches) : text[s[1]].clause = c} = {F(t) : t \in Minimal(texts, archetype)}
    BY <1>1, <1>2
<1> QED
    BY <1>3 DEF F, stretches, texts

(* The owners found in a clause are those of its smallest stretches. *)
LEMMA OwnersOfAClause ==
    ASSUME NEW text, Conclusion(text), NEW archetype \in Archetypes, NEW c, Fails(text, c)
    PROVE  OwnersIn(text, c, archetype)
               = {Blamed(text, s) : s \in {r \in Smallest(Stretches(text, archetype)) : text[r[1]].clause = c}}
<1> DEFINE texts == TextsOf(text, c)
           places == Stated(text, c)
           minimal == Minimal(texts, archetype)
           OwnedBy(t) == UNION {Owners(text)[places[i]] : i \in t[1]..t[2]}
<1>1. Len(texts) \in Nat
    BY StatedAre, TextsAre
<1>2. SmallestMatches(texts, archetype) = minimal
    BY <1>1, MinimalAreFound
<1>3. OwnersIn(text, c, archetype) = {OwnedBy(t) : t \in minimal}
    BY <1>2 DEF OwnersIn, TextsOf
<1>4. \A t \in minimal : OwnedBy(t) = Blamed(text, From(text, c, t))
    <2> SUFFICES ASSUME NEW t \in minimal
                 PROVE  OwnedBy(t) = Blamed(text, From(text, c, t))
        OBVIOUS
    <2>1. t \in AllSpans(Len(texts))
        BY DEF Minimal
    <2> QED
        BY <2>1, SpanBlames
<1>5. {s \in Smallest(Stretches(text, archetype)) : text[s[1]].clause = c}
          = {From(text, c, t) : t \in minimal}
    BY SmallestOfAClause
<1> HIDE DEF OwnedBy, minimal
<1>6. {OwnedBy(t) : t \in minimal} = {Blamed(text, From(text, c, t)) : t \in minimal}
    BY <1>4
<1>7. {Blamed(text, From(text, c, t)) : t \in minimal}
          = {Blamed(text, s) : s \in {From(text, c, t) : t \in minimal}}
    OBVIOUS
<1> QED
    BY <1>3, <1>5, <1>6, <1>7

(* All the owners found are those of the smallest stretches. *)
LEMMA OwnersAreBlamed ==
    ASSUME NEW text, Conclusion(text), NEW archetype \in Archetypes
    PROVE  OwnersFound(text, archetype) = {Blamed(text, s) : s \in Smallest(Stretches(text, archetype))}
<1> DEFINE smallest == Smallest(Stretches(text, archetype))
           failing == {c \in Clauses(text) : Fails(text, c)}
<1>1. \A s \in smallest : text[s[1]].clause \in failing
    BY DEF Smallest, Stretches, Clauses
<1>2. \A c \in failing : OwnersIn(text, c, archetype)
                             = {Blamed(text, s) : s \in {r \in smallest : text[r[1]].clause = c}}
    BY OwnersOfAClause
<1>3. OwnersFound(text, archetype) = UNION {OwnersIn(text, c, archetype) : c \in failing}
    BY DEF OwnersFound
<1> HIDE DEF smallest, failing
<1>4. ASSUME NEW o \in OwnersFound(text, archetype)
      PROVE  \E s \in smallest : o = Blamed(text, s)
    <2>1. PICK c \in failing : o \in OwnersIn(text, c, archetype)
        BY <1>3
    <2> QED
        BY <1>2, <2>1
<1>5. ASSUME NEW s \in smallest
      PROVE  Blamed(text, s) \in OwnersFound(text, archetype)
    <2> DEFINE c == text[s[1]].clause
    <2>1. c \in failing
        BY <1>1
    <2>2. Blamed(text, s) \in OwnersIn(text, c, archetype)
        BY <1>2, <2>1
    <2> QED
        BY <1>3, <2>1, <2>2
<1>6. OwnersFound(text, archetype) = {Blamed(text, s) : s \in smallest}
    BY <1>4, <1>5
<1> QED
    BY <1>6 DEF smallest

(* So the failure is bound by those it is blamed on. *)
LEMMA BoundByThoseBlamed ==
    ASSUME NEW text, Conclusion(text), NEW archetype \in Archetypes, NEW cause,
           NEW blamed, blamed = {Blamed(text, s) : s \in Smallest(Stretches(text, archetype))}
    PROVE  Bound(text, archetype, cause) = (cause \in UNION blamed \/ blamed = {{}})
<1>1. OwnersFound(text, archetype) = blamed
    BY OwnersAreBlamed
<1>2. Bound(text, archetype, cause)
          = (\/ \E o \in blamed : cause \in o
             \/ blamed # {} /\ \A o \in blamed : o = {})
    BY <1>1 DEF Bound
<1>3. (\E o \in blamed : cause \in o) <=> cause \in UNION blamed
    OBVIOUS
<1>4. (blamed # {} /\ \A o \in blamed : o = {}) <=> blamed = {{}}
    OBVIOUS
<1> QED
    BY <1>2, <1>3, <1>4

(* An archetype is named by a clause that fails and matches it. *)
LEMMA NamedByAClause ==
    ASSUME NEW text, NEW archetype, Names(text, archetype)
    PROVE  \E c \in Clauses(text) : Fails(text, c) /\ Matches(Says(Clause(text, c)), archetype) # {}
<1> DEFINE matches == UNION {Matches(Says(clause), archetype) : clause \in AssertedClauses(text)}
<1>1. Cardinality(matches) > 0
    BY DEF Names, Hits
<1>2. matches # {}
    <2>1. ~ (0 > 0)
        OBVIOUS
    <2>2. Cardinality({}) = 0
        BY FS_EmptySet
    <2> HIDE DEF matches
    <2> QED
        BY <1>1, <2>1, <2>2
<1>3. PICK clause \in AssertedClauses(text) : Matches(Says(clause), archetype) # {}
    BY <1>2
<1> QED
    BY <1>3 DEF AssertedClauses

(* The whole of a clause is a stretch that says what the clause does. *)
LEMMA ClauseIsAStretch ==
    ASSUME NEW text, Conclusion(text), NEW archetype, NEW c \in Clauses(text), Fails(text, c),
           Matches(Says(Clause(text, c)), archetype) # {}
    PROVE  Stretches(text, archetype) # {}
<1> DEFINE of == InClause(text, c)
           first == Min(of)
           last == Max(of)
           s == <<first, last>>
<1>1. Len(text) \in Nat /\ DOMAIN text = 1..Len(text)
    BY SegmentsAre
<1>2. of \in SUBSET (1..Len(text)) /\ of # {}
    BY <1>1 DEF InClause, Clauses
<1>3. first \in of /\ last \in of /\ \A n \in of : first <= n /\ n <= last
    BY <1>1, <1>2, Earliest, Latest
<1> HIDE DEF first, last
<1>4. first \in DOMAIN text /\ last \in DOMAIN text /\ text[first].clause = c /\ text[last].clause = c
    BY <1>3 DEF InClause
<1>5. first..last = of
    <2>1. \A n \in first..last : n \in of
        <3> SUFFICES ASSUME NEW n \in first..last
                     PROVE  n \in of
            OBVIOUS
        <3>1. n \in DOMAIN text /\ text[n].clause = c
            BY <1>4, ClausesAscend
        <3> QED
            BY <3>1 DEF InClause
    <2>2. \A n \in of : n \in first..last
        BY <1>1, <1>2, <1>3
    <2> HIDE DEF of
    <2> QED
        BY <2>1, <2>2
<1>6. Says(Clause(text, c)) = UNION {Says(Asserts(text, n)) : n \in of}
    BY DEF Says, Clause
<1>7. first <= last
    BY <1>3
<1>8. s[1] = first /\ s[2] = last /\ s \in (DOMAIN text) \X (DOMAIN text)
    BY <1>4
<1> HIDE DEF s, of
<1>9. Matches(UNION {Says(Asserts(text, n)) : n \in s[1]..s[2]}, archetype) # {}
    BY <1>5, <1>6, <1>8
<1>10. s \in Stretches(text, archetype)
    BY <1>4, <1>7, <1>8, <1>9 DEF Stretches
<1> QED
    BY <1>10

(* Where there are stretches, one is smallest. *)
LEMMA OneIsSmallest ==
    ASSUME NEW text, Conclusion(text), NEW archetype \in Archetypes, Stretches(text, archetype) # {}
    PROVE  Smallest(Stretches(text, archetype)) # {}
<1>1. PICK s : s \in Stretches(text, archetype)
    OBVIOUS
<1> DEFINE c == text[s[1]].clause
           texts == TextsOf(text, c)
<1>2. Fails(text, c)
    BY <1>1 DEF Stretches
<1>3. PICK t \in AllSpans(Len(texts)) : SpanAsserts(texts, t, archetype)
    BY <1>1, StretchHasASpan
<1>4. Len(texts) \in Nat
    BY StatedAre, TextsAre
<1>5. PICK m : m \in Minimal(texts, archetype)
    BY <1>3, <1>4, OneIsMinimal
<1>6. {r \in Smallest(Stretches(text, archetype)) : text[r[1]].clause = c}
          = {From(text, c, u) : u \in Minimal(texts, archetype)}
    BY <1>2, SmallestOfAClause
<1>7. From(text, c, m) \in {From(text, c, u) : u \in Minimal(texts, archetype)}
    BY <1>5
<1> QED
    BY <1>6, <1>7

(* A conclusion is bound to the service at fault by its smallest stretches. *)
LEMMA BindingAConclusion ==
    ASSUME NEW text, Conclusion(text), NEW archetype \in Archetypes, NEW cause
    PROVE  BoundIsBySmallestSpans(text, archetype, cause)
<1> DEFINE smallest == Smallest(Stretches(text, archetype))
           blamed == {Blamed(text, s) : s \in smallest}
<1>1. Bound(text, archetype, cause) = (cause \in UNION blamed \/ blamed = {{}})
    BY BoundByThoseBlamed
<1>2. Names(text, archetype) => smallest # {}
    <2> SUFFICES ASSUME Names(text, archetype)
                 PROVE  smallest # {}
        OBVIOUS
    <2>1. PICK c \in Clauses(text) : Fails(text, c) /\ Matches(Says(Clause(text, c)), archetype) # {}
        BY NamedByAClause
    <2>2. Stretches(text, archetype) # {}
        BY <2>1, ClauseIsAStretch
    <2> QED
        BY <2>2, OneIsSmallest
<1> QED
    BY <1>1, <1>2 DEF BoundIsBySmallestSpans

(* A failure is bound to the service at fault by the smallest stretches that assert it
   (evals/run.py, _bound). *)
THEOREM BindsTheFailure == Spec => []FailureIsBound
<1>1. Init => FailureIsBound
    <2> SUFFICES ASSUME Init, case.kind = "grade"
                 PROVE  BoundIsBySmallestSpans(case.of.text, case.of.archetype, case.of.cause)
        BY DEF FailureIsBound
    <2>1. case.of \in GradeCases
        BY DEF Init, Cases
    <2>2. Conclusion(case.of.text) /\ case.of.archetype \in Archetypes
        BY <2>1, GradeAssumption DEF Conclusion
    <2> QED
        BY <2>2, BindingAConclusion
<1>2. FailureIsBound /\ [Next]_case => FailureIsBound'
    BY DEF FailureIsBound, Next
<1> QED
    BY <1>1, <1>2, PTL DEF Spec

(* What a model concludes is read as it says it: both together. *)
THEOREM ReadsConclusions == Spec => []ConclusionsAreRead
<1>1. ObjectIsRead /\ FailureIsBound => ConclusionsAreRead
    BY DEF ConclusionsAreRead
<1> QED
    BY <1>1, AnswersAreRead, BindsTheFailure, PTL
==============================================================================
