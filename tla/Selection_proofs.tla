--------------------------- MODULE Selection_proofs ---------------------------
(****************************************************************************)
(* What TLAPS proves of how candidates are selected and judged.              *)
(*                                                                           *)
(* Campaigns, for any symbols, windows, generators, scenarios, thresholds    *)
(* and books: no role is left, the embargo covers every outcome, no look at  *)
(* the data is wasted on a lawful generator, and the selection is the best.  *)
(* The promotion gate, for any plan, any number of folds and any registries: *)
(* what is judged is fresh, chosen by the rule and one candidate throughout. *)
(****************************************************************************)
EXTENDS Campaign, Promotion, TLAPS, WellFoundedInduction, FiniteSetTheorems

----------------------------------------------------------------------------
(* Arrangements: the members of a finite set in a strict order.              *)

StrictOrder(S, R) ==
  /\ \A m, n \in S : m = n \/ <<m, n>> \in R \/ <<n, m>> \in R
  /\ \A n \in S : <<n, n>> \notin R
  /\ \A l, m, n \in S : <<l, m>> \in R /\ <<m, n>> \in R => <<l, n>> \in R

Place(S, R, n) == Cardinality(Preceding(S, R, n))

LEMMA PlaceType ==
    ASSUME NEW S, IsFiniteSet(S), NEW R, StrictOrder(S, R), NEW n \in S
    PROVE  /\ Cardinality(S) \in Nat /\ IsFiniteSet(Preceding(S, R, n))
           /\ Place(S, R, n) \in 0 .. Cardinality(S) - 1
<1>1. Preceding(S, R, n) \in SUBSET S /\ n \notin Preceding(S, R, n)
  BY DEF Preceding, StrictOrder
<1>2. /\ IsFiniteSet(Preceding(S, R, n)) /\ Place(S, R, n) <= Cardinality(S)
      /\ Place(S, R, n) # Cardinality(S)
  BY <1>1, FS_Subset DEF Place
<1>3. Place(S, R, n) \in Nat /\ Cardinality(S) \in Nat
  BY <1>2, FS_CardinalityType DEF Place
<1> QED BY <1>2, <1>3

LEMMA PlacesGrow ==
    ASSUME NEW S, IsFiniteSet(S), NEW R, StrictOrder(S, R), NEW m \in S, NEW n \in S, <<m, n>> \in R
    PROVE  Place(S, R, m) < Place(S, R, n)
<1>1. Preceding(S, R, m) \in SUBSET Preceding(S, R, n)
  BY DEF Preceding, StrictOrder
<1>2. m \in Preceding(S, R, n) /\ m \notin Preceding(S, R, m)
  BY DEF Preceding, StrictOrder
<1>3. /\ Place(S, R, m) <= Place(S, R, n) /\ Place(S, R, m) # Place(S, R, n)
  BY <1>1, <1>2, PlaceType, FS_Subset DEF Place
<1>4. Place(S, R, m) \in Nat /\ Place(S, R, n) \in Nat
  BY PlaceType
<1> QED BY <1>3, <1>4

LEMMA PlacesDiffer ==
    ASSUME NEW S, IsFiniteSet(S), NEW R, StrictOrder(S, R), NEW m \in S, NEW n \in S,
           Place(S, R, m) = Place(S, R, n)
    PROVE  m = n
<1>1. <<m, n>> \notin R
  BY PlacesGrow, PlaceType
<1>2. <<n, m>> \notin R
  BY PlacesGrow, PlaceType
<1> QED BY <1>1, <1>2 DEF StrictOrder

LEMMA PlacesAreTaken ==
    ASSUME NEW S, IsFiniteSet(S), NEW R, StrictOrder(S, R), NEW k \in 1 .. Cardinality(S)
    PROVE  \E n \in S : Place(S, R, n) = k - 1
<1> DEFINE T == 0 .. Cardinality(S) - 1
           place == [n \in S |-> Place(S, R, n)]
<1>1. Cardinality(S) \in Nat
  BY FS_CardinalityType
<1>2. IsFiniteSet(T) /\ Cardinality(T) = Cardinality(S)
  <2>1. PICK c \in Nat : c = Cardinality(S)
    BY <1>1
  <2>2. IsFiniteSet(0 .. c - 1) /\ Cardinality(0 .. c - 1) = IF 0 > c - 1 THEN 0 ELSE c - 1 - 0 + 1
    BY FS_Interval
  <2> QED BY <2>1, <2>2
<1>3. place \in Injection(S, T)
  <2>1. place \in [S -> T]
    BY PlaceType
  <2>2. \A m, n \in S : place[m] = place[n] => m = n
    BY PlacesDiffer
  <2> HIDE DEF T, place
  <2> QED BY <2>1, <2>2 DEF Injection, IsInjective
<1>4. place \in Surjection(S, T)
  <2> HIDE DEF T, place
  <2> QED BY <1>2, <1>3, FS_Injection
<1>5. k - 1 \in T
  BY <1>1
<1>6. \E n \in S : place[n] = k - 1
  <2> HIDE DEF T, place
  <2> QED BY <1>4, <1>5 DEF Surjection
<1> QED BY <1>6

(* Every place is taken, by one member each, and the order is kept.          *)
LEMMA InOrderAt ==
    ASSUME NEW S, IsFiniteSet(S), NEW R, StrictOrder(S, R), NEW k \in 1 .. Cardinality(S)
    PROVE  InOrder(S, R)[k] \in S /\ Place(S, R, InOrder(S, R)[k]) = k - 1
<1>1. InOrder(S, R)[k] = CHOOSE n \in S : Place(S, R, n) = k - 1
  BY DEF InOrder, Place
<1>2. PICK n \in S : Place(S, R, n) = k - 1
  BY PlacesAreTaken
<1> QED BY <1>1, <1>2

LEMMA InOrderDomain == ASSUME NEW S, NEW R PROVE DOMAIN InOrder(S, R) = 1 .. Cardinality(S)
  BY DEF InOrder

LEMMA InOrderHasAll ==
    ASSUME NEW S, IsFiniteSet(S), NEW R, StrictOrder(S, R), NEW n \in S
    PROVE  \E k \in 1 .. Cardinality(S) : InOrder(S, R)[k] = n
<1>1. Cardinality(S) \in Nat /\ Place(S, R, n) \in 0 .. Cardinality(S) - 1
  BY PlaceType
<1>2. PICK k \in 1 .. Cardinality(S) : k - 1 = Place(S, R, n)
  BY <1>1
<1>3. InOrder(S, R)[k] \in S /\ Place(S, R, InOrder(S, R)[k]) = Place(S, R, n)
  BY <1>2, InOrderAt
<1> QED BY <1>3, PlacesDiffer

LEMMA InOrderAscends ==
    ASSUME NEW S, IsFiniteSet(S), NEW R, StrictOrder(S, R),
           NEW i \in 1 .. Cardinality(S), NEW j \in 1 .. Cardinality(S), i < j
    PROVE  <<InOrder(S, R)[i], InOrder(S, R)[j]>> \in R
<1>1. Cardinality(S) \in Nat
  BY FS_CardinalityType
<1>2. PICK m \in S : m = InOrder(S, R)[i] /\ Place(S, R, m) = i - 1
  BY InOrderAt
<1>3. PICK n \in S : n = InOrder(S, R)[j] /\ Place(S, R, n) = j - 1
  BY InOrderAt
<1>4. i - 1 < j - 1 /\ ~ (j - 1 < i - 1) /\ i - 1 # j - 1
  BY <1>1
<1>5. m # n
  BY <1>2, <1>3, <1>4
<1>6. <<n, m>> \notin R
  BY <1>2, <1>3, <1>4, PlacesGrow
<1>7. <<m, n>> \in R
  BY <1>5, <1>6 DEF StrictOrder
<1> QED BY <1>2, <1>3, <1>7

----------------------------------------------------------------------------
(* Filtered and sorted lists.                                                *)

(* at is a way to run through S, every member once.                          *)
RunsThrough(at, S) ==
  /\ at \in [1 .. Cardinality(S) -> S]
  /\ \A i, j \in 1 .. Cardinality(S) : at[i] = at[j] => i = j
  /\ \A n \in S : \E k \in 1 .. Cardinality(S) : at[k] = n

LEMMA InOrderRunsThrough ==
    ASSUME NEW S, IsFiniteSet(S), NEW R, StrictOrder(S, R)
    PROVE  RunsThrough(InOrder(S, R), S)
<1>1. InOrder(S, R) \in [1 .. Cardinality(S) -> S]
  <2>1. \A k \in 1 .. Cardinality(S) : InOrder(S, R)[k] \in S
    BY InOrderAt
  <2> QED BY <2>1 DEF InOrder
<1>2. ASSUME NEW i \in 1 .. Cardinality(S), NEW j \in 1 .. Cardinality(S),
             InOrder(S, R)[i] = InOrder(S, R)[j]
      PROVE  i = j
  <2>1. i - 1 = j - 1
    BY <1>2, InOrderAt
  <2> QED BY <2>1, FS_CardinalityType
<1>3. ASSUME NEW n \in S PROVE \E k \in 1 .. Cardinality(S) : InOrder(S, R)[k] = n
  BY InOrderHasAll
<1> QED BY <1>1, <1>2, <1>3 DEF RunsThrough

LEMMA PickedIs ==
    ASSUME NEW T, NEW list \in Seq(T), NEW c \in Nat, NEW at \in [1 .. c -> DOMAIN list]
    PROVE  /\ Picked(list, at) \in Seq(T) /\ Len(Picked(list, at)) = c
           /\ \A k \in 1 .. c : Picked(list, at)[k] = list[at[k]]
<1>1. \A k \in 1 .. c : at[k] \in DOMAIN list /\ list[at[k]] \in T
  OBVIOUS
<1>2. Picked(list, at) = [k \in 1 .. c |-> list[at[k]]]
  BY DEF Picked
<1> QED BY <1>1, <1>2

LEMMA EarlierIsStrict == ASSUME NEW S \in SUBSET Int PROVE StrictOrder(S, Earlier(S))
<1>1. \A m, n \in S : <<m, n>> \in Earlier(S) <=> m < n
  BY DEF Earlier, PairsOf
<1>2. S \subseteq Int
  OBVIOUS
<1> QED BY <1>1, <1>2 DEF StrictOrder

Ascent(S) == InOrder(S, Earlier(S))

LEMMA FilteredIs ==
    ASSUME NEW T, NEW list \in Seq(T), NEW places \in SUBSET (1 .. Len(list))
    PROVE  /\ IsFiniteSet(places) /\ Cardinality(places) \in Nat
           /\ RunsThrough(Ascent(places), places)
           /\ Filtered(list, places) \in Seq(T) /\ Len(Filtered(list, places)) = Cardinality(places)
           /\ \A k \in 1 .. Cardinality(places) : Filtered(list, places)[k] = list[Ascent(places)[k]]
           /\ \A i, j \in 1 .. Cardinality(places) : i < j => Ascent(places)[i] < Ascent(places)[j]
<1>1. IsFiniteSet(places) /\ Cardinality(places) \in Nat
  <2>1. IsFiniteSet(1 .. Len(list))
    BY FS_Interval
  <2> QED BY <2>1, FS_Subset, FS_CardinalityType
<1>2. places \in SUBSET Int /\ places \subseteq DOMAIN list
  OBVIOUS
<1>3. StrictOrder(places, Earlier(places))
  BY <1>2, EarlierIsStrict
<1>4. RunsThrough(Ascent(places), places)
  BY <1>1, <1>3, InOrderRunsThrough DEF Ascent
<1>5. Ascent(places) \in [1 .. Cardinality(places) -> DOMAIN list]
  BY <1>2, <1>4 DEF RunsThrough
<1>6. ASSUME NEW i \in 1 .. Cardinality(places), NEW j \in 1 .. Cardinality(places), i < j
      PROVE  Ascent(places)[i] < Ascent(places)[j]
  <2>1. <<Ascent(places)[i], Ascent(places)[j]>> \in Earlier(places)
    BY <1>1, <1>3, <1>6, InOrderAscends DEF Ascent
  <2> QED BY <2>1 DEF Earlier, PairsOf
<1>7. Filtered(list, places) = Picked(list, Ascent(places))
  BY DEF Filtered, Ascent
<1>8. /\ Filtered(list, places) \in Seq(T) /\ Len(Filtered(list, places)) = Cardinality(places)
      /\ \A k \in 1 .. Cardinality(places) : Filtered(list, places)[k] = list[Ascent(places)[k]]
  <2>1. PICK c \in Nat : c = Cardinality(places)
    BY <1>1
  <2>2. PICK at \in [1 .. c -> DOMAIN list] : at = Ascent(places)
    BY <1>5, <2>1
  <2>3. Picked(list, at) \in Seq(T) /\ Len(Picked(list, at)) = c
    BY PickedIs
  <2>4. \A k \in 1 .. c : Picked(list, at)[k] = list[at[k]]
    BY PickedIs
  <2> QED BY <1>7, <2>1, <2>2, <2>3, <2>4
<1> QED BY <1>1, <1>4, <1>6, <1>8

(* Intents are decided and eligible at whole units.                          *)
Fields == {"decision", "eligible"}

LEMMA FieldType == ASSUME NEW x \in IntentType, NEW field \in Fields PROVE x[field] \in Int
<1>1. x.decision \in Int /\ x.eligible \in Int
  BY DEF IntentType
<1>2. CASE field = "decision"
  BY <1>1, <1>2
<1>3. CASE field = "eligible"
  BY <1>1, <1>3
<1> QED BY <1>2, <1>3 DEF Fields

LEMMA KeyedIsStrict ==
    ASSUME NEW S \in SUBSET Int, NEW key \in [S -> Int], NEW R,
           \A m, n \in S : <<m, n>> \in R <=> key[m] < key[n] \/ (key[m] = key[n] /\ m < n)
    PROVE  StrictOrder(S, R)
<1>1. \A n \in S : n \in Int /\ key[n] \in Int
  OBVIOUS
<1>2. ASSUME NEW m \in S, NEW n \in S PROVE m = n \/ <<m, n>> \in R \/ <<n, m>> \in R
  <2>1. PICK x \in Int, y \in Int : x = key[m] /\ y = key[n]
    BY <1>1
  <2>2. x < y \/ y < x \/ (x = y /\ (m < n \/ n < m \/ m = n))
    BY <1>1
  <2> QED BY <2>1, <2>2
<1>3. ASSUME NEW n \in S PROVE <<n, n>> \notin R
  <2>1. PICK x \in Int : x = key[n]
    BY <1>1
  <2>2. ~ (x < x) /\ ~ (n < n)
    BY <1>1
  <2> QED BY <2>1, <2>2
<1>4. ASSUME NEW l \in S, NEW m \in S, NEW n \in S, <<l, m>> \in R, <<m, n>> \in R PROVE <<l, n>> \in R
  <2>1. PICK x \in Int, y \in Int, z \in Int : x = key[l] /\ y = key[m] /\ z = key[n]
    BY <1>1
  <2>2. (x < y \/ (x = y /\ l < m)) /\ (y < z \/ (y = z /\ m < n))
    BY <1>4, <2>1
  <2>3. x < z \/ (x = z /\ l < n)
    BY <1>1, <2>2
  <2> QED BY <2>1, <2>3
<1> QED BY <1>2, <1>3, <1>4 DEF StrictOrder

LEMMA SoonerIsStrict ==
    ASSUME NEW list \in Seq(IntentType), NEW field \in Fields
    PROVE  StrictOrder(1 .. Len(list), Sooner(list, field))
<1> DEFINE key == [n \in 1 .. Len(list) |-> list[n][field]]
<1>1. key \in [1 .. Len(list) -> Int]
  <2>1. ASSUME NEW n \in 1 .. Len(list) PROVE list[n][field] \in Int
    <3>1. list[n] \in IntentType
      OBVIOUS
    <3> QED BY <3>1, FieldType
  <2> QED BY <2>1
<1>2. \A m, n \in 1 .. Len(list) : <<m, n>> \in Sooner(list, field) <=>
         key[m] < key[n] \/ (key[m] = key[n] /\ m < n)
  <2>1. DOMAIN list = 1 .. Len(list)
    OBVIOUS
  <2> QED BY <2>1 DEF Sooner, PairsOf
<1>3. 1 .. Len(list) \in SUBSET Int
  OBVIOUS
<1> HIDE DEF key
<1> QED BY <1>1, <1>2, <1>3, KeyedIsStrict

ByField(list, field) == InOrder(1 .. Len(list), Sooner(list, field))

LEMMA SortedIs ==
    ASSUME NEW list \in Seq(IntentType), NEW field \in Fields
    PROVE  /\ IsFiniteSet(1 .. Len(list)) /\ Cardinality(1 .. Len(list)) = Len(list)
           /\ RunsThrough(ByField(list, field), 1 .. Len(list))
           /\ Sorted(list, field) \in Seq(IntentType) /\ Len(Sorted(list, field)) = Len(list)
           /\ \A k \in 1 .. Len(list) : Sorted(list, field)[k] = list[ByField(list, field)[k]]
           /\ \A k \in 1 .. Len(list) - 1 : Sorted(list, field)[k][field] <= Sorted(list, field)[k + 1][field]
<1> DEFINE S == 1 .. Len(list)
           at == ByField(list, field)
<1>1. IsFiniteSet(S) /\ Cardinality(S) = Len(list) /\ Len(list) \in Nat
  <2>1. PICK n \in Nat : n = Len(list)
    OBVIOUS
  <2>2. IsFiniteSet(1 .. n) /\ Cardinality(1 .. n) = n
    BY FS_Interval
  <2> QED BY <2>1, <2>2
<1>2. StrictOrder(S, Sooner(list, field))
  BY SoonerIsStrict
<1>3. RunsThrough(at, S)
  BY <1>1, <1>2, InOrderRunsThrough DEF ByField
<1>4. at \in [1 .. Len(list) -> DOMAIN list]
  BY <1>1, <1>3 DEF RunsThrough
<1>5. Sorted(list, field) = Picked(list, at)
  BY DEF Sorted, ByField
<1>6. /\ Sorted(list, field) \in Seq(IntentType) /\ Len(Sorted(list, field)) = Len(list)
      /\ \A k \in 1 .. Len(list) : Sorted(list, field)[k] = list[at[k]]
  <2>1. PICK n \in Nat : n = Len(list)
    BY <1>1
  <2>2. at \in [1 .. n -> DOMAIN list]
    BY <1>4, <2>1
  <2> HIDE DEF at, S
  <2>3. Picked(list, at) \in Seq(IntentType) /\ Len(Picked(list, at)) = n
    BY <2>2, PickedIs
  <2>4. \A k \in 1 .. n : Picked(list, at)[k] = list[at[k]]
    BY <2>2, PickedIs
  <2> QED BY <1>5, <2>1, <2>3, <2>4
<1>7. ASSUME NEW k \in 1 .. Len(list) - 1
      PROVE  Sorted(list, field)[k][field] <= Sorted(list, field)[k + 1][field]
  <2>1. k \in 1 .. Len(list) /\ k + 1 \in 1 .. Len(list) /\ k < k + 1
    BY <1>1
  <2>2. <<at[k], at[k + 1]>> \in Sooner(list, field)
    BY <1>1, <1>2, <2>1, InOrderAscends DEF ByField
  <2>3. list[at[k]][field] < list[at[k + 1]][field] \/ list[at[k]][field] = list[at[k + 1]][field]
    <3> HIDE DEF at
    <3> QED BY <2>2 DEF Sooner, PairsOf
  <2>4. at[k] \in 1 .. Len(list) /\ at[k + 1] \in 1 .. Len(list)
    <3> HIDE DEF at
    <3> QED BY <1>4, <2>1
  <2>5. list[at[k]][field] \in Int /\ list[at[k + 1]][field] \in Int
    <3> HIDE DEF at
    <3>1. list[at[k]] \in IntentType /\ list[at[k + 1]] \in IntentType
      BY <2>4
    <3> QED BY <3>1, FieldType
  <2>6. Sorted(list, field)[k] = list[at[k]] /\ Sorted(list, field)[k + 1] = list[at[k + 1]]
    <3> HIDE DEF at
    <3> QED BY <1>6, <2>1
  <2> HIDE DEF at
  <2> QED BY <2>3, <2>5, <2>6
<1> QED BY <1>1, <1>3, <1>6, <1>7

----------------------------------------------------------------------------
(* Numbers.                                                                  *)

LEMMA LeastOf == ASSUME NEW T \in SUBSET Nat, T # {}
                 PROVE \E x \in T : \A y \in T : x <= y
<1>1. PICK x \in T : \A y \in T : ~ (<<y, x>> \in OpToRel(<, Nat))
  BY WFMin, NatLessThanWellFounded
<1>2. \A y \in T : ~ (y < x)
  BY <1>1 DEF OpToRel
<1> QED BY <1>2

LEMMA Scales == ASSUME NEW a \in Nat, NEW b \in Nat, NEW c \in Nat, a <= b
                PROVE a * c <= b * c /\ a * c \in Nat /\ b * c \in Nat
<1>1. b * c = a * c + (b - a) * c
  OBVIOUS
<1>2. (b - a) * c >= 0
  OBVIOUS
<1>3. a * c \in Int /\ b * c \in Int /\ (b - a) * c \in Int /\ a * c >= 0
  OBVIOUS
<1> QED BY <1>1, <1>2, <1>3

LEMMA DivModOf == ASSUME NEW m \in Nat, NEW d \in Nat, d > 0, NEW q \in Int, NEW r \in Int,
                         q = m \div d, r = m % d
                  PROVE q >= 0 /\ r \in 0 .. d - 1 /\ m = d * q + r
  OBVIOUS

(* Any m, divided by d: a quotient and a remainder.                          *)
LEMMA DivMod == ASSUME NEW m \in Nat, NEW d \in Nat, d > 0
                PROVE \E q \in Nat, r \in 0 .. d - 1 :
                        m \div d = q /\ m % d = r /\ m = d * q + r /\ d * q \in Int
<1> DEFINE q == m \div d
           r == m % d
<1>1. q \in Int /\ r \in Int
  OBVIOUS
<1>2. q >= 0 /\ r \in 0 .. d - 1 /\ m = d * q + r
  <2>1. q = m \div d /\ r = m % d
    OBVIOUS
  <2> HIDE DEF q, r
  <2> QED BY <1>1, <2>1, DivModOf
<1>3. d * q \in Int
  BY <1>1
<1> QED BY <1>1, <1>2, <1>3

(* Of two multiples the larger one is larger by the factor at least.         *)
LEMMA Multiples == ASSUME NEW d \in Nat, NEW p \in Nat, NEW q \in Nat, p < q
                   PROVE  d * q \in Nat /\ d * p \in Nat /\ d * p + d <= d * q
<1>1. d * q = d * p + d + d * (q - p - 1)
  OBVIOUS
<1>2. d * (q - p - 1) >= 0 /\ d * q \in Nat /\ d * p \in Nat /\ d * (q - p - 1) \in Int
  OBVIOUS
<1> QED BY <1>1, <1>2

LEMMA MultipleLeavesNothing ==
    ASSUME NEW d \in Nat, d > 0, NEW n \in Nat, NEW k \in Nat, n = d * k
    PROVE  n % d = 0
<1>1. PICK q \in Nat, x \in 0 .. d - 1 : n % d = x /\ n = d * q + x /\ d * q \in Int
  BY DivMod
<1>2. ~ k < q
  <2> SUFFICES ASSUME k < q PROVE FALSE
    OBVIOUS
  <2>1. d * k + d <= d * q /\ d * k \in Nat /\ d * q \in Nat
    BY Multiples
  <2> QED BY <1>1, <2>1
<1>3. ~ q < k
  <2> SUFFICES ASSUME q < k PROVE FALSE
    OBVIOUS
  <2>1. d * q + d <= d * k /\ d * k \in Nat /\ d * q \in Nat
    BY Multiples
  <2> QED BY <1>1, <2>1
<1>4. k = q
  BY <1>2, <1>3
<1>5. d * k \in Nat
  OBVIOUS
<1> QED BY <1>1, <1>4, <1>5

LEMMA RoundUpIs ==
    ASSUME NEW t \in Nat, NEW unit \in Nat, unit > 0
    PROVE  \E q \in Nat : /\ RoundUp(t, unit) = unit * q /\ unit * q \in Nat
                          /\ t <= unit * q /\ unit * q < t + unit
<1>1. t + unit - 1 \in Nat
  OBVIOUS
<1>2. PICK q \in Nat, r \in 0 .. unit - 1 :
        /\ (t + unit - 1) \div unit = q
        /\ t + unit - 1 = unit * q + r /\ unit * q \in Int
  BY <1>1, DivMod
<1>3. RoundUp(t, unit) = unit * q
  <2>1. RoundUp(t, unit) = q * unit
    BY <1>2 DEF RoundUp
  <2> QED BY <2>1
<1>4. t <= unit * q /\ unit * q < t + unit
  BY <1>2
<1> QED BY <1>2, <1>3, <1>4

LEMMA RoundUpLeast ==
    ASSUME NEW t \in Nat, NEW unit \in Nat, unit > 0, NEW q \in Nat, t <= unit * q
    PROVE  RoundUp(t, unit) <= unit * q
<1>1. PICK p \in Nat : RoundUp(t, unit) = unit * p /\ unit * p \in Nat /\ unit * p < t + unit
  BY RoundUpIs
<1>2. unit * q \in Nat
  OBVIOUS
<1>3. CASE p <= q
  <2>1. p = q \/ unit * p + unit <= unit * q
    BY <1>3, Multiples
  <2> QED BY <1>1, <1>2, <2>1
<1>4. CASE q < p
  <2>1. unit * q + unit <= unit * p
    BY <1>4, Multiples
  <2> QED BY <1>1, <1>2, <2>1
<1> QED BY <1>3, <1>4

----------------------------------------------------------------------------
(* Requests and their scenarios.                                             *)

LEMMA WindowFields ==
    ASSUME NEW role, NEW start, NEW end
    PROVE  /\ Window(role, start, end).role = role
           /\ Window(role, start, end).start = start /\ Window(role, start, end).end = end
  BY DEF Window

(* A date is a whole number of minutes.                                      *)
LEMMA DatesAre ==
    ASSUME NEW day \in Nat
    PROVE  At(day) \in Nat /\ At(day) % Minute = 0
<1>1. Minute \in Nat /\ Minute > 0 /\ DayUnits \in Nat /\ DayUnits % Minute = 0
  BY CampaignUnits
<1>2. PICK q \in Nat, x \in 0 .. Minute - 1 :
        /\ DayUnits \div Minute = q /\ DayUnits % Minute = x
        /\ DayUnits = Minute * q + x /\ Minute * q \in Int
  BY <1>1, DivMod
<1>3. DayUnits = Minute * q
  BY <1>1, <1>2
<1>4. day * (Minute * q) = Minute * (day * q) /\ day * q \in Nat /\ day * (Minute * q) \in Nat
  BY <1>1
<1>5. PICK n \in Nat, k \in Nat : n = day * DayUnits /\ k = day * q
  BY <1>3, <1>4
<1>6. n = Minute * k
  BY <1>3, <1>4, <1>5
<1>7. n % Minute = 0
  BY <1>1, <1>6, MultipleLeavesNothing
<1> QED BY <1>5, <1>7 DEF At

LEMMA WindowsAre ==
    ASSUME NEW w \in DevelopmentWindows
    PROVE  w.start \in Nat /\ w.end \in Nat /\ w.role \in {"research", "selection", "robustness"}
<1>1. At(0) \in Nat /\ At(ResearchEnd) \in Nat /\ At(SelectionEnd) \in Nat /\ At(RobustnessEnd) \in Nat
  BY DatesAreDays, DatesAre
<1> QED BY <1>1, WindowFields DEF DevelopmentWindows, Research

LEMMA AskFields ==
    ASSUME NEW kind, NEW w, NEW p, NEW from, NEW to, NEW setup, NEW r, r = Ask(kind, Bounds(w, p, from, to), setup)
    PROVE  r.kind = kind /\ r.window = w /\ r.purpose = p /\ r.from = from /\ r.to = to /\ r.setup = setup
  BY DEF Ask, Bounds

LEMMA RequestKinds ==
    ASSUME NEW r \in Requests
    PROVE  /\ r.kind \in Kinds /\ r.window \in DevelopmentWindows /\ r.from \in Nat /\ r.to \in Nat
           /\ r.setup \in Setups \/ r.setup = Cheaper(DefaultSetup)
           /\ r.kind # "direct" => r.setup \in Setups /\ r = FixedRequest(r.kind, r.setup)
<1>1. At(ScreenStart) \in Nat /\ At(ScreenEnd) \in Nat /\ Research \in DevelopmentWindows
  BY DatesAreDays, DatesAre DEF DevelopmentWindows
<1>2. \A d \in Dates : At(d) \in Nat
  BY DatesAreDays, DatesAre
<1>3. DefaultSetup \in Setups
  BY SetupsAreTyped DEF DefaultSetup, Setups
<1>4. CASE \E k \in Kinds, setup \in Setups : r = FixedRequest(k, setup)
  <2>1. PICK k \in Kinds, setup \in Setups : r = FixedRequest(k, setup)
    BY <1>4
  <2>2. r.kind = k /\ r.window = Research /\ r.from = At(ScreenStart) /\ r.to = At(ScreenEnd) /\ r.setup = setup
    BY <2>1, AskFields DEF FixedRequest, Fixed
  <2> QED BY <1>1, <2>1, <2>2
<1>5. CASE r = FixedRequest("direct", Cheaper(DefaultSetup))
  <2>1. /\ r.kind = "direct" /\ r.window = Research /\ r.from = At(ScreenStart) /\ r.to = At(ScreenEnd)
        /\ r.setup = Cheaper(DefaultSetup)
    BY <1>5, AskFields DEF FixedRequest, Fixed
  <2> QED BY <1>1, <2>1 DEF Kinds
<1>6. CASE \E w \in DevelopmentWindows, p \in Purposes, from \in Dates, to \in Dates :
             r = Ask("direct", Bounds(w, p, At(from), At(to)), DefaultSetup)
  <2>1. PICK w \in DevelopmentWindows, p \in Purposes, from \in Dates, to \in Dates :
             r = Ask("direct", Bounds(w, p, At(from), At(to)), DefaultSetup)
    BY <1>6
  <2>2. r.kind = "direct" /\ r.window = w /\ r.from = At(from) /\ r.to = At(to) /\ r.setup = DefaultSetup
    BY <2>1, AskFields
  <2> QED BY <1>2, <1>3, <2>2 DEF Kinds
<1> QED BY <1>4, <1>5, <1>6 DEF Requests

(* A scenario that was let through is the one the factory makes.             *)
LEMMA SetupTypes ==
    ASSUME NEW r \in Requests
    PROVE  /\ r.setup.market \in Markets /\ r.setup.candidate \in Candidates
<1>1. \A setup \in Setups : setup.market \in Markets /\ setup.candidate \in Candidates
  BY DEF Setups, Setup
<1>2. DefaultSetup.market \in Markets /\ DefaultSetup.candidate \in Candidates
  BY SetupsAreTyped DEF DefaultSetup, Setup
<1>3. /\ Cheaper(DefaultSetup).market = DefaultSetup.market
      /\ Cheaper(DefaultSetup).candidate = DefaultSetup.candidate
  BY DEF Cheaper, DefaultSetup, Setup
<1> QED BY <1>1, <1>2, <1>3, RequestKinds

LEMMA SetupPairs ==
    ASSUME NEW r \in Requests, SetupHolds(r)
    PROVE  PairHolds(r.setup.pair, r.setup.market, r.setup.candidate, Registered(r.kind), Minute)
<1>1. r.kind \in Kinds
  BY RequestKinds
<1>2. CASE r.kind \in {"direct", "development"}
  <2>1. DevelopmentScenarios(r.setup.pair, r.setup.market, r.setup.candidate, Registered(r.kind), Minute)
    BY <1>2 DEF SetupHolds
  <2> QED BY <2>1 DEF DevelopmentScenarios
<1>3. CASE r.kind = "orderflow"
  <2>1. OrderFlowScenarios(r.setup.pair, r.setup.market, r.setup.candidate, Registered(r.kind), Minute)
    BY <1>3 DEF SetupHolds
  <2> QED BY <2>1 DEF OrderFlowScenarios
<1>4. CASE r.kind = "regime_retest"
  <2>1. RetestScenarios(r.setup.pair, r.setup.market, r.setup.candidate, Registered(r.kind), Minute)
    BY <1>4 DEF SetupHolds
  <2> QED BY <2>1 DEF RetestScenarios
<1> QED BY <1>1, <1>2, <1>3, <1>4 DEF Kinds

LEMMA ScenarioFields ==
    ASSUME NEW x, NEW candidate, NEW s, s = Scenario(x, candidate)
    PROVE  /\ s.execution = x /\ s.horizon = LiquidationHorizon(candidate) /\ s.grace = candidate.grace
           /\ s.costs = Costs(x, s.horizon)
  BY DEF Scenario

LEMMA ScenarioIs ==
    ASSUME NEW r \in Requests, SetupHolds(r), NEW scenario \in Scenarios, NEW s,
           s = r.setup.pair[scenario]
    PROVE  /\ ScenarioHolds(s, Minute) /\ ExecutionType(s.execution)
           /\ s.horizon = LiquidationHorizon(r.setup.candidate) /\ s.grace = r.setup.candidate.grace
           /\ s.execution.latency <= Latency
<1> DEFINE m == r.setup.market
           c == r.setup.candidate
<1>1. PairHolds(r.setup.pair, m, c, Registered(r.kind), Minute)
  BY SetupPairs
<1>2. m \in Markets /\ c \in Candidates
  BY SetupTypes
<1>3. ExecutionType(m.baseline) /\ ExecutionType(m.stress)
  BY <1>2, SetupsAreTyped
<1> HIDE DEF m, c
<1>4. PICK pair : pair = r.setup.pair
  OBVIOUS
<1>5. /\ pair = [baseline |-> Scenario(m.baseline, c), stress |-> Scenario(m.stress, c)]
      /\ ScenarioHolds(pair.baseline, Minute) /\ ScenarioHolds(pair.stress, Minute)
      /\ pair.baseline.execution.latency <= Registered(r.kind).latency
      /\ pair.stress.execution.latency <= Registered(r.kind).latency
  BY <1>1, <1>4 DEF PairHolds
<1>6. Registered(r.kind).latency = Latency
  BY DEF Registered
<1>7. CASE scenario = "baseline"
  <2>1. s = pair.baseline /\ s = Scenario(m.baseline, c)
    BY <1>4, <1>5, <1>7
  <2>2. s.execution = m.baseline /\ s.horizon = LiquidationHorizon(c) /\ s.grace = c.grace
    BY <2>1, ScenarioFields
  <2> QED BY <1>3, <1>5, <1>6, <2>1, <2>2 DEF c
<1>8. CASE scenario = "stress"
  <2>1. s = pair.stress /\ s = Scenario(m.stress, c)
    BY <1>4, <1>5, <1>8
  <2>2. s.execution = m.stress /\ s.horizon = LiquidationHorizon(c) /\ s.grace = c.grace
    BY <2>1, ScenarioFields
  <2> QED BY <1>3, <1>5, <1>6, <2>1, <2>2 DEF c
<1> QED BY <1>7, <1>8 DEF Scenarios

(* What the costs of such a scenario rest on.                                *)
LEMMA ScenarioNumbers ==
    ASSUME NEW s, ScenarioHolds(s, Minute), ExecutionType(s.execution), NEW c \in Candidates,
           s.horizon = LiquidationHorizon(c)
    PROVE  /\ s.horizon \in Nat /\ s.horizon > 0 /\ c.holding \in Nat /\ c.grace \in Nat
           /\ s.execution.latency \in Nat /\ s.execution.interval \in Nat /\ s.execution.interval > 0
           /\ s.execution.interval % Minute = 0 /\ s.execution.rate \in Nat
           /\ {s.execution.spread, s.execution.slippage, s.execution.jitter, s.execution.fee} \subseteq Nat
           /\ s.costs = Costs(s.execution, s.horizon)
           /\ s.execution.evidence \in {"unavailable", "assumed"}
<1> DEFINE x == s.execution
<1>1. /\ x.latency \in Int /\ x.spread \in Int /\ x.slippage \in Int /\ x.jitter \in Int /\ x.fee \in Int
      /\ x.rate \in Int /\ x.interval \in Int /\ x.interval % Minute = 0
  BY DEF ExecutionType
<1>2. ExecutionHolds(x) /\ x.evidence \in {"unavailable", "assumed"} /\ s.horizon > 0
      /\ s.costs = Costs(x, s.horizon)
  BY DEF ScenarioHolds
<1>3. /\ x.interval > 0 /\ x.latency >= 0 /\ x.spread >= 0 /\ x.slippage >= 0 /\ x.jitter >= 0
      /\ x.fee >= 0 /\ x.rate >= 0
  BY <1>2 DEF ExecutionHolds
<1>4. c.holding \in Nat /\ c.grace \in Nat /\ s.horizon = c.holding + c.grace
  BY SetupsAreTyped DEF LiquidationHorizon
<1> HIDE DEF x
<1>5. s.horizon \in Nat
  BY <1>4
<1>6. /\ x.interval \in Nat /\ x.latency \in Nat /\ x.spread \in Nat /\ x.slippage \in Nat
      /\ x.jitter \in Nat /\ x.fee \in Nat /\ x.rate \in Nat
  BY <1>1, <1>3
<1> QED BY <1>1, <1>2, <1>3, <1>4, <1>5, <1>6 DEF x

----------------------------------------------------------------------------
(* Sums over finite sets.                                                    *)

AnyOf(T) == CHOOSE x \in T : TRUE
AddedUp(f, g, T) == IF T = {} THEN 0 ELSE f[AnyOf(T)] + g[T \ {AnyOf(T)}]
Adds(f, g, D) == g = [T \in D |-> AddedUp(f, g, T)]
SmallSets(S, n) == {T \in SUBSET S : Cardinality(T) <= n}

LEMMA SmallerSets ==
    ASSUME NEW S, IsFiniteSet(S), NEW T \in SUBSET S, T # {}
    PROVE  /\ AnyOf(T) \in T /\ T \ {AnyOf(T)} \in SUBSET S
           /\ Cardinality(T) \in Nat /\ Cardinality(T \ {AnyOf(T)}) \in Nat
           /\ Cardinality(T \ {AnyOf(T)}) = Cardinality(T) - 1
<1>1. IsFiniteSet(T)
  BY FS_Subset
<1>2. AnyOf(T) \in T
  BY DEF AnyOf
<1>3. IsFiniteSet(T \ {AnyOf(T)}) /\ Cardinality(T \ {AnyOf(T)}) = Cardinality(T) - 1
  BY <1>1, <1>2, FS_RemoveElement
<1> QED BY <1>1, <1>2, <1>3, FS_CardinalityType

LEMMA SumsOfSmallSets ==
    ASSUME NEW S, IsFiniteSet(S), NEW f, NEW n \in Nat
    PROVE  \E g : Adds(f, g, SmallSets(S, n))
<1> DEFINE Wrong == {m \in Nat : ~ \E g : Adds(f, g, SmallSets(S, m))}
<1> SUFFICES ASSUME Wrong # {} PROVE FALSE
  OBVIOUS
<1>1. PICK m \in Wrong : \A k \in Wrong : m <= k
  <2>1. Wrong \in SUBSET Nat
    OBVIOUS
  <2> HIDE DEF Wrong
  <2> QED BY <2>1, LeastOf
<1>2. m \in Nat /\ ~ \E g : Adds(f, g, SmallSets(S, m))
  BY <1>1
<1>3. CASE m = 0
  <2> DEFINE g == [T \in SmallSets(S, 0) |-> 0]
  <2>1. ASSUME NEW T \in SmallSets(S, 0) PROVE T = {}
    <3>1. T \in SUBSET S /\ Cardinality(T) <= 0
      BY DEF SmallSets
    <3>2. IsFiniteSet(T) /\ Cardinality(T) \in Nat
      BY <3>1, FS_Subset, FS_CardinalityType
    <3> QED BY <3>1, <3>2, FS_EmptySet
  <2>2. Adds(f, g, SmallSets(S, 0))
    <3>1. \A T \in SmallSets(S, 0) : AddedUp(f, g, T) = 0
      BY <2>1 DEF AddedUp
    <3> HIDE DEF SmallSets, AddedUp
    <3> QED BY <3>1 DEF Adds
  <2> QED BY <1>2, <1>3, <2>2
<1>4. CASE m # 0
  <2>1. m - 1 \in Nat /\ m - 1 \notin Wrong
    BY <1>1, <1>2, <1>4
  <2>2. PICK h : Adds(f, h, SmallSets(S, m - 1))
    BY <2>1
  <2> DEFINE g == [T \in SmallSets(S, m) |-> AddedUp(f, h, T)]
  <2>3. ASSUME NEW T \in SmallSets(S, m) PROVE AddedUp(f, h, T) = AddedUp(f, g, T)
    <3>1. CASE T = {}
      BY <3>1 DEF AddedUp
    <3>2. CASE T # {}
      <4>1. T \in SUBSET S /\ Cardinality(T) <= m
        BY DEF SmallSets
      <4>2. PICK U \in SUBSET S : U = T \ {AnyOf(T)}
        BY <3>2, <4>1, SmallerSets
      <4>3. Cardinality(U) \in Nat /\ Cardinality(T) \in Nat /\ Cardinality(U) = Cardinality(T) - 1
        BY <3>2, <4>1, <4>2, SmallerSets
      <4>4. U \in SmallSets(S, m - 1) /\ U \in SmallSets(S, m)
        BY <1>2, <4>1, <4>3 DEF SmallSets
      <4>5. h[U] = AddedUp(f, h, U)
        BY <2>2, <4>4 DEF Adds
      <4>6. g[U] = AddedUp(f, h, U)
        BY <4>4
      <4> QED BY <4>2, <4>5, <4>6 DEF AddedUp
    <3> QED BY <3>1, <3>2
  <2>4. Adds(f, g, SmallSets(S, m))
    BY <2>3 DEF Adds
  <2> QED BY <1>2, <2>4
<1> QED BY <1>3, <1>4

LEMMA SumIsInt ==
    ASSUME NEW S, IsFiniteSet(S), NEW f \in [S -> Int]
    PROVE  SumFunction(f) \in Int
<1>1. PICK n \in Nat : n = Cardinality(S)
  BY FS_CardinalityType
<1>2. SmallSets(S, n) = SUBSET S
  <2>1. ASSUME NEW T \in SUBSET S PROVE Cardinality(T) <= n
    BY <1>1, FS_Subset
  <2> QED BY <2>1 DEF SmallSets
<1>3. PICK g : Adds(f, g, SUBSET S)
  <2>1. \E g : Adds(f, g, SmallSets(S, n))
    BY SumsOfSmallSets
  <2> QED BY <1>2, <2>1
<1> DEFINE sum == CHOOSE h : h = [T \in SUBSET S |-> IF T = {} THEN 0
                                  ELSE LET x == CHOOSE y \in T : TRUE IN f[x] + h[T \ {x}]]
<1>4. sum = [T \in SUBSET S |-> IF T = {} THEN 0
                                  ELSE LET x == CHOOSE y \in T : TRUE IN f[x] + sum[T \ {x}]]
  <2>1. g = [T \in SUBSET S |-> IF T = {} THEN 0
                                  ELSE LET x == CHOOSE y \in T : TRUE IN f[x] + g[T \ {x}]]
    BY <1>3 DEF Adds, AddedUp, AnyOf
  <2> QED BY <2>1
<1>5. SumFunction(f) = sum[S]
  <2>1. DOMAIN f = S
    OBVIOUS
  <2>2. SumFunction(f) = sum[DOMAIN f]
    BY <2>1 DEF SumFunction, SumFunctionOnSet, FoldFunctionOnSet, MapThenFoldSet
  <2> HIDE DEF sum
  <2> QED BY <2>1, <2>2
<1>6. \A T \in SUBSET S : sum[T] = AddedUp(f, sum, T)
  <2> HIDE DEF sum
  <2> QED BY <1>4 DEF AddedUp, AnyOf
<1> HIDE DEF sum
<1>7. ASSUME NEW T \in SUBSET S, sum[T] \notin Int PROVE FALSE
  <2> DEFINE Wrong == {k \in Nat : \E U \in SUBSET S : sum[U] \notin Int /\ Cardinality(U) = k}
  <2>1. Cardinality(T) \in Wrong
    BY <1>7, FS_Subset, FS_CardinalityType
  <2>2. PICK m \in Wrong : \A k \in Wrong : m <= k
    <3>1. Wrong \in SUBSET Nat /\ Wrong # {}
      BY <2>1
    <3> HIDE DEF Wrong
    <3> QED BY <3>1, LeastOf
  <2>3. PICK U \in SUBSET S : sum[U] \notin Int /\ Cardinality(U) = m
    BY <2>2
  <2>4. U # {} /\ sum[U] = f[AnyOf(U)] + sum[U \ {AnyOf(U)}]
    <3>1. sum[U] = AddedUp(f, sum, U)
      BY <1>6
    <3> QED BY <2>3, <3>1 DEF AddedUp
  <2>5. PICK V \in SUBSET S : V = U \ {AnyOf(U)}
    BY <2>4, SmallerSets
  <2>6. AnyOf(U) \in S /\ Cardinality(V) \in Nat /\ Cardinality(V) = m - 1 /\ m \in Nat
    BY <2>3, <2>4, <2>5, SmallerSets
  <2>7. Cardinality(V) \notin Wrong
    BY <2>2, <2>6
  <2>8. sum[V] \in Int
    BY <2>6, <2>7
  <2> QED BY <2>3, <2>4, <2>5, <2>6, <2>8
<1> QED BY <1>5, <1>7

----------------------------------------------------------------------------
(* Parts of a list: some of its elements, each at most once.                 *)

DrawnBy(at, part, list) ==
  /\ at \in [1 .. Len(part) -> 1 .. Len(list)]
  /\ \A i, j \in 1 .. Len(part) : at[i] = at[j] => i = j
  /\ \A k \in 1 .. Len(part) : part[k] = list[at[k]]
Drawn(part, list) == \E at : DrawnBy(at, part, list)

LEMMA DrawnTwice ==
    ASSUME NEW c, NEW b, NEW a, Drawn(c, b), Drawn(b, a)
    PROVE  Drawn(c, a)
<1>1. PICK g : DrawnBy(g, c, b)
  BY DEF Drawn
<1>2. PICK f : DrawnBy(f, b, a)
  BY DEF Drawn
<1> DEFINE h == [k \in 1 .. Len(c) |-> f[g[k]]]
<1>3. \A k \in 1 .. Len(c) : g[k] \in 1 .. Len(b) /\ c[k] = b[g[k]]
  BY <1>1 DEF DrawnBy
<1>4. \A k \in 1 .. Len(b) : f[k] \in 1 .. Len(a) /\ b[k] = a[f[k]]
  BY <1>2 DEF DrawnBy
<1>5. h \in [1 .. Len(c) -> 1 .. Len(a)]
  BY <1>3, <1>4
<1>6. ASSUME NEW i \in 1 .. Len(c), NEW j \in 1 .. Len(c), h[i] = h[j] PROVE i = j
  <2>1. f[g[i]] = f[g[j]]
    BY <1>6
  <2>2. g[i] = g[j]
    BY <1>2, <1>3, <2>1 DEF DrawnBy
  <2> QED BY <1>1, <2>2 DEF DrawnBy
<1>7. \A k \in 1 .. Len(c) : c[k] = a[h[k]]
  BY <1>3, <1>4
<1>8. DrawnBy(h, c, a)
  <2> HIDE DEF h
  <2> QED BY <1>5, <1>6, <1>7 DEF DrawnBy
<1> QED BY <1>8 DEF Drawn

LEMMA DrawnDistinct ==
    ASSUME NEW a \in Seq(IntentType), NEW b \in Seq(IntentType), Drawn(b, a), Distinct(a)
    PROVE  Distinct(b)
<1>1. PICK f : DrawnBy(f, b, a)
  BY DEF Drawn
<1>2. \A k \in 1 .. Len(b) : f[k] \in 1 .. Len(a) /\ b[k] = a[f[k]]
  BY <1>1 DEF DrawnBy
<1>3. DOMAIN a = 1 .. Len(a) /\ DOMAIN b = 1 .. Len(b)
  OBVIOUS
<1>4. ASSUME NEW m \in 1 .. Len(b), NEW n \in 1 .. Len(b), b[m] = b[n] PROVE m = n
  <2>1. a[f[m]] = a[f[n]]
    BY <1>2, <1>4
  <2>2. f[m] = f[n]
    BY <1>2, <1>3, <2>1 DEF Distinct
  <2> QED BY <1>1, <2>2 DEF DrawnBy
<1> QED BY <1>3, <1>4 DEF Distinct

LEMMA FilteredDrawn ==
    ASSUME NEW list \in Seq(IntentType), NEW places \in SUBSET (1 .. Len(list))
    PROVE  /\ Drawn(Filtered(list, places), list)
           /\ \A k \in 1 .. Len(Filtered(list, places)) :
                \E n \in places : Filtered(list, places)[k] = list[n]
<1> DEFINE at == Ascent(places)
           part == Filtered(list, places)
<1>1. /\ RunsThrough(at, places) /\ Len(part) = Cardinality(places)
      /\ \A k \in 1 .. Cardinality(places) : part[k] = list[at[k]]
  BY FilteredIs
<1> HIDE DEF at, part
<1>2. \A k \in 1 .. Len(part) : at[k] \in places /\ part[k] = list[at[k]]
  BY <1>1 DEF RunsThrough
<1>3. at \in [1 .. Len(part) -> 1 .. Len(list)]
  BY <1>1 DEF RunsThrough
<1>4. \A i, j \in 1 .. Len(part) : at[i] = at[j] => i = j
  BY <1>1 DEF RunsThrough
<1>5. DrawnBy(at, part, list)
  BY <1>2, <1>3, <1>4 DEF DrawnBy
<1>6. Drawn(part, list)
  BY <1>5 DEF Drawn
<1> QED BY <1>2, <1>6 DEF part

LEMMA SortedDrawn ==
    ASSUME NEW list \in Seq(IntentType), NEW field \in Fields
    PROVE  Drawn(Sorted(list, field), list)
<1> DEFINE at == ByField(list, field)
           part == Sorted(list, field)
<1>1. /\ RunsThrough(at, 1 .. Len(list)) /\ Cardinality(1 .. Len(list)) = Len(list) /\ Len(part) = Len(list)
      /\ \A k \in 1 .. Len(list) : part[k] = list[at[k]]
  BY SortedIs
<1> HIDE DEF at, part
<1>2. at \in [1 .. Len(part) -> 1 .. Len(list)]
  BY <1>1 DEF RunsThrough
<1>3. \A i, j \in 1 .. Len(part) : at[i] = at[j] => i = j
  BY <1>1 DEF RunsThrough
<1>4. \A k \in 1 .. Len(part) : part[k] = list[at[k]]
  BY <1>1
<1>5. DrawnBy(at, part, list)
  BY <1>2, <1>3, <1>4 DEF DrawnBy
<1> QED BY <1>5 DEF Drawn, part

(* Whatever holds of the elements of a list holds of those of its parts.     *)
LEMMA DrawnFrom ==
    ASSUME NEW a \in Seq(IntentType), NEW b \in Seq(IntentType), Drawn(b, a), NEW k \in 1 .. Len(b)
    PROVE  \E n \in 1 .. Len(a) : b[k] = a[n]
BY DEF Drawn, DrawnBy

(* Cutting a list in three by where its elements lie.                        *)
LEMMA ThreeParts ==
    ASSUME NEW n \in Nat, NEW A, NEW B, NEW C, A \cup B \cup C = 1 .. n,
           A \cap B = {}, (A \cup B) \cap C = {}
    PROVE  n = Cardinality(A) + Cardinality(B) + Cardinality(C)
<1>1. IsFiniteSet(1 .. n) /\ Cardinality(1 .. n) = n
  BY FS_Interval
<1>2. IsFiniteSet(A) /\ IsFiniteSet(B) /\ IsFiniteSet(C) /\ IsFiniteSet(A \cup B)
  BY <1>1, FS_Subset
<1>3. Cardinality(A) \in Nat /\ Cardinality(B) \in Nat /\ Cardinality(C) \in Nat /\ Cardinality({}) = 0
  BY <1>2, FS_CardinalityType, FS_EmptySet
<1>4. Cardinality(A \cup B) = Cardinality(A) + Cardinality(B) - Cardinality(A \cap B)
  BY <1>2, FS_Union
<1>5. Cardinality((A \cup B) \cup C) = Cardinality(A \cup B) + Cardinality(C) - Cardinality((A \cup B) \cap C)
  BY <1>2, FS_Union
<1>6. Cardinality(A \cup B) = Cardinality(A) + Cardinality(B)
  BY <1>3, <1>4
<1>7. Cardinality(1 .. n) = Cardinality(A \cup B) + Cardinality(C)
  <2>1. Cardinality((A \cup B) \cap C) = 0 /\ 1 .. n = (A \cup B) \cup C
    BY <1>3
  <2>2. Cardinality(A \cup B) \in Nat
    BY <1>3, <1>6
  <2>3. PICK D : D = A \cup B
    OBVIOUS
  <2>4. Cardinality(D \cup C) = Cardinality(D) + Cardinality(C) - Cardinality(D \cap C)
    BY <1>5, <2>3
  <2>5. Cardinality(D \cap C) = 0 /\ Cardinality(D) \in Nat /\ 1 .. n = D \cup C
    BY <2>1, <2>2, <2>3
  <2>6. Cardinality(D \cup C) = Cardinality(D) + Cardinality(C)
    BY <1>3, <2>4, <2>5
  <2>7. Cardinality(1 .. n) = Cardinality(D \cup C)
    BY <2>5
  <2> QED BY <2>3, <2>6, <2>7
<1> QED BY <1>1, <1>3, <1>6, <1>7

----------------------------------------------------------------------------
(* The horizon of the embargo, and the moments at which intents are decided. *)

LEMMA HorizonIs ==
    \E p \in Nat : /\ OperationalHorizon = Minute * p /\ Minute * p \in Nat
                   /\ Holding + Minute + Latency <= Minute * p
<1>1. Minute \in Nat /\ Minute > 0 /\ Holding \in Nat /\ Latency \in Nat
  BY CampaignUnits
<1>2. Registered("regime_retest").holding = Holding /\ Registered("regime_retest").latency = Latency
      /\ Registered("regime_retest").label = Holding + Minute
  BY DEF Registered
<1>3. PICK t \in Nat : t = Holding + Minute + Latency
  BY <1>1
<1>4. PurgeOf(Holding, Holding + Minute, Latency) = t
  BY <1>1, <1>3 DEF PurgeOf
<1>5. OperationalHorizon = RoundUp(t, Minute)
  BY <1>2, <1>4 DEF OperationalHorizon, Purge
<1>6. \E q \in Nat : /\ RoundUp(t, Minute) = Minute * q /\ Minute * q \in Nat
                     /\ t <= Minute * q /\ Minute * q < t + Minute
  BY <1>1, RoundUpIs
<1> QED BY <1>3, <1>5, <1>6

LEMMA CutoffIs ==
    ASSUME NEW r \in Requests
    PROVE  /\ Cutoff(r) \in Int /\ Cutoff(r) <= r.to
           /\ BoundsHold(r) => r.from <= Cutoff(r)
           /\ r.kind # "regime_retest" => Cutoff(r) = r.to
<1>1. OperationalHorizon \in Nat
  BY HorizonIs
<1>2. r.from \in Nat /\ r.to \in Nat
  BY RequestKinds
<1>3. 2 * DayUnits \in Nat /\ OperationalHorizon <= 2 * DayUnits
  BY CampaignUnits, HorizonIsShort
<1>4. Cutoff(r) = r.to - OperationalHorizon \/ Cutoff(r) = r.to
  BY DEF Cutoff
<1>5. BoundsHold(r) => r.to - r.from >= 2 * DayUnits
  BY DEF BoundsHold
<1>6. PICK d \in Nat, h \in Nat : d = 2 * DayUnits /\ h = OperationalHorizon
  BY <1>1, <1>3
<1>7. BoundsHold(r) => r.from <= Cutoff(r)
  BY <1>2, <1>3, <1>4, <1>5, <1>6
<1>8. Cutoff(r) \in Int /\ Cutoff(r) <= r.to
  BY <1>1, <1>2, <1>4
<1>9. r.kind # "regime_retest" => Cutoff(r) = r.to
  BY DEF Cutoff
<1> QED BY <1>7, <1>8, <1>9

----------------------------------------------------------------------------
(* Partitions.                                                               *)

LEMMA DecisionType ==
    ASSUME NEW list \in Seq(IntentType), NEW n \in 1 .. Len(list)
    PROVE  list[n].decision \in Int /\ list[n].eligible \in Int
<1>1. list[n] \in IntentType
  OBVIOUS
<1> QED BY <1>1 DEF IntentType

BeforeAt(list, t) == {n \in 1 .. Len(list) : list[n].decision < t}
WithinAt(list, s, t) == {n \in 1 .. Len(list) : s <= list[n].decision /\ list[n].decision < t}

LEMMA BeforeIs ==
    ASSUME NEW list \in Seq(IntentType), NEW t
    PROVE  /\ Before(list, t) = Filtered(list, BeforeAt(list, t))
           /\ Before(list, t) \in Seq(IntentType)
           /\ Len(Before(list, t)) = Cardinality(BeforeAt(list, t))
<1>1. Before(list, t) = Filtered(list, BeforeAt(list, t))
  <2>1. DOMAIN list = 1 .. Len(list)
    OBVIOUS
  <2> QED BY <2>1 DEF Before, BeforeAt
<1>2. BeforeAt(list, t) \in SUBSET (1 .. Len(list))
  BY DEF BeforeAt
<1> QED BY <1>1, <1>2, FilteredIs

LEMMA WithinIs ==
    ASSUME NEW list \in Seq(IntentType), NEW s, NEW t
    PROVE  /\ Within(list, s, t) = Filtered(list, WithinAt(list, s, t))
           /\ Within(list, s, t) \in Seq(IntentType)
           /\ Len(Within(list, s, t)) = Cardinality(WithinAt(list, s, t))
           /\ Drawn(Within(list, s, t), list)
           /\ \A k \in 1 .. Len(Within(list, s, t)) :
                s <= Within(list, s, t)[k].decision /\ Within(list, s, t)[k].decision < t
<1>1. Within(list, s, t) = Filtered(list, WithinAt(list, s, t))
  <2>1. DOMAIN list = 1 .. Len(list)
    OBVIOUS
  <2> QED BY <2>1 DEF Within, WithinAt
<1>2. WithinAt(list, s, t) \in SUBSET (1 .. Len(list))
  BY DEF WithinAt
<1>3. /\ Drawn(Within(list, s, t), list)
      /\ \A k \in 1 .. Len(Within(list, s, t)) :
           \E n \in WithinAt(list, s, t) : Within(list, s, t)[k] = list[n]
  <2>1. PICK places \in SUBSET (1 .. Len(list)) : places = WithinAt(list, s, t)
    BY <1>2
  <2>2. Within(list, s, t) = Filtered(list, places)
    BY <1>1, <2>1
  <2>3. Drawn(Filtered(list, places), list)
    BY FilteredDrawn
  <2>4. \A k \in 1 .. Len(Filtered(list, places)) : \E n \in places : Filtered(list, places)[k] = list[n]
    BY FilteredDrawn
  <2> QED BY <2>1, <2>2, <2>3, <2>4
<1>4. Within(list, s, t) \in Seq(IntentType) /\ Len(Within(list, s, t)) = Cardinality(WithinAt(list, s, t))
  BY <1>1, <1>2, FilteredIs
<1> HIDE DEF Within
<1>5. ASSUME NEW k \in 1 .. Len(Within(list, s, t))
      PROVE  s <= Within(list, s, t)[k].decision /\ Within(list, s, t)[k].decision < t
  BY <1>3 DEF WithinAt
<1> QED BY <1>1, <1>3, <1>4, <1>5

(* What lies before, between and behind two moments is all there is.         *)
LEMMA CutsAddUp ==
    ASSUME NEW list \in Seq(IntentType), NEW s \in Int, NEW c \in Int, NEW t \in Int, s <= c, c <= t,
           \A n \in 1 .. Len(list) : list[n].decision < t
    PROVE  Len(list) = Len(Before(list, s)) + Len(Within(list, s, c)) + Len(Within(list, c, t))
<1>1. \A n \in 1 .. Len(list) : list[n].decision \in Int
  BY DecisionType
<1> DEFINE d == [n \in 1 .. Len(list) |-> list[n].decision]
           A == BeforeAt(list, s)
           B == WithinAt(list, s, c)
           C == WithinAt(list, c, t)
<1>2. A \cup B \cup C = 1 .. Len(list)
  BY <1>1 DEF BeforeAt, WithinAt
<1>3. A \cap B = {} /\ (A \cup B) \cap C = {}
  BY <1>1 DEF BeforeAt, WithinAt
<1>4. Len(list) \in Nat
  OBVIOUS
<1> HIDE DEF A, B, C
<1>5. Len(list) = Cardinality(A) + Cardinality(B) + Cardinality(C)
  BY <1>2, <1>3, <1>4, ThreeParts
<1>6. /\ Len(Before(list, s)) = Cardinality(A) /\ Len(Within(list, s, c)) = Cardinality(B)
      /\ Len(Within(list, c, t)) = Cardinality(C)
  BY BeforeIs, WithinIs DEF A, B, C
<1> QED BY <1>5, <1>6

(* A list that ascends from element to element ascends over any distance,    *)
(* and so do its parts.                                                      *)
Ascends(list, field) == \A k \in 1 .. Len(list) - 1 : list[k][field] <= list[k + 1][field]

LEMMA AscendsAfar ==
    ASSUME NEW list \in Seq(IntentType), NEW field \in Fields, Ascends(list, field),
           NEW i \in 1 .. Len(list), NEW j \in 1 .. Len(list), i <= j
    PROVE  list[i][field] <= list[j][field]
<1> DEFINE Wrong == {k \in Nat : i + k \in 1 .. Len(list) /\ ~ list[i][field] <= list[i + k][field]}
<1>1. \A n \in 1 .. Len(list) : list[n][field] \in Int
  <2>1. ASSUME NEW n \in 1 .. Len(list) PROVE list[n][field] \in Int
    <3>1. list[n] \in IntentType
      OBVIOUS
    <3> QED BY <3>1, FieldType
  <2> QED BY <2>1
<1>2. Wrong = {}
  <2> SUFFICES ASSUME Wrong # {} PROVE FALSE
    OBVIOUS
  <2>1. PICK m \in Wrong : \A k \in Wrong : m <= k
    <3>1. Wrong \in SUBSET Nat
      OBVIOUS
    <3> HIDE DEF Wrong
    <3> QED BY <3>1, LeastOf
  <2>2. m \in Nat /\ i + m \in 1 .. Len(list) /\ ~ list[i][field] <= list[i + m][field]
    BY <2>1
  <2>3. m # 0
    <3>1. i + 0 = i
      OBVIOUS
    <3> QED BY <1>1, <2>2, <3>1
  <2>4. PICK p \in Nat : p = m - 1 /\ i + p \in 1 .. Len(list) /\ p < m /\ i + p + 1 = i + m
    BY <2>2, <2>3
  <2>5. p \notin Wrong
    BY <2>1, <2>2, <2>4
  <2>6. list[i][field] <= list[i + p][field]
    BY <2>4, <2>5
  <2>7. PICK q \in 1 .. Len(list) - 1 : q = i + p /\ q + 1 = i + m
    BY <2>2, <2>4
  <2>8. list[q][field] <= list[q + 1][field]
    BY <2>7 DEF Ascends
  <2>9. /\ list[i][field] \in Int /\ list[i + p][field] \in Int /\ list[i + m][field] \in Int
        /\ list[i + p][field] <= list[i + m][field]
    BY <1>1, <2>2, <2>4, <2>7, <2>8
  <2>10. PICK x \in Int, y \in Int, z \in Int :
           x = list[i][field] /\ y = list[i + p][field] /\ z = list[i + m][field]
    BY <2>9
  <2>11. x <= y /\ y <= z /\ ~ x <= z
    BY <2>2, <2>6, <2>9, <2>10
  <2> QED BY <2>11
<1>3. j - i \in Nat /\ i + (j - i) = j /\ j - i \notin Wrong
  BY <1>2
<1> QED BY <1>3

LEMMA FilteredAscends ==
    ASSUME NEW list \in Seq(IntentType), NEW field \in Fields, Ascends(list, field),
           NEW places \in SUBSET (1 .. Len(list))
    PROVE  Ascends(Filtered(list, places), field)
<1> DEFINE at == Ascent(places)
           part == Filtered(list, places)
<1>1. RunsThrough(at, places) /\ Len(part) = Cardinality(places) /\ Cardinality(places) \in Nat
  BY FilteredIs
<1>2. \A k \in 1 .. Cardinality(places) : part[k] = list[at[k]]
  BY FilteredIs
<1>3. \A i, j \in 1 .. Cardinality(places) : i < j => at[i] < at[j]
  BY FilteredIs
<1> HIDE DEF at, part
<1>4. ASSUME NEW k \in 1 .. Len(part) - 1 PROVE part[k][field] <= part[k + 1][field]
  <2>1. k \in 1 .. Cardinality(places) /\ k + 1 \in 1 .. Cardinality(places) /\ k < k + 1
    BY <1>1
  <2>2. at[k] \in 1 .. Len(list) /\ at[k + 1] \in 1 .. Len(list) /\ at[k] < at[k + 1]
    BY <1>1, <1>3, <2>1 DEF RunsThrough
  <2>3. PICK i \in 1 .. Len(list), j \in 1 .. Len(list) : i = at[k] /\ j = at[k + 1] /\ i <= j
    BY <2>2
  <2>4. list[i][field] <= list[j][field]
    BY <2>3, AscendsAfar
  <2> QED BY <1>2, <2>1, <2>3, <2>4
<1>5. Ascends(part, field)
  BY <1>4 DEF Ascends
<1> QED BY <1>5 DEF part

LEMMA AscendingIs ==
    ASSUME NEW list \in Seq(IntentType)
    PROVE  /\ Ascending(list, "decision") <=> Ascends(list, "decision")
           /\ Ascending(list, "eligible") <=> Ascends(list, "eligible")
<1>1. DOMAIN list = 1 .. Len(list) /\ Len(list) \in Nat
  OBVIOUS
<1>2. ASSUME NEW field, Ascends(list, field) PROVE Ascending(list, field)
  <2>1. ASSUME NEW n \in DOMAIN list \ {1} PROVE list[n - 1][field] <= list[n][field]
    <3>1. PICK k \in 1 .. Len(list) - 1 : k = n - 1 /\ k + 1 = n
      BY <1>1
    <3> QED BY <1>2, <3>1 DEF Ascends
  <2> QED BY <2>1 DEF Ascending
<1>3. ASSUME NEW field, Ascending(list, field) PROVE Ascends(list, field)
  <2>1. ASSUME NEW k \in 1 .. Len(list) - 1 PROVE list[k][field] <= list[k + 1][field]
    <3>1. PICK n \in DOMAIN list \ {1} : n = k + 1 /\ n - 1 = k
      BY <1>1
    <3> QED BY <1>3, <3>1 DEF Ascending
  <2> QED BY <2>1 DEF Ascends
<1> QED BY <1>2, <1>3

(* At the next bar's open at the latest: eligibility follows the decision.   *)
LEMMA PromptAscends ==
    ASSUME NEW list \in Seq(IntentType), Ascends(list, "decision"),
           \A k \in 1 .. Len(list) : list[k].eligible = list[k].decision + 1
    PROVE  Ascends(list, "eligible")
<1>1. ASSUME NEW k \in 1 .. Len(list) - 1 PROVE list[k].eligible <= list[k + 1].eligible
  <2>1. k \in 1 .. Len(list) /\ k + 1 \in 1 .. Len(list)
    OBVIOUS
  <2>2. list[k].decision \in Int /\ list[k + 1].decision \in Int
    BY <2>1, DecisionType
  <2>3. list[k].decision <= list[k + 1].decision
    BY DEF Ascends
  <2>4. list[k].eligible = list[k].decision + 1 /\ list[k + 1].eligible = list[k + 1].decision + 1
    BY <2>1
  <2> QED BY <2>2, <2>3, <2>4
<1> QED BY <1>1 DEF Ascends

----------------------------------------------------------------------------
(* What is evaluated of a list the campaign accepts.                         *)

PartTypes(p) ==
  p.warmup \in Seq(IntentType) /\ p.evaluated \in Seq(IntentType) /\ p.embargoed \in Seq(IntentType)

Evaluates(r, list, evaluated) ==
  /\ evaluated \in Seq(IntentType)
  /\ Drawn(evaluated, list)
  /\ \A k \in 1 .. Len(evaluated) :
       r.from <= evaluated[k].decision /\ evaluated[k].decision < Cutoff(r)
  /\ Ascends(evaluated, "eligible")

LEMMA PartFields ==
    ASSUME NEW w, NEW e, NEW b, NEW p, p = Part(w, e, b)
    PROVE  p.warmup = w /\ p.evaluated = e /\ p.embargoed = b
BY DEF Part

LEMMA AcceptedInData ==
    ASSUME NEW r \in Requests, NEW list \in Seq(IntentType), Accepted(r, list)
    PROVE  /\ InData(r, list)
           /\ \A n \in 1 .. Len(list) : list[n].decision < r.to
           /\ r.kind \in {"orderflow", "regime_retest"} =>
                \A n \in 1 .. Len(list) : OrderFlowIntent(list[n])
           /\ r.kind = "regime_retest" => Ascends(list, "decision") /\ Distinct(list)
<1>1. r.kind \in Kinds
  BY RequestKinds
<1>2. DOMAIN list = 1 .. Len(list)
  OBVIOUS
<1>3. CASE r.kind \in {"direct", "development"}
  <2>1. InData(r, list)
    BY <1>3 DEF Accepted, DevelopmentOutput
  <2> QED BY <1>2, <1>3, <2>1 DEF InData
<1>4. CASE r.kind = "orderflow"
  <2>1. InData(r, list) /\ \A n \in DOMAIN list : OrderFlowIntent(list[n])
    BY <1>4 DEF Accepted, OrderFlowOutput
  <2> QED BY <1>2, <1>4, <2>1 DEF InData
<1>5. CASE r.kind = "regime_retest"
  <2>1. /\ InData(r, list) /\ \A n \in DOMAIN list : OrderFlowIntent(list[n])
        /\ Ascending(list, "decision") /\ Distinct(list)
    BY <1>5 DEF Accepted, RetestOutput, RetestIntent
  <2>2. Ascends(list, "decision")
    BY <2>1, AscendingIs
  <2> QED BY <1>2, <1>5, <2>1, <2>2 DEF InData
<1> QED BY <1>1, <1>3, <1>4, <1>5 DEF Kinds

LEMMA DevelopmentParts ==
    ASSUME NEW r \in Requests, BoundsHold(r), NEW list \in Seq(IntentType), Accepted(r, list),
           r.kind \in {"direct", "development"}, NEW p, p = Partition(r, list)
    PROVE  PartTypes(p) /\ Accounts(p, list) /\ Evaluates(r, list, p.evaluated)
<1> DEFINE W == Within(list, r.from, r.to)
           E == Sorted(W, "eligible")
<1>1. p = Part(Before(list, r.from), E, <<>>)
  BY DEF Partition, DevelopmentPartition
<1>2. r.from \in Int /\ r.to \in Int /\ r.from <= r.to /\ Cutoff(r) = r.to
  BY RequestKinds, CutoffIs DEF BoundsHold
<1>3. W \in Seq(IntentType) /\ Drawn(W, list)
  BY WithinIs
<1>4. \A k \in 1 .. Len(W) : r.from <= W[k].decision /\ W[k].decision < r.to
  BY WithinIs
<1>5. Len(Within(list, r.to, r.to)) = 0
  <2>1. \A n \in 1 .. Len(list) : list[n].decision \in Int
    BY DecisionType
  <2>2. WithinAt(list, r.to, r.to) = {}
    BY <1>2, <2>1 DEF WithinAt
  <2>3. Len(Within(list, r.to, r.to)) = Cardinality(WithinAt(list, r.to, r.to))
    BY WithinIs
  <2>4. Cardinality({}) = 0
    BY FS_EmptySet
  <2> QED BY <2>2, <2>3, <2>4
<1>6. Len(list) = Len(Before(list, r.from)) + Len(W) + 0
  <2>1. \A n \in 1 .. Len(list) : list[n].decision < r.to
    BY AcceptedInData
  <2> QED BY <1>2, <1>5, <2>1, CutsAddUp
<1> HIDE DEF W
<1>7. E \in Seq(IntentType) /\ Len(E) = Len(W)
  BY <1>3, SortedIs DEF Fields
<1>8. Drawn(E, W)
  BY <1>3, SortedDrawn DEF Fields
<1>9. Ascends(E, "eligible")
  <2>1. \A k \in 1 .. Len(W) - 1 : E[k]["eligible"] <= E[k + 1]["eligible"]
    BY <1>3, SortedIs DEF Fields
  <2> HIDE DEF E
  <2> QED BY <1>7, <2>1 DEF Ascends
<1> HIDE DEF E
<1>10. p.warmup = Before(list, r.from) /\ p.evaluated = E /\ p.embargoed = <<>>
  BY <1>1, PartFields
<1>11. Drawn(E, list)
  BY <1>3, <1>8, DrawnTwice
<1>12. \A k \in 1 .. Len(E) : r.from <= E[k].decision /\ E[k].decision < Cutoff(r)
  <2>1. ASSUME NEW k \in 1 .. Len(E) PROVE \E n \in 1 .. Len(W) : E[k] = W[n]
    BY <1>3, <1>7, <1>8, DrawnFrom
  <2> QED BY <1>2, <1>4, <2>1
<1>13. Before(list, r.from) \in Seq(IntentType)
  BY BeforeIs
<1>14. PartTypes(p)
  <2>1. <<>> \in Seq(IntentType)
    OBVIOUS
  <2> QED BY <1>7, <1>10, <1>13, <2>1 DEF PartTypes
<1>15. Accounts(p, list)
  <2>1. Len(<<>>) = 0
    OBVIOUS
  <2> QED BY <1>6, <1>7, <1>10, <2>1 DEF Accounts
<1>16. Evaluates(r, list, E)
  BY <1>7, <1>9, <1>11, <1>12 DEF Evaluates
<1> QED BY <1>10, <1>14, <1>15, <1>16

LEMMA OrderFlowParts ==
    ASSUME NEW r \in Requests, BoundsHold(r), NEW list \in Seq(IntentType), Accepted(r, list),
           r.kind = "orderflow", NEW p, p = Partition(r, list)
    PROVE  PartTypes(p) /\ Accounts(p, list) /\ Evaluates(r, list, p.evaluated)
<1> DEFINE all == Sorted(list, "decision")
           E == Within(all, r.from, r.to)
<1>1. p = Part(Before(all, r.from), E, <<>>)
  BY DEF Partition, OrderFlowPartition
<1>2. r.from \in Int /\ r.to \in Int /\ r.from <= r.to /\ Cutoff(r) = r.to
  BY RequestKinds, CutoffIs DEF BoundsHold
<1>3. /\ all \in Seq(IntentType) /\ Len(all) = Len(list)
      /\ \A k \in 1 .. Len(list) - 1 : all[k]["decision"] <= all[k + 1]["decision"]
  BY SortedIs DEF Fields
<1>4. Drawn(all, list)
  BY SortedDrawn DEF Fields
<1> HIDE DEF all
<1>5. Ascends(all, "decision")
  BY <1>3 DEF Ascends
<1>6. \A n \in 1 .. Len(all) : all[n].decision < r.to /\ all[n].eligible = all[n].decision + 1
  <2>1. ASSUME NEW n \in 1 .. Len(all) PROVE \E m \in 1 .. Len(list) : all[n] = list[m]
    BY <1>3, <1>4, DrawnFrom
  <2>2. \A m \in 1 .. Len(list) : list[m].decision < r.to /\ OrderFlowIntent(list[m])
    BY AcceptedInData
  <2> QED BY <2>1, <2>2 DEF OrderFlowIntent
<1>7. E \in Seq(IntentType) /\ Drawn(E, all) /\ E = Filtered(all, WithinAt(all, r.from, r.to))
  BY <1>3, WithinIs
<1>8. \A k \in 1 .. Len(E) : r.from <= E[k].decision /\ E[k].decision < r.to
  BY <1>3, WithinIs
<1>9. Ascends(E, "decision")
  <2>1. WithinAt(all, r.from, r.to) \in SUBSET (1 .. Len(all))
    BY DEF WithinAt
  <2>2. PICK places \in SUBSET (1 .. Len(all)) : places = WithinAt(all, r.from, r.to)
    BY <2>1
  <2>3. Ascends(Filtered(all, places), "decision")
    BY <1>3, <1>5, FilteredAscends DEF Fields
  <2> QED BY <1>7, <2>2, <2>3
<1>10. Len(Within(all, r.to, r.to)) = 0
  <2>1. \A n \in 1 .. Len(all) : all[n].decision \in Int
    BY <1>3, DecisionType
  <2>2. WithinAt(all, r.to, r.to) = {}
    BY <1>2, <2>1 DEF WithinAt
  <2>3. Len(Within(all, r.to, r.to)) = Cardinality(WithinAt(all, r.to, r.to))
    BY <1>3, WithinIs
  <2>4. Cardinality({}) = 0
    BY FS_EmptySet
  <2> QED BY <2>2, <2>3, <2>4
<1>11. Len(all) = Len(Before(all, r.from)) + Len(E) + 0
  <2>1. \A n \in 1 .. Len(all) : all[n].decision < r.to
    BY <1>6
  <2> HIDE DEF E
  <2>2. Len(all) = Len(Before(all, r.from)) + Len(Within(all, r.from, r.to)) + Len(Within(all, r.to, r.to))
    BY <1>2, <1>3, <2>1, CutsAddUp
  <2> QED BY <1>10, <2>2 DEF E
<1>12. Before(all, r.from) \in Seq(IntentType)
  BY <1>3, BeforeIs
<1> HIDE DEF E
<1>13. \A k \in 1 .. Len(E) : E[k].eligible = E[k].decision + 1
  <2>1. ASSUME NEW k \in 1 .. Len(E) PROVE \E n \in 1 .. Len(all) : E[k] = all[n]
    BY <1>3, <1>7, DrawnFrom
  <2> QED BY <1>6, <2>1
<1>14. Ascends(E, "eligible")
  BY <1>7, <1>9, <1>13, PromptAscends
<1>15. p.warmup = Before(all, r.from) /\ p.evaluated = E /\ p.embargoed = <<>>
  BY <1>1, PartFields
<1>16. Drawn(E, list)
  BY <1>4, <1>7, DrawnTwice
<1>17. PartTypes(p)
  <2>1. <<>> \in Seq(IntentType)
    OBVIOUS
  <2> QED BY <1>7, <1>12, <1>15, <2>1 DEF PartTypes
<1>18. Accounts(p, list)
  <2>1. Len(<<>>) = 0
    OBVIOUS
  <2> QED BY <1>3, <1>11, <1>15, <2>1 DEF Accounts
<1>19. Evaluates(r, list, E)
  BY <1>2, <1>7, <1>8, <1>14, <1>16 DEF Evaluates
<1> QED BY <1>15, <1>17, <1>18, <1>19

LEMMA RetestParts ==
    ASSUME NEW r \in Requests, BoundsHold(r), NEW list \in Seq(IntentType), Accepted(r, list),
           r.kind = "regime_retest", NEW p, p = Partition(r, list)
    PROVE  PartTypes(p) /\ Accounts(p, list) /\ Evaluates(r, list, p.evaluated)
<1> DEFINE c == Cutoff(r)
           E == Within(list, r.from, c)
<1>1. p = Part(Before(list, r.from), E, Within(list, c, r.to))
  BY DEF Partition, RetestPartition
<1>2. r.from \in Int /\ c \in Int /\ r.to \in Int /\ r.from <= c /\ c <= r.to
  BY RequestKinds, CutoffIs
<1>3. /\ Ascends(list, "decision")
      /\ \A n \in 1 .. Len(list) : list[n].decision < r.to /\ OrderFlowIntent(list[n])
  BY AcceptedInData
<1>4. E \in Seq(IntentType) /\ Drawn(E, list) /\ E = Filtered(list, WithinAt(list, r.from, c))
  BY WithinIs
<1>5. \A k \in 1 .. Len(E) : r.from <= E[k].decision /\ E[k].decision < c
  BY WithinIs
<1>6. Ascends(E, "decision")
  <2>1. WithinAt(list, r.from, c) \in SUBSET (1 .. Len(list))
    BY DEF WithinAt
  <2>2. PICK places \in SUBSET (1 .. Len(list)) : places = WithinAt(list, r.from, c)
    BY <2>1
  <2>3. Ascends(Filtered(list, places), "decision")
    BY <1>3, FilteredAscends DEF Fields
  <2> QED BY <1>4, <2>2, <2>3
<1>7. Len(list) = Len(Before(list, r.from)) + Len(E) + Len(Within(list, c, r.to))
  BY <1>2, <1>3, CutsAddUp
<1>8. Before(list, r.from) \in Seq(IntentType) /\ Within(list, c, r.to) \in Seq(IntentType)
  BY BeforeIs, WithinIs
<1> HIDE DEF E, c
<1>9. \A k \in 1 .. Len(E) : E[k].eligible = E[k].decision + 1
  <2>1. ASSUME NEW k \in 1 .. Len(E) PROVE \E n \in 1 .. Len(list) : E[k] = list[n]
    BY <1>4, DrawnFrom
  <2> QED BY <1>3, <2>1 DEF OrderFlowIntent
<1>10. Ascends(E, "eligible")
  BY <1>4, <1>6, <1>9, PromptAscends
<1>11. p.warmup = Before(list, r.from) /\ p.evaluated = E /\ p.embargoed = Within(list, c, r.to)
  BY <1>1, PartFields
<1>12. PartTypes(p)
  BY <1>4, <1>8, <1>11 DEF PartTypes
<1>13. Accounts(p, list)
  BY <1>7, <1>11 DEF Accounts
<1>14. Evaluates(r, list, E)
  BY <1>4, <1>5, <1>10 DEF Evaluates, c
<1> QED BY <1>11, <1>12, <1>13, <1>14

LEMMA PartitionIs ==
    ASSUME NEW r \in Requests, BoundsHold(r), NEW list \in Seq(IntentType), Accepted(r, list),
           NEW p, p = Partition(r, list)
    PROVE  PartTypes(p) /\ Accounts(p, list) /\ Evaluates(r, list, p.evaluated)
<1>1. r.kind \in Kinds
  BY RequestKinds
<1>2. CASE r.kind \in {"direct", "development"}
  BY <1>2, DevelopmentParts
<1>3. CASE r.kind = "orderflow"
  BY <1>3, OrderFlowParts
<1>4. CASE r.kind = "regime_retest"
  BY <1>4, RetestParts
<1> QED BY <1>1, <1>2, <1>3, <1>4 DEF Kinds

----------------------------------------------------------------------------
(* The regime/retest campaign cuts its lists; laid end to end the parts are  *)
(* the list again.                                                           *)

Run(lo, hi) == lo + 1 .. hi

Stretch(part, list, lo, hi) == Len(part) = hi - lo /\ \A k \in 1 .. hi - lo : part[k] = list[lo + k]

LEMMA RunIs ==
    ASSUME NEW T, NEW list \in Seq(T), NEW lo \in Nat, NEW hi \in Nat, lo <= hi, hi <= Len(list)
    PROVE  Stretch(Filtered(list, Run(lo, hi)), list, lo, hi)
<1>1. Run(lo, hi) \in SUBSET (1 .. Len(list)) /\ Run(lo, hi) \in SUBSET Int
  BY DEF Run
<1>2. PICK S \in SUBSET (1 .. Len(list)) : S = Run(lo, hi) /\ S \in SUBSET Int
  BY <1>1
<1>3. IsFiniteSet(S) /\ Cardinality(S) = hi - lo
  <2>1. IsFiniteSet(lo + 1 .. hi) /\ Cardinality(lo + 1 .. hi) = IF lo + 1 > hi THEN 0 ELSE hi - (lo + 1) + 1
    BY FS_Interval
  <2> QED BY <1>2, <2>1 DEF Run
<1>4. StrictOrder(S, Earlier(S))
  BY <1>2, EarlierIsStrict
<1>5. Len(Filtered(list, S)) = Cardinality(S)
  BY FilteredIs
<1>6. \A k \in 1 .. Cardinality(S) : Filtered(list, S)[k] = list[Ascent(S)[k]]
  BY FilteredIs
<1>7. ASSUME NEW k \in 1 .. hi - lo PROVE Ascent(S)[k] = lo + k
  <2>1. PICK n \in S : n = lo + k
    BY <1>2 DEF Run
  <2>2. Place(S, Earlier(S), n) = k - 1
    <3>1. Preceding(S, Earlier(S), n) = lo + 1 .. lo + k - 1
      BY <1>2, <2>1 DEF Preceding, Earlier, PairsOf, Run
    <3>2. Cardinality(lo + 1 .. lo + k - 1) =
            IF lo + 1 > lo + k - 1 THEN 0 ELSE lo + k - 1 - (lo + 1) + 1
      <4>1. lo + 1 \in Int /\ lo + k - 1 \in Int
        OBVIOUS
      <4> QED BY <4>1, FS_Interval
    <3> QED BY <3>1, <3>2 DEF Place
  <2>3. k \in 1 .. Cardinality(S)
    BY <1>3
  <2>4. Ascent(S)[k] \in S /\ Place(S, Earlier(S), Ascent(S)[k]) = k - 1
    BY <1>3, <1>4, <2>3, InOrderAt DEF Ascent
  <2> QED BY <1>3, <1>4, <2>1, <2>2, <2>4, PlacesDiffer
<1>8. \A k \in 1 .. hi - lo : Filtered(list, S)[k] = list[lo + k]
  BY <1>3, <1>6, <1>7
<1> QED BY <1>2, <1>3, <1>5, <1>8 DEF Stretch

LEMMA StretchesJoin ==
    ASSUME NEW T, NEW list \in Seq(T), NEW i \in Nat, NEW j \in Nat, i <= j, j <= Len(list),
           NEW A \in Seq(T), NEW B \in Seq(T), NEW C \in Seq(T), Stretch(A, list, 0, i),
           Stretch(B, list, i, j), Stretch(C, list, j, Len(list))
    PROVE  list = A \o B \o C
<1>1. PICK N \in Nat : N = Len(list)
  OBVIOUS
<1>2. Len(A) = i /\ Len(B) = j - i /\ Len(C) = N - j
  BY <1>1 DEF Stretch
<1>3. \A k \in 1 .. i : A[k] = list[k]
  <2>1. \A k \in 1 .. i : A[k] = list[0 + k] /\ 0 + k = k
    BY DEF Stretch
  <2> QED BY <2>1
<1>4. \A k \in 1 .. j - i : B[k] = list[i + k]
  BY DEF Stretch
<1>5. \A k \in 1 .. N - j : C[k] = list[j + k]
  BY <1>1 DEF Stretch
<1>6. PICK AB \in Seq(T) : AB = A \o B
  <2>1. A \o B \in Seq(T)
    OBVIOUS
  <2> QED BY <2>1
<1>7. Len(AB) = j
  BY <1>2, <1>6
<1>8. ASSUME NEW k \in 1 .. j PROVE AB[k] = list[k]
  <2>1. CASE k <= i
    BY <1>2, <1>3, <1>6, <2>1
  <2>2. CASE k > i
    <3>1. k - i \in 1 .. j - i /\ i + (k - i) = k
      BY <2>2
    <3>2. AB[k] = B[k - i]
      BY <1>2, <1>6, <2>2
    <3> QED BY <1>4, <3>1, <3>2
  <2> QED BY <2>1, <2>2
<1>9. PICK ABC \in Seq(T) : ABC = AB \o C
  <2>1. AB \o C \in Seq(T)
    OBVIOUS
  <2> QED BY <2>1
<1>10. Len(ABC) = N
  BY <1>1, <1>2, <1>7, <1>9
<1>11. ASSUME NEW k \in 1 .. N PROVE ABC[k] = list[k]
  <2>1. CASE k <= j
    <3>1. k \in 1 .. j /\ ABC[k] = AB[k]
      BY <1>1, <1>2, <1>7, <1>9, <2>1
    <3> QED BY <1>8, <3>1
  <2>2. CASE k > j
    <3>1. k - j \in 1 .. N - j /\ j + (k - j) = k
      BY <1>1, <2>2
    <3>2. ABC[k] = C[k - j]
      BY <1>1, <1>2, <1>7, <1>9, <2>2
    <3> QED BY <1>5, <3>1, <3>2
  <2> QED BY <2>1, <2>2
<1>12. ABC = list
  <2>1. ABC = [k \in 1 .. N |-> ABC[k]]
    BY <1>10
  <2>2. list = [k \in 1 .. N |-> list[k]]
    BY <1>1
  <2> QED BY <1>11, <2>1, <2>2
<1> QED BY <1>6, <1>9, <1>12

(* Where an ascending list is cut: at the first element that lies behind.    *)
LEMMA CutAt ==
    ASSUME NEW list \in Seq(IntentType), Ascends(list, "decision"), NEW t \in Int
    PROVE  \E c \in 0 .. Len(list) : \A n \in 1 .. Len(list) : list[n].decision < t <=> n <= c
<1> DEFINE Behind == {n \in Nat : n = Len(list) + 1 \/ (n \in 1 .. Len(list) /\ ~ list[n].decision < t)}
<1>1. Len(list) \in Nat /\ Len(list) + 1 \in Behind
  OBVIOUS
<1>2. PICK m \in Behind : \A k \in Behind : m <= k
  <2>1. Behind \in SUBSET Nat /\ Behind # {}
    BY <1>1
  <2> HIDE DEF Behind
  <2> QED BY <2>1, LeastOf
<1>3. m \in 1 .. Len(list) + 1
  BY <1>1, <1>2
<1>4. ASSUME NEW n \in 1 .. Len(list) PROVE list[n].decision < t <=> n <= m - 1
  <2>1. list[n].decision \in Int
    BY DecisionType
  <2>2. CASE n < m
    <3>1. n \notin Behind
      BY <1>2, <1>3, <2>2
    <3>2. n <= m - 1
      BY <1>3, <2>2
    <3> QED BY <3>1, <3>2
  <2>3. CASE m <= n
    <3>1. m \in 1 .. Len(list) /\ ~ list[m].decision < t /\ ~ n <= m - 1
      BY <1>2, <1>3, <2>3
    <3>2. list[m].decision <= list[n].decision
      BY <2>3, <3>1, AscendsAfar DEF Fields
    <3>3. list[m].decision \in Int
      BY <3>1, DecisionType
    <3> QED BY <2>1, <3>1, <3>2, <3>3
  <2> QED BY <1>3, <2>2, <2>3
<1>5. m - 1 \in 0 .. Len(list)
  BY <1>1, <1>3
<1> QED BY <1>4, <1>5

LEMMA CutsJoin ==
    ASSUME NEW list \in Seq(IntentType), Ascends(list, "decision"),
           NEW s \in Int, NEW c \in Int, NEW t \in Int, s <= c, c <= t,
           \A n \in 1 .. Len(list) : list[n].decision < t
    PROVE  list = Before(list, s) \o Within(list, s, c) \o Within(list, c, t)
<1>1. PICK i \in 0 .. Len(list) : \A n \in 1 .. Len(list) : list[n].decision < s <=> n <= i
  BY CutAt
<1>2. PICK j \in 0 .. Len(list) : \A n \in 1 .. Len(list) : list[n].decision < c <=> n <= j
  BY CutAt
<1>3. \A n \in 1 .. Len(list) : list[n].decision \in Int
  BY DecisionType
<1>4. PICK N \in Nat : N = Len(list)
  OBVIOUS
<1>5. i \in Nat /\ j \in Nat /\ i <= j /\ j <= N
  <2>1. CASE i = 0
    BY <1>4, <2>1
  <2>2. CASE i # 0
    <3>1. i \in 1 .. Len(list)
      BY <1>4, <2>2
    <3>2. list[i].decision < s /\ list[i].decision \in Int
      BY <1>1, <1>3, <3>1
    <3>3. list[i].decision < c
      BY <3>2
    <3> QED BY <1>2, <1>4, <3>1, <3>3
  <2> QED BY <2>1, <2>2
<1>6. BeforeAt(list, s) = Run(0, i)
  BY <1>1, <1>4 DEF BeforeAt, Run
<1>7. WithinAt(list, s, c) = Run(i, j)
  BY <1>1, <1>2, <1>3, <1>4, <1>5 DEF WithinAt, Run
<1>8. WithinAt(list, c, t) = Run(j, N)
  BY <1>2, <1>3, <1>4, <1>5 DEF WithinAt, Run
<1> DEFINE A == Before(list, s)
           B == Within(list, s, c)
           C == Within(list, c, t)
<1>9. A \in Seq(IntentType) /\ Stretch(A, list, 0, i)
  BY <1>4, <1>5, <1>6, BeforeIs, RunIs
<1>10. B \in Seq(IntentType) /\ Stretch(B, list, i, j)
  BY <1>4, <1>5, <1>7, WithinIs, RunIs
<1>11. C \in Seq(IntentType) /\ Stretch(C, list, j, Len(list))
  BY <1>4, <1>5, <1>8, WithinIs, RunIs
<1> HIDE DEF A, B, C
<1>12. list = A \o B \o C
  <2> HIDE DEF IntentType
  <2>1. i \in Nat /\ j \in Nat /\ i <= j /\ j <= Len(list)
    BY <1>4, <1>5
  <2>2. \A a, b, c_ \in Seq(IntentType) :
          Stretch(a, list, 0, i) /\ Stretch(b, list, i, j) /\ Stretch(c_, list, j, Len(list))
            => list = a \o b \o c_
    BY <2>1, StretchesJoin
  <2> QED BY <1>9, <1>10, <1>11, <2>2
<1> QED BY <1>12 DEF A, B, C

----------------------------------------------------------------------------
(* Settlements: the hurdle counts at least those a position lives through.   *)

LEMMA QuotientsApart ==
    ASSUME NEW iv \in Nat, iv > 0, NEW h \in Nat, NEW o \in Nat
    PROVE  /\ (o + h) \div iv \in Nat /\ o \div iv \in Nat
           /\ (o + h) \div iv - o \div iv <= AdverseSettlements(h, iv)
           /\ AdverseSettlements(h, iv) \in Nat
<1>1. PICK q0 \in Nat, r0 \in 0 .. iv - 1 : o \div iv = q0 /\ o = iv * q0 + r0 /\ iv * q0 \in Int
  BY DivMod
<1>2. PICK q1 \in Nat, r1 \in 0 .. iv - 1 : (o + h) \div iv = q1 /\ o + h = iv * q1 + r1 /\ iv * q1 \in Int
  <2>1. o + h \in Nat
    OBVIOUS
  <2> QED BY <2>1, DivMod
<1>3. PICK a \in Nat, r2 \in 0 .. iv - 1 :
        (h + iv - 1) \div iv = a /\ h + iv - 1 = iv * a + r2 /\ iv * a \in Int
  <2>1. h + iv - 1 \in Nat
    OBVIOUS
  <2> QED BY <2>1, DivMod
<1>4. ~ q1 > q0 + a
  <2> SUFFICES ASSUME q1 > q0 + a PROVE FALSE
    OBVIOUS
  <2>1. iv * q1 \in Nat /\ iv * (q0 + a) \in Nat /\ iv * (q0 + a) + iv <= iv * q1
    <3>1. q0 + a \in Nat /\ q0 + a < q1
      OBVIOUS
    <3> QED BY <3>1, Multiples
  <2>2. iv * (q0 + a) = iv * q0 + iv * a
    OBVIOUS
  <2>3. PICK x \in Int, y \in Int, z \in Int : x = iv * q0 /\ y = iv * q1 /\ z = iv * a
    BY <1>1, <1>2, <1>3
  <2>4. x + z + iv <= y /\ o = x + r0 /\ o + h = y + r1 /\ h + iv - 1 = z + r2
    BY <1>1, <1>2, <1>3, <2>1, <2>2, <2>3
  <2> QED BY <2>4
<1>5. q1 - q0 <= a
  BY <1>4
<1> QED BY <1>1, <1>2, <1>3, <1>5 DEF AdverseSettlements

LEMMA SettlementsAreFew ==
    ASSUME NEW iv \in Nat, iv > 0, NEW h \in Nat, NEW o \in Nat
    PROVE  Settlements(o, h, iv) \in Nat /\ Settlements(o, h, iv) <= AdverseSettlements(h, iv)
<1> DEFINE S == {t \in o + 1 .. o + h : t % iv = 0}
           q0 == o \div iv
           q1 == (o + h) \div iv
           T == q0 + 1 .. q1
           f == [t \in S |-> t \div iv]
<1>1. q0 \in Nat /\ q1 \in Nat /\ q1 - q0 <= AdverseSettlements(h, iv) /\ AdverseSettlements(h, iv) \in Nat
  BY QuotientsApart
<1>2. IsFiniteSet(T) /\ Cardinality(T) = IF q0 + 1 > q1 THEN 0 ELSE q1 - (q0 + 1) + 1
  <2>1. q0 + 1 \in Int /\ q1 \in Int
    BY <1>1
  <2> HIDE DEF q0, q1
  <2> QED BY <2>1, FS_Interval
<1>3. ASSUME NEW t \in S PROVE f[t] \in T /\ t = iv * f[t]
  <2>1. t \in Nat /\ o < t /\ t <= o + h /\ t % iv = 0
    OBVIOUS
  <2>2. PICK q \in Nat, r \in 0 .. iv - 1 : t \div iv = q /\ t % iv = r /\ t = iv * q + r /\ iv * q \in Int
    BY <2>1, DivMod
  <2>3. t = iv * q
    BY <2>1, <2>2
  <2>4. PICK a \in Nat, r0 \in 0 .. iv - 1 : q0 = a /\ o = iv * a + r0 /\ iv * a \in Int
    BY DivMod
  <2>5. PICK b \in Nat, r1 \in 0 .. iv - 1 : q1 = b /\ o + h = iv * b + r1 /\ iv * b \in Int
    <3>1. o + h \in Nat
      OBVIOUS
    <3> QED BY <3>1, DivMod
  <2> HIDE DEF q0, q1, S
  <2>6. a < q
    <3> SUFFICES ASSUME q <= a PROVE FALSE
      BY <2>2, <2>4
    <3>1. q = a \/ iv * q + iv <= iv * a
      BY Multiples
    <3>2. PICK x \in Int, y \in Int : x = iv * q /\ y = iv * a
      BY <2>2, <2>4
    <3>3. x <= y
      BY <3>1, <3>2
    <3> QED BY <2>1, <2>3, <2>4, <3>2, <3>3
  <2>7. q <= b
    <3> SUFFICES ASSUME b < q PROVE FALSE
      BY <2>2, <2>5
    <3>1. iv * b + iv <= iv * q
      BY Multiples
    <3>2. PICK x \in Int, y \in Int : x = iv * q /\ y = iv * b
      BY <2>2, <2>5
    <3>3. y + iv <= x /\ x <= o + h /\ o + h = y + r1
      BY <2>1, <2>3, <2>5, <3>1, <3>2
    <3> QED BY <3>3
  <2>8. f[t] = q
    BY <2>2
  <2> QED BY <2>3, <2>4, <2>5, <2>6, <2>7, <2>8
<1> HIDE DEF S, f, T
<1>4. f \in Injection(S, T)
  <2>1. f \in [S -> T]
    BY <1>3 DEF f
  <2>2. \A s, t \in S : f[s] = f[t] => s = t
    <3>1. ASSUME NEW s \in S, NEW t \in S, f[s] = f[t] PROVE s = t
      BY <1>3, <3>1
    <3> QED BY <3>1
  <2> QED BY <2>1, <2>2 DEF Injection, IsInjective
<1>5. IsFiniteSet(S) /\ Cardinality(S) <= Cardinality(T)
  BY <1>2, <1>4, FS_Injection
<1>6. Cardinality(S) \in Nat
  BY <1>5, FS_CardinalityType
<1>7. Settlements(o, h, iv) = Cardinality(S)
  BY DEF Settlements, S
<1>8. Cardinality(T) <= AdverseSettlements(h, iv)
  <2> HIDE DEF q0, q1
  <2>1. PICK a \in Nat : a = AdverseSettlements(h, iv)
    BY <1>1
  <2> QED BY <1>1, <1>2, <2>1
<1>9. Cardinality(T) \in Nat
  BY <1>2, FS_CardinalityType
<1>10. PICK a \in Nat : a = AdverseSettlements(h, iv)
  BY <1>1
<1> QED BY <1>5, <1>6, <1>7, <1>8, <1>9, <1>10

LEMMA FundingIsCovered ==
    ASSUME NEW s, ScenarioHolds(s, Minute), ExecutionType(s.execution), NEW c \in Candidates,
           s.horizon = LiquidationHorizon(c), NEW opened \in Nat
    PROVE  FundingCovered(s, opened)
<1> DEFINE x == s.execution
<1>1. /\ s.horizon \in Nat /\ x.interval \in Nat /\ x.interval > 0 /\ x.rate \in Nat
      /\ s.costs = Costs(x, s.horizon) /\ x.evidence \in {"unavailable", "assumed"}
  BY ScenarioNumbers
<1>2. s.costs.funding = AdverseFunding(x, s.horizon)
  BY <1>1 DEF Costs
<1> HIDE DEF x
<1>3. PICK n \in Nat : n = Settlements(opened, s.horizon, x.interval)
  BY <1>1, SettlementsAreFew
<1>4. PICK a \in Nat : a = AdverseSettlements(s.horizon, x.interval)
  BY <1>1, QuotientsApart
<1>5. n <= a
  BY <1>1, <1>3, <1>4, SettlementsAreFew
<1>6. CASE x.evidence = "unavailable"
  <2>1. s.costs.funding = 0 /\ SettlementCost(x) = 0
    BY <1>2, <1>6 DEF AdverseFunding, SettlementCost
  <2>2. n * 0 = 0
    OBVIOUS
  <2> QED BY <1>3, <2>1, <2>2 DEF FundingCovered, x
<1>7. CASE x.evidence = "assumed"
  <2>1. s.costs.funding = a * x.rate /\ SettlementCost(x) = x.rate
    BY <1>2, <1>4, <1>7 DEF AdverseFunding, SettlementCost
  <2>2. PICK rate \in Nat : rate = x.rate
    BY <1>1
  <2>3. n * rate <= a * rate /\ n * rate \in Nat /\ a * rate \in Nat
    BY <1>5, Scales
  <2>4. a * rate >= n * rate
    BY <2>3
  <2> QED BY <1>3, <2>1, <2>2, <2>4 DEF FundingCovered, x
<1> QED BY <1>1, <1>6, <1>7

LEMMA CostsAreCovered ==
    ASSUME NEW s, ScenarioHolds(s, Minute), ExecutionType(s.execution), NEW c \in Candidates,
           s.horizon = LiquidationHorizon(c)
    PROVE  CostsCovered(s, Minute)
<1> DEFINE x == s.execution
<1>1. /\ x.interval % Minute = 0 /\ s.costs = Costs(x, s.horizon)
      /\ x.fee \in Nat /\ x.spread \in Nat /\ x.slippage \in Nat /\ x.jitter \in Nat
  BY ScenarioNumbers
<1>2. s.costs.fee = x.fee /\ s.costs.spread = x.spread /\ s.costs.slippage = x.slippage + x.jitter
  BY <1>1 DEF Costs
<1> HIDE DEF x
<1>3. s.costs.fee >= x.fee /\ s.costs.spread >= x.spread /\ s.costs.slippage >= x.slippage + x.jitter
  BY <1>1, <1>2
<1> QED BY <1>1, <1>3 DEF CostsCovered, x

LEMMA EntryIsLater ==
    ASSUME NEW i \in IntentType, NEW s, s.execution.latency \in Nat, i.decision >= 0
    PROVE  EntryOpen(i, s) \in Nat
<1>1. i.decision \in Nat /\ i.eligible \in Int
  BY DEF IntentType
<1>2. PICK x \in Nat : x = Later(i.eligible, i.decision + s.execution.latency)
  <2>1. PICK e \in Int, d \in Nat, l \in Nat : e = i.eligible /\ d = i.decision /\ l = s.execution.latency
    BY <1>1
  <2>2. Later(e, d + l) \in Nat
    BY DEF Later
  <2> QED BY <2>1, <2>2
<1>3. Minute \in Nat /\ Minute > 0
  BY CampaignUnits
<1>4. \E q \in Nat : /\ RoundUp(x, Minute) = Minute * q /\ Minute * q \in Nat
                     /\ x <= Minute * q /\ Minute * q < x + Minute
  BY <1>3, RoundUpIs
<1> QED BY <1>2, <1>4 DEF EntryOpen

(* The evaluator takes whatever is evaluated of an orderly list.             *)
LEMMA CellTakesIt ==
    ASSUME NEW r \in Requests, SetupHolds(r), NEW scenario \in Scenarios, NEW s,
           s = r.setup.pair[scenario], NEW list \in Seq(IntentType), Distinct(list),
           NEW evaluated, Evaluates(r, list, evaluated)
    PROVE  CellTakes(r, s, evaluated)
<1>1. /\ ScenarioHolds(s, Minute) /\ ExecutionType(s.execution)
      /\ s.horizon = LiquidationHorizon(r.setup.candidate)
  BY ScenarioIs
<1>2. r.setup.candidate \in Candidates
  BY SetupTypes
<1>3. s.execution.latency \in Nat
  BY <1>1, <1>2, ScenarioNumbers
<1>4. CostsCovered(s, Minute)
  BY <1>1, <1>2, CostsAreCovered
<1>5. evaluated \in Seq(IntentType) /\ Drawn(evaluated, list) /\ Ascends(evaluated, "eligible")
  BY DEF Evaluates
<1>6. Distinct(evaluated) /\ Ascending(evaluated, "eligible")
  BY <1>5, DrawnDistinct, AscendingIs
<1>7. r.from \in Nat /\ r.to \in Nat /\ Cutoff(r) \in Int /\ Cutoff(r) <= r.to
  BY RequestKinds, CutoffIs
<1>8. ASSUME NEW n \in DOMAIN evaluated
      PROVE  /\ r.from <= evaluated[n].decision /\ evaluated[n].decision < r.to
             /\ MustBeFlat(evaluated[n], s) + Minute <= r.to => FundingCovered(s, EntryOpen(evaluated[n], s))
  <2>1. n \in 1 .. Len(evaluated)
    BY <1>5
  <2>2. PICK i \in IntentType : i = evaluated[n]
    BY <1>5, <2>1
  <2>3. r.from <= i.decision /\ i.decision < Cutoff(r) /\ i.decision \in Int
    BY <2>1, <2>2 DEF Evaluates, IntentType
  <2>4. i.decision < r.to /\ i.decision >= 0
    BY <1>7, <2>3
  <2>5. EntryOpen(i, s) \in Nat
    BY <1>3, <2>4, EntryIsLater
  <2>6. FundingCovered(s, EntryOpen(i, s))
    BY <1>1, <1>2, <2>5, FundingIsCovered
  <2> QED BY <2>2, <2>3, <2>4, <2>6
<1> QED BY <1>4, <1>6, <1>8 DEF CellTakes

----------------------------------------------------------------------------
(* The invariant of a campaign.                                              *)

Stages == {"asked", "sliced", "generated", "baseline", "stress", "judged", "done", "refused"}
Working == {"generated", "baseline", "stress"}

CampaignType ==
  /\ request \in Requests /\ stage \in Stages
  /\ made \in [Symbols -> Seq(IntentType)]
  /\ cells \in [Scenarios -> [Symbols -> Seq(IntentType)]]
  /\ trials \in Seq([Scenarios -> Books])

(* Nothing is opened that was not admitted, and nothing with a hole in it.   *)
Gated ==
  stage \notin {"asked", "refused"} =>
    Admitted(request) /\ \A s \in Symbols : EveryMinute(request, hole[s])

(* What is at work was accepted and partitioned.                             *)
Kept ==
  stage \in Working =>
    \A s \in Symbols : /\ kept[s] = Partition(request, made[s])
                       /\ Accepted(request, made[s]) /\ Accounts(kept[s], made[s])

(* A cell has disposed of what was evaluated of a list it was made from.     *)
Lawful(r, list, cell) ==
  cell = <<>> \/ (Admitted(r) /\ Accepted(r, list) /\ Evaluates(r, list, cell))

CellsFit ==
  /\ stage \in {"asked", "sliced", "generated", "judged"} => cells = [scenario \in Scenarios |-> Nothing]
  /\ stage \in {"baseline", "stress"} => \A s \in Symbols : cells["baseline"][s] = kept[s].evaluated
  /\ stage = "stress" => \A s \in Symbols : cells["stress"][s] = kept[s].evaluated
  /\ \A scenario \in Scenarios, s \in Symbols : Lawful(request, made[s], cells[scenario][s])

(* A broken generator is to blame for every campaign that stops.             *)
Blamed ==
  /\ stage = "asked" => made = Nothing
  /\ stage = "refused" /\ made # Nothing => \E s \in Symbols : ~ Orderly(made[s])

(* The ranking, as a value.                                                  *)
PassingTrials(kind, books) == {n \in 1 .. Trials : Eligible(kind, books[n])}
Better(x, y, m, n) ==
  \/ Worst(x) > Worst(y)
  \/ /\ Worst(x) = Worst(y)
     /\ \/ x["stress"].drawdown < y["stress"].drawdown
        \/ x["stress"].drawdown = y["stress"].drawdown /\ m < n
BetterPairs(S, books) == {p \in PairsOf(S) : Better(books[p[1]], books[p[2]], p[1], p[2])}
Ranking(kind, books) == InOrder(PassingTrials(kind, books), BetterPairs(PassingTrials(kind, books), books))

RankFits ==
  /\ stage = "judged" => Len(trials) = Trials
  /\ stage = "done" /\ request.kind # "direct" =>
       Len(trials) = Trials /\ selected = Ranking(request.kind, trials)

CampaignInv == CampaignType /\ Gated /\ Kept /\ CellsFit /\ Blamed /\ RankFits

LEMMA NothingIsTyped ==
    /\ Nothing \in [Symbols -> Seq(IntentType)]
    /\ [scenario \in Scenarios |-> Nothing] \in [Scenarios -> [Symbols -> Seq(IntentType)]]
    /\ \A scenario \in Scenarios, s \in Symbols : [c \in Scenarios |-> Nothing][scenario][s] = <<>>
<1>1. <<>> \in Seq(IntentType)
  OBVIOUS
<1>2. Nothing \in [Symbols -> Seq(IntentType)]
  BY <1>1 DEF Nothing
<1>3. \A s \in Symbols : Nothing[s] = <<>>
  BY DEF Nothing
<1> HIDE DEF Nothing
<1>4. [scenario \in Scenarios |-> Nothing] \in [Scenarios -> [Symbols -> Seq(IntentType)]]
  BY <1>2
<1>5. \A scenario \in Scenarios, s \in Symbols : [c \in Scenarios |-> Nothing][scenario][s] = <<>>
  BY <1>3
<1> QED BY <1>2, <1>4, <1>5

LEMMA CampaignStarts == CampaignInit => CampaignInv
<1> SUFFICES ASSUME CampaignInit PROVE CampaignInv
  OBVIOUS
<1> USE DEF CampaignInit
<1>1. CampaignType
  <2>1. <<>> \in Seq([Scenarios -> Books])
    OBVIOUS
  <2> QED BY <2>1, NothingIsTyped DEF CampaignType, Stages
<1>2. Gated /\ Kept /\ Blamed /\ RankFits
  BY DEF Gated, Kept, Working, Blamed, RankFits
<1>3. CellsFit
  <2>1. \A scenario \in Scenarios, s \in Symbols : cells[scenario][s] = <<>>
    BY NothingIsTyped
  <2> QED BY <2>1 DEF CellsFit, Lawful
<1> QED BY <1>1, <1>2, <1>3 DEF CampaignInv

(* The parts of the invariant that look at nothing that changes.             *)
LEMMA CampaignStutters == CampaignInv /\ UNCHANGED campaignVars => CampaignInv'
<1> SUFFICES ASSUME CampaignInv, UNCHANGED campaignVars PROVE CampaignInv'
  OBVIOUS
<1>1. /\ request' = request /\ hole' = hole /\ stage' = stage /\ made' = made /\ kept' = kept
      /\ cells' = cells /\ trials' = trials /\ selected' = selected
  BY DEF campaignVars
<1>2. CampaignType' /\ Gated' /\ Kept'
  BY <1>1 DEF CampaignInv, CampaignType, Gated, Kept
<1>3. CellsFit'
  BY <1>1 DEF CampaignInv, CellsFit
<1>4. Blamed'
  BY <1>1 DEF CampaignInv, Blamed, Orderly
<1>5. RankFits'
  BY <1>1 DEF CampaignInv, RankFits
<1> QED BY <1>2, <1>3, <1>4, <1>5 DEF CampaignInv

LEMMA SliceKeeps == CampaignInv /\ Slice => CampaignInv'
<1> SUFFICES ASSUME CampaignInv, Slice PROVE CampaignInv'
  OBVIOUS
<1>1. /\ request' = request /\ hole' = hole /\ made' = made /\ kept' = kept /\ cells' = cells
      /\ trials' = trials /\ selected' = selected /\ stage = "asked"
  BY DEF Slice
<1>2. \/ stage' = "sliced" /\ Admitted(request) /\ \A s \in Symbols : EveryMinute(request, hole[s])
      \/ stage' = "refused"
  BY DEF Slice, Reach
<1>3. CampaignType'
  BY <1>1, <1>2 DEF CampaignInv, CampaignType, Stages
<1>4. Gated' /\ Kept'
  BY <1>1, <1>2 DEF Gated, Kept, Working
<1>5. CellsFit'
  BY <1>1, <1>2 DEF CampaignInv, CellsFit
<1>6. Blamed'
  BY <1>1, <1>2 DEF CampaignInv, Blamed
<1>7. RankFits'
  BY <1>1, <1>2 DEF RankFits
<1> QED BY <1>3, <1>4, <1>5, <1>6, <1>7 DEF CampaignInv

LEMMA AcceptedIsSound ==
    ASSUME NEW r \in Requests, Admitted(r), NEW list \in Seq(IntentType), Accepted(r, list)
    PROVE  /\ PartTypes(Partition(r, list))
           /\ Accounts(Partition(r, list), list) /\ Evaluates(r, list, Partition(r, list).evaluated)
<1>1. BoundsHold(r)
  BY DEF Admitted
<1> QED BY <1>1, PartitionIs

LEMMA GenerateKeeps == CampaignInv /\ Generate => CampaignInv'
<1> SUFFICES ASSUME CampaignInv, Generate PROVE CampaignInv'
  OBVIOUS
<1>1. /\ request' = request /\ hole' = hole /\ cells' = cells /\ trials' = trials
      /\ selected' = selected /\ stage = "sliced" /\ made' \in [Symbols -> Lists(request)]
      /\ kept' = [s \in Symbols |-> Partition(request, made'[s])]
  BY DEF Generate
<1>2. \/ /\ stage' = "generated"
         /\ \A s \in Symbols : Accepted(request, made'[s]) /\ Accounts(kept'[s], made'[s])
      \/ /\ stage' = "refused"
         /\ \E s \in Symbols : ~ (Accepted(request, made'[s]) /\ Accounts(kept'[s], made'[s]))
  BY DEF Generate, Reach
<1>3. request \in Requests /\ Admitted(request) /\ \A s \in Symbols : EveryMinute(request, hole[s])
  BY <1>1 DEF CampaignInv, CampaignType, Gated
<1>4. CampaignType'
  <2>1. made' \in [Symbols -> Seq(IntentType)]
    BY <1>1, <1>3, ListsAreTyped
  <2> QED BY <1>1, <1>2, <2>1 DEF CampaignInv, CampaignType, Stages
<1>5. Gated'
  BY <1>1, <1>3 DEF Gated
<1>6. Kept'
  BY <1>1, <1>2 DEF Kept, Working
<1>7. CellsFit'
  <2>1. cells = [scenario \in Scenarios |-> Nothing]
    BY <1>1 DEF CampaignInv, CellsFit
  <2>2. \A scenario \in Scenarios, s \in Symbols : cells[scenario][s] = <<>>
    BY <2>1, NothingIsTyped
  <2> QED BY <1>1, <1>2, <2>1, <2>2 DEF CellsFit, Lawful
<1>8. Blamed'
  <2>1. ASSUME NEW s \in Symbols, ~ (Accepted(request, made'[s]) /\ Accounts(kept'[s], made'[s]))
        PROVE  ~ Accepted(request, made'[s])
    <3>1. kept'[s] = Partition(request, made'[s]) /\ made'[s] \in Seq(IntentType)
      BY <1>1, <1>3, ListsAreTyped
    <3> QED BY <1>3, <2>1, <3>1, AcceptedIsSound
  <2>2. CASE stage' = "generated"
    BY <2>2 DEF Blamed
  <2>3. CASE stage' = "refused"
    <3>1. PICK s \in Symbols : ~ Accepted(request, made'[s])
      BY <1>2, <2>1, <2>3
    <3>2. ~ Orderly(made[s])'
      BY <1>1, <3>1 DEF Orderly
    <3> QED BY <2>3, <3>2 DEF Blamed
  <2> QED BY <1>2, <2>2, <2>3
<1>9. RankFits'
  BY <1>2 DEF RankFits
<1> QED BY <1>4, <1>5, <1>6, <1>7, <1>8, <1>9 DEF CampaignInv

LEMMA EvaluateKeeps ==
    ASSUME CampaignInv, NEW scenario \in Scenarios, EvaluateCells(scenario)
    PROVE  CampaignInv'
<1> DEFINE s_ == request.setup.pair[scenario]
<1>1. /\ request' = request /\ hole' = hole /\ made' = made /\ kept' = kept /\ trials' = trials
      /\ selected' = selected /\ stage \in {"generated", "baseline"}
      /\ stage = (IF scenario = "baseline" THEN "generated" ELSE "baseline")
  BY DEF EvaluateCells
<1>2. \/ /\ \A s \in Symbols : CellTakes(request, s_, kept[s].evaluated)
         /\ cells' = [cells EXCEPT ![scenario] = [s \in Symbols |-> kept[s].evaluated]]
         /\ stage' = scenario
      \/ /\ \E s \in Symbols : ~ CellTakes(request, s_, kept[s].evaluated)
         /\ stage' = "refused" /\ cells' = cells
  BY DEF EvaluateCells, Reach
<1>3. request \in Requests /\ Admitted(request) /\ \A s \in Symbols : EveryMinute(request, hole[s])
  BY <1>1 DEF CampaignInv, CampaignType, Gated
<1>4. ASSUME NEW s \in Symbols
      PROVE  /\ made[s] \in Seq(IntentType) /\ kept[s] = Partition(request, made[s])
             /\ Accepted(request, made[s]) /\ made[s] \in Seq(IntentType)
             /\ kept[s].evaluated \in Seq(IntentType) /\ Evaluates(request, made[s], kept[s].evaluated)
  <2>1. made[s] \in Seq(IntentType)
    BY DEF CampaignInv, CampaignType
  <2>2. kept[s] = Partition(request, made[s]) /\ Accepted(request, made[s])
    BY <1>1 DEF CampaignInv, Kept, Working
  <2>3. made[s] \in Seq(IntentType) /\ Evaluates(request, made[s], kept[s].evaluated)
    BY <1>3, <2>1, <2>2, AcceptedIsSound
  <2> QED BY <2>1, <2>2, <2>3 DEF Evaluates
<1> DEFINE now == [s \in Symbols |-> kept[s].evaluated]
<1>5. now \in [Symbols -> Seq(IntentType)]
  BY <1>4
<1>6. stage' \in Stages
  BY <1>2 DEF Stages, Scenarios
<1>7. ASSUME NEW c \in Scenarios, cells' = [cells EXCEPT ![scenario] = now]
      PROVE  cells'[c] = IF c = scenario THEN now ELSE cells[c]
  <2> HIDE DEF now
  <2> QED BY <1>7 DEF CampaignInv, CampaignType
<1>8. CampaignType'
  <2>1. cells' \in [Scenarios -> [Symbols -> Seq(IntentType)]]
    <3> HIDE DEF now
    <3>1. cells \in [Scenarios -> [Symbols -> Seq(IntentType)]]
      BY DEF CampaignInv, CampaignType
    <3>2. cells' = cells \/ cells' = [cells EXCEPT ![scenario] = now]
      BY <1>2 DEF now
    <3> QED BY <1>5, <3>1, <3>2
  <2> QED BY <1>1, <1>6, <2>1 DEF CampaignInv, CampaignType
<1>9. Gated'
  BY <1>1, <1>3 DEF Gated
<1>10. Kept'
  BY <1>1 DEF CampaignInv, Kept, Working
<1>11. CellsFit'
  <2>1. CASE cells' = cells /\ stage' = "refused"
    BY <1>1, <2>1 DEF CampaignInv, CellsFit
  <2>2. CASE cells' = [cells EXCEPT ![scenario] = now] /\ stage' = scenario
    <3>1. \A c \in Scenarios : cells'[c] = IF c = scenario THEN now ELSE cells[c]
      BY <1>7, <2>2
    <3>2. \A s \in Symbols : now[s] = kept[s].evaluated
      OBVIOUS
    <3> HIDE DEF now
    <3>3. ASSUME NEW s \in Symbols PROVE cells'["baseline"][s] = kept[s].evaluated
      <4>1. CASE scenario = "baseline"
        BY <3>1, <3>2, <4>1
      <4>2. CASE scenario = "stress"
        <5>1. stage = "baseline" /\ cells["baseline"][s] = kept[s].evaluated
          BY <1>1, <4>2 DEF CampaignInv, CellsFit
        <5> QED BY <3>1, <4>2, <5>1 DEF Scenarios
      <4> QED BY <4>1, <4>2 DEF Scenarios
    <3>4. ASSUME NEW s \in Symbols, scenario = "stress" PROVE cells'["stress"][s] = kept[s].evaluated
      BY <3>1, <3>2, <3>4
    <3>5. ASSUME NEW c \in Scenarios, NEW s \in Symbols PROVE Lawful(request, made[s], cells'[c][s])
      <4>1. CASE c = scenario
        BY <1>3, <1>4, <3>1, <3>2, <4>1 DEF Lawful
      <4>2. CASE c # scenario
        BY <3>1, <4>2 DEF CampaignInv, CellsFit
      <4> QED BY <4>1, <4>2
    <3>6. stage' \in {"baseline", "stress"} /\ (stage' = "stress" => scenario = "stress")
      BY <2>2 DEF Scenarios
    <3> QED BY <1>1, <3>3, <3>4, <3>5, <3>6 DEF CellsFit
  <2> QED BY <1>2, <2>1, <2>2
<1>12. Blamed'
  <2>1. CASE stage' = scenario
    BY <2>1 DEF Blamed, Scenarios
  <2>2. CASE stage' = "refused"
    <3>0. stage' # scenario
      BY <2>2 DEF Scenarios
    <3>1. PICK s \in Symbols : ~ CellTakes(request, s_, kept[s].evaluated)
      BY <1>2, <3>0
    <3>2. SetupHolds(request)
      BY <1>3 DEF Admitted
    <3>3. ~ Distinct(made[s])
      <4> HIDE DEF s_
      <4>1. PICK sc : sc = s_ /\ sc = request.setup.pair[scenario]
        BY DEF s_
      <4>2. \A list \in Seq(IntentType) : Distinct(list) /\ Evaluates(request, list, kept[s].evaluated)
              => CellTakes(request, sc, kept[s].evaluated)
        BY <1>3, <3>2, <4>1, CellTakesIt
      <4> QED BY <1>4, <3>1, <4>1, <4>2
    <3>4. ~ Orderly(made[s])'
      BY <1>1, <3>3 DEF Orderly
    <3> QED BY <2>2, <3>4 DEF Blamed
  <2> QED BY <1>2, <2>1, <2>2
<1>13. RankFits'
  BY <1>2 DEF RankFits, Scenarios
<1> QED BY <1>8, <1>9, <1>10, <1>11, <1>12, <1>13 DEF CampaignInv

(* Of orderly lists the evidence always verifies.                            *)
LEMMA EvidenceVerifies ==
    ASSUME CampaignInv, stage = "stress", \A s \in Symbols : Orderly(made[s])
    PROVE  Evident(request)
<1>1. request \in Requests /\ Admitted(request) /\ request.kind \in Kinds /\ BoundsHold(request)
  BY RequestKinds DEF CampaignInv, CampaignType, Gated, Admitted
<1>2. \A s \in Symbols : /\ kept[s] = Partition(request, made[s]) /\ Accepted(request, made[s])
                         /\ Accounts(kept[s], made[s])
  BY DEF CampaignInv, Kept, Working
<1>3. \A s \in Symbols : cells["baseline"][s] = kept[s].evaluated /\ cells["stress"][s] = kept[s].evaluated
  BY DEF CampaignInv, CellsFit
<1>4. \A s \in Symbols, c \in Scenarios : DevelopmentCell(s, c)
  BY <1>2, <1>3 DEF DevelopmentCell, Scenarios
<1>5. SameInventory
  BY <1>3 DEF SameInventory
<1>6. CASE request.kind \in {"direct", "development"}
  <2>1. DevelopmentEvidence(request)
    BY <1>1 DEF DevelopmentEvidence, Admitted
  <2> QED BY <1>4, <1>6, <2>1 DEF Evident
<1>7. CASE request.kind = "orderflow"
  <2>1. OrderFlowEvidence(request)
    BY <1>1, <1>5, <1>7, RequestKinds DEF OrderFlowEvidence
  <2>2. \A s \in Symbols, c \in Scenarios : OrderFlowCell(s, c)
    BY <1>4 DEF OrderFlowCell
  <2> QED BY <1>7, <2>1, <2>2 DEF Evident
<1>8. CASE request.kind = "regime_retest"
  <2>1. RetestEvidence(request)
    BY <1>1, <1>5, <1>8, RequestKinds DEF RetestEvidence
  <2>2. ASSUME NEW s \in Symbols, NEW c \in Scenarios PROVE RetestCell(s, c)
    <3>1. PICK list \in Seq(IntentType) : list = made[s]
      BY <1>1 DEF CampaignInv, CampaignType
    <3>2. Accepted(request, list)
      BY <1>2, <3>1
    <3>3. Ascends(list, "decision") /\ Distinct(list) /\ \A n \in 1 .. Len(list) : list[n].decision < request.to
      BY <1>1, <1>8, <3>2, AcceptedInData
    <3>4. /\ request.from \in Int /\ Cutoff(request) \in Int /\ request.to \in Int
          /\ request.from <= Cutoff(request) /\ Cutoff(request) <= request.to
      BY <1>1, RequestKinds, CutoffIs
    <3>5. list = Before(list, request.from) \o Within(list, request.from, Cutoff(request))
                   \o Within(list, Cutoff(request), request.to)
      BY <3>3, <3>4, CutsJoin
    <3>6. kept[s] = RetestPartition(request, list)
      BY <1>2, <1>8, <3>1 DEF Partition
    <3>7. /\ kept[s].warmup = Before(list, request.from)
          /\ kept[s].evaluated = Within(list, request.from, Cutoff(request))
          /\ kept[s].embargoed = Within(list, Cutoff(request), request.to)
      BY <3>6, PartFields DEF RetestPartition
    <3> QED BY <1>4, <3>1, <3>3, <3>5, <3>7 DEF RetestCell
  <2> QED BY <1>8, <2>1, <2>2 DEF Evident
<1> QED BY <1>1, <1>6, <1>7, <1>8 DEF Kinds

LEMMA ConcludeKeeps == CampaignInv /\ Conclude => CampaignInv'
<1> SUFFICES ASSUME CampaignInv, Conclude PROVE CampaignInv'
  OBVIOUS
<1>1. request' = request /\ hole' = hole /\ selected' = selected /\ stage = "stress"
  BY DEF Conclude
<1>2. /\ request \in Requests /\ Admitted(request) /\ (\A s \in Symbols : EveryMinute(request, hole[s]))
      /\ trials \in Seq([Scenarios -> Books])
  BY <1>1 DEF CampaignInv, CampaignType, Gated
<1>3. CASE /\ stage' \in {"refused", "done"} /\ made' = made /\ kept' = kept /\ cells' = cells /\ trials' = trials
           /\ stage' = "refused" => ~ Evident(request)
           /\ stage' = "done" => request.kind = "direct"
  <2>1. CampaignType'
    BY <1>1, <1>3 DEF CampaignInv, CampaignType, Stages
  <2>2. Gated' /\ Kept'
    BY <1>1, <1>2, <1>3 DEF Gated, Kept, Working
  <2>3. CellsFit'
    BY <1>1, <1>3 DEF CampaignInv, CellsFit
  <2>4. Blamed'
    <3>1. CASE stage' = "done"
      BY <3>1 DEF Blamed
    <3>2. CASE stage' = "refused"
      <4>1. PICK s \in Symbols : ~ Orderly(made[s])
        BY <1>1, <1>3, <3>2, EvidenceVerifies
      <4>2. ~ Orderly(made[s])'
        BY <1>1, <1>3, <4>1 DEF Orderly
      <4> QED BY <3>2, <4>2 DEF Blamed
    <3> QED BY <1>3, <3>1, <3>2
  <2>5. RankFits'
    BY <1>1, <1>3 DEF RankFits
  <2> QED BY <2>1, <2>2, <2>3, <2>4, <2>5 DEF CampaignInv
<1>4. CASE /\ \E book \in [Scenarios -> Books] : trials' = Append(trials, book)
           /\ stage' = (IF Len(trials) + 1 = Trials THEN "judged" ELSE "sliced")
           /\ made' = Nothing /\ cells' = [scenario \in Scenarios |-> Nothing]
  <2>1. trials' \in Seq([Scenarios -> Books]) /\ Len(trials') = Len(trials) + 1
    BY <1>2, <1>4
  <2>2. CampaignType'
    BY <1>1, <1>2, <1>4, <2>1, NothingIsTyped DEF CampaignType, Stages
  <2>3. Gated' /\ Kept' /\ Blamed'
    BY <1>1, <1>2, <1>4 DEF Gated, Kept, Working, Blamed
  <2>4. CellsFit'
    <3>1. \A scenario \in Scenarios, s \in Symbols : cells'[scenario][s] = <<>>
      BY <1>4, NothingIsTyped
    <3> QED BY <1>4, <3>1 DEF CellsFit, Lawful
  <2>5. RankFits'
    BY <1>4, <2>1 DEF RankFits
  <2> QED BY <2>2, <2>3, <2>4, <2>5 DEF CampaignInv
<1>5. \/ ~ Evident(request) /\ stage' = "refused" /\ UNCHANGED <<made, kept, cells, trials>>
      \/ request.kind = "direct" /\ stage' = "done" /\ UNCHANGED <<made, kept, cells, trials>>
      \/ /\ \E book \in [Scenarios -> Books] : trials' = Append(trials, book)
         /\ stage' = (IF Len(trials) + 1 = Trials THEN "judged" ELSE "sliced")
         /\ made' = Nothing /\ cells' = [scenario \in Scenarios |-> Nothing]
  BY DEF Conclude, Reach
<1> QED BY <1>3, <1>4, <1>5

LEMMA RankedIsBetter ==
    ASSUME NEW S
    PROVE  {p \in PairsOf(S) : Ranked(p[1], p[2])} = BetterPairs(S, trials)
BY DEF BetterPairs, Ranked, Better

LEMMA RankKeeps == CampaignInv /\ Rank => CampaignInv'
<1> SUFFICES ASSUME CampaignInv, Rank PROVE CampaignInv'
  OBVIOUS
<1>1. /\ request' = request /\ hole' = hole /\ made' = made /\ kept' = kept /\ cells' = cells
      /\ trials' = trials /\ stage = "judged" /\ stage' = "done"
  BY DEF Rank, Reach
<1>2. CampaignType' /\ Gated' /\ Kept' /\ Blamed'
  BY <1>1 DEF CampaignInv, CampaignType, Stages, Gated, Kept, Working, Blamed
<1>3. CellsFit'
  BY <1>1 DEF CampaignInv, CellsFit
<1>4. RankFits'
  <2>1. Len(trials) = Trials
    BY <1>1 DEF CampaignInv, RankFits
  <2>2. selected' = InOrder(PassingTrials(request.kind, trials),
                            {p \in PairsOf(PassingTrials(request.kind, trials)) : Ranked(p[1], p[2])})
    BY DEF Rank, PassingTrials
  <2>3. selected' = Ranking(request.kind, trials)
    BY <2>2, RankedIsBetter DEF Ranking
  <2> QED BY <1>1, <2>1, <2>3 DEF RankFits
<1> QED BY <1>2, <1>3, <1>4 DEF CampaignInv

(* A campaign goes from stage to stage as its invariant says.                *)
THEOREM CampaignInvariant == CampaignSpec => []CampaignInv
<1>1. CampaignInv /\ [CampaignNext]_campaignVars => CampaignInv'
  <2> SUFFICES ASSUME CampaignInv, [CampaignNext]_campaignVars PROVE CampaignInv'
    OBVIOUS
  <2>1. CASE UNCHANGED campaignVars
    BY <2>1, CampaignStutters
  <2>2. CASE Slice
    BY <2>2, SliceKeeps
  <2>3. CASE Generate
    BY <2>3, GenerateKeeps
  <2>4. CASE \E scenario \in Scenarios : EvaluateCells(scenario)
    <3>1. PICK scenario \in Scenarios : EvaluateCells(scenario)
      BY <2>4
    <3> QED BY <3>1, EvaluateKeeps
  <2>5. CASE Conclude
    BY <2>5, ConcludeKeeps
  <2>6. CASE Rank
    BY <2>6, RankKeeps
  <2> QED BY <2>1, <2>2, <2>3, <2>4, <2>5, <2>6 DEF CampaignNext
<1> QED BY <1>1, CampaignStarts, PTL DEF CampaignSpec

----------------------------------------------------------------------------
(* What the invariant says.                                                  *)

(* No campaign evaluates a decision outside the window its role was given,   *)
(* nor on data with a hole, for any symbols, windows and generators.         *)
THEOREM RoleStays == CampaignSpec => []RoleIsNeverLeft
<1>1. CampaignInv => RoleIsNeverLeft
  <2> SUFFICES ASSUME CampaignInv, stage \in {"baseline", "stress"}
               PROVE  /\ request.window.start <= request.from /\ request.to <= request.window.end
                      /\ request.purpose \in Allowed(request.window.role)
                      /\ \A s \in Symbols : ~ (GenerationStart(request) <= hole[s] /\ hole[s] < request.to)
                      /\ \A s \in Symbols : \A n \in DOMAIN cells["baseline"][s] :
                           LET i == cells["baseline"][s][n]
                           IN  request.window.start <= i.decision /\ i.decision < request.window.end
    BY DEF RoleIsNeverLeft
  <2>1. /\ request \in Requests /\ Admitted(request) /\ BoundsHold(request) /\ request.kind \in Kinds
        /\ \A s \in Symbols : EveryMinute(request, hole[s])
    BY RequestKinds DEF CampaignInv, CampaignType, Gated, Admitted
  <2>2. request.window.start <= request.from /\ request.to <= request.window.end
    BY <2>1 DEF BoundsHold
  <2>3. request.purpose \in Allowed(request.window.role)
    BY <2>1 DEF Admitted, Accessible
  <2>4. ASSUME NEW s \in Symbols PROVE ~ (GenerationStart(request) <= hole[s] /\ hole[s] < request.to)
    BY <2>1 DEF EveryMinute, RetestSlice, OrderFlowSlice, DevelopmentSlice, Kinds
  <2>5. ASSUME NEW s \in Symbols, NEW n \in DOMAIN cells["baseline"][s]
        PROVE  /\ request.window.start <= cells["baseline"][s][n].decision
               /\ cells["baseline"][s][n].decision < request.window.end
    <3>1. cells["baseline"][s] \in Seq(IntentType) /\ Lawful(request, made[s], cells["baseline"][s])
      BY DEF CampaignInv, CampaignType, CellsFit, Scenarios
    <3>2. n \in 1 .. Len(cells["baseline"][s]) /\ cells["baseline"][s] # <<>>
      BY <3>1
    <3>3. /\ request.from <= cells["baseline"][s][n].decision
          /\ cells["baseline"][s][n].decision < Cutoff(request)
      BY <3>1, <3>2 DEF Lawful, Evaluates
    <3>4. cells["baseline"][s][n].decision \in Int
      BY <3>1, <3>2, DecisionType
    <3>5. /\ request.window.start \in Nat /\ request.window.end \in Nat
          /\ request.from \in Nat /\ request.to \in Nat
          /\ Cutoff(request) \in Int /\ Cutoff(request) <= request.to
      BY <2>1, RequestKinds, WindowsAre, CutoffIs
    <3>6. PICK d \in Int : d = cells["baseline"][s][n].decision
      BY <3>4
    <3> QED BY <2>2, <3>3, <3>5, <3>6
  <2> QED BY <2>2, <2>3, <2>4, <2>5
<1> QED BY <1>1, CampaignInvariant, PTL

(* A lawful generator never has a look wasted: whatever the costs, horizons  *)
(* and intents, the evaluator and the evidence accept what was partitioned.  *)
THEOREM LooksCount == CampaignSpec => []NoLookIsWasted
<1>1. CampaignInv => NoLookIsWasted
  BY DEF CampaignInv, Blamed, NoLookIsWasted
<1> QED BY <1>1, CampaignInvariant, PTL

(* The arithmetic of the embargo: an entry at most a latency late, of a      *)
(* decision before the cutoff, is flat a minute before the end.              *)
LEMMA EmbargoFits ==
    ASSUME NEW M \in Nat, M > 0, NEW a \in Nat, NEW b \in Nat, NEW h \in Nat, NEW p \in Nat,
           NEW late \in Nat, M * h + M + late <= M * p, M * a - 1 < M * b - M * p,
           NEW x \in Nat, x <= M * a + late
    PROVE  RoundUp(x, M) + M * h + M <= M * b
<1>1. PICK A \in Nat, B \in Nat, H \in Nat, P \in Nat : A = M * a /\ B = M * b /\ H = M * h /\ P = M * p
  OBVIOUS
<1>2. H + M + late <= P /\ A - 1 < B - P /\ x <= A + late
  BY <1>1
<1>3. A + P <= B /\ x + H + M <= B /\ H + M <= B
  BY <1>2
<1>4. h < b
  <2> SUFFICES ASSUME b <= h PROVE FALSE
    OBVIOUS
  <2>1. b * M <= h * M /\ b * M \in Nat /\ h * M \in Nat
    BY Scales
  <2>2. b * M = M * b /\ h * M = M * h
    OBVIOUS
  <2>3. B <= H
    BY <1>1, <2>1, <2>2
  <2> QED BY <1>3, <2>3
<1>5. PICK q \in Nat : q = b - h - 1
  BY <1>4
<1>6. M * q = B - H - M
  <2>1. b = q + h + 1
    BY <1>5
  <2>2. M * (q + h + 1) = M * q + M * h + M
    OBVIOUS
  <2>3. M * b = M * q + M * h + M
    BY <2>1, <2>2
  <2>4. M * q \in Nat
    OBVIOUS
  <2> QED BY <1>1, <2>3, <2>4
<1>7. x <= M * q
  BY <1>3, <1>6
<1>8. RoundUp(x, M) <= M * q
  BY <1>7, RoundUpLeast
<1>9. RoundUp(x, M) \in Nat
  <2>1. \E r \in Nat : /\ RoundUp(x, M) = M * r /\ M * r \in Nat /\ x <= M * r /\ M * r < x + M
    BY RoundUpIs
  <2> QED BY <2>1
<1>10. RoundUp(x, M) <= B - H - M
  BY <1>6, <1>8
<1>11. PICK y \in Nat : y = RoundUp(x, M)
  BY <1>9
<1>12. y + H + M <= B
  BY <1>10, <1>11
<1> QED BY <1>1, <1>11, <1>12

LEMMA RetestRequest ==
    ASSUME NEW r \in Requests, r.kind = "regime_retest", SetupHolds(r)
    PROVE  /\ r.to \in Nat /\ r.to % Minute = 0
           /\ \E h \in Nat : Holding = Minute * h
           /\ LiquidationHorizon(r.setup.candidate) = Holding
<1>1. r = FixedRequest("regime_retest", r.setup)
  BY RequestKinds
<1>2. r.window = Research /\ r.to = At(ScreenEnd)
  BY <1>1, AskFields DEF FixedRequest, Fixed
<1>3. At(ScreenEnd) \in Nat /\ At(ScreenEnd) % Minute = 0
  BY DatesAreDays, DatesAre
<1>4. Minute \in Nat /\ Minute > 0 /\ Holding \in Nat
  BY CampaignUnits
<1>6. RetestFits(r.setup.candidate, Registered(r.kind), Minute)
  BY DEF SetupHolds
<1>7. LiquidationHorizon(r.setup.candidate) = Holding
  BY <1>6 DEF RetestFits, Registered
<1>8. r.setup.candidate \in Candidates
  BY SetupTypes
<1>9. PICK c \in Candidates : c = r.setup.candidate
  BY <1>8
<1>10. c.holding \in Nat /\ c.grace \in Nat /\ c.holding % Minute = 0 /\ Holding = c.holding + c.grace
  BY <1>7, <1>9, SetupsAreTyped DEF LiquidationHorizon
<1>11. c.grace % Minute = 0
  <2>1. PICK s : s = r.setup.pair["baseline"]
    OBVIOUS
  <2>2. ScenarioHolds(s, Minute) /\ s.grace = r.setup.candidate.grace
    BY <2>1, ScenarioIs DEF Scenarios
  <2> QED BY <1>9, <2>2 DEF ScenarioHolds, PolicyHolds
<1>12. PICK x \in Nat, y \in Nat : x = c.holding /\ y = c.grace
  BY <1>10
<1>13. PICK q1 \in Nat, x1 \in 0 .. Minute - 1 :
          /\ x \div Minute = q1 /\ x % Minute = x1
          /\ x = Minute * q1 + x1 /\ Minute * q1 \in Int
  BY <1>4, DivMod
<1>14. PICK q2 \in Nat, x2 \in 0 .. Minute - 1 :
          /\ y \div Minute = q2 /\ y % Minute = x2
          /\ y = Minute * q2 + x2 /\ Minute * q2 \in Int
  BY <1>4, DivMod
<1>15. \E h \in Nat : Holding = Minute * h
  <2>1. x = Minute * q1 /\ y = Minute * q2
    BY <1>10, <1>11, <1>12, <1>13, <1>14
  <2>2. Minute * (q1 + q2) = Minute * q1 + Minute * q2 /\ q1 + q2 \in Nat
    BY <1>4
  <2>3. Holding = Minute * (q1 + q2)
    BY <1>10, <1>12, <2>1, <2>2
  <2> QED BY <2>2, <2>3
<1> QED BY <1>2, <1>3, <1>7, <1>15

LEMMA RetestIntentFits ==
    ASSUME NEW r \in Requests, r.kind = "regime_retest", SetupHolds(r),
           NEW scenario \in Scenarios, NEW s, s = r.setup.pair[scenario],
           NEW i \in IntentType, OrderFlowIntent(i), i.decision \in Nat, i.decision < Cutoff(r)
    PROVE  MustBeFlat(i, s) + Minute <= r.to
<1>1. Minute \in Nat /\ Minute > 0 /\ Holding \in Nat /\ Latency \in Nat
  BY CampaignUnits
<1>2. /\ r.to \in Nat /\ r.to % Minute = 0
      /\ LiquidationHorizon(r.setup.candidate) = Holding
  BY RetestRequest
<1>3. PICK h \in Nat : Holding = Minute * h
  BY RetestRequest
<1>4. PICK p \in Nat : /\ OperationalHorizon = Minute * p /\ Minute * p \in Nat
                       /\ Holding + Minute + Latency <= Minute * p
  BY HorizonIs
<1>5. PICK b \in Nat, x0 \in 0 .. Minute - 1 :
        /\ r.to \div Minute = b /\ r.to % Minute = x0
        /\ r.to = Minute * b + x0 /\ Minute * b \in Int
  BY <1>1, <1>2, DivMod
<1>6. i.eligible = i.decision + 1 /\ i.eligible % Minute = 0
  BY DEF OrderFlowIntent
<1>7. PICK e \in Nat : e = i.eligible /\ i.decision = e - 1
  BY <1>6
<1>8. PICK a \in Nat, x1 \in 0 .. Minute - 1 :
        /\ e \div Minute = a /\ e % Minute = x1
        /\ e = Minute * a + x1 /\ Minute * a \in Int
  BY <1>1, DivMod
<1>9. /\ s.horizon = Holding /\ s.execution.latency <= Latency /\ s.execution.latency \in Nat
  <2>1. /\ ScenarioHolds(s, Minute) /\ ExecutionType(s.execution)
        /\ s.horizon = LiquidationHorizon(r.setup.candidate) /\ s.execution.latency <= Latency
    BY ScenarioIs
  <2>2. r.setup.candidate \in Candidates
    BY SetupTypes
  <2> QED BY <1>2, <2>1, <2>2, ScenarioNumbers
<1>10. PICK l \in Nat : l = s.execution.latency /\ l <= Latency
  BY <1>9
<1>11. PICK x \in Nat : x = Later(e, e - 1 + l) /\ x <= e + Latency
  <2>1. Later(e, e - 1 + l) \in Nat /\ Later(e, e - 1 + l) <= e + Latency
    BY <1>1, <1>10 DEF Later
  <2> QED BY <2>1
<1>12. EntryOpen(i, s) = RoundUp(x, Minute)
  BY <1>7, <1>10, <1>11 DEF EntryOpen
<1>13. r.to = Minute * b /\ e = Minute * a
  <2>1. x0 = 0 /\ x1 = 0
    BY <1>2, <1>5, <1>6, <1>7, <1>8
  <2>2. r.to = Minute * b + x0 /\ Minute * b \in Int /\ e = Minute * a + x1 /\ Minute * a \in Int
    BY <1>5, <1>8
  <2> QED BY <2>1, <2>2
<1>14. Cutoff(r) = Minute * b - Minute * p
  BY <1>4, <1>13 DEF Cutoff
<1>15. Minute * a - 1 < Minute * b - Minute * p
  BY <1>7, <1>13, <1>14
<1>16. Minute * h + Minute + Latency <= Minute * p
  BY <1>3, <1>4
<1>17. x <= Minute * a + Latency
  BY <1>11, <1>13
<1>18. RoundUp(x, Minute) + Minute * h + Minute <= Minute * b
  BY <1>1, <1>15, <1>16, <1>17, EmbargoFits
<1>19. MustBeFlat(i, s) = RoundUp(x, Minute) + Minute * h
  BY <1>3, <1>9, <1>12 DEF MustBeFlat
<1> QED BY <1>2, <1>13, <1>18, <1>19

(* Whatever the horizons, latencies and units, a minute opens at the deadline *)
(* of every intent the regime/retest campaign evaluates, in both scenarios.  *)
THEOREM EmbargoCovers == CampaignSpec => []EmbargoCoversOutcomes
<1>1. CampaignInv => EmbargoCoversOutcomes
  <2> SUFFICES ASSUME CampaignInv, request.kind = "regime_retest", NEW s \in Symbols,
                      NEW scenario \in Scenarios, NEW n \in DOMAIN cells[scenario][s]
               PROVE  MustBeFlat(cells[scenario][s][n], request.setup.pair[scenario]) + Minute
                        <= request.to
    BY DEF EmbargoCoversOutcomes
  <2>1. PICK cell \in Seq(IntentType) : cell = cells[scenario][s] /\ Lawful(request, made[s], cell)
    BY DEF CampaignInv, CampaignType, CellsFit
  <2>2. n \in 1 .. Len(cell) /\ cell # <<>>
    BY <2>1
  <2>3. Admitted(request) /\ Accepted(request, made[s]) /\ Evaluates(request, made[s], cell)
    BY <2>1, <2>2 DEF Lawful
  <2>4. request \in Requests /\ made[s] \in Seq(IntentType)
    BY DEF CampaignInv, CampaignType
  <2>5. PICK list \in Seq(IntentType) : list = made[s]
    BY <2>4
  <2>6. \A m \in 1 .. Len(list) : OrderFlowIntent(list[m])
    BY <2>3, <2>4, <2>5, AcceptedInData
  <2>7. PICK i \in IntentType : i = cell[n]
    BY <2>1, <2>2
  <2>8. OrderFlowIntent(i)
    <3>1. \E m \in 1 .. Len(list) : cell[n] = list[m]
      BY <2>1, <2>2, <2>3, <2>5, DrawnFrom DEF Evaluates
    <3> QED BY <2>6, <2>7, <3>1
  <2>9. i.decision \in Nat /\ i.decision < Cutoff(request)
    <3>1. request.from <= i.decision /\ i.decision < Cutoff(request)
      BY <2>2, <2>3, <2>7 DEF Evaluates
    <3>2. request.from \in Nat /\ i.decision \in Int
      BY <2>4, RequestKinds DEF IntentType
    <3> QED BY <3>1, <3>2
  <2>10. SetupHolds(request)
    BY <2>3 DEF Admitted
  <2>11. MustBeFlat(i, request.setup.pair[scenario]) + Minute <= request.to
    BY <2>4, <2>8, <2>9, <2>10, RetestIntentFits
  <2> QED BY <2>1, <2>7, <2>11
<1> QED BY <1>1, CampaignInvariant, PTL

----------------------------------------------------------------------------
(* The ranking.                                                              *)

LEMMA GrowthIsInt == ASSUME NEW b \in Books PROVE Growth(b) \in Int /\ b.drawdown \in Int
<1>1. IsFiniteSet(Sides) /\ IsFiniteSet(Symbols)
  <2>1. IsFiniteSet({"long"})
    BY FS_Singleton
  <2>2. Sides = {"long"} \cup {"short"}
    BY DEF Sides
  <2> QED BY <2>1, <2>2, FS_AddElement, CampaignUnits
<1>2. ASSUME NEW s \in Symbols, NEW d \in Sides PROVE b.at[s][d].gain \in Int /\ b.at[s][d].loss \in Int
  BY BooksCount DEF Tally
<1>3. ASSUME NEW s \in Symbols PROVE OverSides(b, s, "gain") \in Int /\ OverSides(b, s, "loss") \in Int
  <2>1. [d \in Sides |-> b.at[s][d]["gain"]] \in [Sides -> Int]
    BY <1>2
  <2>2. [d \in Sides |-> b.at[s][d]["loss"]] \in [Sides -> Int]
    BY <1>2
  <2>3. SumFunction([d \in Sides |-> b.at[s][d]["gain"]]) \in Int
    BY <1>1, <2>1, SumIsInt
  <2>4. SumFunction([d \in Sides |-> b.at[s][d]["loss"]]) \in Int
    BY <1>1, <2>2, SumIsInt
  <2> QED BY <2>3, <2>4 DEF OverSides
<1>4. [s \in Symbols |-> OverSides(b, s, "gain")] \in [Symbols -> Int]
  BY <1>3
<1>5. [s \in Symbols |-> OverSides(b, s, "loss")] \in [Symbols -> Int]
  BY <1>3
<1>6. Overall(b, "gain") \in Int
  BY <1>1, <1>4, SumIsInt DEF Overall
<1>7. Overall(b, "loss") \in Int
  BY <1>1, <1>5, SumIsInt DEF Overall
<1> QED BY <1>6, <1>7, BooksCount DEF Growth

LEMMA WorstIsInt ==
    ASSUME NEW x \in [Scenarios -> Books]
    PROVE  /\ Worst(x) \in Int /\ x["stress"].drawdown \in Int
           /\ \A scenario \in Scenarios : Growth(x[scenario]) \in Int /\ Worst(x) <= Growth(x[scenario])
           /\ \E scenario \in Scenarios : Worst(x) = Growth(x[scenario])
<1>1. x["baseline"] \in Books /\ x["stress"] \in Books
  BY DEF Scenarios
<1>2. PICK g \in Int, h \in Int : g = Growth(x["baseline"]) /\ h = Growth(x["stress"])
  BY <1>1, GrowthIsInt
<1>3. x["stress"].drawdown \in Int
  BY <1>1, GrowthIsInt
<1>4. Worst(x) = IF h <= g THEN h ELSE g
  BY <1>2 DEF Worst
<1>5. Worst(x) \in Int /\ Worst(x) <= g /\ Worst(x) <= h
  BY <1>4
<1>6. ASSUME NEW scenario \in Scenarios PROVE Growth(x[scenario]) \in Int /\ Worst(x) <= Growth(x[scenario])
  BY <1>2, <1>5 DEF Scenarios
<1>7. \E scenario \in Scenarios : Worst(x) = Growth(x[scenario])
  <2>1. CASE h <= g
    BY <1>2, <1>4, <2>1 DEF Scenarios
  <2>2. CASE ~ h <= g
    BY <1>2, <1>4, <2>2 DEF Scenarios
  <2> QED BY <2>1, <2>2
<1> QED BY <1>3, <1>5, <1>6, <1>7

LEMMA BetterIsStrict ==
    ASSUME NEW S \in SUBSET Int, NEW books, \A n \in S : books[n] \in [Scenarios -> Books]
    PROVE  StrictOrder(S, BetterPairs(S, books))
<1> DEFINE w(n) == Worst(books[n])
           d(n) == books[n]["stress"].drawdown
           R == BetterPairs(S, books)
<1>1. \A n \in S : w(n) \in Int /\ d(n) \in Int /\ n \in Int
  BY WorstIsInt
<1>2. \A m, n \in S : <<m, n>> \in R <=>
         w(m) > w(n) \/ (w(m) = w(n) /\ (d(m) < d(n) \/ (d(m) = d(n) /\ m < n)))
  BY DEF BetterPairs, Better, PairsOf
<1> HIDE DEF w, d, R
<1>3. ASSUME NEW m \in S, NEW n \in S PROVE m = n \/ <<m, n>> \in R \/ <<n, m>> \in R
  <2>1. PICK v \in Int, u \in Int, e \in Int, f \in Int : v = w(m) /\ u = w(n) /\ e = d(m) /\ f = d(n)
    BY <1>1
  <2>2. v > u \/ u > v \/ (v = u /\ (e < f \/ f < e \/ (e = f /\ (m < n \/ n < m \/ m = n))))
    BY <1>1
  <2> QED BY <1>2, <2>1, <2>2
<1>4. ASSUME NEW n \in S PROVE <<n, n>> \notin R
  <2>1. PICK v \in Int, e \in Int : v = w(n) /\ e = d(n)
    BY <1>1
  <2>2. ~ v > v /\ ~ e < e /\ ~ n < n
    BY <1>1
  <2> QED BY <1>2, <2>1, <2>2
<1>5. ASSUME NEW l \in S, NEW m \in S, NEW n \in S, <<l, m>> \in R, <<m, n>> \in R PROVE <<l, n>> \in R
  <2>1. PICK u1 \in Int, u2 \in Int, u3 \in Int, e1 \in Int, e2 \in Int, e3 \in Int :
          u1 = w(l) /\ u2 = w(m) /\ u3 = w(n) /\ e1 = d(l) /\ e2 = d(m) /\ e3 = d(n)
    BY <1>1
  <2>2. u1 > u2 \/ (u1 = u2 /\ (e1 < e2 \/ (e1 = e2 /\ l < m)))
    BY <1>2, <1>5, <2>1
  <2>3. u2 > u3 \/ (u2 = u3 /\ (e2 < e3 \/ (e2 = e3 /\ m < n)))
    BY <1>2, <1>5, <2>1
  <2>4. u1 > u3 \/ (u1 = u3 /\ (e1 < e3 \/ (e1 = e3 /\ l < n)))
    BY <1>1, <2>2, <2>3
  <2> QED BY <1>2, <2>1, <2>4
<1>6. StrictOrder(S, R)
  BY <1>3, <1>4, <1>5 DEF StrictOrder
<1> QED BY <1>6 DEF R

(* For any books, thresholds and trials, the selected trial passes and none  *)
(* that passes does better in the worse of its scenarios.                    *)
THEOREM SelectionHolds == CampaignSpec => []SelectionIsBest
<1>1. CampaignInv => SelectionIsBest
  <2> SUFFICES ASSUME CampaignInv, stage = "done", request.kind # "direct"
               PROVE  LET passing == {n \in 1 .. Trials : Eligible(request.kind, trials[n])}
                      IN  /\ Len(trials) = Trials
                          /\ ToSet(selected) = passing
                          /\ selected # <<>> =>
                               \A n \in passing : \A scenario \in Scenarios :
                                 \E worse \in Scenarios :
                                   Growth(trials[selected[1]][scenario]) >= Growth(trials[n][worse])
    BY DEF SelectionIsBest
  <2> DEFINE S == PassingTrials(request.kind, trials)
             R == BetterPairs(S, trials)
  <2>1. Len(trials) = Trials /\ selected = InOrder(S, R) /\ trials \in Seq([Scenarios -> Books])
    BY DEF CampaignInv, CampaignType, RankFits, Ranking
  <2>2. S \subseteq 1 .. Trials /\ S \in SUBSET Int /\ Trials \in Nat
    BY CampaignUnits DEF PassingTrials
  <2>3. IsFiniteSet(S)
    <3>1. IsFiniteSet(1 .. Trials)
      BY <2>2, FS_Interval
    <3> HIDE DEF S
    <3> QED BY <2>2, <3>1, FS_Subset
  <2>4. \A n \in S : trials[n] \in [Scenarios -> Books]
    BY <2>1, <2>2
  <2> HIDE DEF S
  <2>5. StrictOrder(S, R)
    BY <2>2, <2>4, BetterIsStrict
  <2>6. RunsThrough(InOrder(S, R), S)
    BY <2>3, <2>5, InOrderRunsThrough
  <2>7. DOMAIN selected = 1 .. Cardinality(S) /\ Cardinality(S) \in Nat
    BY <2>1, <2>3, InOrderDomain, FS_CardinalityType
  <2> HIDE DEF R
  <2>8. ToSet(selected) = S
    BY <2>1, <2>6, <2>7 DEF ToSet, RunsThrough
  <2>9. ASSUME selected # <<>>, NEW n \in S, NEW scenario \in Scenarios
        PROVE  \E worse \in Scenarios :
                 Growth(trials[selected[1]][scenario]) >= Growth(trials[n][worse])
    <3>1. PICK k \in 1 .. Cardinality(S) : selected[k] = n
      BY <2>1, <2>6 DEF RunsThrough
    <3>2. 1 \in 1 .. Cardinality(S)
      BY <2>7
    <3>3. PICK best \in S : best = selected[1]
      BY <2>1, <2>6, <3>2 DEF RunsThrough
    <3>4. PICK x \in [Scenarios -> Books], y \in [Scenarios -> Books] : x = trials[best] /\ y = trials[n]
      BY <2>4
    <3>5. Worst(x) >= Worst(y)
      <4>1. CASE k = 1
        <5>1. Worst(x) = Worst(y) /\ Worst(x) \in Int
          BY <3>1, <3>3, <3>4, <4>1, WorstIsInt
        <5> QED BY <5>1
      <4>2. CASE k # 1
        <5>1. 1 < k
          BY <2>7, <4>2
        <5>2. <<best, n>> \in R
          BY <2>1, <2>3, <2>5, <3>1, <3>2, <3>3, <5>1, InOrderAscends
        <5>3. Better(trials[best], trials[n], best, n)
          BY <5>2 DEF R, BetterPairs, PairsOf
        <5>4. Worst(x) > Worst(y) \/ Worst(x) = Worst(y)
          BY <3>4, <5>3 DEF Better
        <5> QED BY <5>4, WorstIsInt
      <4> QED BY <4>1, <4>2
    <3>6. Growth(x[scenario]) \in Int /\ Worst(x) <= Growth(x[scenario]) /\ Worst(x) \in Int
      BY WorstIsInt
    <3>7. PICK worse \in Scenarios : Worst(y) = Growth(y[worse])
      BY WorstIsInt
    <3>8. Worst(y) \in Int
      BY WorstIsInt
    <3>9. Growth(x[scenario]) >= Growth(y[worse])
      <4>1. PICK a \in Int, b \in Int, c \in Int : a = Growth(x[scenario]) /\ b = Worst(x) /\ c = Worst(y)
        BY <3>6, <3>8
      <4>2. a >= b /\ b >= c
        BY <3>5, <3>6, <4>1
      <4>3. a >= c
        BY <4>2
      <4> QED BY <3>7, <4>1, <4>3
    <3> QED BY <3>3, <3>4, <3>9
  <2> QED BY <2>1, <2>8, <2>9 DEF S, PassingTrials
<1> QED BY <1>1, CampaignInvariant, PTL

----------------------------------------------------------------------------
(* The rule.                                                                 *)

(* Trial n is the best of those of c that pass up to m, the earliest of them. *)
BestUpTo(c, m, n) ==
  /\ n \in Passing(c) /\ n <= m
  /\ \A k \in Passing(c) : k <= m =>
       \/ TrialsOf(c)[k].growth < TrialsOf(c)[n].growth
       \/ TrialsOf(c)[k].growth = TrialsOf(c)[n].growth /\ n <= k

LEMMA TrialTypes ==
    ASSUME NEW c \in Numbers
    PROVE /\ Len(TrialsOf(c)) \in Nat
          /\ DOMAIN TrialsOf(c) = 1 .. Len(TrialsOf(c))
          /\ Chosen(c) \in 0 .. Len(TrialsOf(c))
          /\ \A n \in DOMAIN TrialsOf(c) : /\ TrialsOf(c)[n].growth \in Int
                                           /\ TrialsOf(c)[n].ok \in BOOLEAN
  BY RegistriesAreSealed DEF Numbers, Registry, TrialsOf, Chosen

LEMMA PassingTypes ==
    ASSUME NEW c \in Numbers, NEW n \in Passing(c)
    PROVE n \in 1 .. Len(TrialsOf(c)) /\ TrialsOf(c)[n].growth \in Int
  BY TrialTypes DEF Passing

(* Where any passes, one is the best of all.                                 *)
LEMMA BestExists ==
    ASSUME NEW c \in Numbers, Passing(c) # {}
    PROVE \E n \in Passing(c) : BestUpTo(c, Len(TrialsOf(c)), n)
<1> DEFINE len == Len(TrialsOf(c))
           Wrong == {m \in 0 .. len : /\ \E k \in Passing(c) : k <= m
                                      /\ \A n \in Passing(c) : ~ BestUpTo(c, m, n)}
<1>1. len \in Nat /\ \A n \in Passing(c) : n \in 1 .. len /\ TrialsOf(c)[n].growth \in Int
  BY TrialTypes, PassingTypes
<1>2. Wrong = {}
  <2> SUFFICES ASSUME Wrong # {} PROVE FALSE
    OBVIOUS
  <2>1. PICK m \in Wrong : \A y \in Wrong : m <= y
    <3>1. Wrong \in SUBSET Nat
      BY <1>1
    <3> HIDE DEF Wrong
    <3> QED BY <3>1, LeastOf
  <2>2. m \in 0 .. len /\ m \in Nat /\ m - 1 \notin Wrong
    <3>1. m \in 0 .. len
      OBVIOUS
    <3>2. m \in Nat
      BY <1>1, <3>1
    <3> HIDE DEF Wrong
    <3> QED BY <2>1, <3>1, <3>2
  <2>3. PICK k \in Passing(c) : k <= m
    BY <2>1
  <2>4. m - 1 \in 0 .. len
    BY <1>1, <2>2, <2>3
  <2>5. CASE \E j \in Passing(c) : j <= m - 1
    <3>1. PICK b \in Passing(c) : BestUpTo(c, m - 1, b)
      BY <2>2, <2>4, <2>5
    <3>2. \A j \in Passing(c) : j <= m => j <= m - 1 \/ j = m
      BY <1>1, <2>2
    <3>3. b \in 1 .. len /\ b <= m - 1 /\ TrialsOf(c)[b].growth \in Int
      BY <1>1, <3>1 DEF BestUpTo
    <3>4. CASE m \in Passing(c) /\ TrialsOf(c)[m].growth > TrialsOf(c)[b].growth
      <4>1. ASSUME NEW j \in Passing(c), j <= m
            PROVE TrialsOf(c)[j].growth < TrialsOf(c)[m].growth \/ j = m
        <5>1. TrialsOf(c)[j].growth \in Int /\ TrialsOf(c)[m].growth \in Int
          BY <1>1, <3>4
        <5>2. j <= m - 1 => \/ TrialsOf(c)[j].growth < TrialsOf(c)[b].growth
                            \/ TrialsOf(c)[j].growth = TrialsOf(c)[b].growth
          BY <3>1 DEF BestUpTo
        <5> QED BY <3>2, <3>3, <3>4, <4>1, <5>1, <5>2
      <4>2. BestUpTo(c, m, m)
        <5>1. \A j \in Passing(c) : j <= m =>
                 \/ TrialsOf(c)[j].growth < TrialsOf(c)[m].growth
                 \/ TrialsOf(c)[j].growth = TrialsOf(c)[m].growth /\ m <= j
          BY <2>2, <4>1
        <5>2. m <= m
          BY <2>2
        <5> QED BY <3>4, <5>1, <5>2 DEF BestUpTo
      <4> QED BY <2>1, <3>4, <4>2
    <3>5. CASE ~ (m \in Passing(c) /\ TrialsOf(c)[m].growth > TrialsOf(c)[b].growth)
      <4>1. m \in Passing(c) => \/ TrialsOf(c)[m].growth < TrialsOf(c)[b].growth
                                \/ TrialsOf(c)[m].growth = TrialsOf(c)[b].growth /\ b <= m
        BY <1>1, <2>2, <3>3, <3>5
      <4>2. b <= m
        BY <1>1, <2>2, <3>3
      <4>3. BestUpTo(c, m, b)
        BY <3>1, <3>2, <4>1, <4>2 DEF BestUpTo
      <4> QED BY <2>1, <3>1, <4>3
    <3> QED BY <3>4, <3>5
  <2>6. CASE ~ \E j \in Passing(c) : j <= m - 1
    <3>1. k = m
      BY <1>1, <2>2, <2>3, <2>6
    <3>2. \A j \in Passing(c) : j <= m => j = m
      BY <1>1, <2>2, <2>6
    <3>3. BestUpTo(c, m, m)
      BY <1>1, <2>2, <2>3, <3>1, <3>2 DEF BestUpTo
    <3> QED BY <2>1, <2>3, <3>1, <3>3
  <2> QED BY <2>5, <2>6
<1>3. len \notin Wrong /\ len \in 0 .. len
  BY <1>1, <1>2
<1>4. \E k \in Passing(c) : k <= len
  BY <1>1
<1> QED BY <1>3, <1>4

(* What the rule selects is what ByRule says, whichever way it was reached.  *)
LEMMA RuleIsByRule ==
    ASSUME NEW c \in Numbers, NEW inventory,
           Configs(c) = inventory, RuleSelected(c) = Chosen(c)
    PROVE ByRule(c, inventory)
<1>1. CASE Passing(c) = {}
  <2>1. Chosen(c) = 0
    BY <1>1 DEF RuleSelected
  <2>2. \A n \in DOMAIN TrialsOf(c) : TrialsOf(c)[n].ok => TrialsOf(c)[n].growth < Floor
    BY <1>1, TrialTypes, RegistriesAreSealed DEF Passing
  <2> QED BY <2>1, <2>2 DEF ByRule
<1>2. CASE Passing(c) # {}
  <2> DEFINE best == Chosen(c)
             Wins(n) == \A m \in Passing(c) :
               \/ TrialsOf(c)[m].growth < TrialsOf(c)[n].growth
               \/ TrialsOf(c)[m].growth = TrialsOf(c)[n].growth /\ n <= m
  <2>1. \E n \in Passing(c) : Wins(n)
    BY <1>2, BestExists, PassingTypes DEF BestUpTo
  <2>2. best = CHOOSE n \in Passing(c) : Wins(n)
    BY <1>2 DEF RuleSelected
  <2>3. best \in Passing(c) /\ Wins(best)
    <3> HIDE DEF Wins, best
    <3> QED BY <2>1, <2>2
  <2>4. best # 0 /\ best \in Nat /\ TrialsOf(c)[best].ok /\ TrialsOf(c)[best].growth >= Floor
    BY <2>3, PassingTypes DEF Passing
  <2>5. ASSUME NEW n \in DOMAIN TrialsOf(c), TrialsOf(c)[n].ok
        PROVE  /\ TrialsOf(c)[n].growth <= TrialsOf(c)[best].growth
               /\ n < best => TrialsOf(c)[n].growth < TrialsOf(c)[best].growth
    <3>1. /\ n \in Nat /\ TrialsOf(c)[n].growth \in Int /\ TrialsOf(c)[best].growth \in Int
          /\ Floor \in Int
      BY <2>3, TrialTypes, PassingTypes, RegistriesAreSealed
    <3>2. CASE n \in Passing(c)
      BY <2>3, <2>4, <3>1, <3>2
    <3>3. CASE n \notin Passing(c)
      <4>1. TrialsOf(c)[n].growth < Floor
        BY <2>5, <3>1, <3>3 DEF Passing
      <4> QED BY <2>4, <3>1, <4>1
    <3> QED BY <3>2, <3>3
  <2> QED BY <2>4, <2>5 DEF ByRule
<1> QED BY <1>1, <1>2

----------------------------------------------------------------------------
(* The dates of a plan that was accepted.                                    *)

LEMMA HorizonIsDays == ASSUME NEW p \in Plans PROVE Horizon(p) \in Int
<1>1. PurgeOf(p.holding, p.label, p.latency) \in Int
  BY PlansAreDated DEF PurgeOf
<1>2. \A t \in Int : RoundUp(t, Day) \in Int
  <2> TAKE t \in Int
  <2>1. (t + Day - 1) \div Day \in Int /\ Day \in Int
    BY UnitAssumption
  <2> QED BY <2>1 DEF RoundUp
<1> QED BY <1>1, <1>2, UnitAssumption DEF Horizon

(* Every fold trains before it tests, with the purge between, and ends a     *)
(* purge before the holdout; the selection ends a purge before all of them.  *)
DatesFit(p, k) ==
  LET b == Boundaries(p, k)
      h == Horizon(p)
  IN  /\ {b.trainStart, b.trainEnd, b.testStart, b.testEnd, h, p.purge, p.train} \subseteq Int
      /\ {p.selection.start, p.selection.end, p.blind.start, p.blind.end} \subseteq Int
      /\ h <= p.purge /\ p.purge > 0
      /\ p.selection.end + p.purge <= b.trainStart
      /\ b.trainStart < b.trainEnd /\ b.trainEnd + p.purge = b.testStart
      /\ b.testStart < b.testEnd /\ b.testEnd + p.purge <= p.blind.start

LEMMA PlansFit ==
    ASSUME NEW p \in Plans, PlanHolds(p), NEW k \in 1 .. p.folds
    PROVE DatesFit(p, k)
<1> DEFINE last == Boundaries(p, p.folds)
           b == Boundaries(p, k)
<1>1. /\ {p.origin, p.first, p.folds, p.train, p.test, p.purge} \subseteq Int
      /\ \A w \in {p.selection, p.nested, p.blind} : w.start \in Int /\ w.end \in Int
      /\ Horizon(p) \in Int
  BY PlansAreDated, HorizonIsDays
<1>2. /\ {p.folds, p.train, p.test, p.purge} \subseteq Nat \ {0}
      /\ p.origin + p.train + p.purge <= p.first
      /\ Horizon(p) <= p.purge
      /\ p.selection.end + p.purge <= p.nested.start
      /\ p.nested.start <= Boundaries(p, 1).trainStart
      /\ last.testEnd + p.purge <= p.blind.start
  BY DEF PlanHolds, FoldsFit
<1>3. /\ p.folds \in Nat /\ k \in Nat /\ k >= 1 /\ k <= p.folds
      /\ k - 1 \in Nat /\ p.folds - 1 \in Nat /\ k - 1 <= p.folds - 1
  BY <1>1, <1>2
<1>4. /\ (k - 1) * p.test <= (p.folds - 1) * p.test /\ 0 * p.test <= (k - 1) * p.test
      /\ 0 * p.test = 0
  BY <1>2, <1>3, Scales
<1>5. (k - 1) * p.test \in Int /\ (p.folds - 1) * p.test \in Int
  BY <1>1, <1>3
<1>6. /\ b.trainStart = p.origin /\ b.testStart = p.first + (k - 1) * p.test
      /\ b.trainEnd = b.testStart - p.purge /\ b.testEnd = b.testStart + p.test
      /\ last.testEnd = p.first + (p.folds - 1) * p.test + p.test
      /\ Boundaries(p, 1).trainStart = p.origin
  BY DEF Boundaries
<1>7. /\ b.trainStart \in Int /\ b.trainEnd \in Int /\ b.testStart \in Int /\ b.testEnd \in Int
      /\ last.testEnd \in Int
  BY <1>1, <1>5, <1>6
<1>8. b.testStart >= p.first /\ b.testEnd <= last.testEnd
  BY <1>1, <1>4, <1>5, <1>6
<1>9. p.train \in Nat /\ p.train > 0 /\ p.purge \in Nat /\ p.purge > 0 /\ p.test > 0
  BY <1>2
<1>10. /\ p.selection.end + p.purge <= b.trainStart
       /\ b.trainStart < b.trainEnd /\ b.trainEnd + p.purge = b.testStart
       /\ b.testStart < b.testEnd /\ b.testEnd + p.purge <= p.blind.start
  <2> HIDE DEF b, last
  <2> QED BY <1>1, <1>2, <1>6, <1>7, <1>8, <1>9
<1> QED BY <1>1, <1>2, <1>7, <1>9, <1>10 DEF DatesFit

----------------------------------------------------------------------------
(* The invariant.                                                            *)

(* What has been read, and that nothing is read before the plan is accepted. *)
Base ==
  /\ plan \in Plans
  /\ declared = "declared" => PlanHolds(plan)
  /\ \/ disk = [f \in Files |-> 0]
     \/ disk \in [Files -> Numbers] /\ declared = "declared"
  /\ final = 0 \/ (final \in Numbers /\ declared = "declared")
  /\ \/ inner = [k \in Folds |-> None]
     \/ inner \in [Folds -> [file : Paths, content : Numbers]]

(* What a freeze binds was chosen by the rule.                               *)
FrozenByRule == freeze # None => ByRule(freeze.registry, FinalInventory)

(* What is assembled fits together, whatever has become of the files.        *)
FinalFits ==
  /\ Covered(final) = [from |-> plan.selection.start, to |-> plan.selection.end]
  /\ freeze.registry = final /\ freeze.trial = Chosen(final)
FoldFits(k) ==
  /\ ByRule(inner[k].content, NestedInventory)
  /\ Covered(inner[k].content) =
       [from |-> Boundaries(plan, k).trainStart, to |-> Boundaries(plan, k).trainEnd]
  /\ evidence.claims[k].bounds = Boundaries(plan, k)
  /\ Boundaries(plan, k).trainEnd <= evidence.claims[k].at
  /\ evidence.claims[k].at < Boundaries(plan, k).testStart
HoldoutFits ==
  /\ holdout.candidate = freeze
  /\ holdout.from = plan.blind.start /\ holdout.to = plan.blind.end
  /\ freeze.at < plan.blind.start /\ evidence.authorized >= plan.blind.end

Assembled ==
  evidence # None =>
    /\ PlanHolds(plan) /\ \A k \in Folds : inner[k] # None
    /\ FinalFits /\ HoldoutFits /\ \A k \in Folds : FoldFits(k)

GateInv == Base /\ FrozenByRule /\ Assembled

LEMMA BaseStep == ASSUME Base, [Next]_vars PROVE Base'
<1>1. CASE Declare
  BY <1>1 DEF Base, Declare, Folds
<1>2. CASE Seal
  <2>1. disk' \in [Files -> Numbers] /\ UNCHANGED <<plan, declared, final, inner>>
    BY <1>2 DEF Seal
  <2> QED BY <1>2, <2>1 DEF Base, Seal, Folds
<1>3. ASSUME NEW f \in Files, NEW c \in Numbers, Tamper(f, c) PROVE Base'
  <2>1. disk[f] # 0 /\ UNCHANGED <<plan, declared, final, inner>>
    BY <1>3 DEF Tamper
  <2>2. disk \in [Files -> Numbers]
    BY <2>1 DEF Base
  <2>3. disk' \in [Files -> Numbers]
    BY <1>3, <2>2 DEF Tamper
  <2> QED BY <2>1, <2>2, <2>3 DEF Base, Folds
<1>4. CASE CaptureFinal
  <2>1. disk[FinalFile] # 0 /\ FinalFile \in Files /\ final' = disk[FinalFile]
        /\ UNCHANGED <<plan, declared, disk, inner>>
    BY <1>4 DEF CaptureFinal, Files
  <2>2. disk \in [Files -> Numbers] /\ declared = "declared"
    BY <2>1 DEF Base
  <2> QED BY <2>1, <2>2 DEF Base, Folds
<1>5. ASSUME NEW files \in [Folds -> Paths], CaptureInner(files) PROVE Base'
  <2>1. disk[FinalFile] # 0 /\ FinalFile \in Files /\ Paths \subseteq Files
        /\ inner' = [k \in Folds |-> [file |-> files[k], content |-> disk[files[k]]]]
        /\ UNCHANGED <<plan, declared, disk, final>>
    BY <1>5 DEF CaptureInner, Files
  <2>2. disk \in [Files -> Numbers]
    BY <2>1 DEF Base
  <2>3. inner' \in [Folds -> [file : Paths, content : Numbers]]
    BY <1>5, <2>1, <2>2
  <2> QED BY <2>1, <2>2, <2>3 DEF Base, Folds
<1>6. CASE UNCHANGED <<plan, declared, disk, final, inner>>
  BY <1>6 DEF Base, Folds
<1>7. ASSUME NEW at \in Freezings, CaptureSelection(at) \/ CaptureRejectAll(at) PROVE Base'
  BY <1>6, <1>7 DEF CaptureSelection, CaptureRejectAll
<1>8. ASSUME NEW end \in {plan.blind.end - 1, plan.blind.end}, RunHoldout(end) \/ Assemble(end)
      PROVE Base'
  BY <1>6, <1>8 DEF RunHoldout, Assemble
<1>9. CASE Evaluate \/ UNCHANGED vars
  BY <1>6, <1>9 DEF Evaluate, vars
<1> QED BY <1>1, <1>2, <1>3, <1>4, <1>5, <1>7, <1>8, <1>9 DEF Next

(* A freeze is only made by the two captures, of the registry they verify.   *)
LEMMA FreezeStep == ASSUME Base, FrozenByRule, [Next]_vars PROVE FrozenByRule'
<1>1. ASSUME NEW at \in Freezings, CaptureSelection(at) \/ CaptureRejectAll(at)
      PROVE  FrozenByRule'
  <2>1. freeze'.registry = final /\ final # 0 /\ Freezable(final)
    BY <1>1 DEF CaptureSelection, CaptureRejectAll, Frozen, FinalVerifies
  <2>2. ByRule(final, FinalInventory)
    BY <2>1, RuleIsByRule DEF Base, Freezable
  <2>3. ByRule(freeze'.registry, FinalInventory)
    BY <2>1, <2>2
  <2> QED BY <2>3 DEF FrozenByRule, ByRule, TrialsOf, Chosen, Configs
<1>2. CASE UNCHANGED freeze
  BY <1>2 DEF FrozenByRule
<1>3. CASE Declare \/ Seal \/ CaptureFinal \/ Evaluate \/ UNCHANGED vars
  BY <1>2, <1>3 DEF Declare, Seal, CaptureFinal, Evaluate, vars
<1>4. ASSUME NEW f \in Files, NEW c \in Numbers, Tamper(f, c) PROVE FrozenByRule'
  BY <1>2, <1>4 DEF Tamper
<1>5. ASSUME NEW files \in [Folds -> Paths], CaptureInner(files) PROVE FrozenByRule'
  BY <1>2, <1>5 DEF CaptureInner
<1>6. ASSUME NEW end \in {plan.blind.end - 1, plan.blind.end}, RunHoldout(end) \/ Assemble(end)
      PROVE FrozenByRule'
  BY <1>2, <1>6 DEF RunHoldout, Assemble
<1> QED BY <1>1, <1>3, <1>4, <1>5, <1>6 DEF Next

(* Of a fold that is claimed, all that the evidence says of it.              *)
LEMMA FoldsAssemble ==
    ASSUME Base, NEW authorized, Assemble(authorized), NEW k \in Folds
    PROVE FoldFits(k)'
<1>1. PICK claims \in [Folds -> {claim \in Claims : FoldEvident(claim)}] :
        /\ FoldsEvident(claims)
        /\ evidence' = [claims |-> claims, authorized |-> authorized]
  BY DEF Assemble
<1>2. UNCHANGED <<plan, inner>> /\ InnerEvident
  BY DEF Assemble
<1>3. /\ claims[k].bounds = Boundaries(plan, k)
      /\ Covered(inner[k].content) = [from |-> claims[k].bounds.trainStart,
                                      to |-> claims[k].bounds.trainEnd]
  BY <1>1 DEF FoldsEvident
<1>4. FoldEvident(claims[k])
  BY <1>1
<1>5. ByRule(inner[k].content, NestedInventory)
  <2>1. inner[k] # None /\ k \in Folds
    BY <1>2 DEF InnerEvident, InnerVerifies
  <2>2. inner[k].content \in Numbers
    BY <2>1 DEF Base
  <2>3. Configs(inner[k].content) = NestedInventory
        /\ RuleSelected(inner[k].content) = Chosen(inner[k].content)
    BY <1>2 DEF InnerEvident
  <2> QED BY <2>2, <2>3, RuleIsByRule
<1>6. evidence'.claims[k] = claims[k]
  BY <1>1
<1> QED BY <1>2, <1>3, <1>4, <1>5, <1>6
        DEF FoldFits, FoldEvident, ByRule, TrialsOf, Chosen, Configs, Covered

LEMMA EvidenceAssembles ==
    ASSUME Base, NEW authorized, Assemble(authorized) PROVE Assembled'
<1>1. /\ InnerEvident /\ FinalEvident /\ ProtocolEvident(authorized)
      /\ UNCHANGED <<plan, declared, disk, final, inner, freeze, holdout>>
  BY DEF Assemble
<1>2. PICK claims : HoldoutEvident(claims)
                    /\ evidence' = [claims |-> claims, authorized |-> authorized]
  BY DEF Assemble
<1>3. PlanHolds(plan) /\ \A k \in Folds : inner[k] # None
  BY <1>1 DEF Base, FinalEvident, FinalVerifies, InnerEvident, InnerVerifies
<1>4. FinalFits'
  BY <1>1 DEF FinalEvident, FinalFits, Covered, Chosen
<1>5. HoldoutFits'
  <2>1. plan.blind.role = "blind"
    BY <1>3 DEF PlanHolds
  <2>2. freeze.at # Unfrozen /\ authorized >= plan.blind.end
    BY <1>1, <2>1 DEF ProtocolEvident, Accessible
  <2>3. freeze.at < plan.blind.start
    BY <1>1, <2>1, <2>2 DEF ProtocolEvident, ProtocolHolds
  <2>4. evidence'.authorized = authorized
    BY <1>2
  <2> QED BY <1>1, <1>2, <2>2, <2>3, <2>4 DEF HoldoutEvident, HoldoutFits
<1>6. \A k \in Folds : FoldFits(k)'
  BY FoldsAssemble
<1>7. PlanHolds(plan)' /\ Folds' = Folds /\ \A k \in Folds : (inner[k] # None)'
  BY <1>1, <1>3 DEF Folds
<1> QED BY <1>4, <1>5, <1>6, <1>7 DEF Assembled

LEMMA AssembledStep == ASSUME Base, Assembled, [Next]_vars PROVE Assembled'
<1>1. CASE UNCHANGED <<plan, final, inner, freeze, holdout, evidence>>
  BY <1>1 DEF Assembled, Folds, FinalFits, HoldoutFits, FoldFits, Covered
<1>2. CASE evidence = None /\ UNCHANGED evidence
  BY <1>2 DEF Assembled
<1>3. CASE Declare \/ Seal \/ Evaluate \/ UNCHANGED vars
  BY <1>1, <1>3 DEF Declare, Seal, Evaluate, vars
<1>4. ASSUME NEW f \in Files, NEW c \in Numbers, Tamper(f, c) PROVE Assembled'
  BY <1>1, <1>4 DEF Tamper
<1>5. CASE CaptureFinal
  BY <1>2, <1>5 DEF CaptureFinal
<1>6. ASSUME NEW files \in [Folds -> Paths], CaptureInner(files) PROVE Assembled'
  <2>1. ~ PlanHolds(plan) \/ Folds # {}
    <3> SUFFICES ASSUME PlanHolds(plan) PROVE 1 \in Folds
      OBVIOUS
    <3> QED BY DEF PlanHolds, FoldsFit, Folds
  <2>2. evidence = None
    BY <1>6, <2>1 DEF CaptureInner, Assembled
  <2> QED BY <1>2, <1>6, <2>2 DEF CaptureInner
<1>7. ASSUME NEW at \in Freezings, CaptureSelection(at) \/ CaptureRejectAll(at)
      PROVE  Assembled'
  BY <1>2, <1>7 DEF CaptureSelection, CaptureRejectAll
<1>8. ASSUME NEW end \in {plan.blind.end - 1, plan.blind.end}, RunHoldout(end) \/ Assemble(end)
      PROVE Assembled'
  <2>1. CASE RunHoldout(end)
    BY <1>2, <2>1 DEF RunHoldout
  <2> QED BY <1>8, <2>1, EvidenceAssembles
<1> QED BY <1>3, <1>4, <1>5, <1>6, <1>7, <1>8 DEF Next

LEMMA GateHolds == Spec => []GateInv
<1>1. Init => GateInv
  BY DEF Init, GateInv, Base, FrozenByRule, Assembled, Folds
<1>2. GateInv /\ [Next]_vars => GateInv'
  BY BaseStep, FreezeStep, AssembledStep DEF GateInv
<1> QED BY <1>1, <1>2, PTL DEF Spec

----------------------------------------------------------------------------
(* The theorems.                                                             *)

(* Counting the days an outcome may still take, no day that served a choice  *)
(* is a day it is judged on, for any plan that was accepted and any number   *)
(* of folds (JudgedDaysAreFresh).                                            *)
THEOREM JudgedFresh == Spec => []JudgedDaysAreFresh
<1>1. ASSUME GateInv, evidence # None PROVE JudgedDaysAreFresh
  <2> DEFINE h == Horizon(plan)
             seen == Covered(final)
  <2>1. /\ plan \in Plans /\ PlanHolds(plan) /\ FinalFits /\ \A k \in Folds : FoldFits(k)
    BY <1>1 DEF GateInv, Base, Assembled
  <2>2. seen.from = plan.selection.start /\ seen.to = plan.selection.end
    BY <2>1 DEF FinalFits
  <2>3. 1 \in Folds /\ \A k \in Folds : DatesFit(plan, k)
    BY <2>1, PlansFit DEF PlanHolds, FoldsFit, Folds
  <2>4. ~ Overlap(seen.from, seen.to + h, plan.blind.start, plan.blind.end)
    <3>1. DatesFit(plan, 1)
      BY <2>3
    <3>2. plan.selection.end + h <= plan.blind.start
      BY <3>1 DEF DatesFit
    <3> QED BY <2>2, <3>1, <3>2 DEF Overlap, DatesFit
  <2>5. ASSUME NEW k \in Folds
        PROVE LET b == evidence.claims[k].bounds
                  days == Covered(inner[k].content)
              IN  /\ ~ Overlap(seen.from, seen.to + h, b.testStart, b.testEnd)
                  /\ ~ Overlap(days.from, days.to + h, b.testStart, b.testEnd)
                  /\ ~ Overlap(b.testStart, b.testEnd + h, plan.blind.start, plan.blind.end)
                  /\ days.to <= evidence.claims[k].at /\ evidence.claims[k].at < b.testStart
    <3> DEFINE b == Boundaries(plan, k)
    <3>1. /\ evidence.claims[k].bounds = b
          /\ Covered(inner[k].content).from = b.trainStart
          /\ Covered(inner[k].content).to = b.trainEnd
          /\ b.trainEnd <= evidence.claims[k].at /\ evidence.claims[k].at < b.testStart
      <4>1. FoldFits(k)
        BY <2>1
      <4>2. Covered(inner[k].content) = [from |-> b.trainStart, to |-> b.trainEnd]
        BY <4>1 DEF FoldFits
      <4> HIDE DEF b
      <4> QED BY <4>1, <4>2 DEF FoldFits, b
    <3>2. DatesFit(plan, k)
      BY <2>3
    <3>3. /\ plan.selection.end + h <= b.testStart /\ b.trainEnd + h <= b.testStart
          /\ b.testEnd + h <= plan.blind.start
      BY <3>2 DEF DatesFit
    <3> QED BY <2>2, <3>1, <3>2, <3>3 DEF Overlap, DatesFit
  <2> QED BY <2>4, <2>5 DEF JudgedDaysAreFresh
<1>2. GateInv => JudgedDaysAreFresh
  BY <1>1 DEF JudgedDaysAreFresh
<1> QED BY <1>2, GateHolds, PTL

(* Every choice the evidence rests on is what the predeclared rule says of   *)
(* the whole predeclared inventory, whatever registries are put in the place *)
(* of others meanwhile (ChoicesFollowTheRule).                               *)
THEOREM ChosenByRule == Spec => []ChoicesFollowTheRule
<1>1. GateInv => ChoicesFollowTheRule
  BY DEF GateInv, FrozenByRule, Assembled, FoldFits, ChoicesFollowTheRule
<1> QED BY <1>1, GateHolds, PTL

(* The candidate that was frozen, run and selected is one, frozen before its *)
(* holdout began and judged after it ended (OneCandidate).                   *)
THEOREM CandidateIsOne == Spec => []OneCandidate
<1>1. GateInv => OneCandidate
  BY DEF GateInv, Assembled, FinalFits, HoldoutFits, OneCandidate
<1> QED BY <1>1, GateHolds, PTL
===============================================================================
