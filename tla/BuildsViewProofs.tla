-------------------------- MODULE BuildsViewProofs --------------------------
(***************************************************************************)
(* Proofs about BuildsView, for any number of builds, polling calls,       *)
(* refreshes and scrolls and for any size of a page: however the answers   *)
(* overlap, no build has two tabs, the tabs between the cursors are        *)
(* complete and newest first, the open tab stays, and the requests of the  *)
(* page run the loop of usePolling.                                        *)
(*                                                                         *)
(* The argument: the builds that exist have consecutive ids.  Without a    *)
(* build or a version in the URL the tabs are then an interval of ids, the *)
(* cursors lie in it, and so does the cursor of every request, however     *)
(* old: an answer begins right next to a build that has a tab.             *)
(***************************************************************************)
EXTENDS BuildsView, FiniteSetTheorems, SequenceTheorems, TLAPS

-----------------------------------------------------------------------------
(* Sequences by position. *)

\* The place of x in the order of S.
Place(S, x) == Cardinality({y \in S : y < x})

\* Places are those of a sequence that is as long as the set is large.
LEMMA PlaceType ==
  ASSUME NEW S \in SUBSET Int, IsFiniteSet(S), NEW x \in S
  PROVE  Place(S, x) \in 0..(Cardinality(S) - 1) /\ Cardinality(S) \in Nat
<1> DEFINE B == {y \in S : y < x}
<1>1. Cardinality(S) \in Nat
  BY FS_CardinalityType
<1>2. B \in SUBSET S /\ B # S
  OBVIOUS
<1>3. IsFiniteSet(B) /\ Cardinality(B) <= Cardinality(S)
      /\ (Cardinality(S) = Cardinality(B) => S = B)
  BY <1>2, FS_Subset
<1>4. Cardinality(B) \in Nat
  BY <1>3, FS_CardinalityType
<1> HIDE DEF B
<1>5. Cardinality(B) \in 0..(Cardinality(S) - 1)
  BY <1>1, <1>2, <1>3, <1>4
<1> QED BY <1>1, <1>5 DEF Place, B

\* Places follow the order.
LEMMA PlaceOrder ==
  ASSUME NEW S \in SUBSET Int, IsFiniteSet(S), NEW x \in S, NEW z \in S, x < z
  PROVE  Place(S, x) < Place(S, z)
<1> DEFINE B == {y \in S : y < x}
           C == {y \in S : y < z}
<1>1. B \in SUBSET C /\ B # C
  <2>1. x \in C /\ x \notin B
    OBVIOUS
  <2>2. ASSUME NEW y \in B PROVE y \in C
    OBVIOUS
  <2> QED BY <2>1, <2>2
<1>2. IsFiniteSet(C)
  BY FS_Subset
<1>3. IsFiniteSet(B) /\ Cardinality(B) <= Cardinality(C)
      /\ (Cardinality(C) = Cardinality(B) => C = B)
  BY <1>1, <1>2, FS_Subset
<1>4. Cardinality(B) \in Nat /\ Cardinality(C) \in Nat
  BY <1>2, <1>3, FS_CardinalityType
<1> HIDE DEF B, C
<1>5. Cardinality(B) < Cardinality(C)
  BY <1>1, <1>3, <1>4
<1> QED BY <1>5 DEF Place, B, C

\* Every place is taken: different elements have different places, and there are
\* as many places as elements.
LEMMA PlaceTaken ==
  ASSUME NEW S \in SUBSET Int, IsFiniteSet(S), NEW k \in 1..Cardinality(S)
  PROVE  \E x \in S : Place(S, x) = k - 1
<1> DEFINE n == Cardinality(S)
           T == 0..(n - 1)
           f == [x \in S |-> Place(S, x)]
<1>1. n \in Nat
  BY FS_CardinalityType
<1>2. f \in [S -> T]
  BY PlaceType
<1>3. ASSUME NEW x \in S, NEW z \in S, f[x] = f[z] PROVE x = z
  <2>1. x < z \/ z < x \/ x = z
    OBVIOUS
  <2>2. f[x] \in T /\ f[z] \in T
    BY <1>2
  <2>3. x < z => f[x] < f[z]
    BY PlaceOrder
  <2>4. z < x => f[z] < f[x]
    BY PlaceOrder
  <2> QED BY <1>1, <1>3, <2>1, <2>2, <2>3, <2>4
<1> HIDE DEF f
<1>4. f \in Injection(S, T)
  BY <1>2, <1>3 DEF Injection, IsInjective
<1>5. IsFiniteSet(T) /\ Cardinality(T) = n
  <2> HIDE DEF n
  <2>1. 0 \in Int /\ n - 1 \in Int
    BY <1>1
  <2>2. IsFiniteSet(0..(n - 1))
        /\ Cardinality(0..(n - 1)) = IF 0 > n - 1 THEN 0 ELSE n - 1 - 0 + 1
    BY <2>1, FS_Interval
  <2> QED BY <1>1, <2>2
<1>6. f \in Surjection(S, T)
  BY <1>4, <1>5, FS_Injection
<1>7. PICK x \in S : f[x] = k - 1
  BY <1>1, <1>6 DEF Surjection
<1> QED BY <1>7 DEF f

\* Ascending lists the elements of S in their order.
LEMMA AscendingFacts ==
  ASSUME NEW S \in SUBSET Int, IsFiniteSet(S)
  PROVE  /\ Cardinality(S) \in Nat
         /\ \A k \in 1..Cardinality(S) : Ascending(S)[k] \in S
         /\ \A j, k \in 1..Cardinality(S) : j < k => Ascending(S)[j] < Ascending(S)[k]
         /\ \A x \in S : \E k \in 1..Cardinality(S) : Ascending(S)[k] = x
<1> DEFINE n == Cardinality(S)
<1>1. n \in Nat
  BY FS_CardinalityType
<1>2. ASSUME NEW k \in 1..n
      PROVE  Ascending(S)[k] \in S /\ Place(S, Ascending(S)[k]) = k - 1
  <2>1. Ascending(S)[k] = CHOOSE x \in S : Place(S, x) = k - 1
    BY DEF Ascending, Place
  <2> QED BY <2>1, PlaceTaken
<1>3. ASSUME NEW j \in 1..n, NEW k \in 1..n, j < k
      PROVE  Ascending(S)[j] < Ascending(S)[k]
  <2> DEFINE x == Ascending(S)[j]
             z == Ascending(S)[k]
  <2>1. x \in S /\ z \in S /\ Place(S, x) = j - 1 /\ Place(S, z) = k - 1
    BY <1>2
  <2> HIDE DEF x, z
  <2>2. x \in Int /\ z \in Int
    BY <2>1
  <2>3. ~ z < x
    BY <1>1, <1>3, <2>1, PlaceOrder
  <2>4. x # z
    BY <1>1, <1>3, <2>1
  <2>5. x < z
    BY <2>2, <2>3, <2>4
  <2> QED BY <2>5 DEF x, z
<1>4. ASSUME NEW x \in S PROVE \E k \in 1..n : Ascending(S)[k] = x
  <2> DEFINE k == Place(S, x) + 1
  <2>1. k \in 1..n
    BY <1>1, PlaceType
  <2>2. Ascending(S)[k] \in S /\ Place(S, Ascending(S)[k]) = k - 1
    BY <1>2, <2>1
  <2> DEFINE z == Ascending(S)[k]
  <2>3. z \in S /\ Place(S, z) = Place(S, x) /\ Place(S, x) \in Int
    BY <2>2, PlaceType
  <2> HIDE DEF z, k
  <2>4. ~ z < x /\ ~ x < z
    BY <2>3, PlaceOrder
  <2>5. z = x
    BY <2>3, <2>4
  <2> QED BY <2>1, <2>5 DEF z
<1> QED BY <1>1, <1>2, <1>3, <1>4

-----------------------------------------------------------------------------
(* Lists of entries. *)

Sorted(bs) == \A j, k \in DOMAIN bs : j < k => bs[j].id > bs[k].id
Distinct(bs) == \A j, k \in DOMAIN bs : bs[j].id = bs[k].id => j = k

\* An entry at a position, and what makes a list.
LEMMA EntryOf ==
  ASSUME NEW bs \in Seq(Entry)
  PROVE  /\ Len(bs) \in Nat /\ DOMAIN bs = 1..Len(bs)
         /\ \A k \in DOMAIN bs : bs[k] \in Entry /\ bs[k].id \in IDs /\ bs[k].status \in Statuses
         /\ Ids(bs) \subseteq IDs
         /\ (bs = <<>>) <=> (Len(bs) = 0)
<1>1. Len(bs) \in Nat /\ DOMAIN bs = 1..Len(bs)
  OBVIOUS
<1>2. \A k \in DOMAIN bs : bs[k] \in Entry /\ bs[k].id \in IDs /\ bs[k].status \in Statuses
  <2> SUFFICES ASSUME NEW k \in DOMAIN bs
               PROVE  bs[k] \in Entry /\ bs[k].id \in IDs /\ bs[k].status \in Statuses
    OBVIOUS
  <2>1. bs[k] \in Entry
    BY <1>1, ElementOfSeq
  <2> QED BY <2>1 DEF Entry
<1> QED BY <1>1, <1>2 DEF Ids

LEMMA IDsFacts == IDs \subseteq Int /\ IsFiniteSet(IDs) /\ 0 \notin IDs /\ IDs \subseteq 0..MaxBuild
  BY ViewAssumption, FS_Interval DEF IDs

\* The entries at some positions.
LEMMA AtFacts ==
  ASSUME NEW bs \in Seq(Entry), NEW P \in SUBSET DOMAIN bs
  PROVE  /\ At(bs, P) \in Seq(Entry) /\ Len(At(bs, P)) = Cardinality(P)
         /\ Ids(At(bs, P)) = {bs[k].id : k \in P}
         /\ Sorted(bs) => Sorted(At(bs, P))
         /\ Distinct(bs) => Distinct(At(bs, P))
         /\ P # {} => At(bs, P) # <<>>
<1> DEFINE n == Cardinality(P)
           a == Ascending(P)
           s == At(bs, P)
<1>1. P \in SUBSET Int /\ IsFiniteSet(P)
  <2>1. DOMAIN bs = 1..Len(bs) /\ Len(bs) \in Nat
    BY EntryOf
  <2>2. IsFiniteSet(1..Len(bs))
    BY <2>1, FS_Interval
  <2> QED BY <2>1, <2>2, FS_Subset
<1>2. /\ n \in Nat
      /\ \A k \in 1..n : a[k] \in P
      /\ \A j, k \in 1..n : j < k => a[j] < a[k]
      /\ \A x \in P : \E k \in 1..n : a[k] = x
  BY <1>1, AscendingFacts
<1>3. s = [k \in 1..n |-> bs[a[k]]]
  BY DEF At
<1> HIDE DEF n, a, s
<1>4. \A k \in 1..n : s[k] = bs[a[k]] /\ s[k] \in Entry
  BY <1>2, <1>3, EntryOf
<1>5. s \in Seq(Entry) /\ DOMAIN s = 1..n /\ Len(s) = n
  BY <1>2, <1>3, <1>4
<1>6. Ids(s) = {bs[k].id : k \in P}
  <2>1. ASSUME NEW x \in P PROVE bs[x].id \in Ids(s)
    <3>1. PICK k \in 1..n : a[k] = x
      BY <1>2
    <3> QED BY <1>4, <1>5, <3>1 DEF Ids
  <2>2. ASSUME NEW k \in DOMAIN s PROVE s[k].id \in {bs[x].id : x \in P}
    BY <1>2, <1>4, <1>5
  <2> QED BY <2>1, <2>2 DEF Ids
<1>7. Sorted(bs) => Sorted(s)
  BY <1>2, <1>4, <1>5 DEF Sorted
<1>8. Distinct(bs) => Distinct(s)
  <2> SUFFICES ASSUME Distinct(bs), NEW j \in 1..n, NEW k \in 1..n, s[j].id = s[k].id
               PROVE  j = k
    BY <1>5 DEF Distinct
  <2>1. a[j] = a[k]
    <3>1. a[j] \in DOMAIN bs /\ a[k] \in DOMAIN bs
      BY <1>2
    <3>2. bs[a[j]].id = bs[a[k]].id
      BY <1>4
    <3> QED BY <3>1, <3>2 DEF Distinct
  <2>2. ~ j < k /\ ~ k < j
    BY <1>1, <1>2, <2>1
  <2> QED BY <1>2, <2>2
<1>9. P # {} => s # <<>>
  <2> SUFFICES ASSUME P # {} PROVE s # <<>>
    OBVIOUS
  <2>1. PICK x : x \in P
    OBVIOUS
  <2>2. PICK k \in 1..n : a[k] = x
    BY <1>2, <2>1
  <2> QED BY <1>5, <2>2
<1> QED BY <1>5, <1>6, <1>7, <1>8, <1>9 DEF s, n

\* An initial interval has its numbers at their places.
LEMMA PlaceInInterval ==
  ASSUME NEW n \in Nat, NEW j \in 1..n
  PROVE  Cardinality({m \in 1..n : m < j}) = j - 1
<1>1. {m \in 1..n : m < j} = 1..(j - 1)
  OBVIOUS
<1>2. Cardinality(1..(j - 1)) = IF 1 > j - 1 THEN 0 ELSE j - 1 - 1 + 1
  <2>1. 1 \in Int /\ j - 1 \in Int
    OBVIOUS
  <2> QED BY <2>1, FS_Interval
<1>3. (IF 1 > j - 1 THEN 0 ELSE j - 1 - 1 + 1) = j - 1
  OBVIOUS
<1> QED BY <1>1, <1>2, <1>3

\* Nothing is left out: the list as it was.
LEMMA AtAll ==
  ASSUME NEW bs \in Seq(Entry)
  PROVE  At(bs, DOMAIN bs) = bs
<1> DEFINE n == Len(bs)
<1>1. n \in Nat /\ DOMAIN bs = 1..n
  BY EntryOf
<1>2. Cardinality(1..n) = n
  BY <1>1, FS_Interval
<1>3. ASSUME NEW k \in 1..n PROVE Ascending(1..n)[k] = k
  <2>1. Ascending(1..n)[k] = CHOOSE x \in 1..n : Cardinality({y \in 1..n : y < x}) = k - 1
    BY <1>2 DEF Ascending
  <2>2. \A x \in 1..n : Cardinality({y \in 1..n : y < x}) = x - 1
    BY <1>1, PlaceInInterval
  <2> QED BY <1>1, <2>1, <2>2
<1>4. At(bs, 1..n) = [k \in 1..n |-> bs[k]]
  BY <1>2, <1>3 DEF At
<1> QED BY <1>1, <1>4

\* sortBuilds changes nothing: an entry of the API has no field number.
LEMMA SortIsIdentity ==
  ASSUME NEW bs \in Seq(Entry)
  PROVE  sortBuilds(bs) = bs
<1> DEFINE n == Len(bs)
<1>1. n \in Nat /\ DOMAIN bs = 1..n /\ \A k \in 1..n : bs[k] \in Entry
  BY EntryOf
<1>2. \A k \in 1..n : Key(bs[k]) = 0
  BY <1>1 DEF Key, Entry
<1> DEFINE before(j) == {m \in 1..n : \/ Key(bs[m]) > Key(bs[j])
                                      \/ Key(bs[m]) = Key(bs[j]) /\ m < j}
<1>3. ASSUME NEW j \in 1..n PROVE Cardinality(before(j)) = j - 1
  <2>1. before(j) = {m \in 1..n : m < j}
    BY <1>2
  <2> QED BY <1>1, <2>1, PlaceInInterval
<1>4. sortBuilds(bs) = [k \in 1..n |-> bs[CHOOSE j \in 1..n : Cardinality(before(j)) = k - 1]]
  BY <1>1 DEF sortBuilds
<1>5. ASSUME NEW k \in 1..n
      PROVE  (CHOOSE j \in 1..n : Cardinality(before(j)) = k - 1) = k
  <2> HIDE DEF before
  <2> QED BY <1>1, <1>3
<1>6. sortBuilds(bs) = [k \in 1..n |-> bs[k]]
  <2> HIDE DEF before
  <2> QED BY <1>4, <1>5
<1> QED BY <1>1, <1>6

\* A list in order has no build twice.
LEMMA SortedIsDistinct ==
  ASSUME NEW bs \in Seq(Entry), Sorted(bs)
  PROVE  Distinct(bs)
<1> SUFFICES ASSUME NEW j \in DOMAIN bs, NEW k \in DOMAIN bs, bs[j].id = bs[k].id
             PROVE  j = k
  BY DEF Distinct
<1>1. j \in Int /\ k \in Int /\ bs[j].id \in Int /\ bs[k].id \in Int
  <2>1. Len(bs) \in Nat /\ DOMAIN bs = 1..Len(bs)
    BY EntryOf
  <2>2. bs[j].id \in IDs /\ bs[k].id \in IDs
    BY EntryOf
  <2>3. j \in 1..Len(bs) /\ k \in 1..Len(bs)
    BY <2>1
  <2>4. j \in Int /\ k \in Int
    BY <2>1, <2>3
  <2> QED BY <2>2, <2>4, IDsFacts
<1>2. ~ j < k /\ ~ k < j
  BY <1>1 DEF Sorted
<1> QED BY <1>1, <1>2

\* Two lists, one after the other.
LEMMA JoinFacts ==
  ASSUME NEW a \in Seq(Entry), NEW b \in Seq(Entry)
  PROVE  /\ a \o b \in Seq(Entry) /\ Len(a \o b) = Len(a) + Len(b)
         /\ Ids(a \o b) = Ids(a) \union Ids(b)
         /\ Sorted(a) /\ Sorted(b) /\ (\A i \in Ids(a), j \in Ids(b) : i > j) => Sorted(a \o b)
         /\ Distinct(a) /\ Distinct(b) /\ Ids(a) \intersect Ids(b) = {} => Distinct(a \o b)
<1> DEFINE c == a \o b
           m == Len(a)
           n == Len(b)
<1>1. /\ m \in Nat /\ n \in Nat /\ DOMAIN a = 1..m /\ DOMAIN b = 1..n
      /\ c \in Seq(Entry) /\ Len(c) = m + n /\ DOMAIN c = 1..(m + n)
  <2>1. c \in Seq(Entry) /\ Len(c) = m + n
    BY ConcatProperties
  <2>2. DOMAIN c = 1..Len(c)
    BY <2>1, EntryOf
  <2> QED BY <2>1, <2>2, EntryOf
<1>2. \A k \in 1..(m + n) : c[k] = IF k <= m THEN a[k] ELSE b[k - m]
  BY ConcatProperties
<1> HIDE DEF c, m, n
<1>3. /\ \A k \in 1..m : k \in 1..(m + n) /\ c[k] = a[k]
      /\ \A k \in 1..n : k + m \in 1..(m + n) /\ c[k + m] = b[k]
  <2>1. ASSUME NEW k \in 1..m PROVE k \in 1..(m + n) /\ c[k] = a[k]
    BY <1>1, <1>2
  <2>2. ASSUME NEW k \in 1..n PROVE k + m \in 1..(m + n) /\ c[k + m] = b[k]
    <3>1. k + m \in 1..(m + n) /\ ~ k + m <= m /\ k + m - m = k
      BY <1>1
    <3>2. PICK i \in 1..(m + n) : i = k + m
      BY <3>1
    <3>3. ~ i <= m /\ i - m = k
      BY <1>1, <3>2
    <3>4. c[i] = b[i - m]
      BY <1>2, <3>2, <3>3
    <3> QED BY <3>1, <3>2, <3>3, <3>4
  <2> QED BY <2>1, <2>2
<1>4. \A k \in 1..(m + n) : \/ k \in 1..m /\ c[k] = a[k]
                            \/ k > m /\ k - m \in 1..n /\ c[k] = b[k - m]
  BY <1>1, <1>2
<1>5. Ids(c) = Ids(a) \union Ids(b)
  <2>1. ASSUME NEW k \in DOMAIN c PROVE c[k].id \in Ids(a) \union Ids(b)
    BY <1>1, <1>4 DEF Ids
  <2>2. ASSUME NEW k \in DOMAIN a PROVE a[k].id \in Ids(c)
    BY <1>1, <1>3 DEF Ids
  <2>3. ASSUME NEW k \in DOMAIN b PROVE b[k].id \in Ids(c)
    BY <1>1, <1>3 DEF Ids
  <2> QED BY <2>1, <2>2, <2>3 DEF Ids
<1>6. ASSUME Sorted(a), Sorted(b), \A i \in Ids(a), j \in Ids(b) : i > j
      PROVE  Sorted(c)
  <2> SUFFICES ASSUME NEW j \in 1..(m + n), NEW k \in 1..(m + n), j < k
               PROVE  c[j].id > c[k].id
    BY <1>1 DEF Sorted
  <2>1. CASE k \in 1..m /\ c[k] = a[k]
    <3>1. j \in 1..m /\ c[j] = a[j]
      BY <1>1, <1>4, <2>1
    <3> QED BY <1>1, <1>6, <2>1, <3>1 DEF Sorted
  <2>2. CASE k > m /\ k - m \in 1..n /\ c[k] = b[k - m]
    <3>1. CASE j \in 1..m /\ c[j] = a[j]
      BY <1>1, <1>6, <2>2, <3>1 DEF Ids
    <3>2. CASE j > m /\ j - m \in 1..n /\ c[j] = b[j - m]
      <4>1. j - m < k - m
        BY <1>1
      <4> QED BY <1>1, <1>6, <2>2, <3>2, <4>1 DEF Sorted
    <3> QED BY <1>4, <3>1, <3>2
  <2> QED BY <1>4, <2>1, <2>2
<1>7. ASSUME Distinct(a), Distinct(b), Ids(a) \intersect Ids(b) = {}
      PROVE  Distinct(c)
  <2> SUFFICES ASSUME NEW j \in 1..(m + n), NEW k \in 1..(m + n), c[j].id = c[k].id
               PROVE  j = k
    BY <1>1 DEF Distinct
  <2> DEFINE InA(i) == i \in 1..m /\ c[i] = a[i]
             InB(i) == i > m /\ i - m \in 1..n /\ c[i] = b[i - m]
  <2>1. CASE InA(j) /\ InA(k)
    BY <1>1, <1>7, <2>1 DEF Distinct
  <2>2. CASE InB(j) /\ InB(k)
    <3>1. j - m = k - m
      BY <1>1, <1>7, <2>2 DEF Distinct
    <3> QED BY <1>1, <3>1
  <2>3. \A x, y \in 1..(m + n) : InA(x) /\ InB(y) => c[x].id # c[y].id
    <3> SUFFICES ASSUME NEW x \in 1..(m + n), NEW y \in 1..(m + n), InA(x), InB(y)
                 PROVE  c[x].id # c[y].id
      OBVIOUS
    <3>1. c[x].id \in Ids(a) /\ c[y].id \in Ids(b)
      BY <1>1 DEF Ids
    <3> QED BY <1>7, <3>1
  <2>4. (InA(j) \/ InB(j)) /\ (InA(k) \/ InB(k))
    BY <1>4
  <2> HIDE DEF InA, InB
  <2> QED BY <2>1, <2>2, <2>3, <2>4
<1> QED BY <1>1, <1>5, <1>6, <1>7 DEF c, m, n

\* filterByTracked keeps the builds of the filter; without one it keeps all.
LEMMA FilterFacts ==
  ASSUME NEW bs \in Seq(Entry)
  PROVE  /\ filterByTracked(bs) \in Seq(Entry)
         /\ Ids(filterByTracked(bs)) = Ids(bs) \intersect filter
         /\ Sorted(bs) => Sorted(filterByTracked(bs))
         /\ Distinct(bs) => Distinct(filterByTracked(bs))
         /\ filter = IDs => filterByTracked(bs) = bs
<1> DEFINE P == {k \in DOMAIN bs : bs[k].id \in filter}
<1>1. P \in SUBSET DOMAIN bs
  OBVIOUS
<1>2. filterByTracked(bs) = At(bs, P)
  BY DEF filterByTracked
<1>3. {bs[k].id : k \in P} = Ids(bs) \intersect filter
  BY DEF Ids
<1>4. filter = IDs => P = DOMAIN bs
  BY EntryOf
<1> HIDE DEF P
<1> QED BY <1>1, <1>2, <1>3, <1>4, AtFacts, AtAll

\* Fresh keeps what has no tab.
LEMMA FreshFacts ==
  ASSUME NEW data \in Seq(Entry), NEW bs \in Seq(Entry)
  PROVE  /\ Fresh(data, bs) \in Seq(Entry)
         /\ Ids(Fresh(data, bs)) = Ids(data) \ Ids(bs)
         /\ Sorted(data) => Sorted(Fresh(data, bs))
         /\ Distinct(data) => Distinct(Fresh(data, bs))
<1> DEFINE P == {k \in DOMAIN data : data[k].id \notin Ids(bs)}
<1>1. P \in SUBSET DOMAIN data
  OBVIOUS
<1>2. Fresh(data, bs) = At(data, P)
  BY DEF Fresh
<1>3. {data[k].id : k \in P} = Ids(data) \ Ids(bs)
  BY DEF Ids
<1> HIDE DEF P
<1> QED BY <1>1, <1>2, <1>3, AtFacts

\* What refreshing tabs leaves: the same builds in the same places.
LEMMA ReplacedFacts ==
  ASSUME NEW bs \in Seq(Entry), NEW data \in Seq(Entry)
  PROVE  /\ Replaced(bs, data) \in Seq(Entry)
         /\ Ids(Replaced(bs, data)) = Ids(bs)
         /\ Sorted(bs) => Sorted(Replaced(bs, data))
         /\ Distinct(bs) => Distinct(Replaced(bs, data))
<1> DEFINE n == Len(bs)
           pos(k) == CHOOSE m \in DOMAIN data : data[m].id = bs[k].id
           new(k) == IF bs[k].id \in Ids(data) THEN data[pos(k)] ELSE bs[k]
           r == [k \in DOMAIN bs |-> new(k)]
<1>1. n \in Nat /\ DOMAIN bs = 1..n
  BY EntryOf
<1>2. ASSUME NEW k \in DOMAIN bs PROVE new(k) \in Entry /\ new(k).id = bs[k].id
  <2>1. CASE bs[k].id \in Ids(data)
    <3>1. \E m \in DOMAIN data : data[m].id = bs[k].id
      BY <2>1 DEF Ids
    <3>2. pos(k) \in DOMAIN data /\ data[pos(k)].id = bs[k].id
      BY <3>1
    <3> HIDE DEF pos
    <3> QED BY <2>1, <3>2, EntryOf
  <2>2. CASE bs[k].id \notin Ids(data)
    BY <2>2, EntryOf
  <2> QED BY <2>1, <2>2
<1> HIDE DEF new
<1>3. r \in Seq(Entry) /\ DOMAIN r = DOMAIN bs
  BY <1>1, <1>2
<1>4. Replaced(bs, data) = r
  <2>1. Replaced(bs, data) = sortBuilds(r)
    BY DEF Replaced, new
  <2> QED BY <1>3, <2>1, SortIsIdentity
<1>5. \A k \in DOMAIN bs : r[k].id = bs[k].id
  BY <1>2
<1> HIDE DEF r
<1>6. Ids(r) = Ids(bs)
  BY <1>3, <1>5 DEF Ids
<1>7. Sorted(bs) => Sorted(r)
  BY <1>3, <1>5 DEF Sorted
<1>8. Distinct(bs) => Distinct(r)
  BY <1>3, <1>5 DEF Distinct
<1> QED BY <1>3, <1>4, <1>6, <1>7, <1>8

\* The cap drops tabs and repeats none.
LEMMA TrimmedFacts ==
  ASSUME NEW bs \in Seq(Entry)
  PROVE  /\ Trimmed(bs) \in Seq(Entry)
         /\ Len(bs) <= Cap => Trimmed(bs) = bs
         /\ Distinct(bs) => Distinct(Trimmed(bs))
<1>1. CASE Len(bs) <= Cap
  BY <1>1 DEF Trimmed
<1>2. CASE ~ Len(bs) <= Cap
  <2> DEFINE D == DOMAIN bs
             over == {k \in D : bs[k].status \in {"succeeded", "failed", "cancelled"}}
             a == At(bs, D \ over)
             b == At(bs, over)
             keep == a \o b
             t == SubSeq(keep, 1, Cap)
  <2>1. D = 1..Len(bs) /\ Len(bs) \in Nat
    BY EntryOf
  <2>2. over \in SUBSET D /\ D \ over \in SUBSET D
    OBVIOUS
  <2> HIDE DEF D, over
  <2>3. IsFiniteSet(D) /\ Cardinality(D) = Len(bs)
    BY <2>1, FS_Interval
  <2>4. Cardinality(over) + Cardinality(D \ over) = Len(bs)
    <3>1. D \intersect over = over
      BY <2>2
    <3>2. Cardinality(D \ over) = Cardinality(D) - Cardinality(over)
      <4>1. Cardinality(D \ over) = Cardinality(D) - Cardinality(D \intersect over)
        BY <2>3, FS_Difference, Zenon
      <4> QED BY <3>1, <4>1, Zenon
    <3>3. IsFiniteSet(over) /\ Cardinality(over) \in Nat
      BY <2>2, <2>3, FS_Subset, FS_CardinalityType
    <3> QED BY <2>1, <2>3, <3>2, <3>3
  <2>5. /\ a \in Seq(Entry) /\ Len(a) = Cardinality(D \ over)
        /\ Ids(a) = {bs[k].id : k \in D \ over} /\ (Distinct(bs) => Distinct(a))
    BY <2>2, AtFacts DEF D
  <2>6. /\ b \in Seq(Entry) /\ Len(b) = Cardinality(over)
        /\ Ids(b) = {bs[k].id : k \in over} /\ (Distinct(bs) => Distinct(b))
    BY <2>2, AtFacts DEF D
  <2> HIDE DEF a, b
  <2>7. keep \in Seq(Entry) /\ Len(keep) = Len(a) + Len(b)
    BY <2>5, <2>6, JoinFacts
  <2>8. Distinct(bs) => Distinct(keep)
    <3> SUFFICES ASSUME Distinct(bs) PROVE Distinct(keep)
      OBVIOUS
    <3>1. Ids(a) \intersect Ids(b) = {}
      BY <2>2, <2>5, <2>6 DEF Distinct, D
    <3> QED BY <2>5, <2>6, <3>1, JoinFacts
  <2>9. Len(keep) = Len(bs)
    <3>1. Len(a) \in Nat /\ Len(b) \in Nat
      BY <2>5, <2>6, EntryOf
    <3> QED BY <2>4, <2>5, <2>6, <2>7, <3>1
  <2> HIDE DEF keep
  <2>10. Cap \in Nat /\ Cap < Len(keep) /\ DOMAIN keep = 1..Len(keep)
    BY <1>2, <2>1, <2>7, <2>9, ViewAssumption
  <2>11. \A i \in 1..Cap : i \in DOMAIN keep /\ keep[i] \in Entry
    <3> SUFFICES ASSUME NEW i \in 1..Cap PROVE i \in DOMAIN keep /\ keep[i] \in Entry
      OBVIOUS
    <3>1. i \in DOMAIN keep
      BY <2>1, <2>9, <2>10
    <3> QED BY <2>7, <3>1, EntryOf
  <2>12. t \in Seq(Entry) /\ DOMAIN t = 1..Cap /\ \A i \in 1..Cap : t[i] = keep[i]
    <3>1. /\ SubSeq(keep, 1, Cap) \in Seq(Entry)
          /\ Len(SubSeq(keep, 1, Cap)) = IF 1 <= Cap THEN Cap - 1 + 1 ELSE 0
          /\ \A i \in 1..(Cap - 1 + 1) : SubSeq(keep, 1, Cap)[i] = keep[1 + i - 1]
      BY <2>10, <2>11, SubSeqProperties
    <3> HIDE DEF t
    <3>2. Cap - 1 + 1 = Cap /\ Len(t) = Cap /\ t \in Seq(Entry)
      BY <2>10, <3>1 DEF t
    <3>3. ASSUME NEW i \in 1..Cap PROVE t[i] = keep[i]
      <4>1. 1 + i - 1 = i
        BY <2>10
      <4> QED BY <3>1, <3>2, <4>1 DEF t
    <3> QED BY <3>2, <3>3, EntryOf
  <2> HIDE DEF t
  <2>13. Distinct(bs) => Distinct(t)
    BY <2>8, <2>11, <2>12 DEF Distinct
  <2>14. Trimmed(bs) = t
    <3>1. Trimmed(bs) = sortBuilds(t)
      BY <1>2 DEF Trimmed, t, keep, a, b, over, D
    <3> QED BY <2>12, <3>1, SortIsIdentity
  <2> QED BY <1>2, <2>12, <2>13, <2>14
<1> QED BY <1>1, <1>2

\* The build to open is a build of the list, or none for an empty one.
LEMMA SelectFacts ==
  ASSUME NEW bs \in Seq(Entry), NEW requested
  PROVE  selectActiveBuild(bs, requested) \in 0..MaxBuild
<1>1. CASE bs = <<>>
  BY <1>1, ViewAssumption DEF selectActiveBuild
<1>2. CASE bs # <<>> /\ requested \in Ids(bs)
  <2>1. selectActiveBuild(bs, requested) = requested
    BY <1>2 DEF selectActiveBuild
  <2> QED BY <1>2, <2>1, EntryOf, IDsFacts
<1>3. CASE bs # <<>> /\ requested \notin Ids(bs)
  <2> DEFINE live == {k \in DOMAIN bs : bs[k].status \in NonTerminal}
  <2>1. selectActiveBuild(bs, requested) =
            IF live = {} THEN Head(bs).id ELSE At(bs, live)[1].id
    BY <1>3 DEF selectActiveBuild
  <2>2. live \in SUBSET DOMAIN bs
    OBVIOUS
  <2> HIDE DEF live
  <2>3. Head(bs).id \in IDs
    <3>1. Head(bs) \in Entry
      BY <1>3, HeadTailProperties
    <3> QED BY <3>1 DEF Entry
  <2>4. live # {} => At(bs, live)[1].id \in IDs
    <3> SUFFICES ASSUME live # {} PROVE At(bs, live)[1].id \in IDs
      OBVIOUS
    <3> DEFINE s == At(bs, live)
    <3>1. s \in Seq(Entry) /\ s # <<>>
      BY <2>2, AtFacts
    <3> HIDE DEF s
    <3>2. 1 \in DOMAIN s
      BY <3>1, EntryOf
    <3>3. s[1].id \in IDs
      BY <3>1, <3>2, EntryOf
    <3> QED BY <3>3 DEF s
  <2> QED BY <2>1, <2>3, <2>4, IDsFacts
<1> QED BY <1>1, <1>2, <1>3

LEMMA ActivateFacts ==
  ASSUME NEW bs \in Seq(Entry), NEW requested, active \in 0..MaxBuild
  PROVE  doActivate(requested, bs) \in 0..MaxBuild
  BY SelectFacts DEF doActivate

-----------------------------------------------------------------------------
(* The invariant. *)

\* The builds that exist have consecutive ids.
Consecutive == \A i \in Existing, m \in IDs : m <= i => m \in Existing

\* A set of ids without a hole, and ids that continue it above or below c.
Convex(S) == \A i, j \in S : \A m \in IDs : i <= m /\ m <= j => m \in S
Above(S, c) == \A i \in S : i > c /\ \A m \in IDs : c < m /\ m <= i => m \in S
Below(S, c) == \A i \in S : i < c /\ \A m \in IDs : i <= m /\ m < c => m \in S

\* A request that the code sends.
Sent(r) ==
    /\ r.who \in Polls => r.kind \in {"tracked", "after", "status"}
    /\ r.who = "init" => r.kind \in {"job", "tracked", "load", "one"}
    /\ r.who = "new" => r.kind = "after"
    /\ r.who = "more" => r.kind = "before"
    /\ r.who = "fix" => r.kind = "one"
    /\ r.kind = "tracked" => tracked
    /\ r.st = "sent" => r.data = <<>>

\* The initial load, and a call of pollBuilds, wait for one request at a time.
OneCall == \A r, q \in reqs : r.who = q.who /\ r.who \in Polls \union {"init"} => r = q

Calls == (\A r \in reqs : Sent(r)) /\ OneCall

\* What an answer holds: builds that exist, newest first.
Truthful(r) ==
    /\ Sorted(r.data) /\ Ids(r.data) \subseteq Existing
    /\ r.kind = "load" => Convex(Ids(r.data))

Answers == Consecutive /\ \A r \in reqs : Truthful(r)

\* Until the first page is there, there are no tabs and no cursors.
Loading == \E r \in reqs : r.who = "init" /\ r.kind # "one"
Starts ==
    Loading => /\ builds = <<>> /\ newestID = 0 /\ oldestID = 0
               /\ \A r \in reqs : r.kind \notin {"after", "before"}

\* No build twice, also when the build of the URL is added.
Once ==
    /\ Distinct(builds) /\ Distinct(allBuilds)
    /\ \A r \in reqs : r.who = "init" /\ r.kind = "one" =>
          r.arg = bid /\ bid # 0 /\ bid \notin Ids(allBuilds) /\ Ids(r.data) \subseteq {bid}

\* Without a version nothing is filtered.
Unfiltered == ~tracked => filter = IDs

\* Without a build and a version in the URL, and below the cap, the tabs are an
\* interval of ids, newest first, that holds the cursors of the page and of every
\* request, and an answer continues it from that cursor.
Plain == bid = 0 /\ ~tracked /\ ~trimmed
Interval ==
    /\ Sorted(builds) /\ Convex(Ids(builds)) /\ Ids(builds) \subseteq Existing
    /\ builds = <<>> => newestID = 0 /\ oldestID = 0
    /\ builds # <<>> => newestID \in Ids(builds) /\ oldestID \in Ids(builds)
    /\ \A r \in reqs :
         /\ r.kind = "after" => r.arg \in Ids(builds) /\ Above(Ids(r.data), r.arg)
         /\ r.kind = "before" => r.arg \in Ids(builds) /\ Below(Ids(r.data), r.arg)

ViewInv ==
    /\ TypeOK /\ Calls /\ Answers /\ Starts /\ Once /\ Unfiltered
    /\ Plain => Interval

-----------------------------------------------------------------------------
(* The server's answers. *)

\* Rows lists builds that exist, newest first.
LEMMA RowsFacts ==
  ASSUME srv \in [IDs -> Statuses \union {"none"}], NEW S \in SUBSET Existing
  PROVE  Rows(S) \in Seq(Entry) /\ Sorted(Rows(S)) /\ Ids(Rows(S)) = S
<1> DEFINE n == Cardinality(S)
           a == Ascending(S)
           d == Descending(S)
           r == Rows(S)
<1>1. S \in SUBSET Int /\ IsFiniteSet(S)
  <2>1. S \in SUBSET IDs
    BY DEF Existing
  <2> QED BY <2>1, IDsFacts, FS_Subset
<1>2. /\ n \in Nat
      /\ \A k \in 1..n : a[k] \in S
      /\ \A j, k \in 1..n : j < k => a[j] < a[k]
      /\ \A x \in S : \E k \in 1..n : a[k] = x
  BY <1>1, AscendingFacts
<1>3. d = [k \in 1..n |-> a[n + 1 - k]]
  BY DEF Descending
<1>4. r = [k \in DOMAIN d |-> Row(d[k])]
  BY DEF Rows
<1> HIDE DEF n, a, d, r
<1>5. DOMAIN d = 1..n /\ \A k \in 1..n : n + 1 - k \in 1..n /\ d[k] = a[n + 1 - k] /\ d[k] \in S
  BY <1>2, <1>3
<1>6. \A i \in S : Row(i) \in Entry /\ Row(i).id = i
  BY DEF Row, Entry, Existing
<1>7. DOMAIN r = 1..n /\ \A k \in 1..n : r[k].id = d[k] /\ r[k] \in Entry
  BY <1>4, <1>5, <1>6
<1>8. r \in Seq(Entry)
  BY <1>2, <1>4, <1>5, <1>6
<1>9. Sorted(r)
  <2> SUFFICES ASSUME NEW j \in 1..n, NEW k \in 1..n, j < k PROVE r[j].id > r[k].id
    BY <1>7 DEF Sorted
  <2>1. n + 1 - k < n + 1 - j
    BY <1>2
  <2>2. a[n + 1 - k] < a[n + 1 - j]
    BY <1>2, <1>5, <2>1
  <2>3. a[n + 1 - k] \in Int /\ a[n + 1 - j] \in Int
    BY <1>1, <1>2, <1>5
  <2> QED BY <1>5, <1>7, <2>2, <2>3
<1>10. Ids(r) = S
  <2>1. ASSUME NEW x \in S PROVE x \in Ids(r)
    <3>1. PICK k \in 1..n : a[k] = x
      BY <1>2
    <3>2. n + 1 - k \in 1..n /\ n + 1 - (n + 1 - k) = k
      BY <1>2
    <3>3. d[n + 1 - k] = x
      BY <1>5, <3>1, <3>2
    <3> QED BY <1>7, <3>2, <3>3 DEF Ids
  <2> QED BY <1>5, <1>7, <2>1 DEF Ids
<1> QED BY <1>8, <1>9, <1>10 DEF r

\* The ends of a page: with a build, also those before or after it.
LEMMA PageEnds ==
  ASSUME NEW S \in SUBSET IDs
  PROVE  /\ Lowest(S) \subseteq S /\ Highest(S) \subseteq S
         /\ \A i \in Lowest(S), m \in S : m <= i => m \in Lowest(S)
         /\ \A i \in Highest(S), m \in S : m >= i => m \in Highest(S)
<1> DEFINE lo(i) == {j \in S : j < i}
           hi(i) == {j \in S : j > i}
<1>1. IsFiniteSet(S) /\ S \subseteq Int
  BY IDsFacts, FS_Subset
<1>2. ASSUME NEW i \in Lowest(S), NEW m \in S, m <= i PROVE m \in Lowest(S)
  <2>1. i \in S /\ Cardinality(lo(i)) < PageSize
    BY DEF Lowest
  <2>2. lo(m) \in SUBSET lo(i) /\ lo(i) \in SUBSET S
    <3>1. m \in Int /\ i \in Int
      BY <1>1, <2>1
    <3>2. ASSUME NEW j \in S, j < m PROVE j < i
      <4>1. j \in Int
        BY <1>1
      <4> QED BY <1>2, <3>1, <3>2, <4>1
    <3> QED BY <3>2
  <2>3. IsFiniteSet(lo(i))
    BY <1>1, <2>2, FS_Subset
  <2>4. IsFiniteSet(lo(m)) /\ Cardinality(lo(m)) <= Cardinality(lo(i))
    BY <2>2, <2>3, FS_Subset
  <2>5. Cardinality(lo(m)) \in Nat /\ Cardinality(lo(i)) \in Nat
    BY <2>3, <2>4, FS_CardinalityType
  <2>6. Cardinality(lo(m)) < PageSize
    <3> HIDE DEF lo
    <3> QED BY <2>1, <2>4, <2>5, ViewAssumption
  <2> QED BY <2>6 DEF Lowest
<1>3. ASSUME NEW i \in Highest(S), NEW m \in S, m >= i PROVE m \in Highest(S)
  <2>1. i \in S /\ Cardinality(hi(i)) < PageSize
    BY DEF Highest
  <2>2. hi(m) \in SUBSET hi(i) /\ hi(i) \in SUBSET S
    <3>1. m \in Int /\ i \in Int
      BY <1>1, <2>1
    <3>2. ASSUME NEW j \in S, j > m PROVE j > i
      <4>1. j \in Int
        BY <1>1
      <4> QED BY <1>3, <3>1, <3>2, <4>1
    <3> QED BY <3>2
  <2>3. IsFiniteSet(hi(i))
    BY <1>1, <2>2, FS_Subset
  <2>4. IsFiniteSet(hi(m)) /\ Cardinality(hi(m)) <= Cardinality(hi(i))
    BY <2>2, <2>3, FS_Subset
  <2>5. Cardinality(hi(m)) \in Nat /\ Cardinality(hi(i)) \in Nat
    BY <2>3, <2>4, FS_CardinalityType
  <2>6. Cardinality(hi(m)) < PageSize
    <3> HIDE DEF hi
    <3> QED BY <2>1, <2>4, <2>5, ViewAssumption
  <2> QED BY <2>6 DEF Highest
<1> QED BY <1>2, <1>3 DEF Lowest, Highest

\* What the server answers to a request of each kind.
LEMMA AnswerFacts ==
  ASSUME srv \in [IDs -> Statuses \union {"none"}], Consecutive, NEW kind, NEW arg \in 0..MaxBuild
  PROVE  LET a == Answer(kind, arg)
         IN  /\ a \in Seq(Entry) /\ Sorted(a) /\ Ids(a) \subseteq Existing
             /\ kind = "load" => Convex(Ids(a))
             /\ kind = "after" => Above(Ids(a), arg)
             /\ kind = "before" /\ arg \in Existing => Below(Ids(a), arg)
             /\ kind = "one" => Ids(a) \subseteq {arg}
<1> DEFINE a == Answer(kind, arg)
<1>1. Existing \subseteq IDs /\ IDs \subseteq Int /\ arg \in Int
  BY IDsFacts, ViewAssumption DEF Existing
<1>2. CASE kind = "load"
  <2> DEFINE S == Highest(Existing)
  <2>1. a = Rows(S)
    BY <1>2 DEF Answer
  <2>2. S \subseteq Existing
    BY <1>1, PageEnds
  <2>3. Convex(S)
    <3> SUFFICES ASSUME NEW i \in S, NEW j \in S, NEW m \in IDs, i <= m, m <= j
                 PROVE  m \in S
      BY DEF Convex
    <3>1. m \in Existing
      BY <2>2 DEF Consecutive
    <3> QED BY <1>1, <2>2, <3>1, PageEnds
  <2> HIDE DEF S
  <2>4. a \in Seq(Entry) /\ Sorted(a) /\ Ids(a) = S
    BY <2>1, <2>2, RowsFacts
  <2> QED BY <1>2, <2>2, <2>3, <2>4
<1>3. CASE kind = "after"
  <2> DEFINE T == {i \in Existing : i > arg}
             S == Lowest(T)
  <2>1. a = Rows(S)
    BY <1>3 DEF Answer
  <2>2. S \subseteq T
    BY <1>1, PageEnds
  <2>3. Above(S, arg)
    <3> SUFFICES ASSUME NEW i \in S
                 PROVE  i > arg /\ \A m \in IDs : arg < m /\ m <= i => m \in S
      BY DEF Above
    <3>1. ASSUME NEW m \in IDs, arg < m, m <= i PROVE m \in S
      <4>1. m \in Existing
        BY <2>2, <3>1 DEF Consecutive
      <4>2. m \in T /\ T \in SUBSET IDs
        BY <1>1, <3>1, <4>1
      <4> QED BY <3>1, <4>2, PageEnds
    <3> QED BY <2>2, <3>1
  <2>4. S \subseteq Existing
    BY <2>2
  <2> HIDE DEF S
  <2>5. a \in Seq(Entry) /\ Sorted(a) /\ Ids(a) = S
    BY <2>1, <2>4, RowsFacts
  <2> QED BY <1>3, <2>3, <2>4, <2>5
<1>4. CASE kind = "before"
  <2> DEFINE T == {i \in Existing : i < arg}
             S == Highest(T)
  <2>1. a = Rows(S)
    BY <1>4 DEF Answer
  <2>2. S \subseteq T
    BY <1>1, PageEnds
  <2>3. arg \in Existing => Below(S, arg)
    <3> SUFFICES ASSUME arg \in Existing, NEW i \in S
                 PROVE  i < arg /\ \A m \in IDs : i <= m /\ m < arg => m \in S
      BY DEF Below
    <3>1. ASSUME NEW m \in IDs, i <= m, m < arg PROVE m \in S
      <4>1. m \in Existing
        BY <1>1, <3>1 DEF Consecutive
      <4>2. m \in T /\ T \in SUBSET IDs
        BY <1>1, <3>1, <4>1
      <4>3. m >= i
        BY <1>1, <2>2, <3>1
      <4> QED BY <4>2, <4>3, PageEnds
    <3> QED BY <2>2, <3>1
  <2>4. S \subseteq Existing
    BY <2>2
  <2> HIDE DEF S
  <2>5. a \in Seq(Entry) /\ Sorted(a) /\ Ids(a) = S
    BY <2>1, <2>4, RowsFacts
  <2> QED BY <1>4, <2>3, <2>4, <2>5
<1>5. CASE kind \in {"status", "one", "tracked"}
  <2> DEFINE S == IF kind = "status" THEN Highest({i \in Existing : srv[i] \in NonTerminal})
                  ELSE IF kind = "one" THEN {arg} \intersect Existing
                  ELSE TrackIDs \intersect Existing
  <2>1. a = Rows(S)
    BY <1>5 DEF Answer
  <2>2. S \subseteq Existing
    <3>1. {i \in Existing : srv[i] \in NonTerminal} \in SUBSET IDs
      BY <1>1
    <3>2. Highest({i \in Existing : srv[i] \in NonTerminal}) \subseteq Existing
      BY <3>1, PageEnds
    <3> QED BY <3>2
  <2>3. kind = "one" => S \subseteq {arg}
    OBVIOUS
  <2> HIDE DEF S
  <2>4. a \in Seq(Entry) /\ Sorted(a) /\ Ids(a) = S
    BY <2>1, <2>2, RowsFacts
  <2> QED BY <1>5, <2>2, <2>3, <2>4
<1>6. CASE kind \notin {"load", "after", "before", "status", "one", "tracked"}
  <2>1. a = <<>>
    BY <1>6 DEF Answer
  <2> QED BY <1>6, <2>1 DEF Sorted, Ids
<1> QED BY <1>2, <1>3, <1>4, <1>5, <1>6

\* The meta of an answer names builds of the answer.
LEMMA MetaFacts ==
  ASSUME NEW data \in Seq(Entry)
  PROVE  /\ NewestOf(data) \in 0..MaxBuild /\ OldestOf(data) \in 0..MaxBuild
         /\ data # <<>> => NewestOf(data) \in Ids(data) /\ OldestOf(data) \in Ids(data)
         /\ data = <<>> => NewestOf(data) = 0 /\ OldestOf(data) = 0
<1>1. CASE data = <<>>
  BY <1>1, ViewAssumption DEF NewestOf, OldestOf
<1>2. CASE data # <<>>
  <2>1. 1 \in DOMAIN data /\ Len(data) \in DOMAIN data /\ Head(data) = data[1]
    BY <1>2
  <2>2. NewestOf(data) \in Ids(data) /\ OldestOf(data) \in Ids(data)
    BY <1>2, <2>1 DEF NewestOf, OldestOf, Ids
  <2> QED BY <1>2, <2>2, EntryOf, IDsFacts
<1> QED BY <1>1, <1>2

-----------------------------------------------------------------------------
(* How the parts of the invariant are kept.  Every step but those of the     *)
(* server takes requests away and sends new ones.                            *)

\* The fields of a request that is sent.
LEMMA ReqFields ==
  ASSUME NEW w, NEW k, NEW a
  PROVE  /\ Req(w, k, a).who = w /\ Req(w, k, a).kind = k /\ Req(w, k, a).arg = a
         /\ Req(w, k, a).aim = 0 /\ Req(w, k, a).st = "sent" /\ Req(w, k, a).data = <<>>
  BY DEF Req

LEMMA ReqType ==
  ASSUME NEW w \in {"init", "new", "more", "fix"} \union Polls,
         NEW k \in {"job", "tracked", "load", "after", "before", "status", "one"},
         NEW a \in 0..MaxBuild
  PROVE  Req(w, k, a) \in Request
<1>1. <<>> \in Seq(Entry) /\ 0 \in 0..MaxBuild
  BY ViewAssumption
<1> QED BY <1>1 DEF Req, Request

\* Who sends is told by name: the calls of pollBuilds are no other process.
LEMMA PollsApart ==
  ASSUME NEW p \in Polls
  PROVE  p # "init" /\ p # "new" /\ p # "more" /\ p # "fix"
  BY ViewAssumption

LEMMA BusyFacts ==
  /\ IsFiniteSet(Busy) /\ Cardinality(Busy) \in Nat
  /\ IsFiniteSet(Busy') /\ Cardinality(Busy') \in Nat
<1>1. Busy \in SUBSET Polls /\ Busy' \in SUBSET Polls
  BY DEF Busy
<1> QED BY <1>1, ViewAssumption, FS_Subset, FS_CardinalityType

\* Of the new requests N, none is of a process that waits for another one, when
\* those of R are gone.
Alone(N, R) ==
    \A q \in N, x \in (reqs \ R) \union N :
       q.who = x.who /\ q.who \in Polls \union {"init"} => q = x

LEMMA CallsKept ==
  ASSUME Calls, tracked' = tracked, NEW R, NEW N, reqs' \subseteq (reqs \ R) \union N,
         \A q \in N : Sent(q), Alone(N, R)
  PROVE  Calls'
<1>1. ASSUME NEW q \in reqs' PROVE Sent(q)'
  <2>1. Sent(q)
    BY <1>1 DEF Calls
  <2> QED BY <2>1 DEF Sent
<1>2. OneCall'
  <2> SUFFICES ASSUME NEW r \in reqs', NEW q \in reqs', r.who = q.who,
                      r.who \in Polls \union {"init"}
               PROVE  r = q
    BY DEF OneCall
  <2>1. CASE r \in N
    BY <2>1 DEF Alone
  <2>2. CASE q \in N
    BY <2>2 DEF Alone
  <2>3. CASE r \in reqs /\ q \in reqs
    BY <2>3 DEF Calls, OneCall
  <2> QED BY <2>1, <2>2, <2>3
<1> QED BY <1>1, <1>2 DEF Calls

LEMMA AnswersKept ==
  ASSUME Answers, srv' = srv, \A q \in reqs' : q \in reqs \/ q.data = <<>>
  PROVE  Answers'
<1>1. Existing' = Existing
  BY DEF Existing
<1>2. Consecutive'
  BY <1>1 DEF Answers, Consecutive
<1>3. ASSUME NEW q \in reqs' PROVE Truthful(q)'
  <2>1. CASE q \in reqs
    BY <1>1, <2>1 DEF Answers, Truthful, Convex
  <2>2. CASE q.data = <<>>
    <3>1. Ids(q.data) = {} /\ DOMAIN q.data = {}
      BY <2>2 DEF Ids
    <3> QED BY <3>1 DEF Truthful, Sorted, Convex
  <2> QED BY <2>1, <2>2
<1> QED BY <1>2, <1>3 DEF Answers

LEMMA StartsKept ==
  ASSUME Starts,
         \A q \in reqs' :
            \/ q \in reqs
            \/ /\ q.who = "init" /\ q.kind # "one" => Loading
               /\ q.kind \in {"after", "before"} => ~Loading,
         Loading => builds' = <<>> /\ newestID' = 0 /\ oldestID' = 0
  PROVE  Starts'
<1> SUFFICES ASSUME Loading'
             PROVE  /\ builds' = <<>> /\ newestID' = 0 /\ oldestID' = 0
                    /\ \A r \in reqs' : r.kind \notin {"after", "before"}
  BY DEF Starts
<1>1. PICK r \in reqs' : r.who = "init" /\ r.kind # "one"
  BY DEF Loading
<1>2. Loading
  BY <1>1 DEF Loading
<1>3. \A q \in reqs' : q.kind \notin {"after", "before"}
  BY <1>2 DEF Starts
<1> QED BY <1>2, <1>3

LEMMA OnceKept ==
  ASSUME Once, Distinct(builds'), allBuilds' = allBuilds, bid' = bid,
         \A q \in reqs' : q \in reqs \/ ~ (q.who = "init" /\ q.kind = "one")
  PROVE  Once'
<1>1. Distinct(builds')
  OBVIOUS
<1>2. Distinct(allBuilds')
  BY DEF Once
<1>3. ASSUME NEW r \in reqs', r.who = "init", r.kind = "one"
      PROVE  r.arg = bid' /\ bid' # 0 /\ bid' \notin Ids(allBuilds') /\ Ids(r.data) \subseteq {bid'}
  BY <1>3 DEF Once
<1> QED BY <1>1, <1>2, <1>3 DEF Once

LEMMA IntervalKept ==
  ASSUME Interval, srv' = srv,
         Sorted(builds'), Convex(Ids(builds')), Ids(builds') \subseteq Existing,
         Ids(builds) \subseteq Ids(builds'),
         builds' = <<>> => newestID' = 0 /\ oldestID' = 0,
         builds' # <<>> => newestID' \in Ids(builds') /\ oldestID' \in Ids(builds'),
         \A q \in reqs' :
            \/ q \in reqs
            \/ q.data = <<>> /\ (q.kind \in {"after", "before"} => q.arg \in Ids(builds))
  PROVE  Interval'
<1>1. Existing' = Existing
  BY DEF Existing
<1>2. ASSUME NEW r \in reqs'
      PROVE  /\ r.kind = "after" => r.arg \in Ids(builds') /\ Above(Ids(r.data), r.arg)
             /\ r.kind = "before" => r.arg \in Ids(builds') /\ Below(Ids(r.data), r.arg)
  <2>1. CASE r \in reqs
    BY <2>1 DEF Interval
  <2>2. CASE r \notin reqs
    <3>1. r.data = <<>> /\ (r.kind \in {"after", "before"} => r.arg \in Ids(builds))
      BY <2>2
    <3>2. Ids(r.data) = {}
      BY <3>1 DEF Ids
    <3>3. Above(Ids(r.data), r.arg) /\ Below(Ids(r.data), r.arg)
      BY <3>2 DEF Above, Below
    <3> QED BY <3>1, <3>3
  <2> QED BY <2>1, <2>2
<1> QED BY <1>1, <1>2 DEF Interval

\* A request that continues a process from the cursors of the page.
Proper(q) ==
    /\ Sent(q) /\ q.data = <<>>
    /\ q.kind = "after" => newestID # 0 /\ q.arg = newestID
    /\ q.kind = "before" => oldestID # 0 /\ q.arg = oldestID
    /\ q.who = "init" => q.kind # "one" /\ Loading

\* Steps that only send: the tabs and the cursors stay.
LEMMA SendKeeps ==
  ASSUME ViewInv, srv' = srv, bid' = bid, tracked' = tracked, builds' = builds,
         newestID' = newestID, oldestID' = oldestID, allBuilds' = allBuilds,
         trimmed' = trimmed,
         NEW R, NEW N, reqs' \subseteq (reqs \ R) \union N,
         \A q \in N : Proper(q), Alone(N, R)
  PROVE  Calls' /\ Answers' /\ Starts' /\ Once' /\ (Plain' => Interval')
<1>1. Calls'
  BY CallsKept DEF ViewInv, Proper
<1>2. Answers'
  BY AnswersKept DEF ViewInv, Proper
<1>3. Starts'
  <2>1. Loading => builds' = <<>> /\ newestID' = 0 /\ oldestID' = 0
    BY DEF ViewInv, Starts
  <2>2. \A q \in reqs' :
            \/ q \in reqs
            \/ /\ q.who = "init" /\ q.kind # "one" => Loading
               /\ q.kind \in {"after", "before"} => ~Loading
    BY DEF ViewInv, Starts, Proper
  <2> QED BY <2>1, <2>2, StartsKept DEF ViewInv
<1>4. Once'
  <2>1. \A q \in reqs' : q \in reqs \/ ~ (q.who = "init" /\ q.kind = "one")
    BY DEF Proper
  <2> QED BY <2>1, OnceKept DEF ViewInv, Once
<1>5. ASSUME Plain' PROVE Interval'
  <2>1. Plain /\ Interval
    BY <1>5 DEF Plain, ViewInv
  <2>2. \A q \in reqs' :
            \/ q \in reqs
            \/ q.data = <<>> /\ (q.kind \in {"after", "before"} => q.arg \in Ids(builds))
    <3>1. newestID # 0 \/ oldestID # 0 => newestID \in Ids(builds) /\ oldestID \in Ids(builds)
      BY <2>1 DEF Interval
    <3> QED BY <3>1 DEF Proper
  <2> QED BY <2>1, <2>2, IntervalKept DEF Interval
<1> QED BY <1>1, <1>2, <1>3, <1>4, <1>5

-----------------------------------------------------------------------------
(* One lemma per step. *)

\* The page opens with the invariant.
LEMMA InitView == Init => ViewInv
<1> SUFFICES ASSUME Init PROVE ViewInv
  OBVIOUS
<1>1. PICK p \in Polls :
        reqs = {Req("init", "job", 0)} \union (IF hidden THEN {} ELSE {pollBuilds(p)})
  BY DEF Init
<1>2. srv \in [IDs -> Statuses \union {"none"}] /\ Consecutive
  <2>1. PICK n \in Loaded : srv \in {f \in [IDs -> Initially \union {"none"}] :
                                       \A i \in IDs : (f[i] = "none") <=> (i > n)}
    BY DEF Init
  <2>2. n \in Int /\ \A i \in IDs : (srv[i] = "none") <=> (i > n)
    BY <2>1, ViewAssumption
  <2>3. srv \in [IDs -> Statuses \union {"none"}]
    BY <2>1, ViewAssumption
  <2>4. Consecutive
    <3> SUFFICES ASSUME NEW i \in Existing, NEW m \in IDs, m <= i PROVE m \in Existing
      BY DEF Consecutive
    <3>1. i \in IDs /\ i \in Int /\ m \in Int /\ ~ i > n
      BY <2>2, IDsFacts DEF Existing
    <3> QED BY <2>2, <3>1 DEF Existing
  <2> QED BY <2>3, <2>4
<1>3. newestID = 0 /\ oldestID = 0 /\ builds = <<>> /\ allBuilds = <<>> /\ filter = IDs
  BY DEF Init
<1>4. /\ pollBuilds(p).who = p /\ pollBuilds(p).st = "sent" /\ pollBuilds(p).data = <<>>
      /\ pollBuilds(p).kind \in {"tracked", "status"}
      /\ pollBuilds(p).kind = "tracked" => tracked
      /\ pollBuilds(p) \in Request
  <2>1. 0 \in 0..MaxBuild
    BY ViewAssumption
  <2>2. pollBuilds(p) = IF tracked THEN Req(p, "tracked", 0) ELSE Req(p, "status", 0)
    BY <1>3 DEF pollBuilds, NewBuildsThen
  <2>3. Req(p, "tracked", 0) \in Request /\ Req(p, "status", 0) \in Request
    BY <2>1, ReqType
  <2> QED BY <2>2, <2>3, ReqFields
<1>5. Req("init", "job", 0) \in Request
  <2>1. 0 \in 0..MaxBuild
    BY ViewAssumption
  <2> QED BY <2>1, ReqType
<1>6. \A r \in reqs : r = Req("init", "job", 0) \/ r = pollBuilds(p)
  BY <1>1
<1>7. TypeOK
  <2>1. bid \in 0..MaxBuild /\ tracked \in BOOLEAN
    BY ViewAssumption DEF Init
  <2>2. Loop!PollTypeOK
    BY BusyFacts DEF Init, Loop!PollTypeOK
  <2>3. reqs \subseteq Request
    BY <1>4, <1>5, <1>6
  <2>4. 0 \in 0..MaxBuild /\ 0 \in 0..MaxRetries /\ <<>> \in Seq(Entry)
    BY ViewAssumption
  <2> QED BY <1>2, <1>3, <2>1, <2>2, <2>3, <2>4 DEF Init, TypeOK
<1>8. Calls
  <2>1. Sent(Req("init", "job", 0)) /\ Sent(pollBuilds(p))
    BY <1>4, ReqFields, PollsApart DEF Sent
  <2>2. OneCall
    BY <1>4, <1>6, ReqFields, PollsApart DEF OneCall
  <2> QED BY <1>6, <2>1, <2>2 DEF Calls
<1>9. \A r \in reqs : r.data = <<>> /\ r.kind \in {"job", "tracked", "status"}
  BY <1>4, <1>6, ReqFields
<1>10. Answers
  <2>1. ASSUME NEW r \in reqs PROVE Truthful(r)
    <3>1. Ids(r.data) = {} /\ DOMAIN r.data = {}
      BY <1>9 DEF Ids
    <3> QED BY <3>1 DEF Truthful, Sorted, Convex
  <2> QED BY <1>2, <2>1 DEF Answers
<1>11. Starts
  BY <1>3, <1>9 DEF Starts
<1>12. Once
  BY <1>3, <1>9 DEF Once, Distinct
<1>13. Unfiltered
  BY <1>3 DEF Unfiltered
<1>14. Interval
  <2>1. Ids(builds) = {} /\ DOMAIN builds = {}
    BY <1>3 DEF Ids
  <2> QED BY <1>3, <1>9, <2>1 DEF Interval, Sorted, Convex
<1> QED BY <1>7, <1>8, <1>10, <1>11, <1>12, <1>13, <1>14 DEF ViewInv

\* fetchJob is over.
LEMMA InitJobInv ==
  ASSUME ViewInv, NEW r \in reqs, InitJob(r)
  PROVE  ViewInv'
<1>1. r.who = "init" /\ r.kind = "job" /\ Loading /\ newestID = 0 /\ oldestID = 0
  BY DEF InitJob, Settled, Loading, ViewInv, Starts
<1> DEFINE q == IF tracked THEN Req("init", "tracked", 0) ELSE Req("init", "load", 0)
<1>2. /\ srv' = srv /\ bid' = bid /\ tracked' = tracked /\ builds' = builds
      /\ allBuilds' = allBuilds /\ trimmed' = trimmed
      /\ newestID' = newestID /\ oldestID' = oldestID
      /\ reqs' = (reqs \ {r}) \union {q}
  BY <1>1 DEF InitJob, loop, props, meta
<1>3. /\ q.who = "init" /\ q.st = "sent" /\ q.data = <<>> /\ q.kind \in {"tracked", "load"}
      /\ (q.kind = "tracked" => tracked) /\ q \in Request
  <2>1. 0 \in 0..MaxBuild
    BY ViewAssumption
  <2> QED BY <2>1, ReqFields, ReqType
<1> HIDE DEF q
<1>4. Calls' /\ Answers' /\ Starts' /\ Once' /\ (Plain' => Interval')
  <2>1. Proper(q)
    BY <1>1, <1>3, PollsApart DEF Sent, Proper
  <2>2. Alone({q}, {r})
    BY <1>1, <1>3 DEF ViewInv, Calls, OneCall, Alone
  <2> QED BY <1>1, <1>2, <1>3, <2>1, <2>2, SendKeeps
<1>5. TypeOK'
  <2>1. reqs' \subseteq Request
    BY <1>2, <1>3 DEF ViewInv, TypeOK
  <2>2. Loop!PollTypeOK'
    BY BusyFacts DEF InitJob, loop, ViewInv, TypeOK, Loop!PollTypeOK
  <2>3. filter' \subseteq IDs /\ hasMore' \in BOOLEAN
    BY DEF InitJob, meta, ViewInv, TypeOK
  <2> QED BY <1>2, <2>1, <2>2, <2>3 DEF InitJob, loop, ViewInv, TypeOK
<1>6. Unfiltered'
  BY <1>2 DEF InitJob, ViewInv, Unfiltered
<1> QED BY <1>4, <1>5, <1>6 DEF ViewInv

\* The builds of the version were asked for, by the initial load: they are the
\* filter, or the request failed.
LEMMA FilteredType ==
  ASSUME TypeOK, NEW r \in reqs, Filtered(r)
  PROVE  filter' \subseteq IDs
<1>1. r.data \in Seq(Entry)
  BY DEF TypeOK, Request
<1> QED BY <1>1, EntryOf DEF Filtered, TypeOK

LEMMA InitTrackedInv ==
  ASSUME ViewInv, NEW r \in reqs, InitTracked(r)
  PROVE  ViewInv'
<1> DEFINE q == Req("init", "load", 0)
<1>1. r.who = "init" /\ r.kind = "tracked" /\ Loading /\ tracked
  BY DEF InitTracked, Settled, Loading, ViewInv, Calls, Sent
<1>2. /\ srv' = srv /\ bid' = bid /\ tracked' = tracked /\ builds' = builds
      /\ allBuilds' = allBuilds /\ trimmed' = trimmed
      /\ newestID' = newestID /\ oldestID' = oldestID
      /\ reqs' = (reqs \ {r}) \union {q}
  BY DEF InitTracked, props, meta
<1>3. /\ q.who = "init" /\ q.st = "sent" /\ q.data = <<>> /\ q.kind = "load" /\ q \in Request
  <2>1. 0 \in 0..MaxBuild
    BY ViewAssumption
  <2> QED BY <2>1, ReqFields, ReqType
<1> HIDE DEF q
<1>4. Calls' /\ Answers' /\ Starts' /\ Once' /\ (Plain' => Interval')
  <2>1. Proper(q)
    BY <1>1, <1>3, PollsApart DEF Sent, Proper
  <2>2. Alone({q}, {r})
    BY <1>1, <1>3 DEF ViewInv, Calls, OneCall, Alone
  <2> QED BY <1>2, <2>1, <2>2, SendKeeps
<1>5. TypeOK'
  <2>1. reqs' \subseteq Request
    BY <1>2, <1>3 DEF ViewInv, TypeOK
  <2>2. Loop!PollTypeOK'
    BY BusyFacts DEF InitTracked, loop, ViewInv, TypeOK, Loop!PollTypeOK
  <2>3. filter' \subseteq IDs
    BY FilteredType DEF InitTracked, ViewInv
  <2> QED BY <1>2, <2>1, <2>2, <2>3 DEF InitTracked, loop, meta, ViewInv, TypeOK
<1>6. Unfiltered'
  BY <1>1, <1>2 DEF Unfiltered
<1> QED BY <1>4, <1>5, <1>6 DEF ViewInv

\* A call of pollBuilds asks for the version's builds, or for what follows the
\* cursor, or for what is not over.
LEMMA NewBuildsFacts ==
  ASSUME ViewInv, NEW p \in Polls
  PROVE  LET q == NewBuildsThen(p, newestID)
         IN  q.who = p /\ q \in Request /\ Proper(q)
<1> DEFINE q == NewBuildsThen(p, newestID)
<1>1. q = Req(p, "status", 0) \/ (newestID # 0 /\ q = Req(p, "after", newestID))
  BY DEF NewBuildsThen
<1>2. Req(p, "status", 0) \in Request /\ Req(p, "after", newestID) \in Request
  <2>1. 0 \in 0..MaxBuild /\ newestID \in 0..MaxBuild
    BY ViewAssumption DEF ViewInv, TypeOK
  <2> QED BY <2>1, ReqType
<1>3. Proper(Req(p, "status", 0)) /\ (newestID # 0 => Proper(Req(p, "after", newestID)))
  BY ReqFields, PollsApart DEF Proper, Sent
<1> QED BY <1>1, <1>2, <1>3, ReqFields

LEMMA PollFacts ==
  ASSUME ViewInv, NEW p \in Polls
  PROVE  pollBuilds(p).who = p /\ pollBuilds(p) \in Request /\ Proper(pollBuilds(p))
<1>1. CASE tracked
  <2>1. pollBuilds(p) = Req(p, "tracked", 0)
    BY <1>1 DEF pollBuilds
  <2>2. Req(p, "tracked", 0) \in Request
    <3>1. 0 \in 0..MaxBuild
      BY ViewAssumption
    <3> QED BY <3>1, ReqType
  <2>3. Proper(Req(p, "tracked", 0))
    BY <1>1, ReqFields, PollsApart DEF Proper, Sent
  <2> QED BY <2>1, <2>2, <2>3, ReqFields
<1>2. CASE ~tracked
  <2>1. pollBuilds(p) = NewBuildsThen(p, newestID)
    BY <1>2 DEF pollBuilds
  <2> QED BY <2>1, NewBuildsFacts
<1> QED BY <1>1, <1>2

LEMMA PollTrackedInv ==
  ASSUME ViewInv, NEW r \in reqs, NEW p \in Polls, PollTracked(r, p)
  PROVE  ViewInv'
<1> DEFINE q == NewBuildsThen(p, newestID)
<1>1. r.who = p /\ tracked
  BY DEF PollTracked, Settled, ViewInv, Calls, Sent
<1>2. /\ srv' = srv /\ bid' = bid /\ tracked' = tracked /\ builds' = builds
      /\ allBuilds' = allBuilds /\ trimmed' = trimmed
      /\ newestID' = newestID /\ oldestID' = oldestID
      /\ reqs' = (reqs \ {r}) \union {q}
  BY DEF PollTracked, props, meta
<1>3. q.who = p /\ q \in Request /\ Proper(q)
  BY NewBuildsFacts
<1> HIDE DEF q
<1>4. Calls' /\ Answers' /\ Starts' /\ Once' /\ (Plain' => Interval')
  <2>1. Alone({q}, {r})
    BY <1>1, <1>3 DEF ViewInv, Calls, OneCall, Alone
  <2> QED BY <1>2, <1>3, <2>1, SendKeeps
<1>5. TypeOK'
  <2>1. reqs' \subseteq Request
    BY <1>2, <1>3 DEF ViewInv, TypeOK
  <2>2. Loop!PollTypeOK'
    BY BusyFacts DEF PollTracked, loop, ViewInv, TypeOK, Loop!PollTypeOK
  <2>3. filter' \subseteq IDs
    BY FilteredType DEF PollTracked, ViewInv
  <2> QED BY <1>2, <2>1, <2>2, <2>3 DEF PollTracked, loop, meta, ViewInv, TypeOK
<1>6. Unfiltered'
  BY <1>1, <1>2 DEF Unfiltered
<1> QED BY <1>4, <1>5, <1>6 DEF ViewInv

\* A timer fires, or the tab is shown again: a new call of pollBuilds.
LEMMA NewCall ==
  ASSUME ViewInv, NEW p \in Polls, p \notin Busy, reqs' = reqs \union {pollBuilds(p)},
         Loop!PollTypeOK',
         UNCHANGED <<srv, props, builds, active, meta, allBuilds, filter, retries, trimmed>>
  PROVE  ViewInv'
<1> DEFINE q == pollBuilds(p)
<1>1. q.who = p /\ q \in Request /\ Proper(q)
  BY PollFacts
<1>2. /\ srv' = srv /\ bid' = bid /\ tracked' = tracked /\ builds' = builds
      /\ allBuilds' = allBuilds /\ trimmed' = trimmed
      /\ newestID' = newestID /\ oldestID' = oldestID /\ hasMore' = hasMore
      /\ reqs' = (reqs \ {}) \union {q}
  BY DEF props, meta
<1> HIDE DEF q
<1>3. Calls' /\ Answers' /\ Starts' /\ Once' /\ (Plain' => Interval')
  <2>1. Alone({q}, {})
    BY <1>1 DEF Busy, Alone
  <2> QED BY <1>1, <1>2, <2>1, SendKeeps
<1>4. TypeOK'
  BY <1>1, <1>2 DEF ViewInv, TypeOK
<1>5. Unfiltered'
  BY <1>2 DEF ViewInv, Unfiltered
<1> QED BY <1>3, <1>4, <1>5 DEF ViewInv

LEMMA PollTimerInv ==
  ASSUME ViewInv, NEW p \in Polls, PollTimer(p)
  PROVE  ViewInv'
<1>1. Loop!PollTypeOK'
  BY BusyFacts DEF PollTimer, Loop!TimerFires, ViewInv, TypeOK, Loop!PollTypeOK
<1> QED BY <1>1, NewCall DEF PollTimer

LEMMA ShowInv ==
  ASSUME ViewInv, Show
  PROVE  ViewInv'
<1>1. Loop!PollTypeOK'
  BY BusyFacts DEF Show, Loop!Show, Loop!start, ViewInv, TypeOK, Loop!PollTypeOK
<1>2. CASE timeoutId = "null"
  <2>1. PICK p \in Polls \ Busy : reqs' = reqs \union {pollBuilds(p)}
    BY <1>2 DEF Show
  <2> QED BY <1>1, <2>1, NewCall DEF Show
<1>3. CASE timeoutId # "null"
  <2>1. /\ srv' = srv /\ bid' = bid /\ tracked' = tracked /\ builds' = builds
        /\ allBuilds' = allBuilds /\ trimmed' = trimmed
        /\ newestID' = newestID /\ oldestID' = oldestID /\ hasMore' = hasMore
        /\ reqs' = reqs
    BY <1>3 DEF Show, props, meta
  <2>2. Calls' /\ Answers' /\ Starts' /\ Once' /\ (Plain' => Interval')
    <3>1. Alone({}, {}) /\ reqs' \subseteq (reqs \ {}) \union {}
      BY <2>1 DEF Alone
    <3> QED BY <2>1, <3>1, SendKeeps
  <2>3. TypeOK' /\ Unfiltered'
    BY <1>1, <2>1 DEF Show, ViewInv, TypeOK, Unfiltered
  <2> QED BY <2>2, <2>3 DEF ViewInv
<1> QED BY <1>2, <1>3

LEMMA HideInv ==
  ASSUME ViewInv, Hide
  PROVE  ViewInv'
<1>1. Loop!PollTypeOK'
  BY BusyFacts DEF Hide, Loop!Hide, Loop!stop, ViewInv, TypeOK, Loop!PollTypeOK
<1>2. /\ srv' = srv /\ bid' = bid /\ tracked' = tracked /\ builds' = builds
      /\ allBuilds' = allBuilds /\ trimmed' = trimmed
      /\ newestID' = newestID /\ oldestID' = oldestID /\ hasMore' = hasMore
      /\ reqs' = reqs
  BY DEF Hide, props, meta
<1>3. Calls' /\ Answers' /\ Starts' /\ Once' /\ (Plain' => Interval')
  <2>1. Alone({}, {}) /\ reqs' \subseteq (reqs \ {}) \union {}
    BY <1>2 DEF Alone
  <2> QED BY <1>2, <2>1, SendKeeps
<1>4. TypeOK' /\ Unfiltered'
  BY <1>1, <1>2 DEF Hide, ViewInv, TypeOK, Unfiltered
<1> QED BY <1>3, <1>4 DEF ViewInv

\* A tab is clicked.
LEMMA TabClickInv ==
  ASSUME ViewInv, NEW i \in IDs, onTabClick(i)
  PROVE  ViewInv'
<1>1. /\ srv' = srv /\ bid' = bid /\ tracked' = tracked /\ builds' = builds
      /\ allBuilds' = allBuilds /\ trimmed' = trimmed
      /\ newestID' = newestID /\ oldestID' = oldestID /\ hasMore' = hasMore
      /\ reqs' = reqs
  BY DEF onTabClick, props, meta
<1>2. Calls' /\ Answers' /\ Starts' /\ Once' /\ (Plain' => Interval')
  <2>1. Alone({}, {}) /\ reqs' \subseteq (reqs \ {}) \union {}
    BY <1>1 DEF Alone
  <2> QED BY <1>1, <2>1, SendKeeps
<1>3. Loop!PollTypeOK'
  BY BusyFacts DEF onTabClick, loop, ViewInv, TypeOK, Loop!PollTypeOK
<1>4. TypeOK' /\ Unfiltered'
  BY <1>1, <1>3, IDsFacts DEF onTabClick, ViewInv, TypeOK, Unfiltered
<1> QED BY <1>2, <1>4 DEF ViewInv

\* A command succeeded: onRetry asks for what is new, or for the build.
LEMMA CommandInv ==
  ASSUME ViewInv, CommandSucceeded
  PROVE  ViewInv'
<1> DEFINE q == IF newestID = 0 THEN Req("fix", "one", active)
                ELSE [Req("new", "after", newestID) EXCEPT !.aim = active]
<1>1. /\ srv' = srv /\ bid' = bid /\ tracked' = tracked /\ builds' = builds
      /\ allBuilds' = allBuilds /\ trimmed' = trimmed
      /\ newestID' = newestID /\ oldestID' = oldestID /\ hasMore' = hasMore
      /\ reqs' = (reqs \ {}) \union {q}
  BY DEF CommandSucceeded, onRetry, props, meta
<1>2. /\ q \in Request /\ q.data = <<>> /\ q.st = "sent"
      /\ \/ q.who = "fix" /\ q.kind = "one"
         \/ q.who = "new" /\ q.kind = "after" /\ newestID # 0 /\ q.arg = newestID
  <2>1. newestID \in 0..MaxBuild /\ active \in 0..MaxBuild
    BY DEF ViewInv, TypeOK
  <2>2. Req("fix", "one", active) \in Request /\ Req("new", "after", newestID) \in Request
    BY <2>1, ReqType
  <2>3. CASE newestID = 0
    BY <2>2, <2>3, ReqFields
  <2>4. CASE newestID # 0
    BY <2>1, <2>2, <2>4, ReqFields DEF Request
  <2> QED BY <2>3, <2>4
<1> HIDE DEF q
<1>3. Calls' /\ Answers' /\ Starts' /\ Once' /\ (Plain' => Interval')
  <2>1. q.who \notin Polls \union {"init"}
    BY <1>2, PollsApart
  <2>2. Proper(q)
    BY <1>2, <2>1 DEF Proper, Sent
  <2>3. Alone({q}, {})
    BY <2>1 DEF Alone
  <2> QED BY <1>1, <2>2, <2>3, SendKeeps
<1>4. Loop!PollTypeOK'
  BY BusyFacts DEF CommandSucceeded, loop, ViewInv, TypeOK, Loop!PollTypeOK
<1>5. retries' \in 0..MaxRetries
  BY ViewAssumption DEF CommandSucceeded, ViewInv, TypeOK
<1>6. TypeOK' /\ Unfiltered'
  BY <1>1, <1>2, <1>4, <1>5 DEF CommandSucceeded, ViewInv, TypeOK, Unfiltered
<1> QED BY <1>3, <1>6 DEF ViewInv

\* Older builds are asked for.
LEMMA ScrollInv ==
  ASSUME ViewInv, Scroll
  PROVE  ViewInv'
<1> DEFINE q == Req("more", "before", oldestID)
<1>1. /\ srv' = srv /\ bid' = bid /\ tracked' = tracked /\ builds' = builds
      /\ allBuilds' = allBuilds /\ trimmed' = trimmed
      /\ newestID' = newestID /\ oldestID' = oldestID /\ hasMore' = hasMore
      /\ reqs' = (reqs \ {}) \union {q}
  BY DEF Scroll, page, props, meta
<1>2. /\ q \in Request /\ q.data = <<>> /\ q.st = "sent"
      /\ q.who = "more" /\ q.kind = "before" /\ oldestID # 0 /\ q.arg = oldestID
  <2>1. oldestID \in 0..MaxBuild /\ oldestID # 0
    BY DEF Scroll, ViewInv, TypeOK
  <2> QED BY <2>1, ReqType, ReqFields
<1> HIDE DEF q
<1>3. Calls' /\ Answers' /\ Starts' /\ Once' /\ (Plain' => Interval')
  <2>1. q.who \notin Polls \union {"init"}
    BY <1>2, PollsApart
  <2>2. Proper(q)
    BY <1>2, <2>1 DEF Proper, Sent
  <2>3. Alone({q}, {})
    BY <2>1 DEF Alone
  <2> QED BY <1>1, <2>2, <2>3, SendKeeps
<1>4. Loop!PollTypeOK'
  BY BusyFacts DEF Scroll, page, loop, ViewInv, TypeOK, Loop!PollTypeOK
<1>5. TypeOK' /\ Unfiltered'
  BY <1>1, <1>2, <1>4 DEF Scroll, page, ViewInv, TypeOK, Unfiltered
<1> QED BY <1>3, <1>5 DEF ViewInv

\* The server goes on: builds that exist stay.
LEMMA ServerGoesOn ==
  ASSUME ViewInv, UNCHANGED <<reqs, page>>, srv' \in [IDs -> Statuses \union {"none"}],
         Existing \subseteq Existing', Consecutive'
  PROVE  ViewInv'
<1>1. /\ reqs' = reqs /\ bid' = bid /\ tracked' = tracked /\ builds' = builds
      /\ allBuilds' = allBuilds /\ trimmed' = trimmed /\ active' = active
      /\ newestID' = newestID /\ oldestID' = oldestID /\ hasMore' = hasMore
      /\ filter' = filter /\ retries' = retries
  BY DEF page, props, meta
<1>2. TypeOK'
  <2>1. Loop!PollTypeOK'
    BY BusyFacts DEF page, loop, ViewInv, TypeOK, Loop!PollTypeOK
  <2> QED BY <1>1, <2>1 DEF ViewInv, TypeOK
<1>3. Calls'
  BY <1>1 DEF ViewInv, Calls, OneCall, Sent
<1>4. Answers'
  BY <1>1 DEF ViewInv, Answers, Truthful
<1>5. Starts'
  BY <1>1 DEF ViewInv, Starts, Loading
<1>6. Once'
  BY <1>1 DEF ViewInv, Once
<1>7. Unfiltered'
  BY <1>1 DEF ViewInv, Unfiltered
<1>8. Plain' => Interval'
  BY <1>1 DEF ViewInv, Plain, Interval
<1> QED BY <1>2, <1>3, <1>4, <1>5, <1>6, <1>7, <1>8 DEF ViewInv

\* A build is created: the next id.
LEMMA CreateInv ==
  ASSUME ViewInv, Create
  PROVE  ViewInv'
<1>1. PICK s \in Births : Born(s)
  BY DEF Create
<1>2. PICK i \in IDs \ Existing :
         (\A j \in IDs \ Existing : i <= j) /\ srv' = [srv EXCEPT ![i] = s]
  BY <1>1 DEF Born
<1>3. srv \in [IDs -> Statuses \union {"none"}] /\ s \in Statuses /\ s # "none"
  BY ViewAssumption DEF ViewInv, TypeOK, Statuses, Terminal, NonTerminal
<1>4. srv' \in [IDs -> Statuses \union {"none"}]
  BY <1>2, <1>3
<1>5. Existing' = Existing \union {i}
  BY <1>2, <1>3 DEF Existing
<1>6. Consecutive'
  <2> SUFFICES ASSUME NEW j \in Existing', NEW m \in IDs, m <= j PROVE m \in Existing'
    BY DEF Consecutive
  <2>1. CASE j \in Existing
    BY <1>5, <2>1 DEF ViewInv, Answers, Consecutive
  <2>2. CASE j = i
    <3>1. CASE m = i
      BY <1>5, <3>1
    <3>2. CASE m # i
      <4>1. m \in Int /\ i \in Int
        BY <1>2, IDsFacts
      <4>2. ~ i <= m
        BY <2>2, <3>2, <4>1
      <4> QED BY <1>2, <1>5, <4>2
    <3> QED BY <3>1, <3>2
  <2> QED BY <1>5, <2>1, <2>2
<1> QED BY <1>4, <1>5, <1>6, ServerGoesOn DEF Create

\* A build changes its status.
LEMMA AdvanceInv ==
  ASSUME ViewInv, NEW i \in IDs, Advance(i)
  PROVE  ViewInv'
<1>1. PICK m \in Moves : srv[i] = m[1] /\ srv' = [srv EXCEPT ![i] = m[2]]
  BY DEF Advance
<1>2. m[1] \in Statuses /\ m[2] \in Statuses /\ "none" \notin Statuses
  BY ViewAssumption DEF Statuses, Terminal, NonTerminal
<1>3. srv \in [IDs -> Statuses \union {"none"}]
  BY DEF ViewInv, TypeOK
<1>4. srv' \in [IDs -> Statuses \union {"none"}]
  BY <1>1, <1>2, <1>3
<1>5. Existing' = Existing
  BY <1>1, <1>2, <1>3 DEF Existing
<1>6. Consecutive'
  BY <1>5 DEF ViewInv, Answers, Consecutive
<1> QED BY <1>4, <1>5, <1>6, ServerGoesOn DEF Advance

\* The server answers.
LEMMA ReplyInv ==
  ASSUME ViewInv, NEW r \in reqs, Reply(r)
  PROVE  ViewInv'
<1> DEFINE a == Answer(r.kind, r.arg)
           q == [r EXCEPT !.st = "ok", !.data = a]
<1>1. /\ srv' = srv /\ bid' = bid /\ tracked' = tracked /\ builds' = builds
      /\ allBuilds' = allBuilds /\ trimmed' = trimmed /\ active' = active
      /\ newestID' = newestID /\ oldestID' = oldestID /\ hasMore' = hasMore
      /\ filter' = filter /\ retries' = retries
      /\ reqs' = (reqs \ {r}) \union {q}
  BY DEF Reply, page, props, meta
<1>2. r \in Request /\ r.arg \in 0..MaxBuild
  BY DEF ViewInv, TypeOK, Request
<1>3. /\ a \in Seq(Entry) /\ Sorted(a) /\ Ids(a) \subseteq Existing
      /\ r.kind = "load" => Convex(Ids(a))
      /\ r.kind = "after" => Above(Ids(a), r.arg)
      /\ r.kind = "before" /\ r.arg \in Existing => Below(Ids(a), r.arg)
      /\ r.kind = "one" => Ids(a) \subseteq {r.arg}
  BY <1>2, AnswerFacts DEF ViewInv, TypeOK, Answers
<1> HIDE DEF a
<1>4. /\ q \in Request /\ q.who = r.who /\ q.kind = r.kind /\ q.arg = r.arg
      /\ q.st = "ok" /\ q.data = a
  BY <1>2, <1>3 DEF Request
<1> HIDE DEF q
<1>5. Existing' = Existing
  BY <1>1 DEF Existing
<1>6. TypeOK'
  <2>1. Loop!PollTypeOK'
    BY BusyFacts DEF Reply, page, loop, ViewInv, TypeOK, Loop!PollTypeOK
  <2>2. reqs' \subseteq Request
    BY <1>1, <1>4 DEF ViewInv, TypeOK
  <2> QED BY <1>1, <2>1, <2>2 DEF ViewInv, TypeOK
<1>7. Calls'
  <2>1. Sent(q)
    BY <1>4 DEF ViewInv, Calls, Sent
  <2>2. Alone({q}, {r})
    BY <1>4 DEF ViewInv, Calls, OneCall, Alone
  <2> QED BY <1>1, <2>1, <2>2, CallsKept DEF ViewInv
<1>8. Answers'
  <2>1. Truthful(q)
    BY <1>3, <1>4 DEF Truthful
  <2> QED BY <1>1, <1>5, <2>1 DEF ViewInv, Answers, Truthful, Consecutive
<1>9. Starts'
  <2> SUFFICES ASSUME Loading'
               PROVE  /\ builds' = <<>> /\ newestID' = 0 /\ oldestID' = 0
                      /\ \A x \in reqs' : x.kind \notin {"after", "before"}
    BY DEF Starts
  <2>1. PICK x \in reqs' : x.who = "init" /\ x.kind # "one"
    BY DEF Loading
  <2>2. Loading
    BY <1>1, <1>4, <2>1 DEF Loading
  <2> QED BY <1>1, <1>4, <2>2 DEF ViewInv, Starts
<1>10. Once'
  <2>1. ASSUME NEW x \in reqs', x.who = "init", x.kind = "one"
        PROVE  x.arg = bid /\ bid # 0 /\ bid \notin Ids(allBuilds) /\ Ids(x.data) \subseteq {bid}
    BY <1>1, <1>3, <1>4, <2>1 DEF ViewInv, Once
  <2> QED BY <1>1, <2>1 DEF ViewInv, Once
<1>11. Unfiltered'
  BY <1>1 DEF ViewInv, Unfiltered
<1>12. ASSUME Plain' PROVE Interval'
  <2>1. Interval
    BY <1>1, <1>12 DEF ViewInv, Plain
  <2>2. /\ q.kind = "after" => q.arg \in Ids(builds) /\ Above(Ids(q.data), q.arg)
        /\ q.kind = "before" => q.arg \in Ids(builds) /\ Below(Ids(q.data), q.arg)
    BY <1>3, <1>4, <2>1 DEF Interval
  <2> QED BY <1>1, <1>5, <2>1, <2>2 DEF Interval
<1> QED BY <1>6, <1>7, <1>8, <1>9, <1>10, <1>11, <1>12 DEF ViewInv

-----------------------------------------------------------------------------
(* The steps that write tabs. *)

\* What such a step leaves to show: that no build is there twice.
LEMMA TabsKeep ==
  ASSUME ViewInv, srv' = srv, bid' = bid, tracked' = tracked, allBuilds' = allBuilds,
         NEW r \in reqs, NEW N, reqs' \subseteq (reqs \ {r}) \union N,
         \A q \in N : Sent(q) /\ q.data = <<>> /\ q.kind \in {"status", "one"} /\ q.who # "init",
         Alone(N, {r}), Distinct(builds'),
         Loading => builds' = <<>> /\ newestID' = 0 /\ oldestID' = 0
  PROVE  Calls' /\ Answers' /\ Starts' /\ Once'
<1>1. Calls'
  BY CallsKept DEF ViewInv
<1>2. Answers'
  BY AnswersKept DEF ViewInv
<1>3. Starts'
  <2>1. \A q \in reqs' :
            \/ q \in reqs
            \/ /\ q.who = "init" /\ q.kind # "one" => Loading
               /\ q.kind \in {"after", "before"} => ~Loading
    OBVIOUS
  <2> QED BY <2>1, StartsKept DEF ViewInv
<1>4. Once'
  <2>1. \A q \in reqs' : q \in reqs \/ ~ (q.who = "init" /\ q.kind = "one")
    OBVIOUS
  <2> QED BY <2>1, OnceKept DEF ViewInv
<1> QED BY <1>1, <1>2, <1>3, <1>4

LEMMA NoTabs ==
  ASSUME NEW bs \in Seq(Entry)
  PROVE  (bs = <<>>) <=> (Ids(bs) = {})
<1>1. bs = <<>> => Ids(bs) = {}
  BY DEF Ids
<1>2. bs # <<>> => Ids(bs) # {}
  <2> SUFFICES ASSUME bs # <<>> PROVE Ids(bs) # {}
    OBVIOUS
  <2>1. 1 \in DOMAIN bs
    BY EntryOf
  <2> QED BY <2>1 DEF Ids
<1> QED BY <1>1, <1>2

\* New builds come before the tabs, right above them.
LEMMA JoinNewer ==
  ASSUME ViewInv, NEW r \in reqs, r.kind = "after"
  PROVE  LET j == Fresh(r.data, builds) \o builds
         IN  /\ j \in Seq(Entry) /\ Distinct(j) /\ Ids(j) = Ids(r.data) \union Ids(builds)
             /\ Plain => Sorted(j) /\ Convex(Ids(j)) /\ Ids(j) \subseteq Existing
<1> DEFINE d == r.data
           f == Fresh(d, builds)
           j == f \o builds
<1>1. d \in Seq(Entry) /\ builds \in Seq(Entry)
  BY DEF ViewInv, TypeOK, Request
<1>2. Sorted(d) /\ Ids(d) \subseteq Existing
  BY DEF ViewInv, Answers, Truthful
<1> HIDE DEF d
<1>3. f \in Seq(Entry) /\ Ids(f) = Ids(d) \ Ids(builds) /\ Sorted(f) /\ Distinct(f)
  BY <1>1, <1>2, FreshFacts, SortedIsDistinct
<1> HIDE DEF f
<1>4. j \in Seq(Entry) /\ Ids(j) = Ids(d) \union Ids(builds)
  BY <1>1, <1>3, JoinFacts
<1>5. Distinct(j)
  <2>1. Ids(f) \intersect Ids(builds) = {} /\ Distinct(builds)
    BY <1>3 DEF ViewInv, Once
  <2> QED BY <1>1, <1>3, <2>1, JoinFacts
<1>6. ASSUME Plain PROVE Sorted(j) /\ Convex(Ids(j)) /\ Ids(j) \subseteq Existing
  <2>1. /\ Sorted(builds) /\ Convex(Ids(builds)) /\ Ids(builds) \subseteq Existing
        /\ r.arg \in Ids(builds) /\ Above(Ids(d), r.arg)
    BY <1>6 DEF ViewInv, Interval, d
  <2>2. Ids(d) \subseteq IDs /\ Ids(builds) \subseteq IDs /\ IDs \subseteq Int
    BY <1>1, EntryOf, IDsFacts
  <2>3. \A i \in Ids(f), k \in Ids(builds) : i > k
    <3> SUFFICES ASSUME NEW i \in Ids(f), NEW k \in Ids(builds), ~ i > k PROVE FALSE
      OBVIOUS
    <3>1. i \in Ids(d) /\ i \notin Ids(builds) /\ i \in IDs /\ i \in Int /\ k \in Int /\ r.arg \in Int
      BY <1>3, <2>1, <2>2
    <3>2. r.arg < i /\ i <= k
      BY <2>1, <3>1 DEF Above
    <3>3. r.arg <= i
      BY <3>1, <3>2
    <3> QED BY <2>1, <3>1, <3>2, <3>3 DEF Convex
  <2>4. Sorted(j)
    BY <1>1, <1>3, <2>1, <2>3, JoinFacts
  <2>5. Convex(Ids(d) \union Ids(builds))
    <3> SUFFICES ASSUME NEW i \in Ids(d) \union Ids(builds), NEW k \in Ids(d) \union Ids(builds),
                        NEW m \in IDs, i <= m, m <= k
                 PROVE  m \in Ids(d) \union Ids(builds)
      BY DEF Convex
    <3>1. i \in Int /\ k \in Int /\ m \in Int /\ r.arg \in Int
      BY <2>1, <2>2
    <3>2. CASE k \in Ids(d) /\ r.arg < m
      BY <2>1, <3>2 DEF Above
    <3>3. CASE i \in Ids(builds) /\ m <= r.arg
      BY <2>1, <3>3 DEF Convex
    <3>4. CASE i \in Ids(builds) /\ k \in Ids(builds)
      BY <2>1, <3>4 DEF Convex
    <3>5. CASE i \in Ids(d)
      <4>1. r.arg < i
        BY <2>1, <3>5 DEF Above
      <4>2. r.arg < m /\ r.arg <= m
        BY <3>1, <4>1
      <4>3. CASE k \in Ids(d)
        BY <3>2, <4>2, <4>3
      <4>4. CASE k \in Ids(builds)
        BY <2>1, <4>2, <4>4 DEF Convex
      <4> QED BY <4>3, <4>4
    <3>6. r.arg < m \/ m <= r.arg
      BY <3>1
    <3> QED BY <3>2, <3>3, <3>4, <3>5, <3>6
  <2> QED BY <1>2, <1>4, <2>1, <2>4, <2>5
<1> QED BY <1>4, <1>5, <1>6 DEF f, d

\* Older builds come after the tabs, right below them.
LEMMA JoinOlder ==
  ASSUME ViewInv, NEW r \in reqs, r.kind = "before"
  PROVE  LET j == builds \o Fresh(r.data, builds)
         IN  /\ j \in Seq(Entry) /\ Distinct(j) /\ Ids(j) = Ids(r.data) \union Ids(builds)
             /\ Plain => Sorted(j) /\ Convex(Ids(j)) /\ Ids(j) \subseteq Existing
<1> DEFINE d == r.data
           f == Fresh(d, builds)
           j == builds \o f
<1>1. d \in Seq(Entry) /\ builds \in Seq(Entry)
  BY DEF ViewInv, TypeOK, Request
<1>2. Sorted(d) /\ Ids(d) \subseteq Existing
  BY DEF ViewInv, Answers, Truthful
<1> HIDE DEF d
<1>3. f \in Seq(Entry) /\ Ids(f) = Ids(d) \ Ids(builds) /\ Sorted(f) /\ Distinct(f)
  BY <1>1, <1>2, FreshFacts, SortedIsDistinct
<1> HIDE DEF f
<1>4. j \in Seq(Entry) /\ Ids(j) = Ids(d) \union Ids(builds)
  BY <1>1, <1>3, JoinFacts
<1>5. Distinct(j)
  <2>1. Ids(builds) \intersect Ids(f) = {} /\ Distinct(builds)
    BY <1>3 DEF ViewInv, Once
  <2> QED BY <1>1, <1>3, <2>1, JoinFacts
<1>6. ASSUME Plain PROVE Sorted(j) /\ Convex(Ids(j)) /\ Ids(j) \subseteq Existing
  <2>1. /\ Sorted(builds) /\ Convex(Ids(builds)) /\ Ids(builds) \subseteq Existing
        /\ r.arg \in Ids(builds) /\ Below(Ids(d), r.arg)
    BY <1>6 DEF ViewInv, Interval, d
  <2>2. Ids(d) \subseteq IDs /\ Ids(builds) \subseteq IDs /\ IDs \subseteq Int
    BY <1>1, EntryOf, IDsFacts
  <2>3. \A k \in Ids(builds), i \in Ids(f) : k > i
    <3> SUFFICES ASSUME NEW i \in Ids(f), NEW k \in Ids(builds), ~ k > i PROVE FALSE
      OBVIOUS
    <3>1. i \in Ids(d) /\ i \notin Ids(builds) /\ i \in IDs /\ i \in Int /\ k \in Int /\ r.arg \in Int
      BY <1>3, <2>1, <2>2
    <3>2. i < r.arg /\ k <= i
      BY <2>1, <3>1 DEF Below
    <3>3. i <= r.arg
      BY <3>1, <3>2
    <3> QED BY <2>1, <3>1, <3>2, <3>3 DEF Convex
  <2>4. Sorted(j)
    BY <1>1, <1>3, <2>1, <2>3, JoinFacts
  <2>5. Convex(Ids(d) \union Ids(builds))
    <3> SUFFICES ASSUME NEW i \in Ids(d) \union Ids(builds), NEW k \in Ids(d) \union Ids(builds),
                        NEW m \in IDs, i <= m, m <= k
                 PROVE  m \in Ids(d) \union Ids(builds)
      BY DEF Convex
    <3>1. i \in Int /\ k \in Int /\ m \in Int /\ r.arg \in Int
      BY <2>1, <2>2
    <3>2. CASE i \in Ids(d) /\ m < r.arg
      BY <2>1, <3>2 DEF Below
    <3>3. CASE k \in Ids(builds) /\ r.arg <= m
      BY <2>1, <3>3 DEF Convex
    <3>4. CASE i \in Ids(builds) /\ k \in Ids(builds)
      BY <2>1, <3>4 DEF Convex
    <3>5. CASE k \in Ids(d)
      <4>1. k < r.arg
        BY <2>1, <3>5 DEF Below
      <4>2. m < r.arg /\ m <= r.arg
        BY <3>1, <4>1
      <4>3. CASE i \in Ids(d)
        BY <3>2, <4>2, <4>3
      <4>4. CASE i \in Ids(builds)
        BY <2>1, <4>2, <4>4 DEF Convex
      <4> QED BY <4>3, <4>4
    <3>6. m < r.arg \/ r.arg <= m
      BY <3>1
    <3> QED BY <3>2, <3>3, <3>4, <3>5, <3>6
  <2> QED BY <1>2, <1>4, <2>1, <2>4, <2>5
<1> QED BY <1>4, <1>5, <1>6 DEF f, d

\* fetchNewBuilds is over, in a call of pollBuilds or after a command: the new
\* builds are joined, filtered or not, and the process goes on with q.
LEMMA AfterInv ==
  ASSUME ViewInv, NEW r \in reqs, r.kind = "after", NewCursor(r),
         NEW q, reqs' = (reqs \ {r}) \union {q}, q \in Request, Sent(q), q.data = <<>>,
         q.kind \in {"status", "one"}, q.who # "init", Alone({q}, {r}),
         r.data = <<>> => builds' = builds,
         r.data # <<>> => LET j == Fresh(r.data, builds) \o builds
                          IN  builds' = j \/ builds' = filterByTracked(j),
         UNCHANGED <<srv, loop, props, active, allBuilds, filter, retries, trimmed>>
  PROVE  ViewInv'
<1> DEFINE j == Fresh(r.data, builds) \o builds
<1>1. /\ srv' = srv /\ bid' = bid /\ tracked' = tracked /\ allBuilds' = allBuilds
      /\ active' = active /\ filter' = filter /\ retries' = retries /\ trimmed' = trimmed
      /\ oldestID' = oldestID /\ hasMore' = hasMore
  BY DEF props, NewCursor
<1>2. r.data \in Seq(Entry) /\ builds \in Seq(Entry) /\ newestID \in 0..MaxBuild
  BY DEF ViewInv, TypeOK, Request
<1>3. /\ j \in Seq(Entry) /\ Distinct(j) /\ Ids(j) = Ids(r.data) \union Ids(builds)
      /\ Plain => Sorted(j) /\ Convex(Ids(j)) /\ Ids(j) \subseteq Existing
  BY JoinNewer
<1>4. r.data # <<>> => builds' = j \/ builds' = filterByTracked(j)
  OBVIOUS
<1> HIDE DEF j
<1>5. /\ filterByTracked(j) \in Seq(Entry) /\ Distinct(filterByTracked(j))
      /\ filter = IDs => filterByTracked(j) = j
  BY <1>3, FilterFacts
<1>6. builds' \in Seq(Entry) /\ Distinct(builds')
  BY <1>2, <1>3, <1>4, <1>5 DEF ViewInv, Once
<1>7. newestID' \in 0..MaxBuild
  BY <1>2, MetaFacts DEF NewCursor
<1>8. ~Loading
  BY DEF ViewInv, Starts
<1>9. Calls' /\ Answers' /\ Starts' /\ Once'
  BY <1>1, <1>6, <1>8, TabsKeep
<1>10. TypeOK'
  <2>1. Loop!PollTypeOK'
    BY BusyFacts DEF loop, ViewInv, TypeOK, Loop!PollTypeOK
  <2>2. reqs' \subseteq Request
    BY DEF ViewInv, TypeOK
  <2> QED BY <1>1, <1>6, <1>7, <2>1, <2>2 DEF ViewInv, TypeOK
<1>11. Unfiltered'
  BY <1>1 DEF ViewInv, Unfiltered
<1>12. ASSUME Plain' PROVE Interval'
  <2>1. Plain /\ Interval
    BY <1>1, <1>12 DEF Plain, ViewInv
  <2>2. \A x \in reqs' :
            \/ x \in reqs
            \/ x.data = <<>> /\ (x.kind \in {"after", "before"} => x.arg \in Ids(builds))
    OBVIOUS
  <2>3. CASE r.data = <<>>
    <3>1. newestID' = newestID /\ builds' = builds
      BY <2>3 DEF NewCursor
    <3> QED BY <1>1, <2>1, <2>2, <3>1, IntervalKept DEF Interval
  <2>4. CASE r.data # <<>>
    <3>1. builds' = j
      BY <1>4, <1>5, <2>1, <2>4 DEF Plain, ViewInv, Unfiltered
    <3>2. newestID' \in Ids(j)
      BY <1>2, <1>3, <2>4, MetaFacts DEF NewCursor
    <3>3. oldestID' \in Ids(j)
      <4>1. builds # <<>>
        BY <1>2, <2>1, NoTabs DEF Interval
      <4> QED BY <1>1, <1>3, <2>1, <4>1 DEF Interval
    <3>4. builds' # <<>>
      BY <1>3, <3>1, <3>2, NoTabs
    <3> QED BY <1>1, <1>3, <2>1, <2>2, <3>1, <3>2, <3>3, <3>4, IntervalKept
  <2> QED BY <2>3, <2>4
<1> QED BY <1>9, <1>10, <1>11, <1>12 DEF ViewInv

LEMMA PollNewInv ==
  ASSUME ViewInv, NEW r \in reqs, NEW p \in Polls, PollNew(r, p)
  PROVE  ViewInv'
<1> DEFINE q == Req(p, "status", 0)
           j == Fresh(r.data, builds) \o builds
<1>1. r.who = p /\ r.kind = "after" /\ NewCursor(r) /\ reqs' = (reqs \ {r}) \union {q}
  BY DEF PollNew, Settled
<1>2. /\ q \in Request /\ q.who = p /\ q.kind = "status" /\ q.data = <<>> /\ q.st = "sent"
  <2>1. 0 \in 0..MaxBuild
    BY ViewAssumption
  <2>2. q \in Request
    BY <2>1, ReqType
  <2> QED BY <2>2, ReqFields
<1>3. sortBuilds(j) = j
  BY JoinNewer, SortIsIdentity, <1>1
<1>4. /\ r.data = <<>> => builds' = builds
      /\ r.data # <<>> => builds' = filterByTracked(j)
  BY <1>3 DEF PollNew
<1> HIDE DEF q
<1>5. Sent(q) /\ q.who # "init"
  BY <1>2, PollsApart DEF Sent
<1>6. Alone({q}, {r})
  BY <1>1, <1>2 DEF ViewInv, Calls, OneCall, Alone
<1> QED BY <1>1, <1>2, <1>4, <1>5, <1>6, AfterInv DEF PollNew

LEMMA RetryNewInv ==
  ASSUME ViewInv, NEW r \in reqs, RetryNew(r)
  PROVE  ViewInv'
<1> DEFINE q == Req("fix", "one", r.aim)
           j == Fresh(r.data, builds) \o builds
<1>1. r.kind = "after" /\ NewCursor(r) /\ reqs' = (reqs \ {r}) \union {q}
  BY DEF RetryNew, Settled
<1>2. /\ q \in Request /\ q.who = "fix" /\ q.kind = "one" /\ q.data = <<>> /\ q.st = "sent"
  <2>1. r.aim \in 0..MaxBuild
    BY DEF ViewInv, TypeOK, Request
  <2> QED BY <2>1, ReqType, ReqFields
<1>3. sortBuilds(j) = j
  BY JoinNewer, SortIsIdentity, <1>1
<1>4. /\ r.data = <<>> => builds' = builds
      /\ r.data # <<>> => builds' = j
  BY <1>3 DEF RetryNew
<1> HIDE DEF q
<1>5. q.who \notin Polls \union {"init"}
  BY <1>2, PollsApart
<1>6. Sent(q) /\ q.who # "init"
  BY <1>2, <1>5 DEF Sent
<1>7. Alone({q}, {r})
  BY <1>5 DEF Alone
<1> QED BY <1>1, <1>2, <1>4, <1>6, <1>7, AfterInv DEF RetryNew

\* Entries are replaced, by a poll or by a build fetched by itself, and builds are
\* fetched.
LEMMA ReplaceInv ==
  ASSUME ViewInv, NEW r \in reqs, NEW N, reqs' = (reqs \ {r}) \union N,
         N \subseteq Request,
         \A q \in N : q.who = "fix" /\ q.kind = "one" /\ q.data = <<>> /\ q.st = "sent",
         builds' = builds \/ builds' = Replaced(builds, r.data),
         Loop!PollTypeOK',
         UNCHANGED <<srv, props, active, meta, allBuilds, filter, retries, trimmed>>
  PROVE  ViewInv'
<1>1. /\ srv' = srv /\ bid' = bid /\ tracked' = tracked /\ allBuilds' = allBuilds
      /\ active' = active /\ filter' = filter /\ retries' = retries /\ trimmed' = trimmed
      /\ newestID' = newestID /\ oldestID' = oldestID /\ hasMore' = hasMore
  BY DEF props, meta
<1>2. r.data \in Seq(Entry) /\ builds \in Seq(Entry)
  BY DEF ViewInv, TypeOK, Request
<1>3. /\ Replaced(builds, r.data) \in Seq(Entry)
      /\ Ids(Replaced(builds, r.data)) = Ids(builds)
      /\ Sorted(builds) => Sorted(Replaced(builds, r.data))
      /\ Distinct(builds) => Distinct(Replaced(builds, r.data))
  BY <1>2, ReplacedFacts
<1>4. /\ builds' \in Seq(Entry) /\ Ids(builds') = Ids(builds)
      /\ Sorted(builds) => Sorted(builds')
      /\ Distinct(builds')
  BY <1>2, <1>3 DEF ViewInv, Once
<1>5. (builds' = <<>>) <=> (builds = <<>>)
  <2>1. \A bs \in Seq(Entry) : (bs = <<>>) <=> (Ids(bs) = {})
    BY NoTabs
  <2> QED BY <1>2, <1>4, <2>1
<1>6. \A q \in N : Sent(q) /\ q.who \notin Polls \union {"init"}
  BY PollsApart DEF Sent
<1>7. Calls' /\ Answers' /\ Starts' /\ Once'
  <2>1. Alone(N, {r})
    BY <1>6 DEF Alone
  <2>2. Loading => builds' = <<>> /\ newestID' = 0 /\ oldestID' = 0
    BY <1>1, <1>5 DEF ViewInv, Starts
  <2> QED BY <1>1, <1>4, <1>6, <2>1, <2>2, TabsKeep
<1>8. TypeOK'
  BY <1>1, <1>4 DEF ViewInv, TypeOK
<1>9. Unfiltered'
  BY <1>1 DEF ViewInv, Unfiltered
<1>10. ASSUME Plain' PROVE Interval'
  <2>1. Interval
    BY <1>1, <1>10 DEF Plain, ViewInv
  <2>2. \A x \in reqs' :
            \/ x \in reqs
            \/ x.data = <<>> /\ (x.kind \in {"after", "before"} => x.arg \in Ids(builds))
    OBVIOUS
  <2>3. /\ Sorted(builds') /\ Convex(Ids(builds')) /\ Ids(builds') \subseteq Existing
        /\ Ids(builds) \subseteq Ids(builds')
        /\ builds' = <<>> => newestID' = 0 /\ oldestID' = 0
        /\ builds' # <<>> => newestID' \in Ids(builds') /\ oldestID' \in Ids(builds')
    BY <1>1, <1>4, <1>5, <2>1 DEF Interval
  <2> QED BY <1>1, <2>1, <2>2, <2>3, IntervalKept
<1> QED BY <1>7, <1>8, <1>9, <1>10 DEF ViewInv

\* The tick of the polling loop ends.
LEMMA PollStatusInv ==
  ASSUME ViewInv, NEW r \in reqs, NEW p \in Polls, PollStatus(r, p)
  PROVE  ViewInv'
<1> DEFINE stale == {i \in Ids(builds) \ Ids(r.data) : Tab(i).status \in NonTerminal}
           N == IF r.st = "ok" THEN {Req("fix", "one", i) : i \in stale} ELSE {}
<1>1. /\ reqs' = (reqs \ {r}) \union N
      /\ builds' = builds \/ builds' = Replaced(builds, r.data)
      /\ Loop!TickDone
      /\ UNCHANGED <<srv, props, active, meta, allBuilds, filter, retries, trimmed>>
  BY DEF PollStatus
<1>2. N \subseteq Request
  <2>1. stale \subseteq 0..MaxBuild
    <3>1. builds \in Seq(Entry)
      BY DEF ViewInv, TypeOK
    <3> QED BY <3>1, EntryOf, IDsFacts
  <2>2. \A i \in 0..MaxBuild : Req("fix", "one", i) \in Request
    BY ReqType
  <2> QED BY <2>1, <2>2
<1>3. \A q \in N : q.who = "fix" /\ q.kind = "one" /\ q.data = <<>> /\ q.st = "sent"
  BY ReqFields
<1>4. Loop!PollTypeOK'
  BY <1>1, BusyFacts DEF Loop!TickDone, Loop!schedule, ViewInv, TypeOK, Loop!PollTypeOK
<1> HIDE DEF N
<1> QED BY <1>1, <1>2, <1>3, <1>4, ReplaceInv

LEMMA FixInv ==
  ASSUME ViewInv, NEW r \in reqs, Fix(r)
  PROVE  ViewInv'
<1>1. reqs' = (reqs \ {r}) \union {} /\ builds' = Replaced(builds, r.data)
  BY DEF Fix
<1>2. Loop!PollTypeOK'
  BY BusyFacts DEF Fix, loop, ViewInv, TypeOK, Loop!PollTypeOK
<1> QED BY <1>1, <1>2, ReplaceInv DEF Fix

\* Older builds are joined, and the cap may drop tabs.
LEMMA MoreInv ==
  ASSUME ViewInv, NEW r \in reqs, fetchMoreBuilds(r)
  PROVE  ViewInv'
<1> DEFINE j == builds \o Fresh(r.data, builds)
<1>1. /\ srv' = srv /\ bid' = bid /\ tracked' = tracked /\ allBuilds' = allBuilds
      /\ active' = active /\ filter' = filter /\ retries' = retries
      /\ newestID' = newestID /\ reqs' = (reqs \ {r}) \union {}
      /\ r.kind = "before" /\ hasMore' \in BOOLEAN
  BY DEF fetchMoreBuilds, Settled, props, ViewInv, TypeOK
<1>2. r.data \in Seq(Entry) /\ builds \in Seq(Entry) /\ oldestID \in 0..MaxBuild
  BY DEF ViewInv, TypeOK, Request
<1>3. /\ j \in Seq(Entry) /\ Distinct(j) /\ Ids(j) = Ids(r.data) \union Ids(builds)
      /\ Plain => Sorted(j) /\ Convex(Ids(j)) /\ Ids(j) \subseteq Existing
  BY <1>1, JoinOlder
<1>4. sortBuilds(j) = j
  BY <1>3, SortIsIdentity
<1>5. /\ r.data = <<>> => oldestID' = oldestID /\ builds' = builds /\ trimmed' = trimmed
      /\ r.data # <<>> => /\ oldestID' = OldestOf(r.data) /\ builds' = Trimmed(j)
                          /\ trimmed' = (trimmed \/ Len(j) > Cap)
  BY <1>4 DEF fetchMoreBuilds
<1> HIDE DEF j
<1>6. /\ Trimmed(j) \in Seq(Entry) /\ Distinct(Trimmed(j))
      /\ Len(j) <= Cap => Trimmed(j) = j
  BY <1>3, TrimmedFacts
<1>7. /\ builds' \in Seq(Entry) /\ Distinct(builds') /\ trimmed' \in BOOLEAN
      /\ oldestID' \in 0..MaxBuild
  BY <1>2, <1>5, <1>6, MetaFacts DEF ViewInv, TypeOK, Once
<1>8. Calls' /\ Answers' /\ Starts' /\ Once'
  <2>1. ~Loading
    BY <1>1 DEF ViewInv, Starts
  <2>2. Alone({}, {r})
    BY DEF Alone
  <2> QED BY <1>1, <1>7, <2>1, <2>2, TabsKeep
<1>9. TypeOK'
  <2>1. Loop!PollTypeOK'
    BY BusyFacts DEF fetchMoreBuilds, loop, ViewInv, TypeOK, Loop!PollTypeOK
  <2> QED BY <1>1, <1>7, <2>1 DEF ViewInv, TypeOK
<1>10. Unfiltered'
  BY <1>1 DEF ViewInv, Unfiltered
<1>11. ASSUME Plain' PROVE Interval'
  <2>1. Plain /\ Interval
    <3>1. bid = 0 /\ ~tracked /\ ~trimmed'
      BY <1>1, <1>11 DEF Plain
    <3>2. ~trimmed
      <4>1. CASE r.data = <<>>
        BY <1>5, <3>1, <4>1
      <4>2. CASE r.data # <<>>
        BY <1>5, <3>1, <4>2
      <4> QED BY <4>1, <4>2
    <3> QED BY <3>1, <3>2 DEF Plain, ViewInv
  <2>2. \A x \in reqs' :
            \/ x \in reqs
            \/ x.data = <<>> /\ (x.kind \in {"after", "before"} => x.arg \in Ids(builds))
    BY <1>1
  <2>3. CASE r.data = <<>>
    BY <1>1, <1>5, <2>1, <2>2, <2>3, IntervalKept DEF Interval
  <2>4. CASE r.data # <<>>
    <3>1. builds' = j
      <4>1. ~ Len(j) > Cap /\ Len(j) \in Nat /\ Cap \in Nat
        BY <1>3, <1>5, <1>11, <2>4, EntryOf, ViewAssumption DEF Plain
      <4> QED BY <1>5, <1>6, <2>4, <4>1
    <3>2. oldestID' \in Ids(j)
      BY <1>2, <1>3, <1>5, <2>4, MetaFacts
    <3>3. newestID' \in Ids(j)
      <4>1. builds # <<>>
        BY <1>1, <1>2, <2>1, NoTabs DEF Interval
      <4> QED BY <1>1, <1>3, <2>1, <4>1 DEF Interval
    <3>4. builds' # <<>>
      BY <1>3, <3>1, <3>2, NoTabs
    <3> QED BY <1>1, <1>3, <2>1, <2>2, <3>1, <3>2, <3>3, <3>4, IntervalKept
  <2> QED BY <2>3, <2>4
<1> QED BY <1>8, <1>9, <1>10, <1>11 DEF ViewInv

\* The initial load waits for nothing else.
LEMMA InitAlone ==
  ASSUME Calls, NEW r \in reqs, r.who = "init"
  PROVE  \A x \in reqs \ {r} : x.who # "init"
  BY DEF Calls, OneCall

\* The first page is there: until now there were no tabs, no cursors and no
\* request from a cursor.
LEMMA InitLoadInv ==
  ASSUME ViewInv, NEW r \in reqs, InitLoad(r)
  PROVE  ViewInv'
<1> DEFINE list == filterByTracked(r.data)
           q == Req("init", "one", bid)
           N == IF bid # 0 /\ bid \notin Ids(list) THEN {q} ELSE {}
<1>1. /\ r.who = "init" /\ r.kind = "load" /\ Loading
      /\ r.data \in Seq(Entry) /\ r.st \in {"sent", "ok"}
      /\ builds = <<>> /\ newestID = 0 /\ oldestID = 0
      /\ \A x \in reqs : x.kind \notin {"after", "before"}
  BY DEF InitLoad, Settled, Loading, ViewInv, Starts, TypeOK, Request
<1>2. /\ Sorted(r.data) /\ Ids(r.data) \subseteq Existing /\ Convex(Ids(r.data))
      /\ r.st = "sent" => r.data = <<>>
  BY <1>1 DEF ViewInv, Answers, Truthful, Calls, Sent
<1>3. sortBuilds(r.data) = r.data
  BY <1>1, SortIsIdentity
<1>4. /\ srv' = srv /\ bid' = bid /\ tracked' = tracked /\ filter' = filter
      /\ retries' = retries /\ trimmed' = trimmed
      /\ builds' = list /\ reqs' = (reqs \ {r}) \union N
      /\ bid # 0 /\ bid \notin Ids(list) => allBuilds' = list /\ active' = active
      /\ ~ (bid # 0 /\ bid \notin Ids(list)) =>
            allBuilds' = allBuilds /\ active' = doActivate(bid, list)
  BY <1>3 DEF InitLoad, props
<1>5. /\ r.st = "ok" => newestID' = NewestOf(r.data) /\ oldestID' = OldestOf(r.data)
      /\ r.st # "ok" => newestID' = 0 /\ oldestID' = 0
      /\ hasMore' \in BOOLEAN
  BY <1>1 DEF InitLoad, meta, ViewInv, TypeOK
<1>6. /\ list \in Seq(Entry) /\ Distinct(list)
      /\ filter = IDs => list = r.data
  BY <1>1, <1>2, FilterFacts, SortedIsDistinct
<1>7. /\ q \in Request /\ q.who = "init" /\ q.kind = "one" /\ q.data = <<>> /\ q.st = "sent"
      /\ q.arg = bid
  <2>1. bid \in 0..MaxBuild
    BY DEF ViewInv, TypeOK
  <2> QED BY <2>1, ReqType, ReqFields
<1> HIDE DEF q, list
<1>8. \A x \in N : x = q /\ bid # 0 /\ bid \notin Ids(list)
  OBVIOUS
<1>9. \A x \in reqs \ {r} : x.who # "init"
  BY <1>1, InitAlone DEF ViewInv
<1>10. Calls'
  <2>1. Sent(q)
    BY <1>7, PollsApart DEF Sent
  <2>2. Alone(N, {r})
    BY <1>7, <1>8, <1>9 DEF Alone
  <2> QED BY <1>4, <1>8, <2>1, <2>2, CallsKept DEF ViewInv
<1>11. Answers'
  <2>1. \A x \in reqs' : x \in reqs \/ x.data = <<>>
    BY <1>4, <1>7, <1>8
  <2> QED BY <1>4, <2>1, AnswersKept DEF ViewInv
<1>12. Starts'
  <2>1. ~Loading'
    BY <1>4, <1>7, <1>8, <1>9 DEF Loading
  <2> QED BY <2>1 DEF Starts
<1>13. Once'
  <2>1. Distinct(builds') /\ Distinct(allBuilds')
    BY <1>4, <1>6 DEF ViewInv, Once
  <2>2. ASSUME NEW x \in reqs', x.who = "init"
        PROVE  x.arg = bid /\ bid # 0 /\ bid \notin Ids(allBuilds') /\ Ids(x.data) \subseteq {bid}
    <3>1. x = q /\ bid # 0 /\ bid \notin Ids(list)
      BY <1>4, <1>8, <1>9, <2>2
    <3>2. Ids(x.data) = {}
      BY <1>7, <3>1 DEF Ids
    <3> QED BY <1>4, <1>7, <3>1, <3>2
  <2> QED BY <1>4, <2>1, <2>2 DEF Once
<1>14. TypeOK'
  <2>1. Loop!PollTypeOK'
    BY BusyFacts DEF InitLoad, loop, ViewInv, TypeOK, Loop!PollTypeOK
  <2>2. reqs' \subseteq Request
    BY <1>4, <1>7, <1>8 DEF ViewInv, TypeOK
  <2>3. newestID' \in 0..MaxBuild /\ oldestID' \in 0..MaxBuild
    BY <1>1, <1>5, MetaFacts, ViewAssumption
  <2>4. active' \in 0..MaxBuild
    <3>1. active \in 0..MaxBuild
      BY DEF ViewInv, TypeOK
    <3> QED BY <1>4, <1>6, <3>1, ActivateFacts
  <2>5. builds' \in Seq(Entry) /\ allBuilds' \in Seq(Entry)
    BY <1>4, <1>6 DEF ViewInv, TypeOK
  <2> QED BY <1>4, <1>5, <2>1, <2>2, <2>3, <2>4, <2>5 DEF ViewInv, TypeOK
<1>15. Unfiltered'
  BY <1>4 DEF ViewInv, Unfiltered
<1>16. ASSUME Plain' PROVE Interval'
  <2>1. bid = 0 /\ filter = IDs
    BY <1>4, <1>16 DEF Plain, ViewInv, Unfiltered
  <2>2. builds' = r.data
    BY <1>4, <1>6, <2>1
  <2>3. /\ builds' = <<>> => newestID' = 0 /\ oldestID' = 0
        /\ builds' # <<>> => newestID' \in Ids(builds') /\ oldestID' \in Ids(builds')
    BY <1>1, <1>2, <1>5, <2>2, MetaFacts
  <2>4. \A x \in reqs' : x.kind \notin {"after", "before"}
    BY <1>1, <1>4, <1>7, <1>8
  <2>5. Existing' = Existing
    BY <1>4 DEF Existing
  <2> QED BY <1>2, <2>2, <2>3, <2>4, <2>5 DEF Interval
<1> QED BY <1>10, <1>11, <1>12, <1>13, <1>14, <1>15, <1>16 DEF ViewInv

\* The build of the URL is there: it is in no other page of the list.
LEMMA InitSingleInv ==
  ASSUME ViewInv, NEW r \in reqs, InitSingle(r)
  PROVE  ViewInv'
<1> DEFINE j == allBuilds \o r.data
           list == filterByTracked(j)
<1>1. /\ r.who = "init" /\ r.kind = "one"
      /\ r.data \in Seq(Entry) /\ allBuilds \in Seq(Entry) /\ active \in 0..MaxBuild
  BY DEF InitSingle, Settled, ViewInv, TypeOK, Request
<1>2. /\ Distinct(r.data) /\ Distinct(allBuilds) /\ Distinct(builds)
      /\ bid # 0 /\ Ids(allBuilds) \intersect Ids(r.data) = {}
  <2>1. Sorted(r.data)
    BY DEF ViewInv, Answers, Truthful
  <2> QED BY <1>1, <2>1, SortedIsDistinct DEF ViewInv, Once
<1>3. j \in Seq(Entry) /\ Distinct(j)
  BY <1>1, <1>2, JoinFacts
<1>4. sortBuilds(j) = j
  BY <1>3, SortIsIdentity
<1>5. /\ srv' = srv /\ bid' = bid /\ tracked' = tracked /\ filter' = filter
      /\ retries' = retries /\ trimmed' = trimmed
      /\ newestID' = newestID /\ oldestID' = oldestID /\ hasMore' = hasMore
      /\ allBuilds' = <<>> /\ reqs' = reqs \ {r}
      /\ \/ builds' = list /\ active' = doActivate(bid, list)
         \/ builds' = builds /\ active' = doActivate(bid, allBuilds)
  BY <1>4 DEF InitSingle, props, meta
<1> HIDE DEF j
<1>6. list \in Seq(Entry) /\ Distinct(list)
  BY <1>3, FilterFacts
<1> HIDE DEF list
<1>7. \A x \in reqs' : x.who # "init"
  BY <1>1, <1>5, InitAlone DEF ViewInv
<1>8. Calls'
  <2>1. Alone({}, {r})
    BY DEF Alone
  <2>2. reqs' \subseteq (reqs \ {r}) \union {}
    BY <1>5
  <2> QED BY <1>5, <2>1, <2>2, CallsKept DEF ViewInv
<1>9. Answers'
  BY <1>5, AnswersKept DEF ViewInv
<1>10. Starts'
  BY <1>7 DEF Starts, Loading
<1>11. Once'
  <2>1. Distinct(<<>>)
    BY DEF Distinct
  <2> QED BY <1>2, <1>5, <1>6, <1>7, <2>1 DEF Once
<1>12. TypeOK'
  <2>1. Loop!PollTypeOK'
    BY BusyFacts DEF InitSingle, loop, ViewInv, TypeOK, Loop!PollTypeOK
  <2>2. active' \in 0..MaxBuild
    BY <1>1, <1>5, <1>6, ActivateFacts
  <2>3. builds' \in Seq(Entry) /\ allBuilds' \in Seq(Entry)
    BY <1>5, <1>6 DEF ViewInv, TypeOK
  <2> QED BY <1>5, <2>1, <2>2, <2>3 DEF ViewInv, TypeOK
<1>13. Unfiltered'
  BY <1>5 DEF ViewInv, Unfiltered
<1>14. ~Plain'
  BY <1>2, <1>5 DEF Plain
<1> QED BY <1>8, <1>9, <1>10, <1>11, <1>12, <1>13, <1>14 DEF ViewInv

\* A step that changes nothing.
LEMMA StutterInv ==
  ASSUME ViewInv, UNCHANGED vars
  PROVE  ViewInv'
<1>1. /\ srv' = srv /\ bid' = bid /\ tracked' = tracked /\ builds' = builds
      /\ allBuilds' = allBuilds /\ trimmed' = trimmed /\ active' = active
      /\ newestID' = newestID /\ oldestID' = oldestID /\ hasMore' = hasMore
      /\ filter' = filter /\ retries' = retries /\ reqs' = reqs
      /\ hidden' = hidden /\ timeoutId' = timeoutId /\ orphans' = orphans
  BY DEF vars, loop, props, meta
<1>2. Calls' /\ Answers' /\ Starts' /\ Once' /\ (Plain' => Interval')
  <2>1. Alone({}, {}) /\ reqs' \subseteq (reqs \ {}) \union {}
    BY <1>1 DEF Alone
  <2> QED BY <1>1, <2>1, SendKeeps
<1>3. Loop!PollTypeOK'
  BY <1>1, BusyFacts DEF ViewInv, TypeOK, Loop!PollTypeOK
<1>4. TypeOK' /\ Unfiltered'
  BY <1>1, <1>3 DEF ViewInv, TypeOK, Unfiltered
<1> QED BY <1>2, <1>4 DEF ViewInv

-----------------------------------------------------------------------------
(* The invariant holds. *)

\* Every step keeps the invariant.
LEMMA StepView ==
  ASSUME ViewInv, [Next]_vars
  PROVE  ViewInv'
<1>1. CASE UNCHANGED vars
  BY <1>1, StutterInv
<1>2. CASE Create
  BY <1>2, CreateInv
<1>3. CASE Hide
  BY <1>3, HideInv
<1>4. CASE Show
  BY <1>4, ShowInv
<1>5. CASE Scroll
  BY <1>5, ScrollInv
<1>6. CASE CommandSucceeded
  BY <1>6, CommandInv
<1>7. ASSUME NEW i \in IDs, Advance(i) \/ onTabClick(i)
      PROVE  ViewInv'
  BY <1>7, AdvanceInv, TabClickInv
<1>8. ASSUME NEW r \in reqs, Reply(r)
      PROVE  ViewInv'
  BY <1>8, ReplyInv
<1>9. ASSUME NEW r \in reqs, Handle(r)
      PROVE  ViewInv'
  <2>1. ASSUME NEW p \in Polls, PollTracked(r, p) \/ PollNew(r, p) \/ PollStatus(r, p)
        PROVE  ViewInv'
    BY <2>1, PollTrackedInv, PollNewInv, PollStatusInv
  <2>2. CASE InitJob(r) \/ InitTracked(r) \/ InitLoad(r) \/ InitSingle(r)
    BY <2>2, InitJobInv, InitTrackedInv, InitLoadInv, InitSingleInv
  <2>3. CASE RetryNew(r) \/ Fix(r) \/ fetchMoreBuilds(r)
    BY <2>3, RetryNewInv, FixInv, MoreInv
  <2> QED BY <1>9, <2>1, <2>2, <2>3 DEF Handle
<1>10. ASSUME NEW p \in Polls, PollTimer(p)
       PROVE  ViewInv'
  BY <1>10, PollTimerInv
<1> QED BY <1>1, <1>2, <1>3, <1>4, <1>5, <1>6, <1>7, <1>8, <1>9, <1>10 DEF Next

LEMMA ViewInvariant == Spec => []ViewInv
<1>1. Init => ViewInv
  BY InitView
<1>2. ViewInv /\ [Next]_vars => ViewInv'
  BY StepView
<1> QED BY <1>1, <1>2, PTL DEF Spec

\* The state of the builds page has its type, for every number of builds, of calls
\* of pollBuilds at once, and of requests in flight.
THEOREM ViewTypes == Spec => []TypeOK
<1>1. ViewInv => TypeOK
  BY DEF ViewInv
<1> QED BY <1>1, ViewInvariant, PTL

\* A list in which no id is twice has as many ids as entries.
LEMMA DistinctCount ==
  ASSUME NEW bs \in Seq(Entry), Distinct(bs)
  PROVE  Cardinality(Ids(bs)) = Len(bs)
<1> DEFINE f == [k \in DOMAIN bs |-> bs[k].id]
<1>1. DOMAIN bs = 1..Len(bs) /\ Len(bs) \in Nat
  BY EntryOf
<1>2. f \in Bijection(1..Len(bs), Ids(bs))
  <2>1. f \in [1..Len(bs) -> Ids(bs)]
    BY <1>1 DEF Ids
  <2>2. \A a, b \in 1..Len(bs) : f[a] = f[b] => a = b
    BY <1>1 DEF Distinct
  <2>3. \A t \in Ids(bs) : \E s \in 1..Len(bs) : f[s] = t
    BY <1>1 DEF Ids
  <2>4. f \in Injection(1..Len(bs), Ids(bs))
    BY <2>1, <2>2 DEF Injection, IsInjective
  <2>5. f \in Surjection(1..Len(bs), Ids(bs))
    BY <2>1, <2>3 DEF Surjection
  <2> QED BY <2>4, <2>5 DEF Bijection
<1>3. ExistsBijection(1..Len(bs), Ids(bs))
  BY <1>2 DEF ExistsBijection
<1> QED BY <1>1, <1>3, FS_CountingElements

\* The tabs are sound, however many polls, refreshes, scrolls and initial loads
\* write them at the same time and whatever the size of a page and the cap: no
\* build is there twice, and without a build or a version in the URL no build
\* between the cursors is hidden and the newest comes first (setBuilds of
\* pollBuilds, onRetry, fetchMoreBuilds and init).
THEOREM ViewTabs == Spec => []TabsSound
<1>1. ViewInv => TabsSound
  <2> SUFFICES ASSUME ViewInv PROVE TabsSound
    OBVIOUS
  <2>1. UniqueTabs
    BY DistinctCount DEF ViewInv, TypeOK, Once, UniqueTabs
  <2>2. CursorsCover
    <3> SUFFICES ASSUME bid = 0, ~tracked, ~trimmed,
                        NEW i \in Existing, oldestID <= i, i <= newestID
                 PROVE  Shown(i)
      BY DEF CursorsCover
    <3>1. Interval
      BY DEF ViewInv, Plain
    <3>2. i \in IDs /\ i \in Int /\ i > 0
      BY ViewAssumption DEF Existing, IDs
    <3>3. newestID # 0
      BY <3>2 DEF ViewInv, TypeOK
    <3>4. newestID \in Ids(builds) /\ oldestID \in Ids(builds) /\ Convex(Ids(builds))
      BY <3>1, <3>3 DEF Interval
    <3> QED BY <3>2, <3>4 DEF Convex, Shown
  <2>3. NewestFirst
    BY DEF NewestFirst, ViewInv, Plain, Interval, Sorted
  <2> QED BY <2>1, <2>2, <2>3 DEF TabsSound
<1> QED BY <1>1, ViewInvariant, PTL

-----------------------------------------------------------------------------
(* The open tab. *)

\* Without a build and a version in the URL no step takes a tab away, unless the
\* cap does.
LEMMA TabsGrow ==
  ASSUME ViewInv, [Next]_vars, ~tracked, bid = 0, ~trimmed'
  PROVE  Ids(builds) \subseteq Ids(builds')
<1>0. builds \in Seq(Entry) /\ filter = IDs /\ \A r \in reqs : r.data \in Seq(Entry)
  BY DEF ViewInv, TypeOK, Request, Unfiltered
<1>1. CASE builds' = builds
  BY <1>1
<1>2. CASE UNCHANGED vars
  BY <1>1, <1>2 DEF vars
<1>3. CASE Create \/ Hide \/ Show \/ Scroll \/ CommandSucceeded
  BY <1>1, <1>3 DEF Create, Hide, Show, Scroll, CommandSucceeded, page
<1>4. ASSUME NEW i \in IDs, Advance(i) \/ onTabClick(i)
      PROVE  Ids(builds) \subseteq Ids(builds')
  BY <1>1, <1>4 DEF Advance, onTabClick, page
<1>5. ASSUME NEW p \in Polls, PollTimer(p)
      PROVE  Ids(builds) \subseteq Ids(builds')
  BY <1>1, <1>5 DEF PollTimer
<1>6. ASSUME NEW r \in reqs, Reply(r)
      PROVE  Ids(builds) \subseteq Ids(builds')
  BY <1>1, <1>6 DEF Reply, page
<1>7. ASSUME NEW r \in reqs, Handle(r)
      PROVE  Ids(builds) \subseteq Ids(builds')
  <2>1. CASE InitJob(r) \/ InitTracked(r)
    BY <1>1, <2>1 DEF InitJob, InitTracked
  <2>2. CASE InitLoad(r)
    <3>1. Loading
      BY <2>2 DEF InitLoad, Settled, Loading
    <3>2. builds = <<>>
      BY <3>1 DEF ViewInv, Starts
    <3> QED BY <3>2 DEF Ids
  <2>3. CASE InitSingle(r)
    BY <2>3 DEF InitSingle, Settled, ViewInv, Once
  <2>4. ASSUME NEW p \in Polls, PollTracked(r, p)
        PROVE  Ids(builds) \subseteq Ids(builds')
    BY <1>1, <2>4 DEF PollTracked
  <2>5. ASSUME r.kind = "after"
        PROVE  LET j == Fresh(r.data, builds) \o builds
               IN  j \in Seq(Entry) /\ sortBuilds(j) = j /\ Ids(builds) \subseteq Ids(j)
    BY <2>5, JoinNewer, SortIsIdentity
  <2>6. ASSUME NEW p \in Polls, PollNew(r, p)
        PROVE  Ids(builds) \subseteq Ids(builds')
    <3> DEFINE j == Fresh(r.data, builds) \o builds
    <3>1. j \in Seq(Entry) /\ sortBuilds(j) = j /\ Ids(builds) \subseteq Ids(j)
      BY <2>5, <2>6 DEF PollNew, Settled
    <3>2. builds' = builds \/ builds' = filterByTracked(sortBuilds(j))
      BY <2>6 DEF PollNew
    <3> HIDE DEF j
    <3>3. filterByTracked(j) = j
      BY <1>0, <3>1, FilterFacts
    <3> QED BY <3>1, <3>2, <3>3
  <2>7. ASSUME NEW p \in Polls, PollStatus(r, p)
        PROVE  Ids(builds) \subseteq Ids(builds')
    <3>1. builds' = builds \/ builds' = Replaced(builds, r.data)
      BY <2>7 DEF PollStatus
    <3> QED BY <1>0, <3>1, ReplacedFacts
  <2>8. CASE RetryNew(r)
    <3> DEFINE j == Fresh(r.data, builds) \o builds
    <3>1. sortBuilds(j) = j /\ Ids(builds) \subseteq Ids(j)
      BY <2>5, <2>8 DEF RetryNew, Settled
    <3>2. builds' = builds \/ builds' = sortBuilds(j)
      BY <2>8 DEF RetryNew
    <3> QED BY <3>1, <3>2
  <2>9. CASE Fix(r)
    <3>1. builds' = Replaced(builds, r.data)
      BY <2>9 DEF Fix
    <3> QED BY <1>0, <3>1, ReplacedFacts
  <2>10. CASE fetchMoreBuilds(r)
    <3> DEFINE j == builds \o Fresh(r.data, builds)
    <3>1. j \in Seq(Entry) /\ Ids(builds) \subseteq Ids(j)
      BY <2>10, JoinOlder DEF fetchMoreBuilds, Settled
    <3>2. sortBuilds(j) = j
      BY <3>1, SortIsIdentity
    <3>3. r.data = <<>> => builds' = builds
      BY <2>10 DEF fetchMoreBuilds
    <3>4. r.data # <<>> => builds' = Trimmed(j) /\ trimmed' = (trimmed \/ Len(j) > Cap)
      BY <2>10, <3>2 DEF fetchMoreBuilds
    <3> HIDE DEF j
    <3>5. r.data # <<>> => ~ Len(j) > Cap
      BY <3>4
    <3>6. Len(j) \in Nat /\ Cap \in Nat
      BY <3>1, EntryOf, ViewAssumption
    <3>7. Len(j) <= Cap => Trimmed(j) = j
      BY <3>1, TrimmedFacts
    <3>8. r.data # <<>> => Len(j) <= Cap
      BY <3>5, <3>6
    <3> QED BY <3>1, <3>3, <3>4, <3>7, <3>8
  <2> QED BY <1>7, <2>1, <2>2, <2>3, <2>4, <2>6, <2>7, <2>8, <2>9, <2>10 DEF Handle
<1> QED BY <1>2, <1>3, <1>4, <1>5, <1>6, <1>7 DEF Next

\* The open tab stays: no poll, refresh, scroll or fetch takes it away, unless the
\* cap does, or the filter of a version or the build of the URL.
THEOREM OpenTab == Spec => OpenTabStays
<1>1. ViewInv /\ [Next]_vars =>
        [Shown(active) /\ active' = active =>
           \/ active \in Ids(builds')
           \/ tracked \/ bid # 0
           \/ trimmed']_vars
  <2> SUFFICES ASSUME ViewInv, [Next]_vars, Shown(active), active' = active,
                      ~tracked, bid = 0, ~trimmed'
               PROVE  active \in Ids(builds')
    OBVIOUS
  <2>1. Ids(builds) \subseteq Ids(builds')
    BY TabsGrow
  <2> QED BY <2>1 DEF Shown
<1> QED BY <1>1, ViewInvariant, PTL DEF Spec, OpenTabStays

-----------------------------------------------------------------------------
(* The page runs the loop of usePolling. *)

\* The calls of pollBuilds in flight: one ends, one begins, one goes on with its
\* next request, and the other processes are none.
LEMMA CallEnds ==
  ASSUME ViewInv, NEW r \in reqs, r.who \in Polls, NEW N, \A q \in N : q.who = "fix",
         reqs' = (reqs \ {r}) \union N
  PROVE  Cardinality(Busy) > 0 /\ Cardinality(Busy') = Cardinality(Busy) - 1
<1>1. r.who \in Busy
  BY DEF Busy
<1>2. Busy' = Busy \ {r.who}
  <2>1. \A q \in reqs \ {r} : q.who # r.who
    BY DEF ViewInv, Calls, OneCall
  <2>2. \A q \in reqs' : q.who \in Polls => q \in reqs \ {r}
    BY PollsApart
  <2>3. \A p \in Polls \ {r.who} : (\E q \in reqs : q.who = p) => \E q \in reqs' : q.who = p
    OBVIOUS
  <2> QED BY <2>1, <2>2, <2>3 DEF Busy
<1>3. Cardinality(Busy \ {r.who}) = Cardinality(Busy) - 1
  BY <1>1, BusyFacts, FS_RemoveElement
<1>4. Cardinality(Busy') \in Nat /\ Cardinality(Busy) \in Nat
  BY BusyFacts
<1> QED BY <1>2, <1>3, <1>4

LEMMA CallBegins ==
  ASSUME ViewInv, NEW p \in Polls, p \notin Busy, reqs' = reqs \union {pollBuilds(p)}
  PROVE  Cardinality(Busy') = Cardinality(Busy) + 1
<1>1. pollBuilds(p).who = p
  BY PollFacts
<1>2. Busy' = Busy \union {p}
  BY <1>1 DEF Busy
<1> QED BY <1>2, BusyFacts, FS_AddElement

LEMMA CallGoesOn ==
  ASSUME NEW r \in reqs, NEW N, reqs' = (reqs \ {r}) \union N,
         \A q \in N : q.who = r.who \/ q.who \notin Polls,
         r.who \in Polls => \E q \in N : q.who = r.who
  PROVE  Busy' = Busy
<1>1. \A p \in Polls : (\E q \in reqs : q.who = p) <=> \E q \in reqs' : q.who = p
  <2> SUFFICES ASSUME NEW p \in Polls
               PROVE  (\E q \in reqs : q.who = p) <=> \E q \in reqs' : q.who = p
    OBVIOUS
  <2>1. CASE r.who = p
    BY <2>1
  <2>2. CASE r.who # p
    BY <2>2
  <2> QED BY <2>1, <2>2
<1> QED BY <1>1 DEF Busy

LEMMA CallGoesOnWith ==
  ASSUME NEW r \in reqs, NEW q, reqs' = (reqs \ {r}) \union {q},
         q.who = r.who \/ (r.who \notin Polls /\ q.who \notin Polls)
  PROVE  Busy' = Busy
<1>1. /\ \A x \in {q} : x.who = r.who \/ x.who \notin Polls
      /\ r.who \in Polls => \E x \in {q} : x.who = r.who
  OBVIOUS
<1> QED BY <1>1, CallGoesOn

LEMMA CallIsOther ==
  ASSUME NEW r \in reqs, r.who \notin Polls, reqs' = reqs \ {r}
  PROVE  Busy' = Busy
  BY DEF Busy

LEMMA OthersCall ==
  ASSUME NEW N, reqs' = reqs \union N, \A q \in N : q.who \notin Polls
  PROVE  Busy' = Busy
  BY DEF Busy

\* The page counts the calls of the loop by its requests alone: what TickDone,
\* TimerFires and Show say of ticks follows from the requests that the handler of
\* refreshActiveBuild, the timer and the visible tab send, and never holds one of
\* them back.
THEOREM TicksAreCalls ==
  ASSUME ViewInv
  PROVE  /\ \A r \in reqs, p \in Polls : Settled(r, p, "status") =>
              LET stale == {i \in Ids(builds) \ Ids(r.data) : Tab(i).status \in NonTerminal}
                  N == {Req("fix", "one", i) : i \in stale}
              IN  reqs' = (reqs \ {r}) \union (IF r.st = "ok" THEN N ELSE {}) =>
                    Cardinality(Busy) > 0 /\ Cardinality(Busy') = Cardinality(Busy) - 1
         /\ \A p \in Polls \ Busy : reqs' = reqs \union {pollBuilds(p)} =>
              Cardinality(Busy') = Cardinality(Busy) + 1
<1>1. ASSUME NEW r \in reqs, NEW p \in Polls, Settled(r, p, "status"), NEW S, NEW N,
             N = {Req("fix", "one", i) : i \in S} \/ N = {},
             reqs' = (reqs \ {r}) \union N
      PROVE  Cardinality(Busy) > 0 /\ Cardinality(Busy') = Cardinality(Busy) - 1
  <2>1. \A q \in N : q.who = "fix"
    BY <1>1, ReqFields
  <2>2. r.who \in Polls
    BY <1>1 DEF Settled
  <2> QED BY <1>1, <2>1, <2>2, CallEnds
<1>2. ASSUME NEW r \in reqs, NEW p \in Polls, Settled(r, p, "status"), NEW S,
             reqs' = (reqs \ {r}) \union
                        (IF r.st = "ok" THEN {Req("fix", "one", i) : i \in S} ELSE {})
      PROVE  Cardinality(Busy) > 0 /\ Cardinality(Busy') = Cardinality(Busy) - 1
  <2> DEFINE N == IF r.st = "ok" THEN {Req("fix", "one", i) : i \in S} ELSE {}
  <2>1. N = {Req("fix", "one", i) : i \in S} \/ N = {}
    OBVIOUS
  <2>2. reqs' = (reqs \ {r}) \union N
    BY <1>2
  <2> HIDE DEF N
  <2> QED BY <1>1, <1>2, <2>1, <2>2
<1>3. ASSUME NEW p \in Polls \ Busy, reqs' = reqs \union {pollBuilds(p)}
      PROVE  Cardinality(Busy') = Cardinality(Busy) + 1
  BY <1>3, CallBegins
<1> QED BY <1>2, <1>3

\* Every step of the page is a step of the loop or leaves it alone.
LEMMA StepLoop ==
  ASSUME ViewInv, [Next]_vars
  PROVE  [Loop!PollNext]_(Loop!pollVars)
<1>1. ASSUME Busy' = Busy, UNCHANGED loop
      PROVE  UNCHANGED Loop!pollVars
  BY <1>1 DEF loop, Loop!pollVars
<1>2. CASE UNCHANGED vars
  <2>1. Busy' = Busy
    BY <1>2 DEF vars, Busy
  <2> QED BY <1>1, <1>2, <2>1 DEF vars
<1>3. CASE Create
  <2>1. Busy' = Busy
    BY <1>3 DEF Create, Busy
  <2> QED BY <1>1, <1>3, <2>1 DEF Create, page
<1>4. CASE Hide
  BY <1>4 DEF Hide, Loop!PollNext
<1>5. CASE Show
  BY <1>5 DEF Show, Loop!PollNext
<1>6. CASE Scroll
  <2> DEFINE N == {Req("more", "before", oldestID)}
  <2>1. reqs' = reqs \union N
    BY <1>6 DEF Scroll
  <2>2. \A q \in N : q.who \notin Polls
    BY ReqFields, PollsApart
  <2> HIDE DEF N
  <2>3. Busy' = Busy
    BY <2>1, <2>2, OthersCall
  <2> QED BY <1>1, <1>6, <2>3 DEF Scroll, page
<1>7. CASE CommandSucceeded
  <2>1. \A q \in onRetry(active) : q.who \in {"fix", "new"}
    BY DEF onRetry, Req
  <2>2. reqs' = reqs \union onRetry(active)
    BY <1>7 DEF CommandSucceeded
  <2>3. \A q \in onRetry(active) : q.who \notin Polls
    BY <2>1, PollsApart
  <2>4. Busy' = Busy
    BY <2>2, <2>3, OthersCall
  <2> QED BY <1>1, <1>7, <2>4 DEF CommandSucceeded
<1>8. ASSUME NEW i \in IDs, Advance(i) \/ onTabClick(i)
      PROVE  UNCHANGED Loop!pollVars
  <2>1. Busy' = Busy
    BY <1>8 DEF Advance, onTabClick, Busy
  <2> QED BY <1>1, <1>8, <2>1 DEF Advance, onTabClick, page
<1>9. ASSUME NEW p \in Polls, PollTimer(p)
      PROVE  Loop!PollNext
  BY <1>9 DEF PollTimer, Loop!PollNext
<1>10. ASSUME NEW r \in reqs, Reply(r)
       PROVE  UNCHANGED Loop!pollVars
  <2> DEFINE q == [r EXCEPT !.st = "ok", !.data = Answer(r.kind, r.arg)]
  <2>1. reqs' = (reqs \ {r}) \union {q}
    BY <1>10 DEF Reply
  <2>2. q.who = r.who
    <3>1. r \in Request
      BY DEF ViewInv, TypeOK
    <3> QED BY <3>1 DEF Request
  <2> HIDE DEF q
  <2>3. Busy' = Busy
    BY <2>1, <2>2, CallGoesOnWith
  <2> QED BY <1>1, <1>10, <2>3 DEF Reply, page
<1>11. ASSUME NEW r \in reqs, NEW p \in Polls, PollTracked(r, p) \/ PollNew(r, p)
       PROVE  UNCHANGED Loop!pollVars
  <2>1. PICK q : reqs' = (reqs \ {r}) \union {q} /\ q.who = p
    <3>1. CASE PollTracked(r, p)
      BY <3>1, NewBuildsFacts DEF PollTracked
    <3>2. CASE PollNew(r, p)
      BY <3>2, ReqFields DEF PollNew
    <3> QED BY <1>11, <3>1, <3>2
  <2>2. r.who = p
    BY <1>11 DEF PollTracked, PollNew, Settled
  <2>3. Busy' = Busy
    BY <2>1, <2>2, CallGoesOnWith
  <2> QED BY <1>1, <1>11, <2>3 DEF PollTracked, PollNew
<1>12. ASSUME NEW r \in reqs, NEW p \in Polls, PollStatus(r, p)
       PROVE  Loop!PollNext
  BY <1>12 DEF PollStatus, Loop!PollNext
<1>13. ASSUME NEW r \in reqs,
              InitJob(r) \/ InitTracked(r) \/ InitLoad(r) \/ InitSingle(r) \/ RetryNew(r)
                \/ Fix(r) \/ fetchMoreBuilds(r)
       PROVE  UNCHANGED Loop!pollVars
  <2>1. r.who \in {"init", "new", "more", "fix"}
    BY <1>13 DEF InitJob, InitTracked, InitLoad, InitSingle, RetryNew, Fix, fetchMoreBuilds, Settled
  <2>2. r.who \notin Polls
    BY <2>1, PollsApart
  <2>3. ASSUME NEW q, reqs' = (reqs \ {r}) \union {q}, q.who \in {"init", "fix"}
        PROVE  Busy' = Busy
    <3>1. q.who \notin Polls
      BY <2>3, PollsApart
    <3> QED BY <2>2, <2>3, <3>1, CallGoesOnWith
  <2>4. Busy' = Busy
    <3>1. CASE reqs' = reqs \ {r}
      BY <2>2, <3>1, CallIsOther
    <3>2. CASE InitSingle(r) \/ Fix(r) \/ fetchMoreBuilds(r)
      BY <3>1, <3>2 DEF InitSingle, Fix, fetchMoreBuilds
    <3>3. CASE InitJob(r)
      BY <2>3, <3>3, ReqFields DEF InitJob
    <3>4. CASE InitTracked(r)
      BY <2>3, <3>4, ReqFields DEF InitTracked
    <3>5. CASE RetryNew(r)
      BY <2>3, <3>5, ReqFields DEF RetryNew
    <3>6. CASE InitLoad(r)
      <4>1. reqs' = (reqs \ {r}) \union {Req("init", "one", bid)} \/ reqs' = reqs \ {r}
        BY <3>6 DEF InitLoad
      <4> QED BY <2>3, <3>1, <4>1, ReqFields
    <3> QED BY <1>13, <3>2, <3>3, <3>4, <3>5, <3>6
  <2>5. UNCHANGED loop
    BY <1>13 DEF InitJob, InitTracked, InitLoad, InitSingle, RetryNew, Fix, fetchMoreBuilds
  <2> QED BY <1>1, <2>4, <2>5
<1> QED BY <1>2, <1>3, <1>4, <1>5, <1>6, <1>7, <1>8, <1>9, <1>10, <1>11, <1>12, <1>13
        DEF Next, Handle

LEMMA InitLoop == Init => Loop!PollInit
<1> SUFFICES ASSUME Init PROVE Loop!PollInit
  OBVIOUS
<1>1. PICK p \in Polls :
        reqs = {Req("init", "job", 0)} \union (IF hidden THEN {} ELSE {pollBuilds(p)})
  BY DEF Init
<1>2. hidden \in BOOLEAN /\ timeoutId = "null" /\ orphans = 0
  BY DEF Init
<1>3. Req("init", "job", 0).who \notin Polls /\ pollBuilds(p).who = p
  <2>1. ViewInv
    BY InitView
  <2> QED BY <2>1, PollFacts, PollsApart, ReqFields
<1>4. CASE hidden
  <2>1. Busy = {}
    BY <1>1, <1>3, <1>4 DEF Busy
  <2>2. Cardinality(Busy) = 0
    BY <2>1, FS_EmptySet
  <2> QED BY <1>2, <1>4, <2>2 DEF Loop!PollInit, Loop!Mounted
<1>5. CASE ~hidden
  <2>1. Busy = {p}
    BY <1>1, <1>3, <1>5 DEF Busy
  <2>2. Cardinality(Busy) = 1
    BY <2>1, FS_Singleton
  <2> QED BY <1>2, <1>5, <2>2 DEF Loop!PollInit, Loop!Mounted
<1> QED BY <1>4, <1>5

\* The page's requests and timer run the loop of usePolling, step by step, for any
\* number of calls of pollBuilds at once: each call, with all that it awaits, is one
\* call of fn and ends in one schedule.
THEOREM PageRunsLoop == Spec => PollingRefined
<1>1. Init => Loop!PollInit
  BY InitLoop
<1>2. ViewInv /\ [Next]_vars => [Loop!PollNext]_(Loop!pollVars)
  BY StepLoop
<1> QED BY <1>1, <1>2, ViewInvariant, PTL DEF Spec, PollingRefined

\* What PollingProofs proves of the loop, for the loop of this page.
LoopProofs == INSTANCE PollingProofs WITH
                  stopped <- FALSE, ticks <- Cardinality(Busy), MaxLoops <- Cardinality(Polls)

\* The page in a visible tab never stops polling: a call of pollBuilds is in flight
\* or a timer is armed, whatever requests fail and however often the tab is hidden
\* and shown (usePolling in JobBuilds).
THEOREM PageKeepsPolling == Spec => []Loop!LoopAlive
<1>1. Init => LoopProofs!PollInv
  <2>1. Loop!PollInit => LoopProofs!PollInit
    BY DEF Loop!PollInit, Loop!Mounted, LoopProofs!PollInit, LoopProofs!Mounted
  <2> QED BY <2>1, InitLoop, LoopProofs!InitInv
<1>2. ViewInv /\ [Next]_vars /\ LoopProofs!PollInv => LoopProofs!PollInv'
  <2> SUFFICES ASSUME ViewInv, [Next]_vars, LoopProofs!PollInv
               PROVE  LoopProofs!PollInv'
    OBVIOUS
  <2>1. [Loop!PollNext]_(Loop!pollVars)
    BY StepLoop
  <2>2. [LoopProofs!PollNext]_(LoopProofs!pollVars)
    BY <2>1 DEF Loop!PollNext, Loop!pollVars, Loop!TickDone, Loop!TimerFires, Loop!Hide, Loop!Show,
           Loop!Cleanup, Loop!Rerun, Loop!schedule, Loop!tick, Loop!start, Loop!stop, Loop!idle,
           LoopProofs!PollNext, LoopProofs!pollVars, LoopProofs!TickDone, LoopProofs!TimerFires,
           LoopProofs!Hide, LoopProofs!Show, LoopProofs!Cleanup, LoopProofs!Rerun,
           LoopProofs!schedule, LoopProofs!tick, LoopProofs!start, LoopProofs!stop, LoopProofs!idle
  <2> QED BY <2>2, LoopProofs!NextInv
<1>3. LoopProofs!PollInv => Loop!LoopAlive
  BY DEF LoopProofs!PollInv, LoopProofs!PollTypeOK, LoopProofs!Alive, Loop!LoopAlive
<1> QED BY <1>1, <1>2, <1>3, ViewInvariant, PTL DEF Spec
=============================================================================
