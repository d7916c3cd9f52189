----------------------------- MODULE ListProofs -----------------------------
(***************************************************************************)
(* Lemmas about lists: a set in the order of a relation is listed whole,   *)
(* each element once; what a list has at given positions; lists after one  *)
(* another.                                                                *)
(***************************************************************************)
EXTENDS Ordering, SequencesExt, FiniteSetTheorems, SequenceTheorems, WellFoundedInduction, TLAPS

-----------------------------------------------------------------------------
(* Orders.                                                                 *)

\* The pairs of a strict total order on S.
IsOrder(S, before) ==
  /\ \A x \in S : <<x, x>> \notin before
  /\ \A x, y \in S : x # y => <<x, y>> \in before \/ <<y, x>> \in before
  /\ \A x, y, z \in S : <<x, y>> \in before /\ <<y, z>> \in before => <<x, z>> \in before

Below(S, before, x) == {y \in S : <<y, x>> \in before}

\* Who comes earlier has fewer before it.
LEMMA BelowGrows ==
  ASSUME NEW S, IsFiniteSet(S), NEW before, IsOrder(S, before),
         NEW x \in S, NEW y \in S, <<x, y>> \in before
  PROVE  Cardinality(Below(S, before, x)) < Cardinality(Below(S, before, y))
<1>1. Below(S, before, x) \subseteq Below(S, before, y) \ {x}
  BY DEF IsOrder, Below
<1>2. IsFiniteSet(Below(S, before, y))
  BY FS_Subset DEF Below
<1>3. x \in Below(S, before, y)
  BY DEF Below
<1>4. IsFiniteSet(Below(S, before, y) \ {x}) /\ Cardinality(Below(S, before, y) \ {x}) = Cardinality(Below(S, before, y)) - 1
  BY <1>2, <1>3, FS_RemoveElement
<1>5. Cardinality(Below(S, before, x)) <= Cardinality(Below(S, before, y) \ {x})
  BY <1>1, <1>4, FS_Subset
<1>6. Cardinality(Below(S, before, y)) \in Nat /\ IsFiniteSet(Below(S, before, x))
  BY <1>2, <1>1, <1>4, FS_Subset, FS_CardinalityType
<1>7. Cardinality(Below(S, before, x)) \in Nat
  BY <1>6, FS_CardinalityType
<1> QED
  BY <1>4, <1>5, <1>6, <1>7

\* Each place of the list has the element that has so many before it.
LEMMA InOrderRanks ==
  ASSUME NEW S, IsFiniteSet(S), NEW before, IsOrder(S, before)
  PROVE  /\ DOMAIN InOrder(S, before) = 1..Cardinality(S)
         /\ \A k \in 1..Cardinality(S) :
              /\ InOrder(S, before)[k] \in S
              /\ Cardinality(Below(S, before, InOrder(S, before)[k])) = k - 1
         /\ \A x \in S : Cardinality(Below(S, before, x)) + 1 \in 1..Cardinality(S)
         /\ \A x, y \in S :
              Cardinality(Below(S, before, x)) = Cardinality(Below(S, before, y)) => x = y
<1> DEFINE N == Cardinality(S)
           rank == [x \in S |-> Cardinality(Below(S, before, x))]
           list == [k \in 1..N |-> CHOOSE x \in S : rank[x] = k - 1]
<1>1. N \in Nat
  BY FS_CardinalityType
<1>2. \A x \in S : rank[x] \in Nat /\ rank[x] < N
  <2> SUFFICES ASSUME NEW x \in S
               PROVE  Cardinality(Below(S, before, x)) \in Nat /\ Cardinality(Below(S, before, x)) < N
    OBVIOUS
  <2>1. Below(S, before, x) \subseteq S \ {x}
    BY DEF IsOrder, Below
  <2>2. IsFiniteSet(S \ {x}) /\ Cardinality(S \ {x}) = N - 1
    BY FS_RemoveElement
  <2>3. IsFiniteSet(Below(S, before, x)) /\ Cardinality(Below(S, before, x)) <= N - 1
    BY <2>1, <2>2, FS_Subset
  <2>4. Cardinality(Below(S, before, x)) \in Nat
    BY <2>3, FS_CardinalityType
  <2> QED
    BY <2>3, <2>4, <1>1
<1>3. ASSUME NEW x \in S, NEW y \in S, x # y PROVE rank[x] # rank[y]
  <2>1. CASE <<x, y>> \in before
    <3>1. Cardinality(Below(S, before, x)) < Cardinality(Below(S, before, y))
      BY <2>1, BelowGrows
    <3>2. rank[x] \in Nat /\ rank[y] \in Nat
      BY <1>2
    <3> QED
      BY <3>1, <3>2
  <2>2. CASE <<y, x>> \in before
    <3>1. Cardinality(Below(S, before, y)) < Cardinality(Below(S, before, x))
      BY <2>2, BelowGrows
    <3>2. rank[x] \in Nat /\ rank[y] \in Nat
      BY <1>2
    <3> QED
      BY <3>1, <3>2
  <2> QED
    BY <1>3, <2>1, <2>2 DEF IsOrder
<1>4. \A n \in 0..(N - 1) : \E x \in S : rank[x] = n
  <2>1. IsFiniteSet(0..(N - 1)) /\ Cardinality(0..(N - 1)) = N
    <3>1. 0 \in Int /\ N - 1 \in Int
      BY <1>1
    <3>2. IsFiniteSet(0..(N - 1)) /\ Cardinality(0..(N - 1)) = IF 0 > N - 1 THEN 0 ELSE (N - 1) - 0 + 1
      BY <3>1, FS_Interval
    <3> QED
      BY <3>2, <1>1
  <2> HIDE DEF N, rank
  <2>2. rank \in Injection(S, 0..(N - 1))
    <3>1. rank \in [S -> 0..(N - 1)]
      <4>1. rank = [x \in S |-> rank[x]]
        BY DEF rank
      <4>2. \A x \in S : rank[x] \in 0..(N - 1)
        BY <1>1, <1>2
      <4> QED
        BY <4>1, <4>2
    <3> QED
      BY <3>1, <1>3 DEF Injection, IsInjective
  <2>3. rank \in Surjection(S, 0..(N - 1))
    BY <2>1, <2>2, FS_Injection DEF N
  <2> QED
    BY <2>3 DEF Surjection
<1>5. \A k \in 1..N : list[k] \in S /\ rank[list[k]] = k - 1
  <2> SUFFICES ASSUME NEW k \in 1..N PROVE list[k] \in S /\ rank[list[k]] = k - 1
    OBVIOUS
  <2>1. k - 1 \in 0..(N - 1)
    BY <1>1
  <2>2. \E x \in S : rank[x] = k - 1
    BY <2>1, <1>4
  <2> HIDE DEF rank, N
  <2> QED
    BY <2>2
<1>6. InOrder(S, before) = list
  BY DEF InOrder, Below
<1>7. \A x \in S : rank[x] + 1 \in 1..N
  BY <1>1, <1>2
<1>8. \A x \in S : rank[x] = Cardinality(Below(S, before, x))
  OBVIOUS
<1>9. DOMAIN list = 1..N
  OBVIOUS
<1> HIDE DEF list, N, rank
<1>10. \A x, y \in S : rank[x] = rank[y] => x = y
  BY <1>3
<1>11. \A k \in 1..N : list[k] \in S /\ Cardinality(Below(S, before, list[k])) = k - 1
  BY <1>5, <1>8
<1>12. \A x \in S : Cardinality(Below(S, before, x)) + 1 \in 1..N
  BY <1>7, <1>8
<1>13. \A x, y \in S : Cardinality(Below(S, before, x)) = Cardinality(Below(S, before, y)) => x = y
  BY <1>8, <1>10
<1> QED
  BY <1>6, <1>9, <1>11, <1>12, <1>13 DEF N

\* A set put in order is all there, each element once.
LEMMA InOrderLists ==
  ASSUME NEW S, IsFiniteSet(S), NEW before, IsOrder(S, before)
  PROVE  /\ InOrder(S, before) \in Seq(S)
         /\ DOMAIN InOrder(S, before) = 1..Cardinality(S)
         /\ \A x \in S : \E k \in DOMAIN InOrder(S, before) : InOrder(S, before)[k] = x
<1> DEFINE N == Cardinality(S)
           list == InOrder(S, before)
           rank == [x \in S |-> Cardinality(Below(S, before, x))]
<1>1. N \in Nat
  BY FS_CardinalityType
<1>2. /\ DOMAIN list = 1..N
      /\ \A k \in 1..N : list[k] \in S /\ rank[list[k]] = k - 1
      /\ \A x \in S : rank[x] + 1 \in 1..N
      /\ \A x, y \in S : rank[x] = rank[y] => x = y
  BY InOrderRanks
<1>3. list = [k \in 1..N |-> list[k]]
  BY Zenon, <1>2 DEF InOrder
<1>4. \A x \in S : rank[x] \in Nat
  <2> SUFFICES ASSUME NEW x \in S PROVE Cardinality(Below(S, before, x)) \in Nat
    OBVIOUS
  <2> QED
    BY FS_Subset, FS_CardinalityType DEF Below
<1> HIDE DEF list, N, rank
<1>5. list \in Seq(S)
  BY <1>1, <1>2, <1>3
<1>6. ASSUME NEW x \in S PROVE \E k \in 1..N : list[k] = x
  <2>1. rank[x] + 1 \in 1..N /\ (rank[x] + 1) - 1 = rank[x]
    BY <1>2, <1>4
  <2> QED
    BY <1>2, <2>1
<1> QED
  BY <1>2, <1>5, <1>6 DEF N, list

\* And the list goes up.
LEMMA InOrderRises ==
  ASSUME NEW S, IsFiniteSet(S), NEW before, IsOrder(S, before),
         NEW k \in 1..Cardinality(S), NEW l \in 1..Cardinality(S), k < l
  PROVE  <<InOrder(S, before)[k], InOrder(S, before)[l]>> \in before
<1> DEFINE x == InOrder(S, before)[k]
           y == InOrder(S, before)[l]
           n(z) == Cardinality(Below(S, before, z))
<1>1. x \in S /\ y \in S /\ n(x) = k - 1 /\ n(y) = l - 1
  BY InOrderRanks
<1>2. k \in Nat /\ l \in Nat
  BY FS_CardinalityType
<1>3. <<y, x>> \in before => n(y) < n(x)
  BY <1>1, BelowGrows
<1>4. x # y
  BY <1>1, <1>2
<1> HIDE DEF n
<1>5. <<y, x>> \notin before
  BY <1>1, <1>2, <1>3
<1> QED
  BY <1>1, <1>4, <1>5 DEF IsOrder

LEMMA Entries ==
  ASSUME NEW T, NEW s \in Seq(T)
  PROVE  Len(s) \in Nat /\ DOMAIN s = 1..Len(s) /\ \A k \in DOMAIN s : s[k] \in T
OBVIOUS

LEMMA PositionsLists ==
  ASSUME NEW S, IsFiniteSet(S), S \subseteq Nat
  PROVE  /\ Positions(S) \in Seq(S)
         /\ DOMAIN Positions(S) = 1..Cardinality(S)
         /\ \A x \in S : \E k \in DOMAIN Positions(S) : Positions(S)[k] = x
<1> DEFINE before == {at \in S \X S : at[1] < at[2]}
<1>1. \A x, y \in S : <<x, y>> \in before <=> x < y
  OBVIOUS
<1> HIDE DEF before
<1>2. \A x, y, z \in Nat : ~(x < x) /\ (x # y => x < y \/ y < x) /\ (x < y /\ y < z => x < z)
  OBVIOUS
<1>3. IsOrder(S, before)
  BY <1>1, <1>2 DEF IsOrder
<1>4. Positions(S) = InOrder(S, before)
  BY Zenon DEF Positions, before
<1> QED
  BY <1>3, <1>4, InOrderLists

\* What stands at the positions K is a list of that, and nothing else.
LEMMA AtLists ==
  ASSUME NEW T, NEW list \in Seq(T), NEW K, K \subseteq DOMAIN list
  PROVE  /\ At(list, K) \in Seq(T)
         /\ \A k \in K : \E n \in DOMAIN At(list, K) : At(list, K)[n] = list[k]
         /\ \A n \in DOMAIN At(list, K) : \E k \in K : At(list, K)[n] = list[k]
<1> DEFINE order == Positions(K)
<1>1. Len(list) \in Nat /\ DOMAIN list = 1..Len(list) /\ \A k \in DOMAIN list : list[k] \in T
  OBVIOUS
<1>2. K \subseteq Nat /\ IsFiniteSet(K)
  <2>1. IsFiniteSet(1..Len(list))
    BY <1>1, FS_Interval
  <2> QED
    BY <1>1, <2>1, FS_Subset
<1>3. /\ order \in Seq(K) /\ DOMAIN order = 1..Cardinality(K)
      /\ \A x \in K : \E k \in DOMAIN order : order[k] = x
  BY <1>2, PositionsLists
<1>4. \A n \in DOMAIN order : order[n] \in K
  BY <1>3, Entries, Zenon
<1>5. At(list, K) = [k \in DOMAIN order |-> list[order[k]]]
  BY DEF At
<1>6. Cardinality(K) \in Nat
  BY <1>2, FS_CardinalityType
<1> HIDE DEF order
<1>7. DOMAIN At(list, K) = 1..Cardinality(K) /\ \A n \in 1..Cardinality(K) : At(list, K)[n] = list[order[n]]
  BY <1>3, <1>5
<1>8. At(list, K) \in [1..Cardinality(K) -> T]
  <2>1. \A n \in 1..Cardinality(K) : list[order[n]] \in T
    BY <1>1, <1>3, <1>4
  <2> QED
    BY <1>3, <1>5, <2>1
<1>9. At(list, K) \in Seq(T)
  BY <1>6, <1>8
<1> QED
  BY <1>3, <1>4, <1>7, <1>9

\* The least of a set of numbers is in it.
LEMMA LeastNumber ==
  ASSUME NEW T, T \subseteq Nat, T # {}
  PROVE  Least(T) \in T /\ \A y \in T : Least(T) <= y
<1> DEFINE R == OpToRel(<, Nat)
<1>1. IsWellFoundedOn(R, Nat)
  BY NatLessThanWellFounded
<1> HIDE DEF R
<1>2. PICK x \in T : \A y \in T : ~ (<<y, x>> \in R)
  BY <1>1, WFMin, Zenon
<1>3. \A y, z \in Nat : y < z => <<y, z>> \in R
  BY DEF R, OpToRel
<1>4. \A y \in T : ~ (y < x)
  BY <1>2, <1>3
<1>5. \A y \in T : x <= y
  BY <1>4
<1> QED
  BY <1>5 DEF Least

LEMMA NumbersUpto ==
  ASSUME NEW N \in Nat, NEW T, 0 \in T, \A n \in Nat : n < N /\ n \in T => n + 1 \in T
  PROVE  0..N \subseteq T
<1> SUFFICES ASSUME (0..N) \ T # {} PROVE FALSE
  OBVIOUS
<1>1. PICK n \in (0..N) \ T : \A m \in (0..N) \ T : n <= m
  <2>1. (0..N) \ T \subseteq Nat
    OBVIOUS
  <2> QED
    BY <2>1, LeastNumber
<1>2. n - 1 \in Nat /\ n - 1 < N /\ n - 1 \in 0..N
  BY <1>1
<1>3. n - 1 \in T
  BY <1>1, <1>2
<1> QED
  BY <1>1, <1>2, <1>3

\* The order of S by three numbers that together tell its elements apart.
ByNumbers(S, before, F, G, C) ==
  /\ F \in [S -> Nat] /\ G \in [S -> Nat] /\ C \in [S -> Nat]
  /\ \A x, y \in S : F[x] = F[y] /\ G[x] = G[y] /\ C[x] = C[y] => x = y
  /\ \A x, y \in S : <<x, y>> \in before <=>
                        \/ F[x] < F[y]
                        \/ F[x] = F[y] /\ G[x] < G[y]
                        \/ F[x] = F[y] /\ G[x] = G[y] /\ C[x] < C[y]

LEMMA Lexical ==
  ASSUME NEW S, NEW before, NEW F, NEW G, NEW C, ByNumbers(S, before, F, G, C)
  PROVE  IsOrder(S, before)
<1> USE DEF ByNumbers
<1>1. ASSUME NEW x \in S PROVE <<x, x>> \notin before
  <2>1. F[x] \in Nat /\ G[x] \in Nat /\ C[x] \in Nat
    OBVIOUS
  <2> QED
    BY <2>1
<1>2. ASSUME NEW x \in S, NEW y \in S, x # y PROVE <<x, y>> \in before \/ <<y, x>> \in before
  <2>1. F[x] \in Nat /\ G[x] \in Nat /\ C[x] \in Nat /\ F[y] \in Nat /\ G[y] \in Nat /\ C[y] \in Nat
    OBVIOUS
  <2>2. ~(F[x] = F[y] /\ G[x] = G[y] /\ C[x] = C[y])
    BY <1>2
  <2> QED
    BY <2>1, <2>2
<1>3. ASSUME NEW x \in S, NEW y \in S, NEW z \in S, <<x, y>> \in before, <<y, z>> \in before
      PROVE  <<x, z>> \in before
  <2>1. /\ F[x] \in Nat /\ G[x] \in Nat /\ C[x] \in Nat /\ F[y] \in Nat /\ G[y] \in Nat /\ C[y] \in Nat
        /\ F[z] \in Nat /\ G[z] \in Nat /\ C[z] \in Nat
    OBVIOUS
  <2> QED
    BY <1>3, <2>1
<1> QED
  BY <1>1, <1>2, <1>3 DEF IsOrder

-----------------------------------------------------------------------------
(* Lists of what is in them.                                               *)

\* A list is one of what is in it.
IsListing(s) == s \in Seq(ToSet(s))

LEMMA ListingEntries ==
  ASSUME NEW s, IsListing(s)
  PROVE  /\ Len(s) \in Nat /\ DOMAIN s = 1..Len(s) /\ s = [k \in 1..Len(s) |-> s[k]]
         /\ \A k \in DOMAIN s : s[k] \in ToSet(s)
         /\ \A x \in ToSet(s) : \E k \in DOMAIN s : x = s[k]
<1>1. Len(s) \in Nat /\ DOMAIN s = 1..Len(s) /\ s = [k \in 1..Len(s) |-> s[k]]
  BY DEF IsListing
<1> QED
  BY <1>1 DEF ToSet

LEMMA FunctionLists ==
  ASSUME NEW n \in Nat, NEW s, DOMAIN s = 1..n, s = [k \in DOMAIN s |-> s[k]]
  PROVE  IsListing(s) /\ Len(s) = n
<1>1. \A k \in 1..n : s[k] \in ToSet(s)
  BY DEF ToSet
<1>2. s \in [1..n -> ToSet(s)]
  BY <1>1
<1>3. s \in Seq(ToSet(s))
  BY <1>2
<1> QED
  BY <1>2, <1>3 DEF IsListing

LEMMA SeqLists ==
  ASSUME NEW T, NEW s \in Seq(T)
  PROVE  IsListing(s) /\ ToSet(s) \subseteq T
<1>1. Len(s) \in Nat /\ DOMAIN s = 1..Len(s) /\ s = [k \in 1..Len(s) |-> s[k]] /\ \A k \in 1..Len(s) : s[k] \in T
  OBVIOUS
<1>2. IsListing(s)
  BY <1>1, FunctionLists
<1> QED
  BY <1>1, <1>2 DEF ToSet

LEMMA ConcatLists ==
  ASSUME NEW s, IsListing(s), NEW t, IsListing(t)
  PROVE  /\ IsListing(s \o t) /\ ToSet(s \o t) = ToSet(s) \cup ToSet(t)
         /\ Len(s \o t) = Len(s) + Len(t)
         /\ \A k \in 1..Len(s) : (s \o t)[k] = s[k]
         /\ \A k \in 1..Len(t) : (s \o t)[Len(s) + k] = t[k]
<1> DEFINE T == ToSet(s) \cup ToSet(t)
           u == s \o t
<1>1. s \in Seq(T) /\ t \in Seq(T)
  <2>1. \A k \in 1..Len(s) : s[k] \in T
    BY ListingEntries
  <2>2. \A k \in 1..Len(t) : t[k] \in T
    BY ListingEntries
  <2>3. /\ s = [k \in 1..Len(s) |-> s[k]] /\ Len(s) \in Nat
        /\ t = [k \in 1..Len(t) |-> t[k]] /\ Len(t) \in Nat
    BY ListingEntries
  <2> HIDE DEF T
  <2>4. s \in [1..Len(s) -> T] /\ t \in [1..Len(t) -> T]
    BY <2>1, <2>2, <2>3
  <2> QED
    BY <2>3, <2>4
<1>2. Len(s) \in Nat /\ Len(t) \in Nat /\ DOMAIN s = 1..Len(s) /\ DOMAIN t = 1..Len(t)
  BY <1>1
<1> HIDE DEF T
<1>3. /\ u \in Seq(T) /\ Len(u) = Len(s) + Len(t)
      /\ \A k \in 1..Len(s) : u[k] = s[k]
      /\ \A k \in 1..Len(t) : u[Len(s) + k] = t[k]
      /\ DOMAIN u = 1..(Len(s) + Len(t))
  BY <1>1, <1>2
<1>4. IsListing(u)
  BY <1>3, SeqLists
<1> HIDE DEF u
<1>5. ASSUME NEW k \in DOMAIN u PROVE u[k] \in ToSet(s) \cup ToSet(t)
  <2>1. CASE k <= Len(s)
    BY <1>2, <1>3, <2>1 DEF ToSet
  <2>2. CASE k > Len(s)
    <3>1. k - Len(s) \in 1..Len(t) /\ Len(s) + (k - Len(s)) = k
      BY <1>2, <1>3, <2>2
    <3> QED
      BY <1>2, <1>3, <3>1 DEF ToSet
  <2> QED
    BY <1>2, <1>3, <2>1, <2>2
<1>6. ASSUME NEW x \in ToSet(s) \cup ToSet(t) PROVE \E k \in DOMAIN u : u[k] = x
  <2>1. CASE x \in ToSet(s)
    <3>1. PICK k \in 1..Len(s) : x = s[k]
      BY <1>2, <2>1 DEF ToSet
    <3> QED
      BY <1>2, <1>3, <3>1
  <2>2. CASE x \in ToSet(t)
    <3>1. PICK k \in 1..Len(t) : x = t[k]
      BY <1>2, <2>2 DEF ToSet
    <3>2. Len(s) + k \in DOMAIN u
      BY <1>2, <1>3
    <3> QED
      BY <1>3, <3>1, <3>2
  <2> QED
    BY <2>1, <2>2
<1>7. ToSet(u) = ToSet(s) \cup ToSet(t)
  <2>1. \A x : x \in ToSet(u) <=> \E k \in DOMAIN u : u[k] = x
    BY DEF ToSet
  <2> QED
    BY <1>5, <1>6, <2>1
<1> QED
  BY <1>3, <1>4, <1>7 DEF u

\* A finite set is listed whole, each element once.
LEMMA SetLists ==
  ASSUME NEW S, IsFiniteSet(S)
  PROVE  /\ IsListing(SetToSeq(S)) /\ ToSet(SetToSeq(S)) = S
         /\ Len(SetToSeq(S)) = Cardinality(S)
<1> DEFINE n == Cardinality(S)
           s == SetToSeq(S)
<1>1. n \in Nat
  BY FS_CardinalityType
<1>2. \E f : f \in Bijection(1..n, S)
  BY FS_CardinalityType DEF ExistsBijection
<1>3. \E f \in [1..n -> S] : IsInjective(f)
  BY <1>2 DEF Bijection, Injection
<1>4. s \in [1..n -> S] /\ IsInjective(s)
  BY <1>3, Zenon DEF SetToSeq
<1> HIDE DEF s
<1>5. s \in Injection(1..n, S)
  BY <1>4 DEF Injection
<1>6. IsFiniteSet(1..n) /\ Cardinality(1..n) = n
  BY <1>1, FS_Interval
<1>7. s \in Surjection(1..n, S)
  BY <1>5, <1>6, FS_Injection
<1>8. \A x \in S : \E k \in 1..n : s[k] = x
  BY <1>7 DEF Surjection
<1>9. DOMAIN s = 1..n /\ s = [k \in DOMAIN s |-> s[k]] /\ \A k \in 1..n : s[k] \in S
  BY <1>4
<1>10. IsListing(s) /\ Len(s) = n
  BY <1>1, <1>9, FunctionLists
<1>11. ToSet(s) = S
  BY <1>8, <1>9 DEF ToSet
<1> QED
  BY <1>10, <1>11 DEF s

\* J is the list after each part.
Joins(J, seqs, n) ==
  /\ J[1] = seqs[1]
  /\ \A k \in 1..(n - 1) : J[k + 1] = J[k] \o seqs[k + 1]

LEMMA FlattenSteps ==
  ASSUME NEW n \in Nat, n # 0, NEW seqs, Len(seqs) = n
  PROVE  \E J : Joins(J, seqs, n) /\ FlattenSeq(seqs) = J[n]
<1> DEFINE F(h) == [k \in 1..n |-> IF k = 1 THEN seqs[k] ELSE h[k - 1] \o seqs[k]]
           flatten == CHOOSE h : h = F(h)
           T == {k \in Nat : \E J : Joins(J, seqs, k + 1)}
<1>1. FlattenSeq(seqs) = flatten[n]
  BY DEF FlattenSeq
<1>2. 0 \in T
  <2>1. Joins([k \in {1} |-> seqs[1]], seqs, 1)
    BY DEF Joins
  <2> QED
    BY <2>1
<1>3. ASSUME NEW k \in Nat, k \in T PROVE k + 1 \in T
  <2>1. PICK J : Joins(J, seqs, k + 1)
    BY <1>3
  <2> DEFINE e == [i \in 1..(k + 2) |-> IF i <= k + 1 THEN J[i] ELSE J[k + 1] \o seqs[k + 2]]
  <2>2. e[1] = seqs[1]
    BY <2>1 DEF Joins
  <2>3. ASSUME NEW i \in 1..(k + 1) PROVE e[i + 1] = e[i] \o seqs[i + 1]
    <3>1. CASE i = k + 1
      <4>1. e[k + 2] = J[k + 1] \o seqs[k + 2] /\ e[k + 1] = J[k + 1]
        <5>1. /\ k + 2 \in 1..(k + 2) /\ ~(k + 2 <= k + 1)
              /\ k + 1 \in 1..(k + 2) /\ k + 1 <= k + 1
          OBVIOUS
        <5>2. \A j \in 1..(k + 2) : e[j] = IF j <= k + 1 THEN J[j] ELSE J[k + 1] \o seqs[k + 2]
          OBVIOUS
        <5> HIDE DEF e
        <5> QED
          BY <5>1, <5>2
      <4>2. i + 1 = k + 2 /\ i = k + 1
        BY <3>1
      <4> HIDE DEF e
      <4> QED
        BY <4>1, <4>2
    <3>2. CASE i < k + 1
      <4>1. i \in 1..k /\ e[i + 1] = J[i + 1] /\ e[i] = J[i]
        BY <3>2
      <4>2. J[i + 1] = J[i] \o seqs[i + 1]
        <5>1. i \in 1..((k + 1) - 1)
          BY <4>1
        <5> QED
          BY <5>1, <2>1 DEF Joins
      <4> HIDE DEF e
      <4> QED
        BY <4>1, <4>2
    <3> HIDE DEF e
    <3>3. i = k + 1 \/ i < k + 1
      OBVIOUS
    <3> QED
      BY <3>1, <3>2, <3>3
  <2> HIDE DEF e
  <2>4. Joins(e, seqs, (k + 1) + 1)
    <3>1. ((k + 1) + 1) - 1 = k + 1
      OBVIOUS
    <3> QED
      BY <2>2, <2>3, <3>1 DEF Joins
  <2> QED
    BY <2>4
<1>4. PICK J : Joins(J, seqs, n)
  <2> HIDE DEF T
  <2>1. \A k \in Nat : k < n - 1 /\ k \in T => k + 1 \in T
    BY <1>3
  <2>2. n - 1 \in Nat /\ n - 1 \in 0..(n - 1) /\ (n - 1) + 1 = n
    OBVIOUS
  <2>3. 0..(n - 1) \subseteq T
    BY <1>2, <2>1, <2>2, NumbersUpto
  <2> QED
    BY <2>2, <2>3 DEF T
<1>5. flatten = F(flatten)
  <2> DEFINE h == [k \in 1..n |-> J[k]]
  <2>1. ASSUME NEW k \in 1..n PROVE h[k] = IF k = 1 THEN seqs[k] ELSE h[k - 1] \o seqs[k]
    <3>1. CASE k = 1
      BY <3>1, <1>4 DEF Joins
    <3>2. CASE k # 1
      <4>1. k - 1 \in 1..(n - 1) /\ k - 1 \in 1..n /\ (k - 1) + 1 = k
        BY <3>2
      <4>2. h[k - 1] = J[k - 1] /\ J[k] = J[k - 1] \o seqs[k]
        BY <4>1, <1>4 DEF Joins
      <4>3. h[k] = J[k]
        OBVIOUS
      <4> HIDE DEF h
      <4> QED
        BY <3>2, <4>2, <4>3
    <3> QED
      BY <3>1, <3>2
  <2>2. h = F(h)
    BY <2>1
  <2> HIDE DEF h, F
  <2> QED
    BY <2>2
<1> HIDE DEF flatten
<1>6. \A k \in 1..n : flatten[k] = IF k = 1 THEN seqs[k] ELSE flatten[k - 1] \o seqs[k]
  BY <1>5
<1>7. flatten[1] = seqs[1]
  BY <1>6
<1>8. ASSUME NEW k \in 1..(n - 1) PROVE flatten[k + 1] = flatten[k] \o seqs[k + 1]
  <2>1. k + 1 \in 1..n /\ k + 1 # 1 /\ (k + 1) - 1 = k
    OBVIOUS
  <2> QED
    BY <2>1, <1>6
<1> QED
  BY <1>1, <1>7, <1>8 DEF Joins

\* Lists put after one another are a list of all that is in them.
LEMMA FlattenLists ==
  ASSUME NEW n \in Nat, NEW seqs, DOMAIN seqs = 1..n, seqs = [k \in DOMAIN seqs |-> seqs[k]],
         \A k \in 1..n : IsListing(seqs[k])
  PROVE  /\ IsListing(FlattenSeq(seqs))
         /\ ToSet(FlattenSeq(seqs)) = UNION {ToSet(seqs[k]) : k \in 1..n}
<1>1. IsListing(seqs) /\ Len(seqs) = n
  BY FunctionLists
<1>2. CASE n = 0
  <2>1. FlattenSeq(seqs) = seqs
    BY <1>1, <1>2 DEF FlattenSeq
  <2>2. ToSet(seqs) = {}
    BY <1>2 DEF ToSet
  <2> QED
    BY <1>1, <1>2, <2>1, <2>2
<1>3. CASE n # 0
  <2>1. PICK J : Joins(J, seqs, n) /\ FlattenSeq(seqs) = J[n]
    BY <1>1, <1>3, FlattenSteps
  <2> DEFINE parts(k) == UNION {ToSet(seqs[i]) : i \in 1..k}
             T == {k \in Nat : IsListing(J[k + 1]) /\ ToSet(J[k + 1]) = parts(k + 1)}
  <2>2. 0 \in T
    <3>1. J[1] = seqs[1] /\ IsListing(seqs[1]) /\ 1..1 = {1}
      BY <1>3, <2>1 DEF Joins
    <3> QED
      BY <3>1
  <2>3. ASSUME NEW k \in Nat, k < n - 1, k \in T PROVE k + 1 \in T
    <3>1. J[k + 2] = J[k + 1] \o seqs[k + 2] /\ IsListing(seqs[k + 2])
      <4>1. k + 1 \in 1..(n - 1) /\ k + 2 \in 1..n /\ (k + 1) + 1 = k + 2
        BY <2>3
      <4> QED
        BY <2>1, <4>1 DEF Joins
    <3>2. IsListing(J[k + 1]) /\ ToSet(J[k + 1]) = parts(k + 1)
      BY <2>3
    <3>3. IsListing(J[k + 2]) /\ ToSet(J[k + 2]) = ToSet(J[k + 1]) \cup ToSet(seqs[k + 2])
      BY <3>1, <3>2, ConcatLists
    <3>4. parts(k + 2) = parts(k + 1) \cup ToSet(seqs[k + 2])
      <4>1. 1..(k + 2) = (1..(k + 1)) \cup {k + 2}
        OBVIOUS
      <4> QED
        BY <4>1
    <3>5. (k + 1) + 1 = k + 2
      OBVIOUS
    <3>6. ToSet(J[k + 2]) = parts(k + 2)
      BY <3>2, <3>3, <3>4
    <3> HIDE DEF parts
    <3>7. IsListing(J[(k + 1) + 1]) /\ ToSet(J[(k + 1) + 1]) = parts((k + 1) + 1)
      BY <3>3, <3>5, <3>6
    <3>8. k + 1 \in Nat
      OBVIOUS
    <3> QED
      BY <3>7, <3>8
  <2>4. n - 1 \in T
    <3> HIDE DEF T
    <3>1. n - 1 \in Nat /\ n - 1 \in 0..(n - 1)
      BY <1>3
    <3> QED
      BY <2>2, <2>3, <3>1, NumbersUpto
  <2>5. (n - 1) + 1 = n
    OBVIOUS
  <2> QED
    BY <2>1, <2>4, <2>5
<1> QED
  BY <1>2, <1>3

-----------------------------------------------------------------------------
(* Counting.                                                               *)

LEMMA SameSize ==
  ASSUME NEW S, IsFiniteSet(S), NEW T, NEW f \in [S -> T],
         \A x, y \in S : f[x] = f[y] => x = y, \A z \in T : \E x \in S : f[x] = z
  PROVE  IsFiniteSet(T) /\ Cardinality(T) = Cardinality(S)
<1>1. f \in Surjection(S, T)
  BY DEF Surjection
<1>2. f \in Injection(S, T)
  BY DEF Injection, IsInjective
<1> QED
  BY <1>1, <1>2, FS_Surjection

LEMMA NumbersInOrder ==
  ASSUME NEW S, S \subseteq Nat
  PROVE  IsOrder(S, {at \in S \X S : at[1] < at[2]})
<1> DEFINE before == {at \in S \X S : at[1] < at[2]}
<1>1. \A x, y \in S : <<x, y>> \in before <=> x < y
  OBVIOUS
<1> HIDE DEF before
<1>2. \A x, y, z \in Nat : ~(x < x) /\ (x # y => x < y \/ y < x) /\ (x < y /\ y < z => x < z)
  OBVIOUS
<1>3. IsOrder(S, before)
  BY <1>1, <1>2 DEF IsOrder
<1> QED
  BY <1>3 DEF before

\* Each position is listed once, after all that come before it.
LEMMA PositionsRank ==
  ASSUME NEW S, IsFiniteSet(S), S \subseteq Nat
  PROVE  /\ DOMAIN Positions(S) = 1..Cardinality(S)
         /\ \A k \in 1..Cardinality(S) :
              Positions(S)[k] \in S /\ Cardinality({j \in S : j <= Positions(S)[k]}) = k
         /\ \A x \in S : \E k \in 1..Cardinality(S) : Positions(S)[k] = x
         /\ \A k, l \in 1..Cardinality(S) : Positions(S)[k] = Positions(S)[l] => k = l
<1> DEFINE before == {at \in S \X S : at[1] < at[2]}
           N == Cardinality(S)
           P == Positions(S)
<1>1. IsOrder(S, before)
  BY NumbersInOrder
<1>2. P = InOrder(S, before)
  BY Zenon DEF Positions
<1>3. \A x, y \in S : <<x, y>> \in before <=> x < y
  OBVIOUS
<1>4. N \in Nat
  BY FS_CardinalityType
<1> HIDE DEF before, N, P
<1>5. /\ DOMAIN P = 1..N
      /\ \A k \in 1..N : P[k] \in S /\ Cardinality(Below(S, before, P[k])) = k - 1
  BY <1>1, <1>2, InOrderRanks DEF N
<1>6. \A x \in S : \E k \in 1..N : P[k] = x
  <2>1. \A x \in S : \E k \in DOMAIN InOrder(S, before) : InOrder(S, before)[k] = x
    BY <1>1, InOrderLists
  <2> QED
    BY <1>2, <1>5, <2>1
<1>7. ASSUME NEW k \in 1..N PROVE Cardinality({j \in S : j <= P[k]}) = k
  <2>1. {j \in S : j <= P[k]} = Below(S, before, P[k]) \cup {P[k]}
    <3>1. \A i, j \in Nat : j <= i <=> j < i \/ j = i
      OBVIOUS
    <3>2. P[k] \in S
      BY <1>5
    <3>3. \A j \in S : j <= P[k] <=> j < P[k] \/ j = P[k]
      BY <3>1, <3>2
    <3> QED
      BY <1>3, <3>2, <3>3 DEF Below
  <2>2. IsFiniteSet(Below(S, before, P[k])) /\ P[k] \notin Below(S, before, P[k])
    <3>1. Below(S, before, P[k]) \subseteq S
      BY DEF Below
    <3>2. P[k] \notin Below(S, before, P[k])
      BY <1>1, <1>5 DEF Below, IsOrder
    <3> QED
      BY <3>1, <3>2, FS_Subset
  <2>3. Cardinality(Below(S, before, P[k]) \cup {P[k]}) = Cardinality(Below(S, before, P[k])) + 1
    BY <2>2, FS_AddElement
  <2>4. Cardinality(Below(S, before, P[k])) = k - 1 /\ k \in Nat
    BY <1>4, <1>5
  <2>5. (k - 1) + 1 = k
    BY <2>4
  <2>6. Cardinality(Below(S, before, P[k]) \cup {P[k]}) = k
    BY <2>3, <2>4, <2>5
  <2> QED
    BY <2>1, <2>6
<1>8. \A k, l \in 1..N : P[k] = P[l] => k = l
  BY <1>7
<1> QED
  BY <1>5, <1>6, <1>7, <1>8 DEF N, P

\* Of the positions S as many are left as there are more than m, when the first m are
\* taken away.
Surplus(S, m) == {i \in S : Cardinality({j \in S : j <= i}) > m}

LEMMA LeftOver ==
  ASSUME NEW S, IsFiniteSet(S), S \subseteq Nat, NEW m \in Nat
  PROVE  /\ IsFiniteSet(Surplus(S, m))
         /\ Cardinality(Surplus(S, m)) = IF Cardinality(S) > m THEN Cardinality(S) - m ELSE 0
<1> DEFINE N == Cardinality(S)
           T == Surplus(S, m)
           P == Positions(S)
           K == (m + 1)..N
           upto(i) == Cardinality({j \in S : j <= i})
<1>1. N \in Nat
  BY FS_CardinalityType
<1>2. /\ \A k \in 1..N : P[k] \in S /\ upto(P[k]) = k
      /\ \A x \in S : \E k \in 1..N : P[k] = x
      /\ \A k, l \in 1..N : P[k] = P[l] => k = l
  BY PositionsRank
<1>3. T = {i \in S : upto(i) > m}
  BY DEF Surplus
<1> HIDE DEF N, P, upto, T
<1>4. \A k \in K : k \in 1..N /\ k > m
  BY <1>1
<1> PICK f : f = [k \in K |-> P[k]]
  OBVIOUS
<1>5. \A k \in K : f[k] \in T
  BY <1>2, <1>3, <1>4
<1>6. \A k, l \in K : f[k] = f[l] => k = l
  BY <1>2, <1>4
<1>7. ASSUME NEW x \in T PROVE \E k \in K : f[k] = x
  <2>1. PICK k \in 1..N : P[k] = x
    BY <1>2, <1>3
  <2>2. k > m
    BY <1>2, <1>3, <2>1
  <2>3. k \in K
    BY <1>1, <2>2
  <2> QED
    BY <2>1, <2>3
<1>8. /\ IsFiniteSet(K)
      /\ Cardinality(K) = IF m + 1 > N THEN 0 ELSE N - (m + 1) + 1
  BY <1>1, FS_Interval
<1>9. DOMAIN f = K /\ f = [k \in K |-> f[k]]
  OBVIOUS
<1> HIDE DEF K
<1>10. IsFiniteSet(T) /\ Cardinality(T) = Cardinality(K)
  <2>1. f \in [K -> T]
    BY <1>5, <1>9
  <2> QED
    BY <1>6, <1>7, <1>8, <2>1, SameSize
<1>11. (IF m + 1 > N THEN 0 ELSE N - (m + 1) + 1) = IF N > m THEN N - m ELSE 0
  BY <1>1
<1> QED
  BY <1>8, <1>10, <1>11 DEF N, T

=============================================================================
