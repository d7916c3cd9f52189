---------------------------- MODULE SeriesProofs ----------------------------
(***************************************************************************)
(* Theorems about Series: what the list of a scan, its digest, its delta   *)
(* and the list a stream leaves out have to do with the software that was  *)
(* found, on every host, however the catalogers finish.                    *)
(* And about Heartbeat: how wrong an "unchanged" can be, for any number of *)
(* hosts that share the state file, any number of faults and any length of *)
(* time, and that it is right if nothing is lost, for one host.            *)
(***************************************************************************)
EXTENDS Heartbeat, Series, ListProofs

-----------------------------------------------------------------------------
(* Lists of components.                                                    *)

IsComponent(c) ==
  /\ c = [typ |-> c.typ, name |-> c.name, version |-> c.version, purl |-> c.purl,
          root |-> c.root, by |-> c.by, locs |-> c.locs, ownedBy |-> c.ownedBy,
          attrs |-> c.attrs, source |-> c.source, change |-> c.change]
  /\ c.typ \in Int /\ c.name \in Int /\ c.version \in Int

IsInventory(cs) == IsListing(cs) /\ \A c \in ToSet(cs) : IsComponent(c)

LEMMA InventoryEntries ==
  ASSUME NEW cs, IsInventory(cs)
  PROVE  /\ Len(cs) \in Nat /\ DOMAIN cs = 1..Len(cs) /\ cs = [i \in 1..Len(cs) |-> cs[i]]
         /\ \A i \in DOMAIN cs : IsComponent(cs[i]) /\ cs[i] \in ToSet(cs)
BY ListingEntries DEF IsInventory

\* A function on the first numbers whose values are components is a list of them.
LEMMA ListIsInventory ==
  ASSUME NEW n \in Nat, NEW cs, DOMAIN cs = 1..n, cs = [i \in DOMAIN cs |-> cs[i]],
         \A i \in DOMAIN cs : IsComponent(cs[i])
  PROVE  IsInventory(cs) /\ Len(cs) = n
<1>1. IsListing(cs) /\ Len(cs) = n
  BY FunctionLists
<1>2. \A c \in ToSet(cs) : \E i \in DOMAIN cs : c = cs[i]
  BY <1>1, ListingEntries
<1> QED
  BY <1>1, <1>2 DEF IsInventory

-----------------------------------------------------------------------------
(* Sorting.                                                                *)

LEMMA LessIsWeakOrder ==
  ASSUME NEW a, NEW b, NEW c, IsComponent(a), IsComponent(b), IsComponent(c)
  PROVE  /\ ~Less(a, a)
         /\ Less(a, b) => ~Less(b, a)
         /\ Less(a, b) /\ Less(b, c) => Less(a, c)
         /\ ~Less(a, b) /\ ~Less(b, c) => ~Less(a, c)
<1>1. \A p : PurlRank(p) \in Int
  BY DEF PurlRank
<1>2. /\ a.typ \in Int /\ a.name \in Int /\ a.version \in Int /\ PurlRank(a.purl) \in Int
      /\ b.typ \in Int /\ b.name \in Int /\ b.version \in Int /\ PurlRank(b.purl) \in Int
      /\ c.typ \in Int /\ c.name \in Int /\ c.version \in Int /\ PurlRank(c.purl) \in Int
  BY <1>1 DEF IsComponent
<1> QED
  BY <1>2 DEF Less

\* The list is put in order by a rearrangement of its places that keeps what is alike
\* in the order it came in.
Rearranges(p, cs) ==
  /\ p \in [DOMAIN cs -> DOMAIN cs]
  /\ \A i \in DOMAIN cs : \E k \in DOMAIN cs : p[k] = i
  /\ \A k, l \in DOMAIN cs : p[k] = p[l] => k = l
Stably(p, cs) ==
  \A k, l \in DOMAIN cs : k < l => \/ Less(cs[p[k]], cs[p[l]])
                                   \/ ~Less(cs[p[l]], cs[p[k]]) /\ p[k] < p[l]

LEMMA SortedRearranges ==
  ASSUME NEW cs, IsInventory(cs)
  PROVE  \E p : /\ Rearranges(p, cs) /\ Stably(p, cs)
                /\ Sorted(cs) = [k \in DOMAIN cs |-> cs[p[k]]]
<1> DEFINE D == DOMAIN cs
           before == {at \in D \X D : \/ Less(cs[at[1]], cs[at[2]])
                                      \/ ~Less(cs[at[2]], cs[at[1]]) /\ at[1] < at[2]}
           p == InOrder(D, before)
<1>1. Len(cs) \in Nat /\ D = 1..Len(cs) /\ \A i \in D : IsComponent(cs[i])
  BY InventoryEntries
<1>2. IsFiniteSet(D) /\ Cardinality(D) = Len(cs)
  BY <1>1, FS_Interval
<1>3. \A i, j \in D : <<i, j>> \in before <=> \/ Less(cs[i], cs[j])
                                              \/ ~Less(cs[j], cs[i]) /\ i < j
  OBVIOUS
<1>4. Sorted(cs) = [k \in DOMAIN p |-> cs[p[k]]]
  BY DEF Sorted
<1> HIDE DEF before
<1>5. IsOrder(D, before)
  <2>1. \A i \in D : <<i, i>> \notin before
    BY <1>1, <1>3, LessIsWeakOrder
  <2>2. ASSUME NEW i \in D, NEW j \in D, i # j PROVE <<i, j>> \in before \/ <<j, i>> \in before
    <3>1. i < j \/ j < i
      BY <1>1, <2>2
    <3> QED
      BY <1>3, <3>1
  <2>3. ASSUME NEW i \in D, NEW j \in D, NEW k \in D, <<i, j>> \in before, <<j, k>> \in before
        PROVE  <<i, k>> \in before
    <3>1. IsComponent(cs[i]) /\ IsComponent(cs[j]) /\ IsComponent(cs[k])
      BY <1>1
    <3>2. i \in Int /\ j \in Int /\ k \in Int
      BY <1>1
    <3>3. CASE Less(cs[i], cs[j])
      <4>1. ~Less(cs[k], cs[j])
        BY <1>3, <2>3, <3>1, LessIsWeakOrder
      <4> QED
        BY <1>3, <3>1, <3>3, <4>1, LessIsWeakOrder
    <3>4. CASE ~Less(cs[i], cs[j]) /\ ~Less(cs[j], cs[i]) /\ i < j
      <4>1. CASE Less(cs[j], cs[k])
        BY <1>3, <3>1, <3>4, <4>1, LessIsWeakOrder
      <4>2. CASE ~Less(cs[k], cs[j]) /\ j < k
        <5>1. i < k
          BY <3>2, <3>4, <4>2
        <5>2. ~Less(cs[k], cs[i])
          BY <3>1, <3>4, <4>2, LessIsWeakOrder
        <5> QED
          BY <1>3, <5>1, <5>2
      <4> QED
        BY <1>3, <2>3, <4>1, <4>2
    <3> QED
      BY <1>3, <2>3, <3>3, <3>4
  <2> QED
    BY <2>1, <2>2, <2>3 DEF IsOrder
<1>6. /\ p \in Seq(D) /\ DOMAIN p = D
      /\ \A i \in D : \E k \in D : p[k] = i
  <2>1. /\ p \in Seq(D) /\ DOMAIN p = 1..Cardinality(D)
        /\ \A i \in D : \E k \in DOMAIN p : p[k] = i
    <3>1. IsFiniteSet(D)
      BY <1>2
    <3> HIDE DEF D
    <3> QED
      BY <3>1, <1>5, InOrderLists
  <2> HIDE DEF p
  <2> QED
    BY <1>1, <1>2, <2>1
<1>7. \A k, l \in D : k < l => <<p[k], p[l]>> \in before
  <2>1. \A k, l \in 1..Cardinality(D) : k < l => <<p[k], p[l]>> \in before
    BY <1>2, <1>5, InOrderRises, Zenon
  <2> HIDE DEF p
  <2> QED
    BY <1>1, <1>2, <2>1
<1> HIDE DEF p
<1>8. \A k \in D : p[k] \in D
  BY <1>1, <1>6, Entries
<1>9. p \in [D -> D]
  BY <1>1, <1>6, <1>8
<1>10. ASSUME NEW k \in D, NEW l \in D, p[k] = p[l] PROVE k = l
  <2>1. <<p[k], p[k]>> \notin before
    BY <1>5, <1>8 DEF IsOrder
  <2>2. ~(k < l) /\ ~(l < k)
    BY <1>7, <1>10, <2>1
  <2> QED
    BY <1>1, <2>2
<1>11. Rearranges(p, cs)
  BY <1>6, <1>9, <1>10 DEF Rearranges
<1>12. Stably(p, cs)
  BY <1>3, <1>7, <1>8 DEF Stably
<1> QED
  BY <1>4, <1>6, <1>11, <1>12

LEMMA SortedTells ==
  ASSUME NEW cs, IsInventory(cs)
  PROVE  /\ IsInventory(Sorted(cs))
         /\ ToSet(Sorted(cs)) = ToSet(cs)
<1>1. PICK p : /\ Rearranges(p, cs) /\ Sorted(cs) = [k \in DOMAIN cs |-> cs[p[k]]]
  BY SortedRearranges
<1>2. Len(cs) \in Nat /\ DOMAIN cs = 1..Len(cs) /\ \A i \in DOMAIN cs : IsComponent(cs[i])
  BY InventoryEntries
<1>3. /\ \A k \in DOMAIN cs : p[k] \in DOMAIN cs
      /\ \A i \in DOMAIN cs : \E k \in DOMAIN cs : p[k] = i
  BY <1>1 DEF Rearranges
<1>4. \A k \in DOMAIN cs : Sorted(cs)[k] = cs[p[k]]
  BY <1>1
<1>5. DOMAIN Sorted(cs) = 1..Len(cs) /\ Sorted(cs) = [k \in DOMAIN Sorted(cs) |-> Sorted(cs)[k]]
  BY <1>1, <1>2
<1>6. \A k \in DOMAIN Sorted(cs) : IsComponent(Sorted(cs)[k])
  BY <1>2, <1>3, <1>4, <1>5
<1>7. IsInventory(Sorted(cs))
  BY <1>2, <1>5, <1>6, ListIsInventory
<1>8. ToSet(Sorted(cs)) = ToSet(cs)
  BY <1>2, <1>3, <1>4, <1>5 DEF ToSet
<1> QED
  BY <1>7, <1>8

-----------------------------------------------------------------------------
(* Normalisation: one entry for each key, made of all entries of that key.  *)

Same(cs, i) == {j \in DOMAIN cs : Key(cs[j]) = Key(cs[i])}
Joined(cs, i) == Merged(cs, Same(cs, i))

LEMMA SameFirst ==
  ASSUME NEW cs, IsInventory(cs), NEW i \in DOMAIN cs
  PROVE  /\ Least(Same(cs, i)) \in Same(cs, i)
         /\ \A j \in Same(cs, i) : Least(Same(cs, i)) <= j
         /\ \A j \in Same(cs, i) : Same(cs, j) = Same(cs, i)
<1>1. DOMAIN cs \subseteq Nat
  BY InventoryEntries
<1>2. Same(cs, i) \subseteq Nat /\ i \in Same(cs, i)
  BY <1>1 DEF Same
<1>3. \A j \in Same(cs, i) : Same(cs, j) = Same(cs, i)
  BY DEF Same
<1> QED
  BY <1>2, <1>3, LeastNumber

LEMMA EntryTells ==
  ASSUME NEW cs, IsInventory(cs), NEW i \in DOMAIN cs
  PROVE  /\ IsComponent(Joined(cs, i)) /\ Key(Joined(cs, i)) = Key(cs[i])
         /\ \E j \in Same(cs, i) : Joined(cs, i).change = cs[j].change
         /\ Joined(cs, i).locs = UNION {cs[j].locs : j \in Same(cs, i)}
         /\ \/ Joined(cs, i).ownedBy = <<>>
            \/ \E j \in Same(cs, i) : Joined(cs, i).ownedBy = cs[j].ownedBy
<1> DEFINE S == Same(cs, i)
           first(field, none) ==
             LET filled == {k \in S : cs[k][field] # none}
             IN  IF filled = {} THEN none ELSE cs[Least(filled)][field]
           j == Least(S)
<1>1. Joined(cs, i) = [cs[j] EXCEPT
         !.locs = UNION {cs[k].locs : k \in S},
         !.attrs = UNION {cs[k].attrs : k \in S},
         !.by = first("by", ""),
         !.ownedBy = first("ownedBy", <<>>)]
  BY DEF Joined, Merged
<1>2. \/ first("ownedBy", <<>>) = <<>>
      \/ \E k \in S : first("ownedBy", <<>>) = cs[k].ownedBy
  <2> DEFINE filled == {k \in S : cs[k].ownedBy # <<>>}
  <2>1. first("ownedBy", <<>>) = IF filled = {} THEN <<>> ELSE cs[Least(filled)].ownedBy
    OBVIOUS
  <2>2. filled \subseteq Nat /\ filled \subseteq S
    BY InventoryEntries DEF Same
  <2> HIDE DEF filled, S, first
  <2>3. filled # {} => Least(filled) \in filled
    BY <2>2, LeastNumber
  <2> QED
    BY <2>1, <2>2, <2>3
<1>3. j \in S /\ Key(cs[j]) = Key(cs[i]) /\ IsComponent(cs[j])
  <2>1. j \in S
    BY SameFirst
  <2> QED
    BY <2>1, InventoryEntries DEF Same
<1>4. PICK by, owner : /\ by = first("by", "") /\ owner = first("ownedBy", <<>>)
  OBVIOUS
<1>5. PICK locs, attrs : locs = UNION {cs[k].locs : k \in S} /\ attrs = UNION {cs[k].attrs : k \in S}
  OBVIOUS
<1> HIDE DEF first
<1>6. Joined(cs, i) = [cs[j] EXCEPT !.locs = locs, !.attrs = attrs, !.by = by, !.ownedBy = owner]
  BY <1>1, <1>4, <1>5
<1> HIDE DEF j
<1>7. /\ IsComponent(Joined(cs, i)) /\ Joined(cs, i).change = cs[j].change
      /\ Joined(cs, i).locs = locs /\ Joined(cs, i).ownedBy = owner
      /\ Key(Joined(cs, i)) = Key(cs[j])
  BY <1>3, <1>6 DEF IsComponent, Key
<1> QED
  BY <1>2, <1>3, <1>4, <1>5, <1>7

\* The places at which a key comes up first, in their order.
Firsts(cs) == Positions({i \in DOMAIN cs : i = Least(Same(cs, i))})

LEMMA FirstsList ==
  ASSUME NEW cs, IsInventory(cs)
  PROVE  /\ \E n \in Nat : DOMAIN Firsts(cs) = 1..n
         /\ \A k \in DOMAIN Firsts(cs) :
              Firsts(cs)[k] \in DOMAIN cs /\ Firsts(cs)[k] = Least(Same(cs, Firsts(cs)[k]))
         /\ \A i \in DOMAIN cs : \E k \in DOMAIN Firsts(cs) : Firsts(cs)[k] = Least(Same(cs, i))
         /\ \A k, l \in DOMAIN Firsts(cs) : k < l => Firsts(cs)[k] < Firsts(cs)[l]
<1> DEFINE S == {i \in DOMAIN cs : i = Least(Same(cs, i))}
           before == {at \in S \X S : at[1] < at[2]}
<1>1. Len(cs) \in Nat /\ DOMAIN cs = 1..Len(cs)
  BY InventoryEntries
<1>2. IsFiniteSet(S) /\ S \subseteq Nat /\ S \subseteq DOMAIN cs
  <2>1. IsFiniteSet(1..Len(cs))
    BY <1>1, FS_Interval
  <2> QED
    BY <1>1, <2>1, FS_Subset
<1>3. \A i \in DOMAIN cs : Least(Same(cs, i)) \in S
  BY SameFirst DEF Same
<1>4. Firsts(cs) = Positions(S)
  BY DEF Firsts
<1>5. \A i \in S : i = Least(Same(cs, i))
  OBVIOUS
<1> HIDE DEF S
<1>6. \A x, y \in S : <<x, y>> \in before <=> x < y
  OBVIOUS
<1>7. Positions(S) = InOrder(S, before)
  BY Zenon DEF Positions
<1> HIDE DEF before
<1>8. IsOrder(S, before)
  <2>1. \A x, y, z \in Nat : ~(x < x) /\ (x # y => x < y \/ y < x) /\ (x < y /\ y < z => x < z)
    OBVIOUS
  <2> QED
    BY <1>2, <1>6, <2>1 DEF IsOrder
<1>9. /\ DOMAIN InOrder(S, before) = 1..Cardinality(S)
      /\ \A k \in 1..Cardinality(S) : InOrder(S, before)[k] \in S
  BY <1>2, <1>8, InOrderRanks
<1>10. \A x \in S : \E k \in DOMAIN InOrder(S, before) : InOrder(S, before)[k] = x
  BY <1>2, <1>8, InOrderLists
<1>11. \A k, l \in 1..Cardinality(S) : k < l => <<InOrder(S, before)[k], InOrder(S, before)[l]>> \in before
  BY <1>2, <1>8, InOrderRises
<1>12. Cardinality(S) \in Nat
  BY <1>2, FS_CardinalityType
<1> DEFINE list == InOrder(S, before)
<1>13. Firsts(cs) = list
  BY <1>4, <1>7
<1> HIDE DEF list
<1>14. /\ DOMAIN list = 1..Cardinality(S)
       /\ \A k \in 1..Cardinality(S) : list[k] \in S
       /\ \A x \in S : \E k \in 1..Cardinality(S) : list[k] = x
       /\ \A k, l \in 1..Cardinality(S) : k < l => <<list[k], list[l]>> \in before
  BY <1>9, <1>10, <1>11 DEF list
<1> QED
  BY <1>2, <1>3, <1>5, <1>6, <1>12, <1>13, <1>14

Distinct(cs) == [k \in DOMAIN Firsts(cs) |-> Joined(cs, Firsts(cs)[k])]

LEMMA DistinctTells ==
  ASSUME NEW cs, IsInventory(cs)
  PROVE  /\ Normalize(cs) = Sorted(Distinct(cs))
         /\ IsInventory(Distinct(cs))
         /\ DOMAIN Distinct(cs) = DOMAIN Firsts(cs)
         /\ \A k \in DOMAIN Firsts(cs) : Distinct(cs)[k] = Joined(cs, Firsts(cs)[k])
<1>1. Normalize(cs) = Sorted(Distinct(cs))
  BY Zenon DEF Normalize, Distinct, Firsts, Joined, Same
<1>2. PICK n \in Nat : DOMAIN Firsts(cs) = 1..n
  BY FirstsList
<1>3. \A k \in DOMAIN Firsts(cs) : Firsts(cs)[k] \in DOMAIN cs
  BY FirstsList
<1>4. DOMAIN Distinct(cs) = 1..n /\ Distinct(cs) = [k \in DOMAIN Distinct(cs) |-> Distinct(cs)[k]]
  BY <1>2 DEF Distinct
<1>5. \A k \in DOMAIN Firsts(cs) : Distinct(cs)[k] = Joined(cs, Firsts(cs)[k])
  BY DEF Distinct
<1>6. \A k \in DOMAIN Distinct(cs) : IsComponent(Distinct(cs)[k])
  BY <1>2, <1>3, <1>4, <1>5, EntryTells
<1>7. IsInventory(Distinct(cs))
  BY <1>4, <1>6, ListIsInventory
<1> QED
  BY <1>1, <1>2, <1>4, <1>5, <1>7

\* A normalised list has an entry for every key of the list, one only, and nothing
\* else.
LEMMA NormalizeTells ==
  ASSUME NEW cs, IsInventory(cs)
  PROVE  /\ IsInventory(Normalize(cs))
         /\ \A c \in ToSet(Normalize(cs)) : \E i \in DOMAIN cs : c = Joined(cs, i)
         /\ \A i \in DOMAIN cs : Joined(cs, i) \in ToSet(Normalize(cs))
         /\ \A k, l \in DOMAIN Normalize(cs) :
              Key(Normalize(cs)[k]) = Key(Normalize(cs)[l]) => k = l
<1> DEFINE D == Distinct(cs)
           F == Firsts(cs)
<1>1. Normalize(cs) = Sorted(D) /\ IsInventory(D) /\ DOMAIN D = DOMAIN F
  BY DistinctTells
<1>2. \A k \in DOMAIN F : D[k] = Joined(cs, F[k])
  BY DistinctTells
<1>3. /\ \A k \in DOMAIN F : F[k] \in DOMAIN cs /\ F[k] = Least(Same(cs, F[k]))
      /\ \A i \in DOMAIN cs : \E k \in DOMAIN F : F[k] = Least(Same(cs, i))
      /\ \A k, l \in DOMAIN F : k < l => F[k] < F[l]
  BY FirstsList
<1>4. DOMAIN F \subseteq Nat
  BY FirstsList
<1> HIDE DEF D, F
<1>5. IsInventory(Normalize(cs)) /\ ToSet(Normalize(cs)) = ToSet(D)
  BY <1>1, SortedTells
<1>6. \A c \in ToSet(D) : \E i \in DOMAIN cs : c = Joined(cs, i)
  BY <1>1, <1>2, <1>3 DEF ToSet
<1>7. ASSUME NEW i \in DOMAIN cs PROVE Joined(cs, i) \in ToSet(D)
  <2>1. PICK k \in DOMAIN F : F[k] = Least(Same(cs, i))
    BY <1>3
  <2>2. Same(cs, F[k]) = Same(cs, i)
    BY <2>1, SameFirst
  <2>3. D[k] = Joined(cs, i)
    BY <1>2, <2>2 DEF Joined
  <2> QED
    BY <1>1, <2>3 DEF ToSet
<1>8. ASSUME NEW k \in DOMAIN F, NEW l \in DOMAIN F, Key(D[k]) = Key(D[l]) PROVE k = l
  <2>1. Key(cs[F[k]]) = Key(cs[F[l]])
    BY <1>2, <1>3, <1>8, EntryTells
  <2>2. Same(cs, F[k]) = Same(cs, F[l])
    BY <2>1 DEF Same
  <2>3. F[k] = F[l]
    BY <1>3, <2>2
  <2>4. F[k] \in Nat
    BY <1>3, InventoryEntries
  <2>5. ~(k < l) /\ ~(l < k)
    BY <1>3, <2>3, <2>4
  <2> QED
    BY <1>4, <2>5
<1>9. PICK p : Rearranges(p, D) /\ Normalize(cs) = [k \in DOMAIN D |-> D[p[k]]]
  BY <1>1, SortedRearranges
<1>10. /\ \A k \in DOMAIN D : p[k] \in DOMAIN D
       /\ \A k, l \in DOMAIN D : p[k] = p[l] => k = l
  BY <1>9 DEF Rearranges
<1>11. DOMAIN Normalize(cs) = DOMAIN D /\ \A k \in DOMAIN D : Normalize(cs)[k] = D[p[k]]
  BY <1>9
<1>12. \A k, l \in DOMAIN Normalize(cs) :
         Key(Normalize(cs)[k]) = Key(Normalize(cs)[l]) => k = l
  BY <1>1, <1>8, <1>10, <1>11
<1> QED
  BY <1>5, <1>6, <1>7, <1>12

\* Of two entries of which neither must come first, the one found first does.
LEMMA NormalizeIsStable ==
  ASSUME NEW cs, IsInventory(cs), NEW i \in DOMAIN cs, NEW j \in DOMAIN cs, i < j,
         ~Less(cs[j], cs[i]), \A k \in 1..i : Key(cs[k]) # Key(cs[j])
  PROVE  \A k, l \in DOMAIN Normalize(cs) :
           /\ Key(Normalize(cs)[k]) = Key(cs[i])
           /\ Key(Normalize(cs)[l]) = Key(cs[j])
           => k < l
<1> DEFINE D == Distinct(cs)
           F == Firsts(cs)
           N == Normalize(cs)
<1>1. N = Sorted(D) /\ IsInventory(D) /\ DOMAIN D = DOMAIN F
  BY DistinctTells
<1>2. \A k \in DOMAIN F : D[k] = Joined(cs, F[k])
  BY DistinctTells
<1>3. /\ \A k \in DOMAIN F : F[k] \in DOMAIN cs /\ F[k] = Least(Same(cs, F[k]))
      /\ \A k, l \in DOMAIN F : k < l => F[k] < F[l]
  BY FirstsList
<1>4. DOMAIN F \subseteq Nat /\ DOMAIN cs \subseteq Nat
  BY FirstsList, InventoryEntries
<1>5. PICK p : Rearranges(p, D) /\ Stably(p, D) /\ N = [k \in DOMAIN D |-> D[p[k]]]
  BY <1>1, SortedRearranges
<1> HIDE DEF D, F, N
<1>6. /\ \A k \in DOMAIN D : p[k] \in DOMAIN D /\ N[k] = D[p[k]]
      /\ DOMAIN N = DOMAIN D
  BY <1>5 DEF Rearranges
<1> SUFFICES ASSUME NEW k \in DOMAIN N, NEW l \in DOMAIN N,
                    Key(N[k]) = Key(cs[i]), Key(N[l]) = Key(cs[j])
             PROVE  k < l
  BY DEF N
<1> DEFINE a == p[k]
           b == p[l]
<1>7. a \in DOMAIN F /\ b \in DOMAIN F /\ N[k] = Joined(cs, F[a]) /\ N[l] = Joined(cs, F[b])
  BY <1>1, <1>2, <1>6
<1>8. F[a] \in DOMAIN cs /\ F[b] \in DOMAIN cs
  BY <1>3, <1>7
<1>9. Key(cs[F[a]]) = Key(cs[i]) /\ Key(cs[F[b]]) = Key(cs[j])
  BY <1>7, <1>8, EntryTells
<1>10. F[a] <= i
  <2>1. i \in Same(cs, F[a])
    BY <1>9 DEF Same
  <2> QED
    BY <1>3, <1>7, <1>8, <2>1, SameFirst
<1>11. F[b] > i
  <2>1. F[b] \notin 1..i
    BY <1>9
  <2>2. F[b] \in Nat /\ F[b] >= 1 /\ i \in Nat
    BY <1>8, InventoryEntries
  <2> QED
    BY <2>1, <2>2
<1>12. a < b
  <2>1. ~(b < a) /\ a # b
    <3>1. F[a] \in Nat /\ F[b] \in Nat /\ i \in Nat
      BY <1>4, <1>8
    <3> QED
      BY <1>3, <1>7, <1>10, <1>11, <3>1
  <2>2. a \in Nat /\ b \in Nat
    BY <1>4, <1>7
  <2> HIDE DEF a, b
  <2> QED
    BY <2>1, <2>2
<1>13. ~Less(D[b], D[a])
  <2>1. Less(D[b], D[a]) <=> Less(cs[j], cs[i])
    <3>1. Key(D[a]) = Key(cs[i]) /\ Key(D[b]) = Key(cs[j])
      BY <1>6
    <3>2. ASSUME NEW x, NEW y, Key(x) = Key(y)
          PROVE  x.name = y.name /\ x.version = y.version /\ x.typ = y.typ /\ x.purl = y.purl
      BY <3>2 DEF Key
    <3>3. /\ D[a].name = cs[i].name /\ D[a].version = cs[i].version
          /\ D[a].typ = cs[i].typ /\ D[a].purl = cs[i].purl
      BY <3>1, <3>2
    <3>4. /\ D[b].name = cs[j].name /\ D[b].version = cs[j].version
          /\ D[b].typ = cs[j].typ /\ D[b].purl = cs[j].purl
      BY <3>1, <3>2
    <3> HIDE DEF a, b
    <3> QED
      BY <3>3, <3>4 DEF Less
  <2> QED
    BY <2>1
<1>14. ~(l < k)
  BY <1>5, <1>6, <1>12, <1>13, <1>4, <1>7 DEF Stably
<1>15. k # l
  BY <1>4, <1>7, <1>12
<1>16. k \in Nat /\ l \in Nat
  BY <1>1, <1>4, <1>6
<1> QED
  BY <1>14, <1>15, <1>16

-----------------------------------------------------------------------------
(* What Syft hands over.                                                   *)

MachineOK == machine \subseteq Possible /\ IsFiniteSet(machine)

TwinsOf(i, merged) == IF merged THEN Twins(i) ELSE {}
Package(i, merged) ==
  [Found(i) EXCEPT !.locs =
     @ \o FlattenSeq(SetToSeq({Found(j).locs : j \in TwinsOf(i, merged)}))]
Shadowed(merged) == UNION {TwinsOf(i, merged) : i \in machine}

IsPackage(p) ==
  /\ p = [typ |-> p.typ, name |-> p.name, version |-> p.version, by |-> p.by,
          files |-> p.files, locs |-> p.locs]
  /\ p.typ \in Int /\ p.name \in Int /\ p.version \in Int
  /\ IsListing(p.locs)

LEMMA FoundTells ==
  ASSUME NEW i \in Possible
  PROVE  /\ IsPackage(Found(i))
         /\ Found(i).typ = i.typ /\ Found(i).name = i.name /\ Found(i).version = i.version
         /\ Found(i).files = IF i.typ = Deb THEN FilesOf[i.name] ELSE {}
         /\ Found(i).locs = IF i.typ # Deb THEN <<i.root \o EvidenceOf[i.name]>>
                            ELSE <<i.root \o <<"db", "status">>, <<"usr", "doc">>>>
         /\ Len(Found(i).locs) > 0
<1>1. i.typ \in Int /\ i.name \in Int /\ i.version \in Int
  BY SeriesConstants
<1>2. PICK by, files : Found(i) =
        [typ |-> i.typ, name |-> i.name, version |-> i.version, by |-> by, files |-> files,
         locs |-> IF i.typ # Deb THEN <<i.root \o EvidenceOf[i.name]>>
                  ELSE <<i.root \o <<"db", "status">>, <<"usr", "doc">>>>]
        /\ files = IF i.typ = Deb THEN FilesOf[i.name] ELSE {}
  BY Zenon DEF Found
<1>3. PICK locs : /\ locs = IF i.typ # Deb THEN <<i.root \o EvidenceOf[i.name]>>
                            ELSE <<i.root \o <<"db", "status">>, <<"usr", "doc">>>>
  OBVIOUS
<1>4. IsListing(locs) /\ Len(locs) > 0
  <2>1. ASSUME NEW a PROVE IsListing(<<a>>) /\ Len(<<a>>) > 0
    <3>1. <<a>> \in Seq({a}) /\ Len(<<a>>) = 1
      OBVIOUS
    <3>2. PICK s : s = <<a>>
      OBVIOUS
    <3>3. s \in Seq({a}) /\ Len(s) = 1
      BY <3>1, <3>2, Zenon
    <3>4. IsListing(s)
      BY <3>3, SeqLists
    <3> QED
      BY <3>2, <3>3, <3>4
  <2>2. ASSUME NEW a, NEW b PROVE IsListing(<<a, b>>) /\ Len(<<a, b>>) > 0
    <3>1. <<a, b>> \in Seq({a, b}) /\ Len(<<a, b>>) = 2
      OBVIOUS
    <3>2. PICK s : s = <<a, b>>
      OBVIOUS
    <3>3. s \in Seq({a, b}) /\ Len(s) = 2
      BY <3>1, <3>2, Zenon
    <3>4. IsListing(s)
      BY <3>3, SeqLists
    <3> QED
      BY <3>2, <3>3, <3>4
  <2>3. CASE i.typ # Deb
    <3>1. PICK a : locs = <<a>>
      BY <1>3, <2>3
    <3> QED
      BY <3>1, <2>1
  <2>4. CASE i.typ = Deb
    <3>1. PICK a, b : locs = <<a, b>>
      BY <1>3, <2>4
    <3> QED
      BY <3>1, <2>2
  <2> QED
    BY <2>3, <2>4
<1>5. Found(i) = [typ |-> i.typ, name |-> i.name, version |-> i.version, by |-> by, files |-> files,
                  locs |-> locs]
  BY <1>2, <1>3
<1> QED
  BY <1>1, <1>2, <1>3, <1>4, <1>5 DEF IsPackage

\* A package cites what its own database and those of its twins say.
LEMMA PackageTells ==
  ASSUME MachineOK, NEW i \in machine, NEW merged \in BOOLEAN, NEW p, p = Package(i, merged)
  PROVE  /\ IsPackage(p)
         /\ p.typ = i.typ /\ p.name = i.name /\ p.version = i.version
         /\ p.files = Found(i).files
         /\ Len(p.locs) > 0 /\ p.locs[1] = Found(i).locs[1]
         /\ ToSet(p.locs) = ToSet(Found(i).locs)
                              \cup UNION {ToSet(Found(j).locs) : j \in TwinsOf(i, merged)}
<1> DEFINE T == TwinsOf(i, merged)
           S == {Found(j).locs : j \in T}
           more == FlattenSeq(SetToSeq(S))
<1>1. T \subseteq machine /\ machine \subseteq Possible /\ IsFiniteSet(T)
  <2>1. T \subseteq machine
    BY DEF TwinsOf, Twins
  <2> QED
    BY <2>1, FS_Subset DEF MachineOK
<1>2. IsFiniteSet(S)
  <2> DEFINE f == [j \in T |-> Found(j).locs]
  <2>1. f \in Surjection(T, S)
    BY DEF Surjection
  <2> HIDE DEF f
  <2> QED
    BY <1>1, <2>1, FS_Surjection
<1>3. \A x \in S : IsListing(x)
  BY <1>1, FoundTells DEF IsPackage
<1>4. IsListing(SetToSeq(S)) /\ ToSet(SetToSeq(S)) = S
  BY <1>2, SetLists
<1>5. IsListing(more) /\ ToSet(more) = UNION {ToSet(x) : x \in S}
  <2> DEFINE q == SetToSeq(S)
  <2> HIDE DEF S, q
  <2>1. IsListing(q) /\ ToSet(q) = S
    BY <1>4 DEF q
  <2>2. /\ Len(q) \in Nat /\ DOMAIN q = 1..Len(q) /\ q = [k \in DOMAIN q |-> q[k]]
        /\ \A k \in 1..Len(q) : q[k] \in S
        /\ \A x \in S : \E k \in 1..Len(q) : x = q[k]
    BY <2>1, ListingEntries
  <2>3. /\ IsListing(FlattenSeq(q))
        /\ ToSet(FlattenSeq(q)) = UNION {ToSet(q[k]) : k \in 1..Len(q)}
    BY <1>3, <2>2, FlattenLists
  <2> QED
    BY <2>2, <2>3 DEF q
<1>13. UNION {ToSet(x) : x \in S} = UNION {ToSet(Found(j).locs) : j \in T}
  OBVIOUS
<1> HIDE DEF more, T, S
<1>6. p = [Found(i) EXCEPT !.locs = Found(i).locs \o more]
  BY DEF Package, more, T, S
<1>7. IsPackage(Found(i)) /\ Len(Found(i).locs) > 0
  BY <1>1, FoundTells
<1>8. PICK locs : locs = Found(i).locs \o more
  OBVIOUS
<1>9. /\ IsListing(locs) /\ ToSet(locs) = ToSet(Found(i).locs) \cup ToSet(more)
      /\ Len(locs) > 0 /\ locs[1] = Found(i).locs[1]
  <2>1. IsListing(Found(i).locs)
    BY <1>7 DEF IsPackage
  <2>2. Len(Found(i).locs) \in Nat /\ Len(more) \in Nat
    BY <1>5, <2>1, ListingEntries
  <2>3. 1 \in 1..Len(Found(i).locs)
    BY <1>7, <2>2
  <2> QED
    BY <1>5, <1>7, <1>8, <2>1, <2>2, <2>3, ConcatLists
<1>10. p = [Found(i) EXCEPT !.locs = locs]
  BY <1>6, <1>8
<1>11. /\ IsPackage(p) /\ p.typ = Found(i).typ /\ p.name = Found(i).name
       /\ p.version = Found(i).version /\ p.files = Found(i).files /\ p.locs = locs
  BY <1>7, <1>9, <1>10 DEF IsPackage
<1>12. Found(i).typ = i.typ /\ Found(i).name = i.name /\ Found(i).version = i.version
  BY <1>1, FoundTells
<1> QED
  BY <1>5, <1>9, <1>11, <1>12, <1>13 DEF T

LEMMA PackagesTell ==
  ASSUME MachineOK, NEW order \in Orders, NEW merged \in BOOLEAN
  PROVE  /\ IsListing(Packages(order, merged))
         /\ ToSet(Packages(order, merged)) = {Package(i, merged) : i \in machine \ Shadowed(merged)}
         /\ \A p \in ToSet(Packages(order, merged)) : IsPackage(p)
<1> DEFINE S == machine \ Shadowed(merged)
           earlier == {at \in machine \X machine : order[at[1]] < order[at[2]]}
           seq == InOrder(S, earlier)
           P == Packages(order, merged)
<1>1. P = [k \in DOMAIN seq |-> Package(seq[k], merged)]
  BY Zenon DEF Packages, Package, Shadowed, TwinsOf
<1>2. S \subseteq machine /\ IsFiniteSet(S) /\ machine \subseteq Possible
  BY FS_Subset DEF MachineOK
<1>3. /\ \A i \in machine : order[i] \in Int
      /\ \A i, j \in machine : order[i] = order[j] => i = j
  BY SeriesConstants, <1>2
<1>4. \A i, j \in machine : <<i, j>> \in earlier <=> order[i] < order[j]
  OBVIOUS
<1> HIDE DEF S, earlier
<1>5. IsOrder(S, earlier)
  <2>1. \A x, y, z \in Int : ~(x < x) /\ (x # y => x < y \/ y < x) /\ (x < y /\ y < z => x < z)
    OBVIOUS
  <2> QED
    BY <1>2, <1>3, <1>4, <2>1 DEF IsOrder
<1>6. /\ InOrder(S, earlier) \in Seq(S)
      /\ \A x \in S : \E k \in DOMAIN InOrder(S, earlier) : InOrder(S, earlier)[k] = x
  BY <1>2, <1>5, InOrderLists
<1>7. /\ seq \in Seq(S)
      /\ \A x \in S : \E k \in DOMAIN seq : seq[k] = x
  BY <1>6
<1> HIDE DEF seq, P
<1>8. Len(seq) \in Nat /\ DOMAIN seq = 1..Len(seq) /\ \A k \in DOMAIN seq : seq[k] \in S
  BY <1>7
<1>9. DOMAIN P = 1..Len(seq) /\ P = [k \in DOMAIN P |-> P[k]] /\ \A k \in DOMAIN P : P[k] = Package(seq[k], merged)
  BY <1>1, <1>8
<1>10. IsListing(P)
  BY <1>8, <1>9, FunctionLists
<1>11. ToSet(P) = {Package(i, merged) : i \in S}
  BY <1>7, <1>8, <1>9 DEF ToSet
<1>12. \A i \in S : IsPackage(Package(i, merged))
  BY <1>2, PackageTells
<1> QED
  BY <1>10, <1>11, <1>12 DEF P, S

-----------------------------------------------------------------------------
(* Conversion: what a package becomes.                                     *)

Nested(packages) == NestedRoots(HostRoot, UNION {ToSet(p.locs) : p \in ToSet(packages)})

\* The component has the package's name, the root its evidence is in, and the claim
\* about the distribution only on the host.
ComesFrom(c, p, nested) ==
  /\ c.typ = p.typ /\ c.name = p.name /\ c.version = p.version
  /\ c.root = RootOf(p.locs, nested)
  /\ c.purl = IF c.root = HostRoot THEN Purl(p) ELSE StripDistroClaim(Purl(p))
  /\ c.change = ""

LEMMA ConvertOne ==
  ASSUME NEW p, IsPackage(p)
  PROVE  /\ IsComponent(ComponentFromPackage(p))
         /\ ComponentFromPackage(p).typ = p.typ /\ ComponentFromPackage(p).name = p.name
         /\ ComponentFromPackage(p).version = p.version /\ ComponentFromPackage(p).purl = Purl(p)
         /\ ComponentFromPackage(p).root = HostRoot /\ ComponentFromPackage(p).locs = p.locs
         /\ ComponentFromPackage(p).ownedBy = NoOwner /\ ComponentFromPackage(p).change = ""
BY DEF IsComponent, IsPackage, ComponentFromPackage

LEMMA GreatestNumber ==
  ASSUME NEW n \in Nat, NEW T, T \subseteq 1..n, T # {}
  PROVE  (CHOOSE k \in T : \A i \in T : i <= k) \in T
<1> DEFINE U == {k \in 0..n : n - k \in T}
<1>1. U \subseteq Nat /\ U # {}
  <2>1. PICK t \in T : TRUE
    OBVIOUS
  <2>2. t \in 1..n
    OBVIOUS
  <2>3. n - t \in 0..n /\ n - (n - t) = t
    BY <2>2
  <2>4. n - t \in U
    BY <2>3
  <2>5. U \subseteq Nat
    OBVIOUS
  <2> HIDE DEF U
  <2> QED
    BY <2>4, <2>5
<1>2. Least(U) \in U /\ \A u \in U : Least(U) <= u
  BY <1>1, LeastNumber
<1> DEFINE k == n - Least(U)
<1>3. k \in T
  BY <1>2
<1>4. ASSUME NEW i \in T PROVE i <= k
  <2>1. i \in 1..n
    OBVIOUS
  <2>2. n - i \in U
    BY <2>1
  <2> QED
    BY <1>2, <2>1, <2>2
<1> HIDE DEF k
<1> QED
  BY <1>3, <1>4

LEMMA RootedTells ==
  ASSUME NEW packages, IsListing(packages), \A p \in ToSet(packages) : IsPackage(p), NEW nested
  PROVE  LET raw == [i \in DOMAIN packages |-> ComponentFromPackage(packages[i])]
             cs == AssignRoots(raw, nested)
         IN  /\ DOMAIN cs = DOMAIN packages /\ cs = [j \in DOMAIN cs |-> cs[j]]
             /\ \A j \in DOMAIN packages :
                  /\ IsComponent(cs[j]) /\ ComesFrom(cs[j], packages[j], nested)
                  /\ cs[j].locs = packages[j].locs /\ cs[j].ownedBy = NoOwner
<1> DEFINE raw == [i \in DOMAIN packages |-> ComponentFromPackage(packages[i])]
           cs == AssignRoots(raw, nested)
<1>1. DOMAIN cs = DOMAIN packages /\ cs = [j \in DOMAIN cs |-> cs[j]]
  BY DEF AssignRoots
<1>2. ASSUME NEW j \in DOMAIN packages
      PROVE  /\ IsComponent(cs[j]) /\ ComesFrom(cs[j], packages[j], nested)
             /\ cs[j].locs = packages[j].locs /\ cs[j].ownedBy = NoOwner
  <2> DEFINE p == packages[j]
             c == ComponentFromPackage(p)
             root == RootOf(p.locs, nested)
  <2>1. IsPackage(p)
    BY ListingEntries
  <2>2. /\ IsComponent(c) /\ c.typ = p.typ /\ c.name = p.name
        /\ c.version = p.version /\ c.purl = Purl(p)
        /\ c.root = HostRoot /\ c.locs = p.locs
        /\ c.ownedBy = NoOwner /\ c.change = ""
    BY <2>1, ConvertOne
  <2>3. PICK attrs : attrs = c.attrs \cup IF root \in DOMAIN Releases
                                          THEN {<<"root_os_id", Releases[root]>>} ELSE {}
    OBVIOUS
  <2>4. raw[j] = c
    OBVIOUS
  <2>5. cs[j] = IF RootOf(raw[j].locs, nested) = HostRoot THEN raw[j]
                ELSE [raw[j] EXCEPT !.root = RootOf(raw[j].locs, nested), !.purl = StripDistroClaim(@),
                        !.attrs = @ \cup IF RootOf(raw[j].locs, nested) \in DOMAIN Releases
                                  THEN {<<"root_os_id", Releases[RootOf(raw[j].locs, nested)]>>} ELSE {}]
    BY DEF AssignRoots
  <2> HIDE DEF raw, cs
  <2>6. cs[j] = IF root = HostRoot THEN c
                ELSE [c EXCEPT !.root = root, !.purl = StripDistroClaim(c.purl), !.attrs = attrs]
    BY <2>2, <2>3, <2>4, <2>5
  <2> HIDE DEF c, root, p
  <2>7. CASE root = HostRoot
    BY <2>2, <2>6, <2>7 DEF ComesFrom, root, p
  <2>8. CASE root # HostRoot
    <3>1. PICK purl : purl = StripDistroClaim(c.purl)
      OBVIOUS
    <3>2. cs[j] = [c EXCEPT !.root = root, !.purl = purl, !.attrs = attrs]
      BY <2>6, <2>8, <3>1
    <3>3. /\ IsComponent(cs[j]) /\ cs[j].typ = c.typ /\ cs[j].name = c.name
          /\ cs[j].version = c.version /\ cs[j].purl = purl /\ cs[j].root = root
          /\ cs[j].locs = c.locs /\ cs[j].ownedBy = c.ownedBy /\ cs[j].change = c.change
      BY <2>2, <3>2 DEF IsComponent
    <3> QED
      BY <2>2, <2>8, <3>1, <3>3 DEF ComesFrom, root, p
  <2> QED
    BY <2>7, <2>8
<1> QED
  BY <1>1, <1>2

\* Who is owned is owned by a distribution package of its own root.
Vouched(cs) ==
  \A j \in DOMAIN cs :
    \/ cs[j].ownedBy = NoOwner
    \/ \E k \in DOMAIN cs : /\ cs[k].purl = cs[j].ownedBy /\ cs[k].root = cs[j].root
                            /\ IsOSPackage(cs[k].typ)

LEMMA OwnershipTells ==
  ASSUME NEW cs, \A j \in DOMAIN cs : IsComponent(cs[j]) /\ cs[j].ownedBy = NoOwner,
         NEW relationships, IsListing(relationships),
         \A r \in ToSet(relationships) : r[1] \in DOMAIN cs
  PROVE  LET owned == ApplyFileOwnership(cs, relationships)
         IN  /\ DOMAIN owned = DOMAIN cs /\ owned = [j \in DOMAIN owned |-> owned[j]]
             /\ \A j \in DOMAIN cs :
                  \E owner : owned[j] = [cs[j] EXCEPT !.ownedBy = owner]
             /\ Vouched(owned)
<1> DEFINE vouches(k, j) ==
             LET r == relationships[k]
             IN  /\ r[2] = j /\ r[1] # j
                 /\ IsOSPackage(cs[r[1]].typ) /\ ~IsOSPackage(cs[j].typ)
                 /\ cs[r[1]].root = cs[j].root
                 /\ cs[r[1]].purl # NoPurl
           last(S) == CHOOSE k \in S : \A i \in S : i <= k
           by(j) == {k \in DOMAIN relationships : vouches(k, j)}
           owned == ApplyFileOwnership(cs, relationships)
<1>1. owned = [j \in DOMAIN cs |->
                IF by(j) = {} THEN cs[j]
                ELSE [cs[j] EXCEPT !.ownedBy = cs[relationships[last(by(j))][1]].purl]]
  BY DEF ApplyFileOwnership
<1> HIDE DEF owned
<1>2. DOMAIN owned = DOMAIN cs /\ owned = [j \in DOMAIN owned |-> owned[j]]
  <2> HIDE DEF by, last
  <2> QED
    BY <1>1, Zenon
<1>3. ASSUME NEW j \in DOMAIN cs
      PROVE  \E owner : /\ owned[j] = [cs[j] EXCEPT !.ownedBy = owner]
                        /\ \/ owner = NoOwner
                           \/ \E k \in DOMAIN cs : /\ cs[k].purl = owner /\ cs[k].root = cs[j].root
                                                   /\ IsOSPackage(cs[k].typ)
  <2>1. CASE by(j) = {}
    <3>1. owned[j] = cs[j]
      BY <1>1, <2>1
    <3>2. cs[j] = [cs[j] EXCEPT !.ownedBy = NoOwner]
      BY DEF IsComponent
    <3> QED
      BY <3>1, <3>2
  <2>2. CASE by(j) # {}
    <3> DEFINE k == last(by(j))
               owner == cs[relationships[k][1]].purl
    <3>1. Len(relationships) \in Nat /\ DOMAIN relationships = 1..Len(relationships)
      BY ListingEntries
    <3>2. k \in by(j)
      <4> DEFINE S == by(j)
      <4>1. S \subseteq 1..Len(relationships) /\ S # {}
        BY <2>2, <3>1
      <4> HIDE DEF S
      <4>2. (CHOOSE i \in S : \A h \in S : h <= i) \in S
        BY <3>1, <4>1, GreatestNumber
      <4> QED
        BY <4>2 DEF S
    <3>3. owned[j] = [cs[j] EXCEPT !.ownedBy = owner]
      BY <1>1, <2>2
    <3>4. relationships[k] \in ToSet(relationships)
      BY <3>2, ListingEntries
    <3>5. /\ relationships[k][1] \in DOMAIN cs
          /\ IsOSPackage(cs[relationships[k][1]].typ)
          /\ cs[relationships[k][1]].root = cs[j].root
      BY <3>2, <3>4
    <3> HIDE DEF k
    <3> QED
      BY <3>3, <3>5
  <2> QED
    BY <2>1, <2>2
<1>4. ASSUME NEW j \in DOMAIN cs, NEW owner, owned[j] = [cs[j] EXCEPT !.ownedBy = owner]
      PROVE  /\ owned[j].ownedBy = owner /\ owned[j].purl = cs[j].purl
             /\ owned[j].root = cs[j].root /\ owned[j].typ = cs[j].typ
  BY <1>4 DEF IsComponent
<1>5. Vouched(owned)
  <2>1. \A j \in DOMAIN cs : /\ owned[j].purl = cs[j].purl /\ owned[j].root = cs[j].root
                             /\ owned[j].typ = cs[j].typ
    BY <1>3, <1>4
  <2>2. ASSUME NEW j \in DOMAIN cs
        PROVE  \/ owned[j].ownedBy = NoOwner
               \/ \E k \in DOMAIN cs : /\ cs[k].purl = owned[j].ownedBy /\ cs[k].root = cs[j].root
                                       /\ IsOSPackage(cs[k].typ)
    <3>1. PICK owner : /\ owned[j] = [cs[j] EXCEPT !.ownedBy = owner]
                        /\ \/ owner = NoOwner
                           \/ \E k \in DOMAIN cs : /\ cs[k].purl = owner /\ cs[k].root = cs[j].root
                                                   /\ IsOSPackage(cs[k].typ)
      BY <1>3
    <3>2. owned[j].ownedBy = owner
      BY <1>4, <3>1
    <3> QED
      BY <3>1, <3>2
  <2> QED
    BY <1>2, <2>1, <2>2 DEF Vouched
<1> QED
  BY <1>2, <1>3, <1>5 DEF owned

LEMMA ConvertTells ==
  ASSUME NEW packages, IsListing(packages), \A p \in ToSet(packages) : IsPackage(p),
         NEW relationships, IsListing(relationships),
         \A r \in ToSet(relationships) : r[1] \in DOMAIN packages,
         NEW probe
  PROVE  LET cs == Convert(HostRoot, packages, relationships, probe).components
         IN  /\ IsInventory(cs) /\ DOMAIN cs = DOMAIN packages
             /\ \A j \in DOMAIN cs : /\ ComesFrom(cs[j], packages[j], Nested(packages))
                                     /\ cs[j].locs = ToSet(packages[j].locs)
             /\ Vouched(cs)
<1> DEFINE nested == Nested(packages)
           raw == [i \in DOMAIN packages |-> ComponentFromPackage(packages[i])]
           rooted == AssignRoots(raw, nested)
           owned == ApplyFileOwnership(rooted, relationships)
           cs == Convert(HostRoot, packages, relationships, probe).components
<1>1. cs = [i \in DOMAIN owned |-> [owned[i] EXCEPT !.locs = ToSet(@)]]
  BY DEF Convert, Nested
<1>2. /\ DOMAIN rooted = DOMAIN packages /\ rooted = [j \in DOMAIN rooted |-> rooted[j]]
      /\ \A j \in DOMAIN packages :
           /\ IsComponent(rooted[j]) /\ ComesFrom(rooted[j], packages[j], nested)
           /\ rooted[j].locs = packages[j].locs /\ rooted[j].ownedBy = NoOwner
  BY RootedTells
<1> HIDE DEF rooted, nested
<1>3. /\ DOMAIN owned = DOMAIN rooted /\ owned = [j \in DOMAIN owned |-> owned[j]]
      /\ \A j \in DOMAIN rooted :
           \E owner : owned[j] = [rooted[j] EXCEPT !.ownedBy = owner]
      /\ Vouched(owned)
  BY <1>2, OwnershipTells
<1> HIDE DEF owned, cs
<1>4. ASSUME NEW j \in DOMAIN packages
      PROVE  /\ IsComponent(cs[j]) /\ ComesFrom(cs[j], packages[j], nested)
             /\ cs[j].locs = ToSet(packages[j].locs)
             /\ cs[j].ownedBy = owned[j].ownedBy /\ cs[j].purl = owned[j].purl
             /\ cs[j].root = owned[j].root /\ cs[j].typ = owned[j].typ
  <2>1. PICK owner : owned[j] = [rooted[j] EXCEPT !.ownedBy = owner]
    BY <1>2, <1>3
  <2>2. /\ IsComponent(rooted[j]) /\ ComesFrom(rooted[j], packages[j], nested)
        /\ rooted[j].locs = packages[j].locs
    BY <1>2
  <2>3. PICK locs : locs = ToSet(packages[j].locs)
    OBVIOUS
  <2>4. cs[j] = [owned[j] EXCEPT !.locs = ToSet(owned[j].locs)]
    BY <1>1, <1>2, <1>3
  <2>5. /\ IsComponent(owned[j]) /\ owned[j].locs = rooted[j].locs
        /\ owned[j].typ = rooted[j].typ /\ owned[j].name = rooted[j].name
        /\ owned[j].version = rooted[j].version /\ owned[j].root = rooted[j].root
        /\ owned[j].purl = rooted[j].purl /\ owned[j].change = rooted[j].change
    BY <2>1, <2>2 DEF IsComponent
  <2>6. cs[j] = [owned[j] EXCEPT !.locs = locs]
    BY <2>2, <2>3, <2>4, <2>5
  <2>7. /\ IsComponent(cs[j]) /\ cs[j].locs = locs
        /\ cs[j].typ = owned[j].typ /\ cs[j].name = owned[j].name
        /\ cs[j].version = owned[j].version /\ cs[j].root = owned[j].root
        /\ cs[j].purl = owned[j].purl /\ cs[j].change = owned[j].change
        /\ cs[j].ownedBy = owned[j].ownedBy
    BY <2>5, <2>6 DEF IsComponent
  <2> QED
    BY <2>2, <2>3, <2>5, <2>7 DEF ComesFrom
<1>5. DOMAIN cs = DOMAIN packages /\ cs = [j \in DOMAIN cs |-> cs[j]]
  BY <1>1, <1>2, <1>3
<1>6. IsInventory(cs)
  <2>1. Len(packages) \in Nat /\ DOMAIN packages = 1..Len(packages)
    BY ListingEntries
  <2> QED
    BY <1>4, <1>5, <2>1, ListIsInventory
<1>7. Vouched(cs)
  BY <1>2, <1>3, <1>4, <1>5 DEF Vouched
<1> QED
  BY <1>4, <1>5, <1>6, <1>7 DEF cs, nested

LEMMA OverlapsList ==
  ASSUME NEW packages, IsListing(packages)
  PROVE  /\ IsListing(Overlaps(packages))
         /\ \A r \in ToSet(Overlaps(packages)) : r[1] \in DOMAIN packages
<1> DEFINE D == DOMAIN packages
           S == {at \in D \X D :
                   /\ at[1] # at[2]
                   /\ \E f \in packages[at[1]].files, l \in ToSet(packages[at[2]].locs) : IsSuffix(f, l)}
<1>1. Overlaps(packages) = SetToSeq(S)
  BY Zenon DEF Overlaps
<1>2. IsFiniteSet(D)
  <2>1. Len(packages) \in Nat /\ D = 1..Len(packages)
    BY ListingEntries
  <2> QED
    BY <2>1, FS_Interval
<1> HIDE DEF D
<1>3. S \subseteq D \X D
  OBVIOUS
<1> HIDE DEF S
<1>4. IsFiniteSet(S)
  <2>1. IsFiniteSet(D \X D)
    BY <1>2, FS_Product
  <2> QED
    BY <1>3, <2>1, FS_Subset
<1>5. IsListing(SetToSeq(S)) /\ ToSet(SetToSeq(S)) = S
  BY <1>4, SetLists
<1> QED
  BY <1>1, <1>3, <1>5 DEF D

-----------------------------------------------------------------------------
(* The software inside containers, and the inventory of a report.          *)

Purls(c) == UNION {ToSet(s.components) : s \in ToSet(c.services)}
Inside(c, purl) ==
  [typ |-> purl[1], name |-> purl[2], version |-> purl[3],
   purl |-> purl, root |-> ContainerRoot(c.id), by |-> "container",
   locs |-> {}, ownedBy |-> <<>>, attrs |-> {}, source |-> "", change |-> ""]

LEMMA InsideTells ==
  ASSUME NEW c, NEW purl, NEW x, x = Inside(c, purl)
  PROVE  /\ x.typ = purl[1] /\ x.name = purl[2] /\ x.version = purl[3] /\ x.purl = purl
         /\ x.root = ContainerRoot(c.id)
BY DEF Inside

LEMMA InsideBlank ==
  ASSUME NEW c, NEW purl, NEW x, x = Inside(c, purl)
  PROVE  x.change = "" /\ x.ownedBy = <<>>
BY DEF Inside

LEMMA FinitelyMany ==
  ASSUME NEW s, IsListing(s)
  PROVE  IsFiniteSet(ToSet(s))
<1>1. Len(s) \in Nat /\ DOMAIN s = 1..Len(s) /\ \A x \in ToSet(s) : \E k \in DOMAIN s : x = s[k]
  BY ListingEntries
<1> DEFINE f == [k \in DOMAIN s |-> s[k]]
<1>2. f \in Surjection(DOMAIN s, ToSet(s))
  BY <1>1 DEF Surjection, ToSet
<1>3. IsFiniteSet(DOMAIN s)
  BY <1>1, FS_Interval
<1> HIDE DEF f
<1> QED
  BY <1>2, <1>3, FS_Surjection

LEMMA PurlsOf ==
  ASSUME NEW surface \in Surfaces, NEW c \in ToSet(surface.containers)
  PROVE  IsFiniteSet(Purls(c)) /\ Purls(c) \subseteq Int \X Int \X Int \X STRING
<1>1. /\ c.services \in Seq(ToSet(c.services))
      /\ \A s \in ToSet(c.services) : s.components \in Seq(Int \X Int \X Int \X STRING)
  BY SeriesConstants
<1>2. IsListing(c.services) /\ \A s \in ToSet(c.services) :
        IsListing(s.components) /\ ToSet(s.components) \subseteq Int \X Int \X Int \X STRING
  BY <1>1, SeqLists DEF IsListing
<1> DEFINE S == ToSet(c.services)
           f == [s \in S |-> ToSet(s.components)]
           R == {ToSet(s.components) : s \in S}
<1>3. IsFiniteSet(S)
  BY <1>2, FinitelyMany
<1>4. f \in Surjection(S, R)
  BY DEF Surjection
<1> HIDE DEF f
<1>5. IsFiniteSet(R)
  BY <1>3, <1>4, FS_Surjection
<1>6. \A x \in R : IsFiniteSet(x)
  BY <1>2, FinitelyMany
<1>7. IsFiniteSet(UNION R)
  <2> HIDE DEF R
  <2> QED
    BY <1>5, <1>6, FS_UNION
<1> QED
  BY <1>2, <1>7 DEF Purls

LEMMA ContainersTell ==
  ASSUME NEW surface \in Surfaces
  PROVE  /\ IsInventory(ContainerComponents(surface.containers))
         /\ ToSet(ContainerComponents(surface.containers)) =
              UNION {{Inside(c, p) : p \in Purls(c)} : c \in ToSet(surface.containers)}
<1> DEFINE cs == surface.containers
           n == Len(cs)
           part(c) == SetToSeq({Inside(c, p) : p \in Purls(c)})
           seqs == [i \in DOMAIN cs |-> part(cs[i])]
           all == ContainerComponents(surface.containers)
<1>1. all = FlattenSeq(seqs)
  BY Zenon DEF ContainerComponents, Purls, Inside
<1>2. IsListing(cs)
  BY SeriesConstants, SeqLists DEF IsListing
<1>3. n \in Nat /\ DOMAIN cs = 1..n
  BY <1>2, ListingEntries
<1>4. ASSUME NEW c \in ToSet(cs)
      PROVE  IsListing(part(c)) /\ ToSet(part(c)) = {Inside(c, p) : p \in Purls(c)}
  <2> DEFINE S == {Inside(c, p) : p \in Purls(c)}
             f == [p \in Purls(c) |-> Inside(c, p)]
  <2>1. f \in Surjection(Purls(c), S)
    BY DEF Surjection
  <2>2. IsFiniteSet(Purls(c))
    BY PurlsOf
  <2> HIDE DEF f, S
  <2>3. IsFiniteSet(S)
    BY <2>1, <2>2, FS_Surjection
  <2> QED
    BY <2>3, SetLists DEF S
<1> HIDE DEF part
<1>5. \A i \in 1..n : cs[i] \in ToSet(cs)
  BY <1>2, <1>3, ListingEntries
<1>6. /\ DOMAIN seqs = 1..n /\ seqs = [i \in DOMAIN seqs |-> seqs[i]]
      /\ \A i \in 1..n : seqs[i] = part(cs[i])
  BY <1>3
<1> HIDE DEF seqs, n, all
<1>7. \A i \in 1..n : IsListing(seqs[i])
  BY <1>4, <1>5, <1>6
<1>8. IsListing(all) /\ ToSet(all) = UNION {ToSet(seqs[i]) : i \in 1..n}
  BY <1>1, <1>3, <1>6, <1>7, FlattenLists
<1>9. ToSet(all) = UNION {{Inside(c, p) : p \in Purls(c)} : c \in ToSet(cs)}
  <2>1. \A i \in 1..n : ToSet(seqs[i]) = {Inside(cs[i], p) : p \in Purls(cs[i])}
    BY <1>4, <1>5, <1>6
  <2>2. \A c \in ToSet(cs) : \E i \in 1..n : c = cs[i]
    BY <1>2, <1>3, ListingEntries
  <2>3. UNION {ToSet(seqs[i]) : i \in 1..n} = UNION {{Inside(cs[i], p) : p \in Purls(cs[i])} : i \in 1..n}
    BY <2>1
  <2> HIDE DEF cs
  <2> QED
    BY <1>5, <1>8, <2>2, <2>3
<1>10. ASSUME NEW c \in ToSet(cs), NEW p \in Purls(c) PROVE IsComponent(Inside(c, p))
  <2>1. p[1] \in Int /\ p[2] \in Int /\ p[3] \in Int
    BY PurlsOf
  <2> QED
    BY <2>1 DEF IsComponent, Inside
<1>11. \A x \in ToSet(all) : IsComponent(x)
  BY <1>9, <1>10
<1> QED
  BY <1>8, <1>9, <1>11 DEF IsInventory, all

\* --skip-nested-rootfs leaves out just what only nested databases list.
LEMMA ScannedTells ==
  ASSUME NEW cs, IsInventory(cs), NEW mode
  PROVE  /\ IsInventory(Scanned(mode, cs))
         /\ ToSet(Scanned(mode, cs)) =
              {c \in ToSet(Normalize(cs)) : ~(mode.skipNested /\ OnlyNestedDatabaseEvidence(c))}
<1> DEFINE all == Normalize(cs)
           evidence == UNION {c.locs : c \in ToSet(all)}
           K == {k \in DOMAIN all : ~OnlyNestedDatabaseEvidence(all[k])}
<1>1. IsInventory(all)
  BY NormalizeTells
<1>2. Scanned(mode, cs) = IF mode.skipNested /\ NestedRoots(HostRoot, evidence) # {}
                          THEN DropNestedRootComponents(all) ELSE all
  BY Zenon DEF Scanned
<1> HIDE DEF all
<1>3. CASE mode.skipNested /\ NestedRoots(HostRoot, evidence) # {}
  <2>1. Scanned(mode, cs) = At(all, K)
    BY <1>2, <1>3, Zenon DEF DropNestedRootComponents
  <2>2. all \in Seq(ToSet(all)) /\ K \subseteq DOMAIN all
    BY <1>1 DEF IsInventory, IsListing
  <2> HIDE DEF K
  <2>3. /\ At(all, K) \in Seq(ToSet(all))
        /\ \A k \in K : \E n \in DOMAIN At(all, K) : At(all, K)[n] = all[k]
        /\ \A n \in DOMAIN At(all, K) : \E k \in K : At(all, K)[n] = all[k]
    BY <2>2, AtLists
  <2>4. IsListing(At(all, K))
    BY <2>3, SeqLists
  <2>5. ToSet(At(all, K)) = {all[k] : k \in K}
    BY <2>3 DEF ToSet
  <2>6. {all[k] : k \in K} = {c \in ToSet(all) : ~OnlyNestedDatabaseEvidence(c)}
    BY DEF K, ToSet
  <2>7. \A c \in ToSet(At(all, K)) : IsComponent(c)
    BY <1>1, <2>5, <2>6 DEF IsInventory
  <2> QED
    BY <1>3, <2>1, <2>4, <2>5, <2>6, <2>7 DEF IsInventory, all
<1>4. CASE ~(mode.skipNested /\ NestedRoots(HostRoot, evidence) # {})
  <2>1. ASSUME NEW c \in ToSet(all), OnlyNestedDatabaseEvidence(c)
        PROVE  NestedRoots(HostRoot, evidence) # {}
    <3>1. PICK l \in c.locs : NestedRootPrefix(l) # {}
      BY <2>1 DEF OnlyNestedDatabaseEvidence
    <3>2. l \in evidence
      OBVIOUS
    <3> QED
      BY <3>1, <3>2 DEF NestedRoots
  <2>2. Scanned(mode, cs) = all
    BY <1>2, <1>4
  <2>3. \A c \in ToSet(all) : ~(mode.skipNested /\ OnlyNestedDatabaseEvidence(c))
    BY <1>4, <2>1
  <2>4. ToSet(all) = {c \in ToSet(all) : ~(mode.skipNested /\ OnlyNestedDatabaseEvidence(c))}
    BY <2>3
  <2> QED
    BY <1>1, <2>2, <2>4 DEF all
<1> QED
  BY <1>3, <1>4

ScanOf(packages, surface) ==
  Convert(HostRoot, packages, Overlaps(packages), OwnerProbePaths(surface))
Raw(packages, surface) == ScanOf(packages, surface).components
Listed(mode, packages, surface) ==
  Scanned(mode, Raw(packages, surface)) \o ContainerComponents(surface.containers)

ArePackages(packages) == IsListing(packages) /\ \A p \in ToSet(packages) : IsPackage(p)

LEMMA RawTells ==
  ASSUME NEW packages, ArePackages(packages), NEW surface, NEW cs, cs = Raw(packages, surface)
  PROVE  /\ IsInventory(cs) /\ DOMAIN cs = DOMAIN packages
         /\ \A j \in DOMAIN cs : /\ ComesFrom(cs[j], packages[j], Nested(packages))
                                 /\ cs[j].locs = ToSet(packages[j].locs)
         /\ Vouched(cs)
BY ConvertTells, OverlapsList DEF Raw, ScanOf, ArePackages

LEMMA ListedTells ==
  ASSUME NEW mode, NEW packages, ArePackages(packages), NEW surface \in Surfaces
  PROVE  /\ IsInventory(Listed(mode, packages, surface))
         /\ ToSet(Listed(mode, packages, surface)) =
              ToSet(Scanned(mode, Raw(packages, surface)))
                \cup ToSet(ContainerComponents(surface.containers))
<1> DEFINE a == Scanned(mode, Raw(packages, surface))
           b == ContainerComponents(surface.containers)
<1>1. IsInventory(a) /\ IsInventory(b)
  BY RawTells, ScannedTells, ContainersTell
<1>2. Listed(mode, packages, surface) = a \o b
  BY DEF Listed
<1> HIDE DEF a, b
<1>3. IsListing(a \o b) /\ ToSet(a \o b) = ToSet(a) \cup ToSet(b)
  BY <1>1, ConcatLists DEF IsInventory
<1>4. \A c \in ToSet(a \o b) : IsComponent(c)
  BY <1>1, <1>3 DEF IsInventory
<1> QED
  BY <1>2, <1>3, <1>4 DEF IsInventory, a, b

-----------------------------------------------------------------------------
(* The fields a later step of a run may fill in.                           *)

\* The same list but for the source and the change of its entries.
Restates(t, s) ==
  /\ DOMAIN t = DOMAIN s /\ t = [i \in DOMAIN t |-> t[i]]
  /\ \A i \in DOMAIN s :
       \/ t[i] = s[i]
       \/ \E v : t[i] = [s[i] EXCEPT !.source = v]
       \/ \E v \in {"added", "changed"} : t[i] = [s[i] EXCEPT !.change = v]

SameEntry(c, d) ==
  /\ IsComponent(c) /\ Key(c) = Key(d) /\ c.locs = d.locs /\ c.ownedBy = d.ownedBy
  /\ c.typ = d.typ /\ c.name = d.name /\ c.version = d.version
  /\ c.purl = d.purl /\ c.root = d.root
  /\ c.change \in {d.change, "added", "changed"}

LEMMA RestatedTells ==
  ASSUME NEW s, IsInventory(s), NEW t, Restates(t, s)
  PROVE  /\ IsInventory(t) /\ DOMAIN t = DOMAIN s
         /\ \A i \in DOMAIN s : SameEntry(t[i], s[i])
<1>1. Len(s) \in Nat /\ DOMAIN s = 1..Len(s) /\ \A i \in DOMAIN s : IsComponent(s[i])
  BY InventoryEntries
<1>2. ASSUME NEW i \in DOMAIN s PROVE SameEntry(t[i], s[i])
  <2>1. IsComponent(s[i])
    BY <1>1
  <2>2. CASE t[i] = s[i]
    BY <2>1, <2>2 DEF SameEntry
  <2>3. ASSUME NEW v, t[i] = [s[i] EXCEPT !.source = v] PROVE SameEntry(t[i], s[i])
    BY <2>1, <2>3 DEF SameEntry, IsComponent, Key
  <2>4. ASSUME NEW v \in {"added", "changed"}, t[i] = [s[i] EXCEPT !.change = v] PROVE SameEntry(t[i], s[i])
    BY <2>1, <2>4 DEF SameEntry, IsComponent, Key
  <2> QED
    BY <2>2, <2>3, <2>4 DEF Restates
<1>3. DOMAIN t = DOMAIN s /\ t = [i \in DOMAIN t |-> t[i]]
  BY DEF Restates
<1>4. IsInventory(t)
  BY <1>1, <1>2, <1>3, ListIsInventory DEF SameEntry
<1> QED
  BY <1>2, <1>3, <1>4

LEMMA TagRestates ==
  ASSUME NEW d, NEW s
  PROVE  Restates(Tag(d, s), s)
<1> DEFINE added(c) == \E i \in DOMAIN d.added : /\ Identity(d.added[i]) = Identity(c)
                                                 /\ d.added[i].version = c.version
           changed(c) == \E ch \in d.changed : /\ <<ch.name, ch.typ>> = Identity(c)
                                               /\ ch.to = c.version
<1>1. Tag(d, s) = [i \in DOMAIN s |-> IF changed(s[i]) THEN [s[i] EXCEPT !.change = "changed"]
                                      ELSE IF added(s[i]) THEN [s[i] EXCEPT !.change = "added"] ELSE s[i]]
  BY Zenon DEF Tag
<1> HIDE DEF added, changed
<1>2. DOMAIN Tag(d, s) = DOMAIN s /\ Tag(d, s) = [i \in DOMAIN Tag(d, s) |-> Tag(d, s)[i]]
  BY <1>1
<1>3. ASSUME NEW i \in DOMAIN s
      PROVE  \/ Tag(d, s)[i] = s[i]
             \/ \E v \in {"added", "changed"} : Tag(d, s)[i] = [s[i] EXCEPT !.change = v]
  <2>1. Tag(d, s)[i] = IF changed(s[i]) THEN [s[i] EXCEPT !.change = "changed"]
                       ELSE IF added(s[i]) THEN [s[i] EXCEPT !.change = "added"] ELSE s[i]
    BY <1>1, Zenon
  <2> QED
    BY <2>1
<1> QED
  BY <1>2, <1>3 DEF Restates

-----------------------------------------------------------------------------
(* One run.                                                                *)

InventoryOf(mode, packages, surface) == Normalize(Listed(mode, packages, surface))

IsReport(r) ==
  /\ r = [kind |-> r.kind, components |-> r.components, inventory |-> r.inventory,
          owners |-> r.owners, services |-> r.services, links |-> r.links,
          containers |-> r.containers, exposure |-> r.exposure, config |-> r.config,
          include |-> r.include, mode |-> r.mode, sources |-> r.sources, delta |-> r.delta,
          digest |-> r.digest, unchanged |-> r.unchanged, how |-> r.how]
  /\ r.kind = "report"

\* What listens and what binaries load, named by the owners that were found.
Surfaced(r, surface) ==
  /\ r.services = AttachLinks(surface, r.owners).services
  /\ r.links = AttachLinks(surface, r.owners).links
  /\ r.exposure = Exposed(surface, r.owners)
  /\ r.config = surface.config

LEMMA AssembledTells ==
  ASSUME NEW mode, NEW packages, ArePackages(packages), NEW surface \in Surfaces,
         NEW r, r = Assembled(mode, packages, surface)
  PROVE  /\ IsReport(r) /\ r.mode = mode /\ r.containers = surface.containers
         /\ r.owners = ScanOf(packages, surface).fileOwners
         /\ Surfaced(r, surface)
         /\ r.components = r.inventory
         /\ Restates(r.inventory, InventoryOf(mode, packages, surface))
         /\ r.delta = NoDelta /\ ~r.unchanged
<1> DEFINE scan == ScanOf(packages, surface)
           s == InventoryOf(mode, packages, surface)
           t == [i \in DOMAIN s |-> [s[i] EXCEPT !.source = SourceKey(s[i].by)]]
           attached == AttachLinks(surface, scan.fileOwners)
<1>1. PICK rest : r =
        [kind |-> "report", components |-> t, inventory |-> t, owners |-> scan.fileOwners,
         services |-> attached.services, links |-> attached.links,
         containers |-> surface.containers, exposure |-> Exposed(surface, scan.fileOwners),
         config |-> surface.config, include |-> mode.include, mode |-> mode,
         sources |-> SourceStatuses(ComponentsBySource(t), HasDpkg),
         delta |-> NoDelta, digest |-> NoDigest, unchanged |-> FALSE,
         how |-> rest]
  BY Zenon DEF Assembled, InventoryOf, Listed, Raw, ScanOf
<1>2. Restates(t, s)
  <2>1. \A i \in DOMAIN s : \E v : t[i] = [s[i] EXCEPT !.source = v]
    OBVIOUS
  <2>2. DOMAIN t = DOMAIN s /\ t = [i \in DOMAIN t |-> t[i]]
    OBVIOUS
  <2> HIDE DEF t, s
  <2> QED
    BY <2>1, <2>2 DEF Restates
<1>3. PICK services, links, exposure, sources, delta, digest :
        /\ services = attached.services /\ links = attached.links
        /\ exposure = Exposed(surface, scan.fileOwners)
        /\ sources = SourceStatuses(ComponentsBySource(t), HasDpkg)
        /\ delta = NoDelta /\ digest = NoDigest
  OBVIOUS
<1> HIDE DEF s, t, scan, attached
<1>4. r = [kind |-> "report", components |-> t, inventory |-> t, owners |-> scan.fileOwners,
           services |-> services, links |-> links,
           containers |-> surface.containers, exposure |-> exposure,
           config |-> surface.config, include |-> mode.include, mode |-> mode,
           sources |-> sources, delta |-> delta, digest |-> digest, unchanged |-> FALSE,
           how |-> rest]
  BY <1>1, <1>3
<1>5. /\ IsReport(r) /\ r.mode = mode /\ r.containers = surface.containers
      /\ r.owners = scan.fileOwners /\ r.services = services /\ r.links = links
      /\ r.exposure = exposure /\ r.config = surface.config
      /\ r.components = t /\ r.inventory = t /\ r.delta = delta /\ r.unchanged = FALSE
  BY <1>4 DEF IsReport
<1>6. Surfaced(r, surface)
  BY <1>3, <1>5 DEF attached, Surfaced
<1> QED
  BY <1>2, <1>3, <1>5, <1>6 DEF s, scan

\* The list is the one that was assembled, or the same with what changed marked.
SameList(t, s) ==
  IsInventory(t) /\ DOMAIN t = DOMAIN s /\ \A i \in DOMAIN s : SameEntry(t[i], s[i])

Ready(r, mode, packages, surface) ==
  /\ IsReport(r) /\ r.mode = mode /\ r.containers = surface.containers
  /\ r.owners = ScanOf(packages, surface).fileOwners
  /\ Surfaced(r, surface)
  /\ SameList(r.inventory, InventoryOf(mode, packages, surface))
  /\ ~(mode.since /\ mode.deltaOnly) => r.components = r.inventory

LEMMA AssembledReady ==
  ASSUME NEW mode, NEW packages, ArePackages(packages), NEW surface \in Surfaces,
         NEW r, r = Assembled(mode, packages, surface)
  PROVE  /\ Ready(r, mode, packages, surface)
         /\ r.components = r.inventory /\ ~r.unchanged /\ r.delta = NoDelta
<1> DEFINE s == InventoryOf(mode, packages, surface)
<1>1. IsInventory(s)
  BY ListedTells, NormalizeTells DEF InventoryOf
<1> HIDE DEF s
<1>2. /\ IsReport(r) /\ r.mode = mode /\ r.containers = surface.containers
      /\ r.owners = ScanOf(packages, surface).fileOwners
      /\ Surfaced(r, surface)
      /\ r.components = r.inventory /\ Restates(r.inventory, s)
      /\ r.delta = NoDelta /\ ~r.unchanged
  BY AssembledTells DEF s
<1>3. SameList(r.inventory, s)
  BY <1>1, <1>2, RestatedTells DEF SameList
<1> QED
  BY <1>2, <1>3 DEF Ready, s

LEMMA DeltaReady ==
  ASSUME NEW r, NEW mode, NEW packages, NEW surface, Ready(r, mode, packages, surface),
         r.components = r.inventory, ~r.unchanged
  PROVE  /\ Ready(WithDelta(r), mode, packages, surface)
         /\ ~WithDelta(r).unchanged
         /\ ~mode.since => WithDelta(r) = r
         /\ WithDelta(r) # r =>
              LET d == ComputeDelta(r.components, baseline.components)
              IN  /\ WithDelta(r).delta = [kind |-> "delta", against |-> baseline.components, it |-> d]
                  /\ WithDelta(r).inventory = Tag(d, r.components)
<1> DEFINE d == ComputeDelta(r.components, baseline.components)
           tagged == Tag(d, r.components)
           delta == [kind |-> "delta", against |-> baseline.components, it |-> d]
           w == WithDelta(r)
<1>1. r.mode = mode
  BY DEF Ready
<1>2. CASE ~mode.since \/ baseline = NoBaseline
  <2>1. w = r
    BY <1>1, <1>2 DEF WithDelta
  <2> QED
    BY <2>1
<1>3. CASE ~(~mode.since \/ baseline = NoBaseline)
  <2>1. PICK components : /\ w = [r EXCEPT !.delta = delta, !.inventory = tagged, !.components = components]
                          /\ ~mode.deltaOnly => components = tagged
    <3>1. w = [r EXCEPT !.delta = [kind |-> "delta", against |-> baseline.components, it |-> d],
                        !.inventory = tagged,
                        !.components = IF r.mode.deltaOnly THEN DeltaComponents(d, tagged)
                                       ELSE tagged]
      BY <1>1, <1>3, Zenon DEF WithDelta
    <3> HIDE DEF w, tagged, d
    <3> QED
      BY <1>1, <3>1
  <2>2. Restates(tagged, r.inventory)
    BY TagRestates
  <2> HIDE DEF w, tagged, delta, d
  <2>3. IsReport(r)
    BY DEF Ready
  <2>4. /\ IsReport(w) /\ w.mode = r.mode /\ w.containers = r.containers /\ w.owners = r.owners
        /\ w.services = r.services /\ w.inventory = tagged /\ w.components = components
        /\ w.unchanged = r.unchanged /\ w.delta = delta
        /\ w.links = r.links /\ w.exposure = r.exposure /\ w.config = r.config
    BY <2>1, <2>3 DEF IsReport
  <2>5. SameList(w.inventory, InventoryOf(mode, packages, surface))
    <3> DEFINE s == InventoryOf(mode, packages, surface)
    <3>1. SameList(r.inventory, s)
      BY DEF Ready
    <3> HIDE DEF s
    <3>2. /\ IsInventory(tagged) /\ DOMAIN tagged = DOMAIN r.inventory
          /\ \A i \in DOMAIN r.inventory : SameEntry(tagged[i], r.inventory[i])
      BY <2>2, <3>1, RestatedTells DEF SameList
    <3>3. \A i \in DOMAIN s : SameEntry(tagged[i], s[i])
      BY <3>1, <3>2 DEF SameList, SameEntry
    <3>4. SameList(tagged, s)
      BY <3>1, <3>2, <3>3 DEF SameList
    <3> QED
      BY <2>4, <3>4 DEF s
  <2>6. Ready(w, mode, packages, surface)
    BY <1>3, <2>1, <2>4, <2>5 DEF Ready, Surfaced
  <2> QED
    BY <1>3, <2>4, <2>6 DEF w, tagged, delta, d
<1> QED
  BY <1>2, <1>3

\* The list is what was found, or that list marked with its difference from the baseline.
Compared(r, base) ==
  \/ r.delta = NoDelta /\ r.components = r.inventory
  \/ /\ r.delta # NoDelta /\ r.mode.since /\ base # NoBaseline
     /\ r.components = IF r.mode.deltaOnly THEN DeltaComponents(r.delta.it, r.inventory)
                       ELSE r.inventory
     /\ \E s : /\ IsInventory(s)
              /\ r.delta.against = base.components
              /\ r.delta.it = ComputeDelta(s, base.components)
              /\ r.inventory = Tag(ComputeDelta(s, base.components), s)

LEMMA DeltaCompared ==
  ASSUME NEW r, IsReport(r), IsInventory(r.inventory), r.components = r.inventory, r.delta = NoDelta
  PROVE  Compared(WithDelta(r), baseline)
<1> DEFINE d == ComputeDelta(r.components, baseline.components)
           tagged == Tag(d, r.components)
           delta == [kind |-> "delta", against |-> baseline.components, it |-> d]
           w == WithDelta(r)
<1>1. CASE ~r.mode.since \/ baseline = NoBaseline
  <2>1. w = r
    BY <1>1 DEF WithDelta
  <2> QED
    BY <2>1 DEF Compared
<1>2. CASE r.mode.since /\ baseline # NoBaseline
  <2>1. PICK components : /\ w = [r EXCEPT !.delta = delta, !.inventory = tagged, !.components = components]
                          /\ components = IF r.mode.deltaOnly THEN DeltaComponents(d, tagged)
                                          ELSE tagged
    <3>1. w = [r EXCEPT !.delta = [kind |-> "delta", against |-> baseline.components, it |-> d],
                        !.inventory = tagged,
                        !.components = IF r.mode.deltaOnly THEN DeltaComponents(d, tagged)
                                       ELSE tagged]
      BY <1>2, Zenon DEF WithDelta
    <3> HIDE DEF w, tagged, d
    <3> QED
      BY <1>2, <3>1
  <2>2. /\ delta # NoDelta /\ delta.against = baseline.components /\ delta.it = d
    BY DEF NoDelta
  <2> HIDE DEF w, tagged, delta, d
  <2>3. w.mode = r.mode /\ w.inventory = tagged /\ w.components = components /\ w.delta = delta
    BY <2>1 DEF IsReport
  <2> PICK s : s = r.components
    OBVIOUS
  <2>4. IsInventory(s) /\ d = ComputeDelta(s, baseline.components)
        /\ tagged = Tag(ComputeDelta(s, baseline.components), s)
    BY DEF tagged, d
  <2>5. /\ w.delta # NoDelta /\ w.mode.since
        /\ w.delta.against = baseline.components /\ w.delta.it = d /\ w.inventory = tagged
    BY <1>2, <2>2, <2>3
  <2>6. w.components = IF w.mode.deltaOnly THEN DeltaComponents(w.delta.it, w.inventory)
                       ELSE w.inventory
    BY <2>1, <2>2, <2>3
  <2>7. Compared(w, baseline)
    BY <1>2, <2>4, <2>5, <2>6 DEF Compared
  <2> QED
    BY <2>7 DEF w
<1> QED
  BY <1>1, <1>2

LEMMA ComparedKept ==
  ASSUME NEW r, NEW base, Compared(r, base),
         NEW q, q.mode = r.mode, q.components = r.components, q.inventory = r.inventory,
         q.delta = r.delta
  PROVE  Compared(q, base)
BY DEF Compared

\* What a run leaves behind.
Done(mode, packages, surface, forced) ==
  /\ Ready(report', mode, packages, surface)
  /\ report'.how = [found |-> ToSet(packages), forced |-> forced, asked |-> OwnerProbePaths(surface)]
  /\ IF mode.heartbeat
     THEN /\ report'.digest = {InventoryDigest(report'.components)}
          /\ report'.unchanged <=> ~forced /\ recorded = report'.digest
     ELSE ~report'.unchanged
  /\ recorded' = IF mode.heartbeat /\ ~report'.unchanged THEN report'.digest ELSE recorded
  /\ sent' = IF mode.heartbeat /\ ~report'.unchanged THEN Said(report') ELSE sent
  /\ machine' = machine
  /\ Compared(report', baseline)
  /\ LoadBaseline(mode)
  /\ baseline' = IF mode.aside THEN baseline
                 ELSE [kind |-> "report", components |-> report'.components,
                       only |-> mode.deltaOnly /\ report'.delta # NoDelta]

LEMMA RunTells ==
  ASSUME NEW mode, NEW packages, ArePackages(packages), NEW surface \in Surfaces,
         NEW forced \in BOOLEAN, Run(mode, packages, surface, forced)
  PROVE  Done(mode, packages, surface, forced)
<1> DEFINE a == Assembled(mode, packages, surface)
           w == WithDelta(a)
           r == WithHeartbeat(w, forced)
           how == [found |-> ToSet(packages), forced |-> forced, asked |-> OwnerProbePaths(surface)]
<1>1. Ready(w, mode, packages, surface) /\ ~w.unchanged /\ Compared(w, baseline)
  <2>1. /\ Ready(a, mode, packages, surface) /\ a.components = a.inventory /\ ~a.unchanged
        /\ a.delta = NoDelta
    BY AssembledReady
  <2> HIDE DEF a
  <2>2. IsReport(a) /\ IsInventory(a.inventory)
    BY <2>1 DEF Ready, SameList
  <2>3. Compared(w, baseline)
    BY <2>1, <2>2, DeltaCompared
  <2>4. Ready(w, mode, packages, surface) /\ ~w.unchanged
    BY <2>1, DeltaReady
  <2> QED
    BY <2>3, <2>4
<1>2. /\ report' = [r EXCEPT !.how = how]
      /\ recorded' = IF mode.heartbeat /\ ~r.unchanged THEN r.digest ELSE recorded
      /\ sent' = IF mode.heartbeat /\ ~r.unchanged THEN Said(r) ELSE sent
      /\ machine' = machine
      /\ LoadBaseline(mode)
      /\ baseline' = IF mode.aside THEN baseline
                     ELSE [kind |-> "report", components |-> r.components,
                           only |-> mode.deltaOnly /\ r.delta # NoDelta]
  BY DEF Run
<1> HIDE DEF a, w
<1>3. IsReport(w) /\ w.mode = mode
  BY <1>1 DEF Ready
<1>4. /\ Ready(r, mode, packages, surface) /\ Compared(r, baseline)
      /\ IF mode.heartbeat
         THEN /\ r.digest = {InventoryDigest(r.components)}
              /\ r.unchanged <=> ~forced /\ recorded = r.digest
         ELSE ~r.unchanged
  <2>1. CASE ~mode.heartbeat
    <3>1. r = w
      BY <1>3, <2>1 DEF WithHeartbeat
    <3> QED
      BY <1>1, <2>1, <3>1
  <2>2. CASE mode.heartbeat
    <3>1. PICK digest, unchanged :
            /\ r = [w EXCEPT !.digest = digest, !.unchanged = unchanged]
            /\ digest = {InventoryDigest(w.components)}
            /\ unchanged = (~forced /\ recorded = digest)
      BY <1>3, <2>2 DEF WithHeartbeat
    <3> HIDE DEF r
    <3>2. /\ IsReport(r) /\ r.mode = w.mode /\ r.containers = w.containers /\ r.owners = w.owners
          /\ r.services = w.services /\ r.inventory = w.inventory /\ r.components = w.components
          /\ r.digest = digest /\ r.unchanged = unchanged /\ r.delta = w.delta
          /\ r.links = w.links /\ r.exposure = w.exposure /\ r.config = w.config
      BY <1>3, <3>1 DEF IsReport
    <3>3. Ready(r, mode, packages, surface)
      BY <1>1, <3>2 DEF Ready, Surfaced
    <3>4. Compared(r, baseline)
      BY <1>1, <3>2, ComparedKept
    <3> QED
      BY <2>2, <3>1, <3>2, <3>3, <3>4
  <2> QED
    BY <2>1, <2>2
<1> HIDE DEF r, how
<1>5. IsReport(r)
  BY <1>4 DEF Ready
<1> DEFINE q == report'
<1>6. q = [r EXCEPT !.how = how]
  BY <1>2
<1> HIDE DEF q
<1>7. /\ IsReport(q) /\ q.mode = r.mode /\ q.containers = r.containers /\ q.owners = r.owners
      /\ q.services = r.services /\ q.inventory = r.inventory /\ q.components = r.components
      /\ q.digest = r.digest /\ q.unchanged = r.unchanged /\ q.how = how
      /\ q.delta = r.delta
      /\ q.links = r.links /\ q.exposure = r.exposure /\ q.config = r.config
  BY <1>5, <1>6 DEF IsReport
<1>8. Ready(q, mode, packages, surface)
  BY <1>4, <1>7 DEF Ready, Surfaced
<1>9. Said(q) = Said(r)
  BY <1>7 DEF Said
<1>10. Compared(q, baseline)
  BY <1>4, <1>7, ComparedKept
<1> QED
  BY <1>2, <1>4, <1>7, <1>8, <1>9, <1>10 DEF Done, q, how

-----------------------------------------------------------------------------
(* What --heartbeat leaves out was sent.                                   *)

Unmarked(cs) == \A c \in ToSet(cs) : c.change = ""

LEMMA NormalizeUnmarked ==
  ASSUME NEW cs, IsInventory(cs), Unmarked(cs)
  PROVE  Unmarked(Normalize(cs))
<1> SUFFICES ASSUME NEW c \in ToSet(Normalize(cs)) PROVE c.change = ""
  BY DEF Unmarked
<1>1. PICK i \in DOMAIN cs : c = Joined(cs, i)
  BY NormalizeTells
<1>2. PICK j \in Same(cs, i) : c.change = cs[j].change
  BY <1>1, EntryTells
<1>3. cs[j] \in ToSet(cs)
  BY InventoryEntries DEF Same
<1> QED
  BY <1>2, <1>3 DEF Unmarked

LEMMA InventoryUnmarked ==
  ASSUME NEW mode, NEW packages, ArePackages(packages), NEW surface \in Surfaces
  PROVE  Unmarked(InventoryOf(mode, packages, surface))
<1> DEFINE raw == Raw(packages, surface)
           L == Listed(mode, packages, surface)
<1>1. IsInventory(raw) /\ \A j \in DOMAIN raw : raw[j].change = ""
  <2> HIDE DEF raw
  <2>1. IsInventory(raw) /\ DOMAIN raw = DOMAIN packages
        /\ \A j \in DOMAIN raw : ComesFrom(raw[j], packages[j], Nested(packages))
    BY RawTells DEF raw
  <2> QED
    BY <2>1 DEF ComesFrom
<1>2. Unmarked(raw)
  BY <1>1 DEF Unmarked, ToSet
<1>3. Unmarked(Normalize(raw))
  BY <1>1, <1>2, NormalizeUnmarked
<1>4. \A c \in ToSet(Scanned(mode, raw)) : c.change = ""
  BY <1>1, <1>3, ScannedTells DEF Unmarked
<1>5. ASSUME NEW c \in ToSet(ContainerComponents(surface.containers)) PROVE c.change = ""
  <2>1. PICK at, p : c = Inside(at, p)
    BY ContainersTell
  <2> QED
    BY <2>1, InsideBlank
<1>6. IsInventory(L) /\ Unmarked(L)
  BY <1>4, <1>5, ListedTells DEF Unmarked
<1> HIDE DEF L
<1> QED
  BY <1>6, NormalizeUnmarked DEF InventoryOf, L

KeyIn(line) == <<line[2], line[3], line[1], line[5], line[4]>>
Lines(cs) == {DigestLine(cs[i]) : i \in DOMAIN cs}

LEMMA SaidOfList ==
  ASSUME NEW r, IsInventory(r.components), \A c \in ToSet(r.components) : c.change # "removed"
  PROVE  /\ Said(r) = {<<KeyIn(l), FALSE>> : l \in DOMAIN InventoryDigest(r.components)}
         /\ DOMAIN InventoryDigest(r.components) = Lines(r.components)
<1> DEFINE cs == r.components
<1>1. DOMAIN InventoryDigest(cs) = Lines(cs)
  BY DEF InventoryDigest, Lines
<1>2. \A c : KeyIn(DigestLine(c)) = Key(c)
  BY DEF KeyIn, DigestLine, Key
<1>3. \A c \in ToSet(cs) : (c.change = "removed") = FALSE
  OBVIOUS
<1>4. Said(r) = {<<Key(c), FALSE>> : c \in ToSet(cs)}
  BY <1>3, Zenon DEF Said
<1>5. {<<Key(c), FALSE>> : c \in ToSet(cs)} = {<<Key(cs[i]), FALSE>> : i \in DOMAIN cs}
  BY Zenon DEF ToSet
<1>6. {<<KeyIn(l), FALSE>> : l \in Lines(cs)} = {<<Key(cs[i]), FALSE>> : i \in DOMAIN cs}
  BY <1>2, Zenon DEF Lines
<1> QED
  BY <1>1, <1>4, <1>5, <1>6

\* The recorded digest is that of the list that was sent last.
DigestSays ==
  \/ recorded = NoDigest
  \/ \E d : recorded = {d} /\ sent = {<<KeyIn(l), FALSE>> : l \in DOMAIN d}

NeverDeltaHeartbeat == \A mode \in Modes : ~(mode.heartbeat /\ mode.deltaOnly)

SentInv == MachineOK /\ DigestSays /\ SuppressedWasSent

LEMMA HeartbeatList ==
  ASSUME NEW mode, NEW packages, ArePackages(packages), NEW surface \in Surfaces,
         NEW r, Ready(r, mode, packages, surface), ~mode.deltaOnly
  PROVE  /\ IsInventory(r.components)
         /\ \A c \in ToSet(r.components) : c.change # "removed"
<1> DEFINE s == InventoryOf(mode, packages, surface)
<1>1. r.components = r.inventory /\ SameList(r.inventory, s)
  BY DEF Ready
<1>2. Unmarked(s)
  BY InventoryUnmarked
<1>3. IsInventory(s)
  BY ListedTells, NormalizeTells DEF InventoryOf
<1> HIDE DEF s
<1>4. \A i \in DOMAIN s : s[i].change = ""
  BY <1>2, <1>3, InventoryEntries DEF Unmarked
<1>5. ASSUME NEW c \in ToSet(r.inventory) PROVE c.change # "removed"
  <2>1. PICK i \in DOMAIN r.inventory : c = r.inventory[i]
    BY DEF ToSet
  <2>2. SameEntry(c, s[i]) /\ s[i].change = ""
    BY <1>1, <1>4, <2>1 DEF SameList
  <2> QED
    BY <2>2 DEF SameEntry
<1> QED
  BY <1>1, <1>5 DEF SameList

\* Images are machines that could be installed; a change leaves a finite one.
LEMMA SoftwareStays ==
  ASSUME MachineOK, SoftwareChanges
  PROVE  MachineOK'
<1>1. PICK i \in Possible :
        machine' \in {machine \cup {i}, machine \ {i}} \cup
                     {(machine \ {j}) \cup {i} : j \in {k \in machine : SameName(i, k)}}
  BY DEF SoftwareChanges
<1>2. \A S : IsFiniteSet(S) => IsFiniteSet(S \cup {i})
  BY FS_AddElement
<1>3. \A S : IsFiniteSet(S) => \A j : IsFiniteSet(S \ {j})
  BY FS_RemoveElement
<1> QED
  BY <1>1, <1>2, <1>3 DEF MachineOK

\* The packages of a run, whatever order the catalogers finish in.
LEMMA RunOfMachine ==
  ASSUME MachineOK, SeriesNext, ~SoftwareChanges
  PROVE  \E mode \in Modes, order \in Orders, merged \in BOOLEAN, surface \in Surfaces, forced \in BOOLEAN :
           /\ ArePackages(Packages(order, merged))
           /\ Run(mode, Packages(order, merged), surface, forced)
           /\ Done(mode, Packages(order, merged), surface, forced)
<1>1. PICK mode \in Modes, order \in Orders, merged \in BOOLEAN, surface \in Surfaces, forced \in BOOLEAN :
        Run(mode, Packages(order, merged), surface, forced)
  BY DEF SeriesNext
<1>2. ArePackages(Packages(order, merged))
  BY PackagesTell DEF ArePackages
<1>3. Done(mode, Packages(order, merged), surface, forced)
  BY <1>1, <1>2, RunTells
<1> QED
  BY <1>1, <1>2, <1>3

LEMMA SentKeeps ==
  ASSUME NeverDeltaHeartbeat, SentInv, [SeriesNext]_seriesVars
  PROVE  SentInv'
<1> USE DEF SentInv
<1>1. CASE UNCHANGED seriesVars
  BY <1>1 DEF seriesVars, MachineOK, DigestSays, SuppressedWasSent, Reported, Said
<1>2. CASE SoftwareChanges
  <2>1. MachineOK'
    BY <1>2, SoftwareStays
  <2>2. report' = NoReport /\ recorded' = recorded /\ sent' = sent
    BY <1>2 DEF SoftwareChanges
  <2> QED
    BY <2>1, <2>2 DEF DigestSays, SuppressedWasSent, Reported
<1>3. CASE SeriesNext /\ ~SoftwareChanges
  <2>1. PICK mode \in Modes, order \in Orders, merged \in BOOLEAN, surface \in Surfaces, forced \in BOOLEAN :
          /\ ArePackages(Packages(order, merged))
          /\ Done(mode, Packages(order, merged), surface, forced)
    BY <1>3, RunOfMachine
  <2> DEFINE packages == Packages(order, merged)
             d == InventoryDigest(report'.components)
  <2> HIDE DEF packages
  <2>2. /\ Ready(report', mode, packages, surface) /\ ArePackages(packages)
        /\ IF mode.heartbeat
           THEN /\ report'.digest = {d}
                /\ report'.unchanged <=> ~forced /\ recorded = report'.digest
           ELSE ~report'.unchanged
        /\ recorded' = IF mode.heartbeat /\ ~report'.unchanged THEN report'.digest ELSE recorded
        /\ sent' = IF mode.heartbeat /\ ~report'.unchanged THEN Said(report') ELSE sent
        /\ machine' = machine
    BY <2>1 DEF Done, packages
  <2>3. MachineOK'
    BY <2>2 DEF MachineOK
  <2>4. CASE ~mode.heartbeat
    BY <2>2, <2>3, <2>4 DEF DigestSays, SuppressedWasSent
  <2>5. CASE mode.heartbeat
    <3>1. ~mode.deltaOnly
      BY <2>5 DEF NeverDeltaHeartbeat
    <3>2. PICK r : r = report'
      OBVIOUS
    <3>3. IsInventory(r.components) /\ \A c \in ToSet(r.components) : c.change # "removed"
      BY <2>2, <3>1, <3>2, HeartbeatList
    <3>4. Said(r) = {<<KeyIn(l), FALSE>> : l \in DOMAIN d}
      BY <3>2, <3>3, SaidOfList
    <3>5. CASE report'.unchanged
      <4>1. recorded = {d} /\ recorded' = recorded /\ sent' = sent
        BY <2>2, <2>5, <3>5
      <4>2. PICK e : recorded = {e} /\ sent = {<<KeyIn(l), FALSE>> : l \in DOMAIN e}
        BY <4>1 DEF DigestSays, NoDigest
      <4>3. e = d
        BY <4>1, <4>2
      <4>4. Said(r) = sent
        BY <3>4, <4>2, <4>3
      <4>5. Said(report') = sent'
        BY <3>2, <4>1, <4>4
      <4> HIDE DEF d
      <4> QED
        BY <2>3, <4>1, <4>2, <4>5 DEF DigestSays, SuppressedWasSent, Said
    <3>6. CASE ~report'.unchanged
      <4>1. recorded' = {d} /\ sent' = Said(report')
        BY <2>2, <2>5, <3>6
      <4>2. sent' = {<<KeyIn(l), FALSE>> : l \in DOMAIN d}
        BY <3>2, <3>4, <4>1
      <4> HIDE DEF d
      <4>3. DigestSays'
        BY <4>1, <4>2 DEF DigestSays
      <4> QED
        BY <2>3, <3>6, <4>3 DEF SuppressedWasSent
    <3> QED
      BY <3>5, <3>6
  <2> QED
    BY <2>4, <2>5
<1> QED
  BY <1>1, <1>2, <1>3

\* A stream that leaves its list out stands for the list sent last, on every host and
\* for every series of scans, provided no run is given both --heartbeat and
\* --delta-only (InventoryDigest, applyHeartbeat).
THEOREM SuppressedWasSentAlways ==
  ASSUME NeverDeltaHeartbeat
  PROVE  SeriesSpec => []SuppressedWasSent
<1>1. SeriesInit => SentInv
  BY SeriesConstants DEF SeriesInit, SentInv, MachineOK, DigestSays, SuppressedWasSent, Reported
<1>2. SentInv /\ [SeriesNext]_seriesVars => SentInv'
  BY SentKeeps
<1>3. SentInv => SuppressedWasSent
  BY DEF SentInv
<1> QED
  BY <1>1, <1>2, <1>3, PTL DEF SeriesSpec

-----------------------------------------------------------------------------
(* Who vouches for a package is in the inventory, and in its root.         *)

Owned(cs) ==
  \A c \in ToSet(cs) :
    c.ownedBy # NoOwner =>
      \E o \in ToSet(cs) : o.purl = c.ownedBy /\ o.root = c.root /\ IsOSPackage(o.typ)

LEMMA KeyFields ==
  ASSUME NEW c, NEW d, Key(c) = Key(d)
  PROVE  /\ c.name = d.name /\ c.version = d.version /\ c.typ = d.typ
         /\ c.purl = d.purl /\ c.root = d.root
BY DEF Key

LEMMA NormalizeOwned ==
  ASSUME NEW cs, IsInventory(cs), Owned(cs)
  PROVE  Owned(Normalize(cs))
<1> SUFFICES ASSUME NEW c \in ToSet(Normalize(cs)), c.ownedBy # NoOwner
             PROVE  \E o \in ToSet(Normalize(cs)) :
                      o.purl = c.ownedBy /\ o.root = c.root /\ IsOSPackage(o.typ)
  BY DEF Owned
<1>1. PICK i \in DOMAIN cs : c = Joined(cs, i)
  BY NormalizeTells
<1>2. PICK j \in Same(cs, i) : c.ownedBy = cs[j].ownedBy
  BY <1>1, EntryTells DEF NoOwner
<1>3. Key(c) = Key(cs[i]) /\ Key(cs[i]) = Key(cs[j]) /\ cs[j] \in ToSet(cs)
  BY <1>1, EntryTells, InventoryEntries DEF Same
<1>4. c.root = cs[j].root
  BY <1>3, KeyFields
<1>5. PICK o \in ToSet(cs) : o.purl = c.ownedBy /\ o.root = c.root /\ IsOSPackage(o.typ)
  BY <1>2, <1>3, <1>4 DEF Owned
<1>6. PICK k \in DOMAIN cs : o = cs[k]
  BY DEF ToSet
<1> DEFINE e == Joined(cs, k)
<1>7. e \in ToSet(Normalize(cs)) /\ Key(e) = Key(o)
  BY <1>6, NormalizeTells, EntryTells
<1> HIDE DEF e
<1>8. e.purl = o.purl /\ e.root = o.root /\ e.typ = o.typ
  BY <1>7, KeyFields
<1> QED
  BY <1>5, <1>7, <1>8

LEMMA InventoryOwned ==
  ASSUME NEW mode, ~mode.skipNested, NEW packages, ArePackages(packages), NEW surface \in Surfaces
  PROVE  Owned(InventoryOf(mode, packages, surface))
<1> DEFINE raw == Raw(packages, surface)
           inside == ContainerComponents(surface.containers)
           L == Listed(mode, packages, surface)
<1> HIDE DEF raw, inside, L
<1>1. IsInventory(raw) /\ Vouched(raw)
  BY RawTells DEF raw
<1>2. Owned(raw)
  <2> SUFFICES ASSUME NEW c \in ToSet(raw), c.ownedBy # NoOwner
               PROVE  \E o \in ToSet(raw) : o.purl = c.ownedBy /\ o.root = c.root /\ IsOSPackage(o.typ)
    BY DEF Owned
  <2>1. PICK j \in DOMAIN raw : c = raw[j]
    BY DEF ToSet
  <2>2. PICK k \in DOMAIN raw : raw[k].purl = c.ownedBy /\ raw[k].root = c.root /\ IsOSPackage(raw[k].typ)
    BY <1>1, <2>1 DEF Vouched
  <2>3. raw[k] \in ToSet(raw)
    BY DEF ToSet
  <2> QED
    BY <2>2, <2>3
<1>3. Owned(Normalize(raw))
  BY <1>1, <1>2, NormalizeOwned
<1>4. ToSet(Scanned(mode, raw)) = ToSet(Normalize(raw))
  <2>1. ToSet(Scanned(mode, raw)) =
          {c \in ToSet(Normalize(raw)) : ~(mode.skipNested /\ OnlyNestedDatabaseEvidence(c))}
    BY <1>1, ScannedTells
  <2> QED
    BY <2>1
<1>5. ASSUME NEW c \in ToSet(inside) PROVE c.ownedBy = NoOwner
  <2>1. PICK at, p : c = Inside(at, p)
    BY ContainersTell DEF inside
  <2> QED
    BY <2>1, InsideBlank DEF NoOwner
<1>6. IsInventory(L) /\ ToSet(L) = ToSet(Normalize(raw)) \cup ToSet(inside)
  BY <1>4, ListedTells DEF L, raw, inside
<1>7. Owned(L)
  BY <1>3, <1>5, <1>6 DEF Owned
<1> QED
  BY <1>6, <1>7, NormalizeOwned DEF InventoryOf, L

LEMMA SameListOwned ==
  ASSUME NEW s, Owned(s), NEW t, SameList(t, s)
  PROVE  Owned(t)
<1> SUFFICES ASSUME NEW c \in ToSet(t), c.ownedBy # NoOwner
             PROVE  \E o \in ToSet(t) : o.purl = c.ownedBy /\ o.root = c.root /\ IsOSPackage(o.typ)
  BY DEF Owned
<1>1. PICK i \in DOMAIN s : c = t[i] /\ SameEntry(c, s[i])
  BY DEF ToSet, SameList
<1>2. s[i] \in ToSet(s) /\ s[i].ownedBy = c.ownedBy /\ s[i].root = c.root
  BY <1>1 DEF ToSet, SameEntry
<1>3. PICK o \in ToSet(s) : o.purl = c.ownedBy /\ o.root = c.root /\ IsOSPackage(o.typ)
  BY <1>2 DEF Owned
<1>4. PICK k \in DOMAIN s : o = s[k] /\ SameEntry(t[k], o)
  BY DEF ToSet, SameList
<1>5. t[k] \in ToSet(t) /\ t[k].purl = o.purl /\ t[k].root = o.root /\ t[k].typ = o.typ
  BY <1>4 DEF ToSet, SameEntry, SameList
<1> QED
  BY <1>3, <1>5

OwnedInv == MachineOK /\ OwnedWithinRoot

LEMMA OwnedKeeps ==
  ASSUME OwnedInv, [SeriesNext]_seriesVars
  PROVE  OwnedInv'
<1> USE DEF OwnedInv
<1>1. CASE UNCHANGED seriesVars
  BY <1>1 DEF seriesVars, MachineOK, OwnedWithinRoot, Reported
<1>2. CASE SoftwareChanges
  <2>1. MachineOK'
    BY <1>2, SoftwareStays
  <2>2. report' = NoReport
    BY <1>2 DEF SoftwareChanges
  <2> QED
    BY <2>1, <2>2 DEF OwnedWithinRoot, Reported
<1>3. CASE SeriesNext /\ ~SoftwareChanges
  <2>1. PICK mode \in Modes, order \in Orders, merged \in BOOLEAN, surface \in Surfaces, forced \in BOOLEAN :
          /\ ArePackages(Packages(order, merged))
          /\ Done(mode, Packages(order, merged), surface, forced)
    BY <1>3, RunOfMachine
  <2> DEFINE packages == Packages(order, merged)
             s == InventoryOf(mode, packages, surface)
  <2>2. SameList(report'.inventory, s) /\ report'.mode = mode /\ machine' = machine
    BY <2>1 DEF Done, Ready
  <2>3. MachineOK'
    BY <2>2 DEF MachineOK
  <2>4. CASE mode.skipNested
    BY <2>2, <2>3, <2>4 DEF OwnedWithinRoot
  <2>5. CASE ~mode.skipNested
    <3>1. Owned(s)
      BY <2>1, <2>5, InventoryOwned
    <3> HIDE DEF s
    <3>2. Owned(report'.inventory)
      BY <2>2, <3>1, SameListOwned
    <3> QED
      BY <2>3, <3>2 DEF Owned, OwnedWithinRoot
  <2> QED
    BY <2>4, <2>5
<1> QED
  BY <1>1, <1>2, <1>3

\* The package that vouches for another is always in the inventory, of a distribution,
\* and in the root of the other, however the catalogers list and merge them
\* (applyFileOwnership, Normalize).
THEOREM OwnedWithinRootAlways == SeriesSpec => []OwnedWithinRoot
<1>1. SeriesInit => OwnedInv
  BY SeriesConstants DEF SeriesInit, OwnedInv, MachineOK, OwnedWithinRoot, Reported
<1>2. OwnedInv /\ [SeriesNext]_seriesVars => OwnedInv'
  BY OwnedKeeps
<1>3. OwnedInv => OwnedWithinRoot
  BY DEF OwnedInv
<1> QED
  BY <1>1, <1>2, <1>3, PTL DEF SeriesSpec


-----------------------------------------------------------------------------
(* The digest does not depend on the order of the catalogers.              *)

Keys(cs) == {Key(c) : c \in ToSet(cs)}
LineOf(key) == <<key[3], key[1], key[2], key[5], key[4]>>

LEMMA DigestOfKeys ==
  ASSUME NEW cs, IsInventory(cs), \A k, l \in DOMAIN cs : Key(cs[k]) = Key(cs[l]) => k = l
  PROVE  InventoryDigest(cs) = [line \in {LineOf(key) : key \in Keys(cs)} |-> 1]
<1> DEFINE line(i) == DigestLine(cs[i])
<1>1. \A c : LineOf(Key(c)) = DigestLine(c) /\ KeyIn(DigestLine(c)) = Key(c)
  BY DEF LineOf, KeyIn, DigestLine, Key
<1>2. {LineOf(key) : key \in Keys(cs)} = {DigestLine(cs[i]) : i \in DOMAIN cs}
  BY <1>1, Zenon DEF Keys, ToSet
<1>3. ASSUME NEW i \in DOMAIN cs
      PROVE  Cardinality({j \in DOMAIN cs : DigestLine(cs[j]) = DigestLine(cs[i])}) = 1
  <2>1. \A j \in DOMAIN cs : DigestLine(cs[j]) = DigestLine(cs[i]) => j = i
    BY <1>1
  <2>2. {j \in DOMAIN cs : DigestLine(cs[j]) = DigestLine(cs[i])} = {i}
    BY <2>1
  <2> QED
    BY <2>2, FS_Singleton
<1>4. \A x \in {DigestLine(cs[i]) : i \in DOMAIN cs} :
        Cardinality({j \in DOMAIN cs : DigestLine(cs[j]) = x}) = 1
  BY <1>3
<1> QED
  BY <1>2, <1>4 DEF InventoryDigest

LEMMA NormalizeKeys ==
  ASSUME NEW cs, IsInventory(cs)
  PROVE  Keys(Normalize(cs)) = Keys(cs)
<1>1. \A c \in ToSet(Normalize(cs)) : \E i \in DOMAIN cs : Key(c) = Key(cs[i])
  BY NormalizeTells, EntryTells
<1>2. \A i \in DOMAIN cs : \E c \in ToSet(Normalize(cs)) : Key(c) = Key(cs[i])
  BY NormalizeTells, EntryTells
<1> QED
  BY <1>1, <1>2 DEF Keys, ToSet

\* What a package contributes, when these are the nested roots of its scan.
RawKey(p, nested) ==
  <<p.name, p.version, p.typ,
    IF RootOf(p.locs, nested) = HostRoot THEN Purl(p) ELSE StripDistroClaim(Purl(p)),
    RootOf(p.locs, nested)>>
NestedIn(found) == NestedRoots(HostRoot, UNION {ToSet(p.locs) : p \in found})
EvidenceFor(found, key) ==
  UNION {ToSet(p.locs) : p \in {q \in found : RawKey(q, NestedIn(found)) = key}}
OnlyNested(locs) == /\ \E l \in locs : NestedRootPrefix(l) # {}
                    /\ ~\E l \in locs : IsHostPackageDBPath(l)
KeysOf(mode, found) ==
  {key \in {RawKey(p, NestedIn(found)) : p \in found} :
     ~(mode.skipNested /\ OnlyNested(EvidenceFor(found, key)))}

\* Which keys a scan keeps depends on what was found, not on the order it came in.
LEMMA ScannedKeys ==
  ASSUME NEW mode, NEW packages, ArePackages(packages), NEW surface
  PROVE  Keys(Scanned(mode, Raw(packages, surface))) = KeysOf(mode, ToSet(packages))
<1> DEFINE raw == Raw(packages, surface)
           found == ToSet(packages)
           nested == NestedIn(found)
<1>1. nested = Nested(packages)
  BY DEF Nested, NestedIn
<1> HIDE DEF raw, nested
<1>2. IsInventory(raw) /\ DOMAIN raw = DOMAIN packages
  BY RawTells DEF raw
<1>3. ASSUME NEW j \in DOMAIN packages
      PROVE  Key(raw[j]) = RawKey(packages[j], nested) /\ raw[j].locs = ToSet(packages[j].locs)
  <2>1. ComesFrom(raw[j], packages[j], nested) /\ raw[j].locs = ToSet(packages[j].locs)
    BY <1>1, <1>2, RawTells DEF raw
  <2> QED
    BY <2>1 DEF ComesFrom, Key, RawKey
<1>4. ASSUME NEW i \in DOMAIN packages
      PROVE  /\ Key(Joined(raw, i)) = RawKey(packages[i], nested)
             /\ Joined(raw, i).locs = EvidenceFor(found, RawKey(packages[i], nested))
  <2>1. /\ Key(Joined(raw, i)) = Key(raw[i])
        /\ Joined(raw, i).locs = UNION {raw[j].locs : j \in Same(raw, i)}
    BY <1>2, EntryTells
  <2>2. Same(raw, i) = {j \in DOMAIN packages :
                          RawKey(packages[j], nested) = RawKey(packages[i], nested)}
    BY <1>2, <1>3 DEF Same
  <2>3. ASSUME NEW l
        PROVE  (\E j \in Same(raw, i) : l \in raw[j].locs)
                 <=> l \in EvidenceFor(found, RawKey(packages[i], nested))
    <3>1. (\E j \in Same(raw, i) : l \in raw[j].locs)
            <=> \E j \in DOMAIN packages : /\ RawKey(packages[j], nested) = RawKey(packages[i], nested)
                                           /\ l \in ToSet(packages[j].locs)
      BY <1>3, <2>2
    <3>2. l \in EvidenceFor(found, RawKey(packages[i], nested))
            <=> \E p \in found : /\ RawKey(p, nested) = RawKey(packages[i], nested)
                                 /\ l \in ToSet(p.locs)
      BY DEF EvidenceFor, nested
    <3>3. found = {packages[j] : j \in DOMAIN packages}
      BY DEF ToSet
    <3> HIDE DEF found
    <3> QED
      BY <3>1, <3>2, <3>3
  <2> QED
    BY <1>3, <2>1, <2>3
<1>5. ToSet(Scanned(mode, raw)) =
        {c \in ToSet(Normalize(raw)) : ~(mode.skipNested /\ OnlyNestedDatabaseEvidence(c))}
  BY <1>2, ScannedTells
<1>6. \A c : OnlyNestedDatabaseEvidence(c) <=> OnlyNested(c.locs)
  BY DEF OnlyNestedDatabaseEvidence, OnlyNested
<1>7. ASSUME NEW key \in Keys(Scanned(mode, raw)) PROVE key \in KeysOf(mode, found)
  <2>1. PICK c \in ToSet(Normalize(raw)) : key = Key(c) /\ ~(mode.skipNested /\ OnlyNested(c.locs))
    BY <1>5, <1>6, <1>7 DEF Keys
  <2>2. PICK i \in DOMAIN packages : c = Joined(raw, i)
    BY <1>2, <2>1, NormalizeTells
  <2>3. /\ key = RawKey(packages[i], nested) /\ packages[i] \in found
        /\ c.locs = EvidenceFor(found, key)
    BY <1>4, <2>1, <2>2 DEF ToSet
  <2> QED
    BY <2>1, <2>3 DEF KeysOf, nested
<1>8. ASSUME NEW key \in KeysOf(mode, found) PROVE key \in Keys(Scanned(mode, raw))
  <2>1. PICK p \in found : key = RawKey(p, nested)
    BY <1>8 DEF KeysOf, nested
  <2>2. PICK i \in DOMAIN packages : p = packages[i]
    BY DEF ToSet
  <2>3. /\ Key(Joined(raw, i)) = key /\ Joined(raw, i).locs = EvidenceFor(found, key)
        /\ Joined(raw, i) \in ToSet(Normalize(raw))
    BY <1>2, <1>4, <2>1, <2>2, NormalizeTells
  <2>4. ~(mode.skipNested /\ OnlyNested(EvidenceFor(found, key)))
    BY <1>8 DEF KeysOf
  <2> QED
    BY <1>5, <1>6, <2>3, <2>4 DEF Keys
<1> QED
  BY <1>7, <1>8 DEF raw

LEMMA InventoryKeys ==
  ASSUME NEW mode, NEW packages, ArePackages(packages), NEW surface \in Surfaces
  PROVE  Keys(InventoryOf(mode, packages, surface)) =
           KeysOf(mode, ToSet(packages)) \cup Keys(ContainerComponents(surface.containers))
<1> DEFINE L == Listed(mode, packages, surface)
           a == Scanned(mode, Raw(packages, surface))
           b == ContainerComponents(surface.containers)
<1>1. IsInventory(L) /\ ToSet(L) = ToSet(a) \cup ToSet(b)
  BY ListedTells
<1>2. Keys(a) = KeysOf(mode, ToSet(packages))
  BY ScannedKeys
<1>3. InventoryOf(mode, packages, surface) = Normalize(L)
  BY DEF InventoryOf
<1> HIDE DEF a, b, L
<1>4. Keys(Normalize(L)) = Keys(L)
  BY <1>1, NormalizeKeys
<1>5. Keys(L) = Keys(a) \cup Keys(b)
  BY <1>1 DEF Keys
<1> QED
  BY <1>2, <1>3, <1>4, <1>5 DEF b

DigestOf(mode, found, containers) ==
  [line \in {LineOf(key) : key \in KeysOf(mode, found) \cup Keys(ContainerComponents(containers))}
     |-> 1]

\* The digest of a report's inventory, whatever was marked in it.
LEMMA InventoryDigested ==
  ASSUME NEW mode, NEW packages, ArePackages(packages), NEW surface \in Surfaces,
         NEW t, SameList(t, InventoryOf(mode, packages, surface))
  PROVE  InventoryDigest(t) = DigestOf(mode, ToSet(packages), surface.containers)
<1> DEFINE s == InventoryOf(mode, packages, surface)
<1>1. \A k, l \in DOMAIN s : Key(s[k]) = Key(s[l]) => k = l
  BY ListedTells, NormalizeTells DEF InventoryOf
<1>2. Keys(s) = KeysOf(mode, ToSet(packages)) \cup Keys(ContainerComponents(surface.containers))
  BY InventoryKeys
<1> HIDE DEF s
<1>3. IsInventory(t) /\ DOMAIN t = DOMAIN s /\ \A i \in DOMAIN s : Key(t[i]) = Key(s[i])
  BY DEF SameList, SameEntry, s
<1>4. Keys(t) = Keys(s)
  <2>1. \A cs : Keys(cs) = {Key(cs[i]) : i \in DOMAIN cs}
    BY Zenon DEF Keys, ToSet
  <2> QED
    BY <1>3, <2>1
<1>5. InventoryDigest(t) = [line \in {LineOf(key) : key \in Keys(t)} |-> 1]
  BY <1>1, <1>3, DigestOfKeys
<1> QED
  BY <1>2, <1>4, <1>5 DEF DigestOf

\* The last report is one of what was found, and its digest is on record.
MadeFrom(packages, surface) ==
  /\ ArePackages(packages) /\ surface \in Surfaces
  /\ Ready(report, report.mode, packages, surface)
  /\ report.how.found = ToSet(packages)
OnRecord ==
  Reported =>
    /\ \E packages, surface : MadeFrom(packages, surface)
    /\ report.mode.heartbeat => recorded = {InventoryDigest(report.components)}

RecordInv == MachineOK /\ OnRecord

LEMMA RecordKeeps ==
  ASSUME RecordInv, [SeriesNext]_seriesVars
  PROVE  RecordInv'
<1> USE DEF RecordInv
<1>1. CASE UNCHANGED seriesVars
  <2>1. /\ machine' = machine /\ report' = report /\ recorded' = recorded
    BY <1>1 DEF seriesVars
  <2>2. MachineOK'
    BY <2>1 DEF MachineOK
  <2>3. OnRecord'
    BY <2>1 DEF OnRecord, MadeFrom, Reported
  <2> QED
    BY <2>2, <2>3
<1>2. CASE SoftwareChanges
  <2>1. MachineOK'
    BY <1>2, SoftwareStays
  <2>2. report' = NoReport
    BY <1>2 DEF SoftwareChanges
  <2> QED
    BY <2>1, <2>2 DEF OnRecord, Reported
<1>3. CASE SeriesNext /\ ~SoftwareChanges
  <2>1. PICK mode \in Modes, order \in Orders, merged \in BOOLEAN, surface \in Surfaces, forced \in BOOLEAN :
          /\ ArePackages(Packages(order, merged))
          /\ Done(mode, Packages(order, merged), surface, forced)
    BY <1>3, RunOfMachine
  <2>0. PICK packages : packages = Packages(order, merged)
    OBVIOUS
  <2>2. /\ Ready(report', mode, packages, surface) /\ ArePackages(packages)
        /\ report'.how = [found |-> ToSet(packages), forced |-> forced, asked |-> OwnerProbePaths(surface)]
        /\ mode.heartbeat =>
             /\ report'.digest = {InventoryDigest(report'.components)}
             /\ report'.unchanged <=> ~forced /\ recorded = report'.digest
        /\ recorded' = IF mode.heartbeat /\ ~report'.unchanged THEN report'.digest ELSE recorded
        /\ machine' = machine
    BY <2>0, <2>1 DEF Done
  <2>3. MachineOK'
    BY <2>2 DEF MachineOK
  <2>4. report'.mode = mode
    BY <2>2 DEF Ready
  <2>5. report'.how.found = ToSet(packages)
    BY <2>2
  <2>6. MadeFrom(packages, surface)'
    BY <2>2, <2>4, <2>5 DEF MadeFrom
  <2>7. mode.heartbeat => recorded' = {InventoryDigest(report'.components)}
    BY <2>2
  <2> QED
    BY <2>3, <2>4, <2>6, <2>7 DEF OnRecord
<1> QED
  BY <1>1, <1>2, <1>3

\* The premise of QuietWhenUnchanged, and what it promises.
FoundAgain ==
  /\ Reported /\ report' # NoReport /\ report.mode = report'.mode
  /\ report.mode.heartbeat /\ ~report.mode.since
  /\ report.how.found = report'.how.found /\ report.containers = report'.containers
  /\ ~report'.how.forced

LEMMA QuietNext ==
  ASSUME RecordInv, SeriesNext, FoundAgain
  PROVE  report'.unchanged
<1>1. ~SoftwareChanges
  BY DEF SoftwareChanges, FoundAgain
<1>2. PICK mode \in Modes, order \in Orders, merged \in BOOLEAN, surface \in Surfaces, forced \in BOOLEAN :
        /\ ArePackages(Packages(order, merged))
        /\ Done(mode, Packages(order, merged), surface, forced)
  BY <1>1, RunOfMachine DEF RecordInv
<1>3. PICK packages : packages = Packages(order, merged)
  OBVIOUS
<1>4. PICK old, before : MadeFrom(old, before)
  BY DEF RecordInv, OnRecord, FoundAgain
<1>5. recorded = {InventoryDigest(report.components)}
  BY DEF RecordInv, OnRecord, FoundAgain
<1>6. PICK r, q : r = report /\ q = report'
  OBVIOUS
<1>7. /\ Ready(q, mode, packages, surface) /\ ArePackages(packages)
      /\ q.how = [found |-> ToSet(packages), forced |-> forced, asked |-> OwnerProbePaths(surface)]
      /\ IF mode.heartbeat
         THEN /\ q.digest = {InventoryDigest(q.components)}
              /\ q.unchanged <=> ~forced /\ recorded = q.digest
         ELSE ~q.unchanged
  BY <1>2, <1>3, <1>6 DEF Done
<1>8. /\ r.mode = q.mode /\ r.mode.heartbeat /\ ~r.mode.since
      /\ r.how.found = q.how.found /\ r.containers = q.containers /\ ~q.how.forced
  BY <1>6 DEF FoundAgain
<1>9. /\ ArePackages(old) /\ before \in Surfaces
      /\ Ready(r, r.mode, old, before) /\ r.how.found = ToSet(old)
  BY <1>4, <1>6 DEF MadeFrom
<1>10. q.mode = mode /\ q.containers = surface.containers /\ r.containers = before.containers
  BY <1>7, <1>9 DEF Ready
<1>11. mode.heartbeat /\ ~mode.since /\ r.mode = mode
  BY <1>8, <1>10
<1>12. ToSet(packages) = ToSet(old) /\ ~forced
  BY <1>7, <1>8, <1>9
<1>13. surface.containers = before.containers
  BY <1>8, <1>10
<1>14. /\ SameList(q.components, InventoryOf(mode, packages, surface))
       /\ SameList(r.components, InventoryOf(mode, old, before))
  BY <1>7, <1>9, <1>11 DEF Ready
<1>15. InventoryDigest(q.components) = DigestOf(mode, ToSet(packages), surface.containers)
  BY <1>7, <1>14, InventoryDigested
<1>16. InventoryDigest(r.components) = DigestOf(mode, ToSet(old), before.containers)
  BY <1>9, <1>14, InventoryDigested
<1>17. InventoryDigest(q.components) = InventoryDigest(r.components)
  BY <1>12, <1>13, <1>15, <1>16
<1> QED
  BY <1>5, <1>6, <1>7, <1>11, <1>12, <1>17

\* Software that is found again is left out of the next stream, on every host, for
\* every order the catalogers may finish in: the digest is that of the set of keys
\* (InventoryDigest, applyHeartbeat).
THEOREM QuietWhenUnchangedAlways == SeriesSpec => QuietWhenUnchanged
<1>1. SeriesInit => RecordInv
  BY SeriesConstants DEF SeriesInit, RecordInv, MachineOK, OnRecord, Reported
<1>2. RecordInv /\ [SeriesNext]_seriesVars => RecordInv'
  BY RecordKeeps
<1>3. RecordInv /\ [SeriesNext]_seriesVars =>
        [(/\ Reported /\ report' # NoReport /\ report.mode = report'.mode
          /\ report.mode.heartbeat /\ ~report.mode.since
          /\ report.how.found = report'.how.found /\ report.containers = report'.containers
          /\ ~report'.how.forced)
         => report'.unchanged]_seriesVars
  BY QuietNext DEF FoundAgain
<1> QED
  BY <1>1, <1>2, <1>3, PTL DEF SeriesSpec, QuietWhenUnchanged

-----------------------------------------------------------------------------
(* Paths and the roots they are in.                                        *)

LEMMA JoinedPath ==
  ASSUME NEW T, NEW a \in Seq(T), NEW b \in Seq(T), NEW l, l = a \o b
  PROVE  /\ l \in Seq(T) /\ Len(l) = Len(a) + Len(b)
         /\ \A k \in 1..Len(a) : l[k] = a[k]
         /\ \A k \in 1..Len(b) : l[Len(a) + k] = b[k]
OBVIOUS

\* The names of a path, and those of the database that may follow.
Names(r) == ToSet(r) \cup {"db", "status"}

LEMMA DatabaseOf ==
  ASSUME NEW r \in Seq(STRING), NEW l, l = r \o <<"db", "status">>
  PROVE  /\ l \in Seq(Names(r)) /\ Len(l) = Len(r) + 2 /\ l[Len(r) + 1] = "db"
         /\ \A k \in 1..Len(r) : l[k] = r[k]
<1>1. PICK T : T = Names(r)
  OBVIOUS
<1>2. r \in Seq(T) /\ <<"db", "status">> \in Seq(T)
  BY <1>1 DEF Names, ToSet
<1>3. Len(<<"db", "status">>) = 2 /\ <<"db", "status">>[1] = "db"
  OBVIOUS
<1>4. PICK q : q = <<"db", "status">>
  OBVIOUS
<1>5. q \in Seq(T) /\ Len(q) = 2 /\ q[1] = "db" /\ l = r \o q
  BY <1>2, <1>3, <1>4
<1> QED
  BY <1>1, <1>2, <1>5, JoinedPath

LEMMA StatusPath ==
  ASSUME NEW r \in Seq(STRING), "db" \notin ToSet(r), NEW l, l = r \o <<"db", "status">>
  PROVE  /\ l # <<>> /\ (IsHostPackageDBPath(l) <=> r = <<>>)
         /\ NestedRootPrefix(l) = IF r = <<>> THEN {} ELSE {r}
         /\ IsPrefix(r, l)
<1> DEFINE n == Len(r)
           at == {k \in DOMAIN l : l[k] = "db"}
<1>1. n \in Nat /\ DOMAIN r = 1..n
  OBVIOUS
<1>2. /\ l \in Seq(Names(r)) /\ Len(l) = n + 2 /\ l[n + 1] = "db"
      /\ \A k \in 1..n : l[k] = r[k]
  BY DatabaseOf
<1>3. \A k \in 1..n : r[k] # "db"
  BY <1>1 DEF ToSet
<1>4. DOMAIN l = 1..(n + 2)
  BY <1>2
<1>5. n + 1 \in at /\ at \subseteq Nat /\ \A k \in at : k > n
  BY <1>1, <1>2, <1>3, <1>4
<1>6. Least(at) = n + 1
  <2>1. Least(at) \in at /\ \A y \in at : Least(at) <= y
    BY <1>5, LeastNumber
  <2> HIDE DEF at
  <2>2. Least(at) <= n + 1 /\ Least(at) > n /\ Least(at) \in Nat
    BY <1>5, <2>1
  <2> QED
    BY <1>1, <2>2
<1>7. SubSeq(l, 1, n) = r
  BY <1>1, <1>2
<1>8. SubSeq(r, 1, n) = r
  BY <1>1
<1>9. r = <<>> <=> n = 0
  BY <1>1
<1>10. NestedRootPrefix(l) = IF at = {} \/ Least(at) = 1 THEN {} ELSE {SubSeq(l, 1, Least(at) - 1)}
  BY DEF NestedRootPrefix
<1>11. NestedRootPrefix(l) = IF n = 0 THEN {} ELSE {r}
  <2>1. at # {}
    BY <1>5
  <2> HIDE DEF at
  <2>2. Least(at) = 1 <=> n = 0
    BY <1>1, <1>6
  <2>3. Least(at) - 1 = n
    BY <1>1, <1>6
  <2> QED
    BY <1>7, <1>10, <2>1, <2>2, <2>3
<1>12. IsHostPackageDBPath(l) <=> n = 0
  <2>1. n = 0 => l[1] = "db"
    BY <1>2
  <2>2. n # 0 => l[1] # "db"
    BY <1>1, <1>2, <1>3
  <2> QED
    BY <1>1, <1>2, <2>1, <2>2 DEF IsHostPackageDBPath
<1>13. IsPrefix(r, l)
  BY <1>1, <1>2, <1>7, <1>8 DEF IsPrefix
<1> QED
  BY <1>2, <1>9, <1>11, <1>12, <1>13

LEMMA OtherPath ==
  ASSUME NEW T, NEW l \in Seq(T), "db" \notin ToSet(l)
  PROVE  NestedRootPrefix(l) = {} /\ ~IsHostPackageDBPath(l)
<1>1. \A k \in DOMAIN l : l[k] # "db"
  BY DEF ToSet
<1>2. {k \in DOMAIN l : l[k] = "db"} = {}
  BY <1>1
<1>3. l # <<>> => 1 \in DOMAIN l
  OBVIOUS
<1> QED
  BY <1>1, <1>2, <1>3 DEF NestedRootPrefix, IsHostPackageDBPath

Status(i) == i.root \o <<"db", "status">>
Documents == <<"usr", "doc">>

LEMMA DocumentsTell == Documents \in Seq({"usr", "doc"}) /\ "db" \notin ToSet(Documents)
<1>1. Documents \in Seq({"usr", "doc"}) /\ DOMAIN Documents = 1..2
  BY DEF Documents
<1>2. Documents[1] = "usr" /\ Documents[2] = "doc"
  BY DEF Documents
<1>3. \A k \in 1..2 : k = 1 \/ k = 2
  OBVIOUS
<1> QED
  BY <1>1, <1>2, <1>3 DEF ToSet

\* What a package found cites, and which of it is evidence of a database.
LEMMA EvidenceTells ==
  ASSUME NEW i \in Possible
  PROVE  /\ i.typ = Deb => ToSet(Found(i).locs) = {Status(i), Documents} /\ Found(i).locs[1] = Status(i)
         /\ \A l \in ToSet(Found(i).locs) :
              /\ NestedRootPrefix(l) = IF i.typ = Deb /\ l = Status(i) /\ i.root # HostRoot
                                       THEN {i.root} ELSE {}
              /\ IsHostPackageDBPath(l) <=> i.typ = Deb /\ l = Status(i) /\ i.root = HostRoot
<1>1. i.root \in Seq(STRING) /\ "db" \notin ToSet(i.root)
  BY SeriesConstants, SeriesPaths
<1>2. Found(i).locs = IF i.typ # Deb THEN <<i.root \o EvidenceOf[i.name]>>
                      ELSE <<Status(i), Documents>>
  BY FoundTells DEF Status, Documents
<1>3. CASE i.typ = Deb
  <2>1. Found(i).locs = <<Status(i), Documents>>
    BY <1>2, <1>3
  <2>2. ToSet(<<Status(i), Documents>>) = {Status(i), Documents}
    <3>1. PICK a, b : a = Status(i) /\ b = Documents
      OBVIOUS
    <3>2. ToSet(<<a, b>>) = {a, b}
      <4>1. DOMAIN <<a, b>> = {1, 2}
        OBVIOUS
      <4>2. <<a, b>>[1] = a /\ <<a, b>>[2] = b
        OBVIOUS
      <4> QED
        BY <4>1, <4>2 DEF ToSet
    <3> QED
      BY <3>1, <3>2
  <2>3. <<Status(i), Documents>>[1] = Status(i)
    OBVIOUS
  <2>4. /\ NestedRootPrefix(Status(i)) = IF i.root = <<>> THEN {} ELSE {i.root}
        /\ IsHostPackageDBPath(Status(i)) <=> i.root = <<>>
    BY <1>1, StatusPath DEF Status
  <2>5. NestedRootPrefix(Documents) = {} /\ ~IsHostPackageDBPath(Documents)
    BY DocumentsTell, OtherPath
  <2>6. Documents # Status(i)
    <3>1. "db" \in ToSet(Status(i))
      <4>1. PICK l : l = Status(i)
        OBVIOUS
      <4>2. l \in Seq(Names(i.root)) /\ l[Len(i.root) + 1] = "db" /\ Len(l) = Len(i.root) + 2
        BY <1>1, <4>1, DatabaseOf DEF Status
      <4> QED
        BY <4>1, <4>2 DEF ToSet
    <3> QED
      BY <3>1, DocumentsTell
  <2> QED
    BY <1>3, <2>1, <2>2, <2>3, <2>4, <2>5, <2>6 DEF HostRoot
<1>4. CASE i.typ # Deb
  <2>1. PICK e : e = EvidenceOf[i.name] /\ e \in Seq(STRING) /\ "db" \notin ToSet(e)
    BY <1>4, SeriesPaths
  <2>2. PICK l : l = i.root \o e
    OBVIOUS
  <2>3. l \in Seq(STRING) /\ "db" \notin ToSet(l)
    <3>1. /\ l \in Seq(STRING) /\ Len(l) = Len(i.root) + Len(e)
          /\ \A k \in 1..Len(i.root) : l[k] = i.root[k]
          /\ \A k \in 1..Len(e) : l[Len(i.root) + k] = e[k]
      <4>1. PICK r : r = i.root
        OBVIOUS
      <4>2. r \in Seq(STRING) /\ e \in Seq(STRING) /\ l = r \o e
        BY <1>1, <2>1, <2>2, <4>1
      <4> QED
        BY <4>1, <4>2, JoinedPath
    <3>2. (\A k \in 1..Len(i.root) : i.root[k] # "db") /\ \A k \in 1..Len(e) : e[k] # "db"
      BY <1>1, <2>1 DEF ToSet
    <3>3. ASSUME NEW k \in 1..Len(l) PROVE l[k] # "db"
      <4>1. Len(i.root) \in Nat /\ Len(e) \in Nat
        BY <1>1, <2>1
      <4>2. CASE k <= Len(i.root)
        BY <3>1, <3>2, <4>1, <4>2
      <4>3. CASE k > Len(i.root)
        <5>1. PICK j \in 1..Len(e) : k = Len(i.root) + j
          <6>1. k - Len(i.root) \in 1..Len(e) /\ k = Len(i.root) + (k - Len(i.root))
            BY <3>1, <4>1, <4>3
          <6> QED
            BY <6>1
        <5> QED
          BY <3>1, <3>2, <5>1
      <4> QED
        BY <4>1, <4>2, <4>3
    <3> QED
      BY <3>1, <3>3 DEF ToSet
  <2>4. Found(i).locs = <<l>>
    BY <1>2, <1>4, <2>1, <2>2
  <2>5. ToSet(<<l>>) = {l}
    BY DEF ToSet
  <2> QED
    BY <1>4, <2>3, <2>4, <2>5, OtherPath
<1> QED
  BY <1>3, <1>4

LEMMA ShortestRoot ==
  ASSUME NEW S, S # {}, \A r \in S : Len(r) \in Nat
  PROVE  (CHOOSE r \in S : \A q \in S : Len(r) <= Len(q)) \in S
<1> DEFINE T == {Len(r) : r \in S}
<1>1. T \subseteq Nat /\ T # {}
  OBVIOUS
<1>2. Least(T) \in T /\ \A y \in T : Least(T) <= y
  BY <1>1, LeastNumber
<1>3. PICK r \in S : Len(r) = Least(T)
  BY <1>2
<1>4. \A q \in S : Len(r) <= Len(q)
  BY <1>2, <1>3
<1> QED
  BY <1>4

\* A root is that of a nested database if one contains a location, and the host's else.
LEMMA RootTells ==
  ASSUME NEW locs, IsListing(locs), NEW nested, \A r \in nested : Len(r) \in Nat
  PROVE  IF \E l \in ToSet(locs), r \in nested : IsPrefix(r, l)
         THEN RootOf(locs, nested) \in nested
         ELSE RootOf(locs, nested) = HostRoot
<1> DEFINE over(l) == {r \in nested : IsPrefix(r, l)}
           under == {k \in DOMAIN locs : over(locs[k]) # {}}
           root == CHOOSE r \in over(locs[Least(under)]) :
                     \A q \in over(locs[Least(under)]) : Len(r) <= Len(q)
<1>1. RootOf(locs, nested) = IF under = {} THEN HostRoot ELSE root
  BY Zenon DEF RootOf
<1>2. under \subseteq Nat
  BY ListingEntries
<1>3. ASSUME under # {} PROVE root \in nested
  <2>1. Least(under) \in under
    BY <1>2, <1>3, LeastNumber
  <2> DEFINE S == over(locs[Least(under)])
  <2>2. S # {} /\ S \subseteq nested
    BY <2>1
  <2> HIDE DEF S
  <2>3. (CHOOSE r \in S : \A q \in S : Len(r) <= Len(q)) \in S
    BY <2>2, ShortestRoot
  <2> QED
    BY <2>2, <2>3 DEF S
<1>4. (\E l \in ToSet(locs), r \in nested : IsPrefix(r, l)) <=> under # {}
  BY DEF ToSet
<1> HIDE DEF under, root
<1> QED
  BY <1>1, <1>3, <1>4

LEMMA HostIsFound ==
  ASSUME MachineOK, NEW merged \in BOOLEAN, NEW j \in machine, j.root = HostRoot
  PROVE  j \notin Shadowed(merged)
<1> SUFFICES ASSUME j \in Shadowed(merged) PROVE FALSE
  OBVIOUS
<1>1. PICK i \in machine : j \in Twins(i)
  BY DEF Shadowed, TwinsOf
<1>2. Len(j.root) > Len(i.root)
  BY <1>1 DEF Twins
<1>3. i.root \in Seq(STRING)
  BY SeriesConstants DEF MachineOK
<1>4. Len(i.root) \in Nat /\ Len(j.root) = 0
  BY <1>3 DEF HostRoot
<1> QED
  BY <1>2, <1>4

\* Whatever a package cites, it or a twin of it was found with.
LEMMA CitedTells ==
  ASSUME MachineOK, NEW i \in machine, NEW merged \in BOOLEAN, NEW p, p = Package(i, merged),
         NEW l \in ToSet(p.locs)
  PROVE  \E j \in machine : /\ j = i \/ j \in TwinsOf(i, merged)
                            /\ j.typ = i.typ /\ j.name = i.name /\ j.version = i.version
                            /\ l \in ToSet(Found(j).locs)
<1>1. ToSet(p.locs) = ToSet(Found(i).locs) \cup UNION {ToSet(Found(j).locs) : j \in TwinsOf(i, merged)}
  BY PackageTells
<1>2. ASSUME NEW j \in TwinsOf(i, merged)
      PROVE  j \in machine /\ j.typ = i.typ /\ j.name = i.name /\ j.version = i.version
  <2>1. j \in Twins(i)
    BY DEF TwinsOf
  <2>2. j \in machine /\ <<j.typ, j.name, j.version>> = <<i.typ, i.name, i.version>>
    BY <2>1 DEF Twins
  <2> QED
    BY <2>2
<1> QED
  BY <1>1, <1>2

\* The nested roots of a scan: of the databases that were found, no other.
LEMMA NestedTells ==
  ASSUME MachineOK, NEW order \in Orders, NEW merged \in BOOLEAN,
         NEW packages, packages = Packages(order, merged)
  PROVE  /\ \A r \in Nested(packages) : r # HostRoot /\ \E j \in machine : r = j.root
         /\ \A i \in machine \ Shadowed(merged) :
              i.typ = Deb /\ i.root # HostRoot => i.root \in Nested(packages)
<1>1. /\ ToSet(packages) = {Package(i, merged) : i \in machine \ Shadowed(merged)}
      /\ machine \subseteq Possible
  BY PackagesTell DEF MachineOK
<1>2. \A r : r \in Nested(packages) <=>
             \E p \in ToSet(packages) : \E l \in ToSet(p.locs) : r \in NestedRootPrefix(l)
  BY DEF Nested, NestedRoots
<1>3. ASSUME NEW r \in Nested(packages) PROVE r # HostRoot /\ \E j \in machine : r = j.root
  <2>0. PICK i \in machine : \E l \in ToSet(Package(i, merged).locs) : r \in NestedRootPrefix(l)
    BY <1>1, <1>2
  <2>1. PICK p, l : p = Package(i, merged) /\ l \in ToSet(p.locs) /\ r \in NestedRootPrefix(l)
    BY <2>0
  <2>2. PICK j \in machine : l \in ToSet(Found(j).locs)
    BY <2>1, CitedTells
  <2>3. NestedRootPrefix(l) = IF j.typ = Deb /\ l = Status(j) /\ j.root # HostRoot THEN {j.root} ELSE {}
    BY <1>1, <2>2, EvidenceTells
  <2> QED
    BY <2>1, <2>3
<1>4. ASSUME NEW i \in machine \ Shadowed(merged), i.typ = Deb, i.root # HostRoot
      PROVE  i.root \in Nested(packages)
  <2>1. PICK p : p = Package(i, merged)
    OBVIOUS
  <2>2. Status(i) \in ToSet(Found(i).locs) /\ ToSet(Found(i).locs) \subseteq ToSet(p.locs)
    BY <1>1, <1>4, <2>1, EvidenceTells, PackageTells
  <2>3. NestedRootPrefix(Status(i)) = {i.root}
    BY <1>1, <1>4, <2>2, EvidenceTells
  <2> QED
    BY <1>1, <1>2, <2>1, <2>2, <2>3
<1> QED
  BY <1>3, <1>4

\* No component of a scan is given the root of a container.
LEMMA RootIsNoContainer ==
  ASSUME MachineOK, NEW order \in Orders, NEW merged \in BOOLEAN,
         NEW packages, packages = Packages(order, merged), NEW p \in ToSet(packages)
  PROVE  ~IsContainerRoot(RootOf(p.locs, Nested(packages)))
<1>1. IsListing(p.locs)
  BY PackagesTell DEF IsPackage
<1>2. ASSUME NEW r \in Nested(packages) PROVE Len(r) \in Nat /\ ~IsContainerRoot(r)
  <2>1. PICK j \in machine : r = j.root /\ r # HostRoot
    BY NestedTells
  <2>2. r \in Seq(STRING) /\ ~IsContainerRoot(r)
    BY <2>1, SeriesConstants, SeriesPaths DEF MachineOK
  <2> QED
    BY <2>2
<1>3. ~IsContainerRoot(HostRoot)
  BY DEF IsContainerRoot, HostRoot
<1>4. RootOf(p.locs, Nested(packages)) \in Nested(packages) \cup {HostRoot}
  BY <1>1, <1>2, RootTells
<1> QED
  BY <1>2, <1>3, <1>4

-----------------------------------------------------------------------------
(* --skip-nested-rootfs.                                                   *)

\* The software of a key, and whether a list has any of it outside the containers.
Names3(key) == <<key[3], key[1], key[2]>>
SoftwareOf(i) == <<i.typ, i.name, i.version>>

LEMMA RawKeyTells ==
  ASSUME MachineOK, NEW i \in machine, NEW merged \in BOOLEAN, NEW p, p = Package(i, merged), NEW nested
  PROVE  Names3(RawKey(p, nested)) = SoftwareOf(i) /\ RawKey(p, nested)[5] = RootOf(p.locs, nested)
<1>1. p.typ = i.typ /\ p.name = i.name /\ p.version = i.version
  BY PackageTells
<1> QED
  BY <1>1 DEF RawKey, Names3, SoftwareOf

\* The packages that share a key were found with the software of that key.
LEMMA EvidenceFound ==
  ASSUME MachineOK, NEW order \in Orders, NEW merged \in BOOLEAN,
         NEW found, found = ToSet(Packages(order, merged)), NEW key, NEW l \in EvidenceFor(found, key)
  PROVE  \E j \in machine : SoftwareOf(j) = Names3(key) /\ l \in ToSet(Found(j).locs)
<1>1. PICK q \in found : RawKey(q, NestedIn(found)) = key /\ l \in ToSet(q.locs)
  BY DEF EvidenceFor
<1>2. found = {Package(i, merged) : i \in machine \ Shadowed(merged)}
  BY PackagesTell
<1>3. PICK i \in machine : q = Package(i, merged)
  BY <1>1, <1>2
<1>4. PICK j \in machine : /\ j.typ = i.typ /\ j.name = i.name /\ j.version = i.version
                           /\ l \in ToSet(Found(j).locs)
  BY <1>1, <1>3, CitedTells
<1>5. Names3(key) = SoftwareOf(i)
  BY <1>1, <1>3, RawKeyTells
<1>6. SoftwareOf(j) = SoftwareOf(i)
  BY <1>4 DEF SoftwareOf
<1> QED
  BY <1>4, <1>5, <1>6

\* What the host has is kept: its own database, or no database at all, is evidence.
LEMMA HostKeyIsKept ==
  ASSUME MachineOK, NEW order \in Orders, NEW merged \in BOOLEAN, NEW mode,
         NEW found, found = ToSet(Packages(order, merged)), NEW j \in machine, j.root = HostRoot
  PROVE  /\ Package(j, merged) \in found
         /\ RawKey(Package(j, merged), NestedIn(found)) \in KeysOf(mode, found)
<1>1. PICK p : p = Package(j, merged)
  OBVIOUS
<1>2. PICK key : key = RawKey(p, NestedIn(found))
  OBVIOUS
<1>3. p \in found
  BY <1>1, HostIsFound, PackagesTell
<1>4. Names3(key) = SoftwareOf(j)
  BY <1>1, <1>2, RawKeyTells
<1>6. ~OnlyNested(EvidenceFor(found, key))
  <2>1. CASE j.typ = Deb
    <3>1. Status(j) \in ToSet(Found(j).locs) /\ IsHostPackageDBPath(Status(j))
      BY <2>1, EvidenceTells DEF MachineOK
    <3>2. Status(j) \in ToSet(p.locs)
      BY <1>1, <3>1, PackageTells
    <3>3. Status(j) \in EvidenceFor(found, key)
      BY <1>2, <1>3, <3>2 DEF EvidenceFor
    <3> QED
      BY <3>1, <3>3 DEF OnlyNested
  <2>2. CASE j.typ # Deb
    <3>1. ASSUME NEW l \in EvidenceFor(found, key) PROVE NestedRootPrefix(l) = {}
      <4>1. PICK i \in machine : SoftwareOf(i) = Names3(key) /\ l \in ToSet(Found(i).locs)
        BY EvidenceFound
      <4>2. i.typ # Deb
        BY <1>4, <2>2, <4>1 DEF SoftwareOf
      <4> QED
        BY <4>1, <4>2, EvidenceTells DEF MachineOK
    <3> QED
      BY <3>1 DEF OnlyNested
  <2> QED
    BY <2>1, <2>2
<1>7. key \in KeysOf(mode, found)
  BY <1>2, <1>3, <1>6 DEF KeysOf
<1> QED
  BY <1>1, <1>2, <1>3, <1>7

LEMMA HostIsKept ==
  ASSUME MachineOK, NEW order \in Orders, NEW merged \in BOOLEAN, NEW mode,
         NEW found, found = ToSet(Packages(order, merged)), NEW j \in machine, j.root = HostRoot
  PROVE  \E key \in KeysOf(mode, found) : Names3(key) = SoftwareOf(j) /\ ~IsContainerRoot(key[5])
<1>1. PICK p : p = Package(j, merged)
  OBVIOUS
<1>2. PICK key : key = RawKey(p, NestedIn(found))
  OBVIOUS
<1>3. p \in found /\ key \in KeysOf(mode, found)
  BY <1>1, <1>2, HostKeyIsKept
<1>4. Names3(key) = SoftwareOf(j) /\ key[5] = RootOf(p.locs, NestedIn(found))
  BY <1>1, <1>2, RawKeyTells
<1>5. NestedIn(found) = Nested(Packages(order, merged))
  BY DEF NestedIn, Nested
<1>6. ~IsContainerRoot(key[5])
  BY <1>3, <1>4, <1>5, RootIsNoContainer
<1> QED
  BY <1>3, <1>4, <1>6

\* A package that only nested databases list is dropped.
LEMMA NestedIsDropped ==
  ASSUME MachineOK, NEW order \in Orders, NEW merged \in BOOLEAN, NEW mode, mode.skipNested,
         NEW found, found = ToSet(Packages(order, merged)), NEW i \in machine, i.typ = Deb,
         \A j \in machine : SoftwareOf(j) = SoftwareOf(i) => j.root # HostRoot,
         NEW key \in KeysOf(mode, found)
  PROVE  Names3(key) # SoftwareOf(i)
<1> SUFFICES ASSUME Names3(key) = SoftwareOf(i) PROVE FALSE
  OBVIOUS
<1>1. PICK p \in found : key = RawKey(p, NestedIn(found))
  BY DEF KeysOf
<1>2. PICK h \in machine : p = Package(h, merged)
  BY PackagesTell
<1>3. Names3(key) = SoftwareOf(h)
  BY <1>1, <1>2, RawKeyTells
<1>4. SoftwareOf(h) = SoftwareOf(i) /\ h.typ = Deb /\ h.root # HostRoot
  BY <1>3 DEF SoftwareOf
<1>5. Status(h) \in EvidenceFor(found, key) /\ NestedRootPrefix(Status(h)) # {}
  <2>1. Status(h) \in ToSet(Found(h).locs) /\ NestedRootPrefix(Status(h)) = {h.root}
    BY <1>4, EvidenceTells DEF MachineOK
  <2>2. Status(h) \in ToSet(p.locs)
    BY <1>2, <2>1, PackageTells
  <2> QED
    BY <1>1, <2>1, <2>2 DEF EvidenceFor
<1>6. ASSUME NEW l \in EvidenceFor(found, key) PROVE ~IsHostPackageDBPath(l)
  <2>1. PICK j \in machine : SoftwareOf(j) = Names3(key) /\ l \in ToSet(Found(j).locs)
    BY EvidenceFound
  <2>2. j.root # HostRoot
    BY <2>1
  <2> QED
    BY <2>1, <2>2, EvidenceTells DEF MachineOK
<1>7. OnlyNested(EvidenceFor(found, key))
  BY <1>5, <1>6 DEF OnlyNested
<1> QED
  BY <1>7 DEF KeysOf

LEMMA ContainerKeys ==
  ASSUME NEW surface \in Surfaces, NEW key \in Keys(ContainerComponents(surface.containers))
  PROVE  IsContainerRoot(key[5])
<1>1. PICK c \in ToSet(ContainerComponents(surface.containers)) : key = Key(c)
  BY DEF Keys
<1>2. PICK at, p : c = Inside(at, p)
  BY <1>1, ContainersTell
<1>3. c.root = ContainerRoot(at.id)
  BY <1>2, InsideTells
<1>4. key[5] = ContainerRoot(at.id)
  BY <1>1, <1>3 DEF Key
<1> QED
  BY <1>4 DEF IsContainerRoot, ContainerRoot

Holds(cs, software) == \E c \in ToSet(cs) : ~IsContainerRoot(c.root) /\ SoftwareOf(c) = software
Keeps(keys, software) == \E key \in keys : ~IsContainerRoot(key[5]) /\ Names3(key) = software

\* Outside the containers a list has the software whose keys the scan kept.
LEMMA ListHas ==
  ASSUME NEW mode, NEW packages, ArePackages(packages), NEW surface \in Surfaces,
         NEW t, SameList(t, InventoryOf(mode, packages, surface)), NEW software
  PROVE  Holds(t, software) <=> Keeps(KeysOf(mode, ToSet(packages)), software)
<1>1. Keys(InventoryOf(mode, packages, surface)) =
        KeysOf(mode, ToSet(packages)) \cup Keys(ContainerComponents(surface.containers))
  BY InventoryKeys
<1> DEFINE s == InventoryOf(mode, packages, surface)
<1> HIDE DEF s
<1>2. Keys(t) = Keys(s)
  <2>1. DOMAIN t = DOMAIN s /\ \A i \in DOMAIN s : Key(t[i]) = Key(s[i])
    BY DEF SameList, SameEntry, s
  <2>2. \A cs : Keys(cs) = {Key(cs[i]) : i \in DOMAIN cs}
    BY Zenon DEF Keys, ToSet
  <2> QED
    BY <2>1, <2>2
<1>3. \A c : Key(c)[5] = c.root /\ Names3(Key(c)) = SoftwareOf(c)
  BY DEF Key, Names3, SoftwareOf
<1>4. Holds(t, software) <=> Keeps(Keys(t), software)
  BY <1>3 DEF Keys, Holds, Keeps
<1>5. Keeps(Keys(s), software) <=> Keeps(KeysOf(mode, ToSet(packages)), software)
  BY <1>1, ContainerKeys DEF s, Keeps
<1> QED
  BY <1>2, <1>4, <1>5

SkipInv == MachineOK /\ SkipKeepsHost

LEMMA SkipKeeps ==
  ASSUME SkipInv, [SeriesNext]_seriesVars
  PROVE  SkipInv'
<1> USE DEF SkipInv
<1>1. CASE UNCHANGED seriesVars
  BY <1>1 DEF seriesVars, MachineOK, SkipKeepsHost, Reported
<1>2. CASE SoftwareChanges
  <2>1. MachineOK'
    BY <1>2, SoftwareStays
  <2>2. report' = NoReport
    BY <1>2 DEF SoftwareChanges
  <2> QED
    BY <2>1, <2>2 DEF SkipKeepsHost, Reported
<1>3. CASE SeriesNext /\ ~SoftwareChanges
  <2>1. PICK mode \in Modes, order \in Orders, merged \in BOOLEAN, surface \in Surfaces, forced \in BOOLEAN :
          /\ ArePackages(Packages(order, merged))
          /\ Done(mode, Packages(order, merged), surface, forced)
    BY <1>3, RunOfMachine
  <2>2. PICK packages, found, q : /\ packages = Packages(order, merged)
                                  /\ found = ToSet(packages) /\ q = report'
    OBVIOUS
  <2>3. /\ SameList(q.inventory, InventoryOf(mode, packages, surface)) /\ q.mode = mode
        /\ machine' = machine
    BY <2>1, <2>2 DEF Done, Ready
  <2>4. MachineOK'
    BY <2>3 DEF MachineOK
  <2> DEFINE has(i) == \E c \in ToSet(q.inventory) : ~IsContainerRoot(c.root) /\ SoftwareOf(c) = SoftwareOf(i)
             onHost(i) == \E j \in machine : j.root = HostRoot /\ SoftwareOf(j) = SoftwareOf(i)
             kept(i) == \E key \in KeysOf(mode, found) :
                          ~IsContainerRoot(key[5]) /\ Names3(key) = SoftwareOf(i)
  <2>5. ASSUME NEW i \in machine PROVE has(i) <=> kept(i)
    <3>1. Holds(q.inventory, SoftwareOf(i)) <=> Keeps(KeysOf(mode, found), SoftwareOf(i))
      BY <2>1, <2>2, <2>3, ListHas
    <3> QED
      BY <3>1 DEF Holds, Keeps
  <2>6. ASSUME NEW i \in machine, onHost(i) PROVE kept(i)
    <3>1. PICK j \in machine : j.root = HostRoot /\ SoftwareOf(j) = SoftwareOf(i)
      BY <2>6
    <3>2. PICK key \in KeysOf(mode, found) : Names3(key) = SoftwareOf(j) /\ ~IsContainerRoot(key[5])
      BY <2>2, <3>1, HostIsKept
    <3> QED
      BY <3>1, <3>2
  <2>7. ASSUME NEW i \in machine, mode.skipNested, ~onHost(i), i.typ = Deb PROVE ~kept(i)
    BY <2>2, <2>7, NestedIsDropped
  <2>8. mode.skipNested => \A i \in machine : /\ onHost(i) => has(i)
                                              /\ ~onHost(i) /\ i.typ = Deb => ~has(i)
    BY <2>5, <2>6, <2>7
  <2>9. SkipKeepsHost'
    BY <2>2, <2>3, <2>8 DEF SkipKeepsHost, SoftwareOf
  <2> QED
    BY <2>4, <2>9
<1> QED
  BY <1>1, <1>2, <1>3

\* --skip-nested-rootfs takes out just the packages that only nested databases list,
\* also when Syft handed a package of the host over together with its copy
\* (DropNestedRootComponents, OnlyNestedDatabaseEvidence).
THEOREM SkipKeepsHostAlways == SeriesSpec => []SkipKeepsHost
<1>1. SeriesInit => SkipInv
  BY SeriesConstants DEF SeriesInit, SkipInv, MachineOK, SkipKeepsHost, Reported
<1>2. SkipInv /\ [SeriesNext]_seriesVars => SkipInv'
  BY SkipKeeps
<1>3. SkipInv => SkipKeepsHost
  BY DEF SkipInv
<1> QED
  BY <1>1, <1>2, <1>3, PTL DEF SeriesSpec

-----------------------------------------------------------------------------
(* Which package installed a path.                                         *)

Spelled(p) == {UsrMerge(q) : q \in {p} \cup ChaseSymlink(UsrMerge(p))}
Probe(asked) == ExpandProbeSymlinks(ProbeSet(asked))

LEMMA ProbeTells ==
  ASSUME NEW asked, NEW x, NEW p
  PROVE  <<x, p>> \in Probe(asked) <=> p \in asked /\ p # <<>> /\ x \in Spelled(p)
<1> DEFINE probe == ProbeSet(asked)
<1>1. \A y : y \in probe <=> \E q \in asked \ {<<>>} : y = <<UsrMerge(q), q>>
  BY DEF ProbeSet
<1>2. \A y : y \in Probe(asked) <=>
               \/ y \in probe
               \/ \E pair \in probe : \E q \in ChaseSymlink(pair[1]) : y = <<UsrMerge(q), pair[2]>>
  BY DEF Probe, ExpandProbeSymlinks
<1> HIDE DEF probe
<1>3. ASSUME <<x, p>> \in Probe(asked) PROVE p \in asked /\ p # <<>> /\ x \in Spelled(p)
  <2>1. CASE <<x, p>> \in probe
    <3>1. PICK q \in asked \ {<<>>} : <<x, p>> = <<UsrMerge(q), q>>
      BY <1>1, <2>1
    <3>2. p = q /\ x = UsrMerge(p)
      BY <3>1
    <3> QED
      BY <3>1, <3>2 DEF Spelled
  <2>2. CASE \E pair \in probe : \E q \in ChaseSymlink(pair[1]) : <<x, p>> = <<UsrMerge(q), pair[2]>>
    <3>1. PICK pair \in probe : \E q \in ChaseSymlink(pair[1]) : <<x, p>> = <<UsrMerge(q), pair[2]>>
      BY <2>2
    <3>2. PICK q \in ChaseSymlink(pair[1]) : <<x, p>> = <<UsrMerge(q), pair[2]>>
      BY <3>1
    <3>3. PICK r \in asked \ {<<>>} : pair = <<UsrMerge(r), r>>
      BY <1>1
    <3>4. pair[1] = UsrMerge(r) /\ pair[2] = r
      BY <3>3
    <3>5. p = r /\ x = UsrMerge(q) /\ q \in ChaseSymlink(UsrMerge(p))
      BY <3>2, <3>4
    <3> QED
      BY <3>3, <3>5 DEF Spelled
  <2> QED
    BY <1>2, <1>3, <2>1, <2>2
<1>4. ASSUME p \in asked, p # <<>>, x \in Spelled(p) PROVE <<x, p>> \in Probe(asked)
  <2>1. <<UsrMerge(p), p>> \in probe
    BY <1>1, <1>4
  <2>2. PICK q \in {p} \cup ChaseSymlink(UsrMerge(p)) : x = UsrMerge(q)
    BY <1>4 DEF Spelled
  <2>3. CASE q = p
    BY <1>2, <2>1, <2>2, <2>3
  <2>4. CASE q \in ChaseSymlink(UsrMerge(p))
    <3>1. \E pair : pair = <<UsrMerge(p), p>> /\ pair[1] = UsrMerge(p) /\ pair[2] = p
      <4>1. <<UsrMerge(p), p>>[1] = UsrMerge(p) /\ <<UsrMerge(p), p>>[2] = p
        OBVIOUS
      <4> QED
        BY <4>1, Zenon
    <3>0. PICK pair : pair = <<UsrMerge(p), p>> /\ pair[1] = UsrMerge(p) /\ pair[2] = p
      BY <3>1
    <3>2. q \in ChaseSymlink(pair[1]) /\ <<x, p>> = <<UsrMerge(q), pair[2]>>
      BY <2>2, <2>4, <3>0
    <3> QED
      BY <1>2, <2>1, <3>0, <3>2
  <2> QED
    BY <2>2, <2>3, <2>4
<1> QED
  BY <1>3, <1>4

\* The packages in the host's own root that list a path under a spelling of it.
OnHost(packages, k) == RootOf(packages[k].locs, Nested(packages)) = HostRoot
ListedBy(packages, asked, p) ==
  {k \in DOMAIN packages : /\ OnHost(packages, k)
                           /\ \E f \in OwnedFiles(packages[k]) : <<UsrMerge(f), p>> \in Probe(asked)}
OwnersOf(packages, asked, p) == {Purl(packages[k]) : k \in ListedBy(packages, asked, p)}

LEMMA ConvertOwners ==
  ASSUME NEW packages, ArePackages(packages), NEW relationships, IsListing(relationships),
         \A r \in ToSet(relationships) : r[1] \in DOMAIN packages, NEW asked, NEW p,
         NEW owners, owners = Convert(HostRoot, packages, relationships, asked).fileOwners
  PROVE  /\ p \in DOMAIN owners <=> OwnersOf(packages, asked, p) # {}
         /\ p \in DOMAIN owners => owners[p] = OwnersOf(packages, asked, p)
<1> DEFINE nested == Nested(packages)
           raw == [i \in DOMAIN packages |-> ComponentFromPackage(packages[i])]
           rooted == AssignRoots(raw, nested)
           owned == ApplyFileOwnership(rooted, relationships)
           hits == ResolveOwners(Probe(asked), packages)
           named(q) == {Identify(owned[i]) : i \in {k \in hits[q] : owned[k].root = HostRoot}}
<1>1. owners = FinalizeOwners(owned, hits)
  BY Zenon DEF Convert, Nested, Probe
<1>2. /\ DOMAIN rooted = DOMAIN packages /\ rooted = [j \in DOMAIN rooted |-> rooted[j]]
      /\ \A j \in DOMAIN packages :
           /\ IsComponent(rooted[j]) /\ ComesFrom(rooted[j], packages[j], nested)
           /\ rooted[j].locs = packages[j].locs /\ rooted[j].ownedBy = NoOwner
  BY RootedTells DEF ArePackages
<1> HIDE DEF rooted, nested
<1>3. /\ DOMAIN owned = DOMAIN rooted /\ owned = [j \in DOMAIN owned |-> owned[j]]
      /\ \A j \in DOMAIN rooted :
           \E owner : owned[j] = [rooted[j] EXCEPT !.ownedBy = owner]
      /\ Vouched(owned)
  BY <1>2, OwnershipTells
<1> HIDE DEF owned
<1>4. ASSUME NEW j \in DOMAIN packages
      PROVE  /\ owned[j].root = HostRoot <=> OnHost(packages, j)
             /\ OnHost(packages, j) => Identify(owned[j]) = Purl(packages[j])
  <2>1. PICK owner : owned[j] = [rooted[j] EXCEPT !.ownedBy = owner]
    BY <1>2, <1>3
  <2>2. IsComponent(rooted[j]) /\ ComesFrom(rooted[j], packages[j], nested)
    BY <1>2
  <2>3. owned[j].root = rooted[j].root /\ owned[j].purl = rooted[j].purl
    BY <2>1, <2>2 DEF IsComponent
  <2>4. rooted[j].root = RootOf(packages[j].locs, nested)
    BY <2>2 DEF ComesFrom
  <2>5. rooted[j].root = HostRoot => rooted[j].purl = Purl(packages[j])
    BY <2>2 DEF ComesFrom
  <2>6. Purl(packages[j]) # <<>>
    BY DEF Purl
  <2> QED
    BY <2>3, <2>4, <2>5, <2>6 DEF OnHost, Identify, nested
<1>5. hits = [q \in {pair[2] : pair \in Probe(asked)} |->
               {i \in DOMAIN packages : \E f \in OwnedFiles(packages[i]) : <<UsrMerge(f), q>> \in Probe(asked)}]
  BY Zenon DEF ResolveOwners
<1>6. FinalizeOwners(owned, hits) = [q \in {r \in DOMAIN hits : named(r) # {}} |-> named(q)]
  BY Zenon DEF FinalizeOwners
<1> HIDE DEF hits, named
<1>7. /\ p \in DOMAIN owners <=> p \in DOMAIN hits /\ named(p) # {}
      /\ p \in DOMAIN owners => owners[p] = named(p)
  BY <1>1, <1>6
<1>8. ASSUME p \in DOMAIN hits PROVE named(p) = OwnersOf(packages, asked, p)
  <2>1. hits[p] = {i \in DOMAIN packages : \E f \in OwnedFiles(packages[i]) : <<UsrMerge(f), p>> \in Probe(asked)}
    BY <1>5, <1>8
  <2>2. {k \in hits[p] : owned[k].root = HostRoot} = ListedBy(packages, asked, p)
    BY <1>4, <2>1 DEF ListedBy
  <2>3. named(p) = {Identify(owned[i]) : i \in ListedBy(packages, asked, p)}
    BY <2>2 DEF named
  <2>4. \A k \in ListedBy(packages, asked, p) : Identify(owned[k]) = Purl(packages[k])
    BY <1>4 DEF ListedBy
  <2> QED
    BY <2>3, <2>4 DEF OwnersOf
<1>9. ASSUME OwnersOf(packages, asked, p) # {} PROVE p \in DOMAIN hits
  <2>1. PICK x : <<x, p>> \in Probe(asked)
    BY <1>9 DEF OwnersOf, ListedBy
  <2>2. <<x, p>>[2] = p
    OBVIOUS
  <2>3. DOMAIN hits = {y[2] : y \in Probe(asked)}
    BY <1>5
  <2> QED
    BY <2>1, <2>2, <2>3, Zenon
<1> QED
  BY <1>7, <1>8, <1>9

Lists(i, p) ==
  i.typ = Deb /\ i.root = HostRoot /\ \E f \in FilesOf[i.name] : UsrMerge(f) \in Spelled(p)
Single(i) == \A j \in machine \ {i} : SoftwareOf(j) # SoftwareOf(i)

LEMMA SpelledEmpty ==
  ASSUME NEW f \in Seq(STRING), f # <<>>
  PROVE  UsrMerge(f) \notin Spelled(<<>>)
<1>1. UsrMerge(<<>>) = <<>> /\ ChaseSymlink(<<>>) = {}
  BY SeriesPaths DEF UsrMerge
<1>2. Spelled(<<>>) = {<<>>}
  BY <1>1 DEF Spelled
<1>3. UsrMerge(f) # <<>>
  <2>1. CASE UsrMerge(f) = f
    BY <2>1
  <2>2. CASE UsrMerge(f) # f
    <3>1. UsrMerge(f) = <<"usr">> \o f
      BY <2>2 DEF UsrMerge
    <3>2. PICK T : T = ToSet(f) \cup {"usr"}
      OBVIOUS
    <3>3. f \in Seq(T) /\ <<"usr">> \in Seq(T)
      BY <3>2 DEF ToSet
    <3>4. Len(<<"usr">> \o f) = Len(<<"usr">>) + Len(f)
      BY <3>3, ConcatProperties
    <3>5. Len(<<"usr">>) = 1 /\ Len(f) \in Nat
      OBVIOUS
    <3>6. Len(<<>>) = 0
      OBVIOUS
    <3> QED
      BY <3>1, <3>4, <3>5, <3>6
  <2> QED
    BY <2>1, <2>2
<1> QED
  BY <1>2, <1>3

LEMMA NotUnder ==
  ASSUME NEW r \in Seq(STRING), r # <<>>, "db" \notin ToSet(r), NEW i \in Possible, i.root = HostRoot
  PROVE  ~IsPrefix(r, Status(i))
<1> SUFFICES ASSUME IsPrefix(r, Status(i)) PROVE FALSE
  OBVIOUS
<1>1. PICK l : l = Status(i)
  OBVIOUS
<1>2. i.root \in Seq(STRING) /\ i.root = <<>> /\ Len(i.root) = 0
  BY SeriesConstants DEF HostRoot
<1>3. l \in Seq(Names(i.root)) /\ l[1] = "db" /\ Len(l) = 2
  <2>1. PICK at : at = i.root
    OBVIOUS
  <2>2. at \in Seq(STRING) /\ l = at \o <<"db", "status">> /\ Len(at) = 0
    BY <1>1, <1>2, <2>1 DEF Status
  <2>3. l \in Seq(Names(at)) /\ Len(l) = Len(at) + 2 /\ l[Len(at) + 1] = "db"
    BY <2>2, DatabaseOf
  <2> QED
    BY <2>1, <2>2, <2>3
<1>4. Len(r) \in Nat /\ Len(r) >= 1 /\ Len(r) <= 2 /\ SubSeq(r, 1, Len(r)) = SubSeq(l, 1, Len(r))
  BY <1>1, <1>3 DEF IsPrefix
<1>5. SubSeq(r, 1, Len(r))[1] = r[1]
  BY <1>4
<1>6. SubSeq(l, 1, Len(r))[1] = l[1]
  BY <1>3, <1>4
<1>7. r[1] = "db" /\ 1 \in DOMAIN r
  BY <1>3, <1>4, <1>5, <1>6
<1> QED
  BY <1>7 DEF ToSet

\* A package of the host that Syft did not merge with another is the host's.
LEMMA SingleIsOnHost ==
  ASSUME MachineOK, NEW order \in Orders, NEW merged \in BOOLEAN,
         NEW packages, packages = Packages(order, merged),
         NEW i \in machine, i.typ = Deb, i.root = HostRoot, Single(i),
         NEW p, p = Package(i, merged)
  PROVE  RootOf(p.locs, Nested(packages)) = HostRoot
<1>1. TwinsOf(i, merged) = {}
  <2>1. ASSUME NEW j \in Twins(i) PROVE FALSE
    <3>1. j \in machine /\ SoftwareOf(j) = SoftwareOf(i) /\ Len(j.root) > Len(i.root)
      BY DEF Twins, SoftwareOf
    <3>2. Len(i.root) \in Nat
      BY SeriesConstants DEF MachineOK
    <3>3. j # i
      BY <3>1, <3>2
    <3> QED
      BY <3>1, <3>3 DEF Single
  <2> QED
    BY <2>1 DEF TwinsOf
<1>2. ToSet(p.locs) = {Status(i), Documents} /\ IsListing(p.locs)
  <2>1. IsPackage(p) /\ ToSet(p.locs) = ToSet(Found(i).locs)
    <3>1. ToSet(p.locs) = ToSet(Found(i).locs) \cup UNION {ToSet(Found(j).locs) : j \in TwinsOf(i, merged)}
      BY PackageTells
    <3>2. IsPackage(p)
      BY PackageTells
    <3> QED
      BY <1>1, <3>1, <3>2
  <2>2. ToSet(Found(i).locs) = {Status(i), Documents}
    BY EvidenceTells DEF MachineOK
  <2> QED
    BY <2>1, <2>2 DEF IsPackage
<1>3. ASSUME NEW r \in Nested(packages)
      PROVE  Len(r) \in Nat /\ ~IsPrefix(r, Status(i)) /\ ~IsPrefix(r, Documents)
  <2>1. PICK j \in machine : r = j.root /\ r # HostRoot
    BY NestedTells
  <2>2. r \in Seq(STRING) /\ "db" \notin ToSet(r) /\ ~IsPrefix(r, Documents)
    BY <2>1, SeriesConstants, SeriesPaths DEF MachineOK, Documents
  <2>3. ~IsPrefix(r, Status(i))
    BY <2>1, <2>2, NotUnder DEF MachineOK, HostRoot
  <2> QED
    BY <2>2, <2>3
<1> QED
  BY <1>2, <1>3, RootTells

\* A package of a nested root is never the host's: its own database says so.
LEMMA NestedIsNotOnHost ==
  ASSUME MachineOK, NEW order \in Orders, NEW merged \in BOOLEAN,
         NEW packages, packages = Packages(order, merged),
         NEW i \in machine \ Shadowed(merged), i.typ = Deb, i.root # HostRoot,
         NEW p, p = Package(i, merged)
  PROVE  RootOf(p.locs, Nested(packages)) # HostRoot
<1>1. IsListing(p.locs) /\ Status(i) \in ToSet(p.locs)
  <2>1. IsPackage(p) /\ ToSet(Found(i).locs) \subseteq ToSet(p.locs)
    BY PackageTells
  <2>2. ToSet(Found(i).locs) = {Status(i), Documents}
    BY EvidenceTells DEF MachineOK
  <2> QED
    BY <2>1, <2>2 DEF IsPackage
<1>2. i.root \in Nested(packages)
  BY NestedTells
<1>3. IsPrefix(i.root, Status(i))
  <2>1. i.root \in Seq(STRING) /\ "db" \notin ToSet(i.root)
    BY SeriesConstants, SeriesPaths DEF MachineOK
  <2> QED
    BY <2>1, StatusPath DEF Status
<1>4. \A r \in Nested(packages) : Len(r) \in Nat /\ r # HostRoot
  <2>1. \A r \in Nested(packages) : r # HostRoot /\ \E j \in machine : r = j.root
    BY NestedTells
  <2>2. \A j \in machine : Len(j.root) \in Nat
    BY SeriesConstants DEF MachineOK
  <2> QED
    BY <2>1, <2>2
<1>5. RootOf(p.locs, Nested(packages)) \in Nested(packages)
  BY <1>1, <1>2, <1>3, <1>4, RootTells
<1> QED
  BY <1>4, <1>5

LEMMA ListersAreNamed ==
  ASSUME MachineOK, NEW order \in Orders, NEW merged \in BOOLEAN,
         NEW packages, packages = Packages(order, merged), NEW asked, NEW p \in asked,
         NEW i \in machine, Lists(i, p), Single(i)
  PROVE  \E id \in OwnersOf(packages, asked, p) : id[2] = i.name /\ id[3] = i.version
<1>1. i.typ = Deb /\ i.root = HostRoot
  BY DEF Lists
<1>2. PICK f \in FilesOf[i.name] : UsrMerge(f) \in Spelled(p)
  BY DEF Lists
<1>3. PICK q : q = Package(i, merged)
  OBVIOUS
<1>4. q \in ToSet(packages)
  BY <1>1, <1>3, HostIsFound, PackagesTell
<1>5. PICK k \in DOMAIN packages : packages[k] = q
  BY <1>4 DEF ToSet
<1>6. OnHost(packages, k)
  BY <1>1, <1>3, <1>5, SingleIsOnHost DEF OnHost
<1>7. q.typ = Deb /\ q.name = i.name /\ q.version = i.version /\ q.files = FilesOf[i.name]
  BY <1>1, <1>3, PackageTells, FoundTells DEF MachineOK
<1>8. p # <<>>
  <2>1. f \in Seq(STRING) /\ f # <<>>
    BY <1>1, <1>2, SeriesPaths DEF MachineOK
  <2> QED
    BY <1>2, <2>1, SpelledEmpty
<1>9. <<UsrMerge(f), p>> \in Probe(asked)
  BY <1>2, <1>8, ProbeTells
<1>10. k \in ListedBy(packages, asked, p)
  BY <1>2, <1>5, <1>6, <1>7, <1>9 DEF ListedBy, OwnedFiles, IsOSPackage
<1>11. Purl(q) \in OwnersOf(packages, asked, p)
  BY <1>5, <1>10 DEF OwnersOf
<1>12. Purl(q)[2] = q.name /\ Purl(q)[3] = q.version
  BY DEF Purl
<1> QED
  BY <1>7, <1>11, <1>12

LEMMA NamedAreListers ==
  ASSUME MachineOK, NEW order \in Orders, NEW merged \in BOOLEAN,
         NEW packages, packages = Packages(order, merged), NEW asked, NEW p,
         NEW id \in OwnersOf(packages, asked, p)
  PROVE  \E i \in machine : Lists(i, p) /\ id[2] = i.name /\ id[3] = i.version
<1>1. PICK k \in ListedBy(packages, asked, p) : id = Purl(packages[k])
  BY DEF OwnersOf
<1>2. PICK q : q = packages[k] /\ q \in ToSet(packages)
  BY <1>1 DEF ListedBy, ToSet
<1>3. PICK i \in machine \ Shadowed(merged) : q = Package(i, merged)
  BY <1>2, PackagesTell
<1>4. q.typ = i.typ /\ q.name = i.name /\ q.version = i.version /\ q.files = Found(i).files
  BY <1>3, PackageTells
<1>5. PICK f \in OwnedFiles(q) : <<UsrMerge(f), p>> \in Probe(asked)
  BY <1>1, <1>2 DEF ListedBy
<1>6. i.typ = Deb /\ f \in FilesOf[i.name]
  <2>1. q.typ = Deb /\ f \in q.files
    BY <1>5 DEF OwnedFiles, IsOSPackage
  <2>2. i.typ = Deb /\ q.files = FilesOf[i.name]
    BY <1>4, <2>1, FoundTells DEF MachineOK
  <2> QED
    BY <2>1, <2>2
<1>7. i.root = HostRoot
  <2>1. RootOf(q.locs, Nested(packages)) = HostRoot
    BY <1>1, <1>2 DEF ListedBy, OnHost
  <2> QED
    BY <1>3, <1>6, <2>1, NestedIsNotOnHost
<1>8. UsrMerge(f) \in Spelled(p)
  BY <1>5, ProbeTells
<1>9. Purl(q)[2] = q.name /\ Purl(q)[3] = q.version
  BY DEF Purl
<1> QED
  BY <1>1, <1>2, <1>4, <1>6, <1>7, <1>8, <1>9 DEF Lists

LEMMA RunOwners ==
  ASSUME NEW packages, ArePackages(packages), NEW surface, NEW p,
         NEW owners, owners = ScanOf(packages, surface).fileOwners,
         NEW asked, asked = OwnerProbePaths(surface)
  PROVE  /\ p \in DOMAIN owners <=> OwnersOf(packages, asked, p) # {}
         /\ p \in DOMAIN owners => owners[p] = OwnersOf(packages, asked, p)
<1>1. /\ IsListing(Overlaps(packages))
      /\ \A r \in ToSet(Overlaps(packages)) : r[1] \in DOMAIN packages
  BY OverlapsList DEF ArePackages
<1>2. owners = Convert(HostRoot, packages, Overlaps(packages), asked).fileOwners
  BY DEF ScanOf
<1> QED
  BY <1>1, <1>2, ConvertOwners

OwnersInv == MachineOK /\ OwnersAreRight

LEMMA OwnersKeep ==
  ASSUME OwnersInv, [SeriesNext]_seriesVars
  PROVE  OwnersInv'
<1> USE DEF OwnersInv
<1>1. CASE UNCHANGED seriesVars
  <2>1. machine' = machine /\ report' = report
    BY <1>1 DEF seriesVars
  <2> QED
    BY <2>1 DEF MachineOK, OwnersAreRight, Reported
<1>2. CASE SoftwareChanges
  <2>1. MachineOK'
    BY <1>2, SoftwareStays
  <2>2. report' = NoReport
    BY <1>2 DEF SoftwareChanges
  <2> QED
    BY <2>1, <2>2 DEF OwnersAreRight, Reported
<1>3. CASE SeriesNext /\ ~SoftwareChanges
  <2>1. PICK mode \in Modes, order \in Orders, merged \in BOOLEAN, surface \in Surfaces, forced \in BOOLEAN :
          /\ ArePackages(Packages(order, merged))
          /\ Done(mode, Packages(order, merged), surface, forced)
    BY <1>3, RunOfMachine
  <2>2. PICK packages, asked, q : /\ packages = Packages(order, merged) /\ q = report'
                                  /\ asked = OwnerProbePaths(surface)
    OBVIOUS
  <2>3. /\ q.owners = ScanOf(packages, surface).fileOwners /\ machine' = machine
        /\ q.how = [found |-> ToSet(packages), forced |-> forced, asked |-> asked]
    BY <2>1, <2>2 DEF Done, Ready
  <2>4. MachineOK'
    BY <2>3 DEF MachineOK
  <2>5. ASSUME NEW p
        PROVE  /\ p \in DOMAIN q.owners <=> OwnersOf(packages, asked, p) # {}
               /\ p \in DOMAIN q.owners => q.owners[p] = OwnersOf(packages, asked, p)
    BY <2>1, <2>2, <2>3, RunOwners
  <2>6. ASSUME NEW p \in asked, NEW i \in machine, Lists(i, p), Single(i)
        PROVE  p \in DOMAIN q.owners /\ \E id \in q.owners[p] : id[2] = i.name /\ id[3] = i.version
    <3>1. \E id \in OwnersOf(packages, asked, p) : id[2] = i.name /\ id[3] = i.version
      BY <2>2, <2>6, ListersAreNamed
    <3> QED
      BY <2>5, <3>1
  <2>7. ASSUME NEW p \in DOMAIN q.owners, NEW id \in q.owners[p]
        PROVE  \E i \in machine : Lists(i, p) /\ id[2] = i.name /\ id[3] = i.version
    <3>1. id \in OwnersOf(packages, asked, p)
      BY <2>5
    <3> QED
      BY <2>2, <3>1, NamedAreListers
  <2>8. q.how.asked = asked
    BY <2>3
  <2>9. OwnersAreRight'
    BY <2>2, <2>3, <2>6, <2>7, <2>8 DEF OwnersAreRight, Lists, Single, Spelled, SoftwareOf
  <2> QED
    BY <2>4, <2>9
<1> QED
  BY <1>1, <1>2, <1>3

\* A path is always attributed to just those packages of the host that list it, under
\* any of its spellings (ResolveOwners, expandProbeSymlinks, finalizeOwners).
THEOREM OwnersAreRightAlways == SeriesSpec => []OwnersAreRight
<1>1. SeriesInit => OwnersInv
  BY SeriesConstants DEF SeriesInit, OwnersInv, MachineOK, OwnersAreRight, Reported
<1>2. OwnersInv /\ [SeriesNext]_seriesVars => OwnersInv'
  BY OwnersKeep
<1>3. OwnersInv => OwnersAreRight
  BY DEF OwnersInv
<1> QED
  BY <1>1, <1>2, <1>3, PTL DEF SeriesSpec
-----------------------------------------------------------------------------
(* What a listener of the host depends on in the CycloneDX document.       *)

\* The names a distribution package in the host's own root is found under.
HostPurls(packages) ==
  {Purl(packages[k]) : k \in {n \in DOMAIN packages : OnHost(packages, n) /\ packages[n].typ = Deb}}

LEMMA OwnersAreHostPurls ==
  ASSUME NEW packages, ArePackages(packages), NEW surface, NEW p,
         NEW owners, owners = ScanOf(packages, surface).fileOwners
  PROVE  /\ ToSet(OwnersSeq(owners, p)) \subseteq HostPurls(packages)
         /\ FirstOwner(owners, p) \in HostPurls(packages) \cup {<<>>}
         /\ IsListing(OwnersSeq(owners, p))
<1> DEFINE asked == OwnerProbePaths(surface)
           S == OwnersOf(packages, asked, p)
<1>1. p \in DOMAIN owners => owners[p] = S
  BY RunOwners
<1>2. S \subseteq HostPurls(packages)
  BY DEF OwnersOf, ListedBy, HostPurls, OwnedFiles, IsOSPackage
<1>3. IsFiniteSet(S)
  <2> DEFINE K == ListedBy(packages, asked, p)
             f == [k \in K |-> Purl(packages[k])]
  <2>1. f \in Surjection(K, S)
    BY DEF Surjection, OwnersOf
  <2>2. K \subseteq 1..Len(packages) /\ Len(packages) \in Nat
    BY ListingEntries DEF ArePackages, ListedBy
  <2> HIDE DEF f, K, S
  <2>3. IsFiniteSet(1..Len(packages))
    BY <2>2, FS_Interval
  <2>4. IsFiniteSet(K)
    BY <2>2, <2>3, FS_Subset
  <2> QED
    BY <2>1, <2>4, FS_Surjection
<1> HIDE DEF S
<1>4. PICK seq : seq = OwnersSeq(owners, p)
  OBVIOUS
<1>5. CASE p \notin DOMAIN owners
  BY <1>4, <1>5 DEF OwnersSeq, FirstOwner, ToSet, IsListing
<1>6. CASE p \in DOMAIN owners
  <2>1. seq = SetToSeq(S)
    BY <1>1, <1>4, <1>6 DEF OwnersSeq
  <2>2. IsListing(seq) /\ ToSet(seq) = S
    BY <1>3, <2>1, SetLists
  <2>3. seq # <<>> => seq[1] \in S
    <3>1. Len(seq) \in Nat /\ DOMAIN seq = 1..Len(seq) /\ seq = [k \in 1..Len(seq) |-> seq[k]]
          /\ \A k \in DOMAIN seq : seq[k] \in S
      BY <2>2, ListingEntries
    <3>2. CASE Len(seq) = 0
      <4>1. 1..0 = {}
        OBVIOUS
      <4>2. seq = <<>>
        BY <3>1, <3>2, <4>1
      <4> QED
        BY <4>2
    <3>3. CASE Len(seq) # 0
      BY <3>1, <3>3
    <3> QED
      BY <3>2, <3>3
  <2>4. FirstOwner(owners, p) = IF seq = <<>> THEN <<>> ELSE seq[1]
    BY <1>4 DEF FirstOwner
  <2> QED
    BY <1>2, <1>4, <2>2, <2>3, <2>4
<1> QED
  BY <1>5, <1>6

\* Such a package is in the list, with the root of the host.
LEMMA HostPurlTells ==
  ASSUME MachineOK, NEW order \in Orders, NEW merged \in BOOLEAN, NEW mode,
         NEW packages, packages = Packages(order, merged), NEW id \in HostPurls(packages)
  PROVE  /\ id = <<Deb, id[2], id[3], "host">>
         /\ <<id[2], id[3], Deb, id, HostRoot>> \in KeysOf(mode, ToSet(packages))
<1>1. PICK k \in DOMAIN packages : OnHost(packages, k) /\ packages[k].typ = Deb /\ id = Purl(packages[k])
  BY DEF HostPurls
<1>2. PICK q : q = packages[k] /\ q \in ToSet(packages)
  BY DEF ToSet
<1>3. PICK i \in machine \ Shadowed(merged) : q = Package(i, merged)
  BY <1>2, PackagesTell
<1>4. i.typ = Deb
  BY <1>1, <1>2, <1>3, PackageTells
<1>5. RootOf(q.locs, Nested(packages)) = HostRoot
  BY <1>1, <1>2 DEF OnHost
<1>6. i.root = HostRoot
  BY <1>3, <1>4, <1>5, NestedIsNotOnHost
<1>7. PICK found : found = ToSet(packages)
  OBVIOUS
<1>8. RawKey(q, NestedIn(found)) \in KeysOf(mode, found)
  BY <1>3, <1>6, <1>7, HostKeyIsKept
<1>9. NestedIn(found) = Nested(packages)
  BY <1>7 DEF NestedIn, Nested
<1>10. id = <<Deb, q.name, q.version, "host">>
  BY <1>1, <1>2 DEF Purl
<1>11. RawKey(q, NestedIn(found)) = <<q.name, q.version, Deb, id, HostRoot>>
  BY <1>1, <1>2, <1>5, <1>9 DEF RawKey
<1> QED
  BY <1>7, <1>8, <1>10, <1>11

\* What a scan keeps is in no container, and in a nested root of no distribution.
LEMMA KeysTell ==
  ASSUME MachineOK, NEW order \in Orders, NEW merged \in BOOLEAN, NEW mode,
         NEW packages, packages = Packages(order, merged), NEW key \in KeysOf(mode, ToSet(packages))
  PROVE  /\ ~IsContainerRoot(key[5])
         /\ key[5] # HostRoot => key[4][4] = ""
<1>1. PICK found : found = ToSet(packages)
  OBVIOUS
<1>2. PICK p \in found : key = RawKey(p, NestedIn(found))
  BY <1>1 DEF KeysOf
<1>3. NestedIn(found) = Nested(packages)
  BY <1>1 DEF NestedIn, Nested
<1>4. PICK root : root = RootOf(p.locs, Nested(packages))
  OBVIOUS
<1>5. key = <<p.name, p.version, p.typ,
              IF root = HostRoot THEN Purl(p) ELSE StripDistroClaim(Purl(p)), root>>
  BY <1>2, <1>3, <1>4 DEF RawKey
<1>6. ~IsContainerRoot(root)
  BY <1>1, <1>4, RootIsNoContainer
<1>7. StripDistroClaim(Purl(p))[4] = ""
  <2>1. PICK distro : Purl(p) = <<p.typ, p.name, p.version, distro>>
    BY DEF Purl
  <2>2. Purl(p) # NoPurl
    BY <2>1 DEF NoPurl
  <2>3. StripDistroClaim(Purl(p)) = [Purl(p) EXCEPT ![4] = ""]
    BY <2>2 DEF StripDistroClaim
  <2>4. 4 \in DOMAIN Purl(p)
    BY <2>1
  <2> QED
    BY <2>3, <2>4
<1>8. /\ key[5] = root
      /\ key[4] = IF root = HostRoot THEN Purl(p) ELSE StripDistroClaim(Purl(p))
  BY <1>5
<1> QED
  BY <1>6, <1>7, <1>8

\* The first of the list that bears such a name is the host's own: what a container has
\* under it was listed later, and sorting keeps the order of what is alike.
LEMMA HostComesFirst ==
  ASSUME MachineOK, NEW order \in Orders, NEW merged \in BOOLEAN, NEW mode,
         NEW packages, packages = Packages(order, merged), ArePackages(packages),
         NEW surface \in Surfaces, NEW t, SameList(t, InventoryOf(mode, packages, surface)),
         NEW id \in HostPurls(packages), NEW n \in DOMAIN t, Identify(t[n]) = id,
         \A m \in DOMAIN t : Identify(t[m]) = id => n <= m
  PROVE  t[n].root = HostRoot
<1> DEFINE L == Listed(mode, packages, surface)
           a == Scanned(mode, Raw(packages, surface))
           b == ContainerComponents(surface.containers)
           s == InventoryOf(mode, packages, surface)
           key == <<id[2], id[3], Deb, id, HostRoot>>
<1>1. IsInventory(a) /\ IsInventory(b) /\ IsInventory(L)
  BY RawTells, ScannedTells, ContainersTell, ListedTells
<1>2. L = a \o b /\ s = Normalize(L)
  BY DEF Listed, InventoryOf
<1>3. Keys(a) = KeysOf(mode, ToSet(packages))
  BY ScannedKeys
<1>4. id = <<Deb, id[2], id[3], "host">> /\ key \in Keys(a)
  BY <1>3, HostPurlTells
<1>5. \A c \in ToSet(b) : \E at, p : c = Inside(at, p)
  BY ContainersTell
<1>6. \A i \in DOMAIN s : SameEntry(t[i], s[i])
  BY DEF SameList
<1>7. DOMAIN t = DOMAIN s
  BY DEF SameList
<1> HIDE DEF L, a, b, s
<1>8. /\ Len(a) \in Nat /\ Len(b) \in Nat /\ DOMAIN a = 1..Len(a) /\ DOMAIN b = 1..Len(b)
      /\ DOMAIN L = 1..(Len(a) + Len(b))
  <2>1. Len(L) = Len(a) + Len(b)
    BY <1>1, <1>2, ConcatLists DEF IsInventory
  <2> QED
    BY <1>1, <2>1, InventoryEntries
<1>9. /\ \A i \in 1..Len(a) : L[i] = a[i]
      /\ \A i \in 1..Len(b) : L[Len(a) + i] = b[i]
  BY <1>1, <1>2, ConcatLists DEF IsInventory
<1>10. ASSUME NEW i \in 1..Len(a)
       PROVE  /\ ~IsContainerRoot(L[i].root)
              /\ L[i].purl = id => L[i].root = HostRoot
  <2>1. a[i] \in ToSet(a)
    BY <1>8 DEF ToSet
  <2>2. Key(L[i]) \in KeysOf(mode, ToSet(packages))
    BY <1>3, <1>9, <2>1 DEF Keys
  <2>3. Key(L[i])[5] = L[i].root /\ Key(L[i])[4] = L[i].purl
    BY DEF Key
  <2>4. PICK k : k = Key(L[i])
    OBVIOUS
  <2>5. ~IsContainerRoot(k[5]) /\ (k[5] # HostRoot => k[4][4] = "")
    BY <2>2, <2>4, KeysTell
  <2>6. id[4] = "host"
    BY <1>4
  <2> QED
    BY <2>3, <2>4, <2>5, <2>6
<1>11. PICK x \in 1..Len(a) : Key(L[x]) = key
  <2>1. PICK c \in ToSet(a) : Key(c) = key
    BY <1>4 DEF Keys
  <2>2. PICK x \in DOMAIN a : c = a[x]
    BY DEF ToSet
  <2> QED
    BY <1>8, <1>9, <2>1, <2>2
<1>12. x \in DOMAIN L
  BY <1>8
<1>13. PICK y \in DOMAIN L : Key(s[n]) = Key(L[y])
  <2>1. s[n] \in ToSet(s)
    BY <1>7 DEF ToSet
  <2>2. \A c \in ToSet(Normalize(L)) : \E y \in DOMAIN L : c = Joined(L, y)
    BY <1>1, NormalizeTells
  <2>3. PICK y \in DOMAIN L : s[n] = Joined(L, y)
    BY <1>2, <2>1, <2>2
  <2>4. Key(s[n]) = Key(L[y])
    BY <1>1, <2>3, EntryTells
  <2> QED
    BY <2>4
<1>14. s[n].purl = id
  <2>1. t[n].purl = id
    <3>1. id # <<t[n].name, t[n].version>>
      BY <1>4
    <3> QED
      BY <3>1 DEF Identify
  <2> QED
    BY <1>6, <1>7, <2>1 DEF SameEntry
<1>15. t[n].root = L[y].root /\ L[y].purl = id
  <2>1. s[n].root = L[y].root /\ s[n].purl = L[y].purl
    BY <1>13, KeyFields
  <2>2. t[n].root = s[n].root
    BY <1>6, <1>7 DEF SameEntry
  <2> QED
    BY <1>14, <2>1, <2>2
<1>16. CASE y <= Len(a)
  <2>1. y \in 1..Len(a)
    BY <1>8, <1>16
  <2> QED
    BY <1>10, <1>15, <2>1
<1>17. CASE ~(y <= Len(a))
  <2>1. PICK z \in 1..Len(b) : y = Len(a) + z
    <3>1. y - Len(a) \in 1..Len(b) /\ y = Len(a) + (y - Len(a))
      BY <1>8, <1>17
    <3> QED
      BY <3>1
  <2>2. L[y] \in ToSet(b)
    BY <1>8, <1>9, <2>1 DEF ToSet
  <2>3. PICK at, p : L[y] = Inside(at, p)
    BY <1>5, <2>2
  <2>4. /\ L[y].typ = id[1] /\ L[y].name = id[2] /\ L[y].version = id[3]
        /\ L[y].root = ContainerRoot(at.id)
    BY <1>15, <2>3, InsideTells
  <2>5. L[x].name = id[2] /\ L[x].version = id[3] /\ L[x].typ = Deb /\ L[x].purl = id
    BY <1>11 DEF Key
  <2>6. ~Less(L[y], L[x])
    <3>1. L[x] \in ToSet(L)
      BY <1>12 DEF ToSet
    <3>2. ~Less(L[x], L[x])
      BY <1>1, <3>1, LessIsWeakOrder DEF IsInventory
    <3>3. id[1] = Deb
      BY <1>4
    <3> QED
      BY <1>15, <2>4, <2>5, <3>2, <3>3 DEF Less
  <2>7. \A k \in 1..x : Key(L[k]) # Key(L[y])
    <3>1. IsContainerRoot(L[y].root)
      BY <2>4 DEF IsContainerRoot, ContainerRoot
    <3>2. ASSUME NEW k \in 1..x PROVE ~IsContainerRoot(L[k].root)
      <4>1. k \in 1..Len(a)
        BY <1>8
      <4> QED
        BY <1>10, <4>1
    <3> QED
      BY <3>1, <3>2, KeyFields
  <2>8. x < y
    BY <1>8, <1>17
  <2>9. \A k, l \in DOMAIN s : Key(s[k]) = Key(L[x]) /\ Key(s[l]) = Key(L[y]) => k < l
    BY <1>1, <1>2, <1>12, <2>6, <2>7, <2>8, NormalizeIsStable
  <2>10. PICK k \in DOMAIN s : Key(s[k]) = Key(L[x])
    <3>1. Joined(L, x) \in ToSet(s)
      BY <1>1, <1>2, <1>12, NormalizeTells
    <3>2. Key(Joined(L, x)) = Key(L[x])
      BY <1>1, <1>12, EntryTells
    <3> QED
      BY <3>1, <3>2 DEF ToSet
  <2>11. Identify(t[k]) = id
    <3>1. s[k].purl = L[x].purl
      BY <2>10, KeyFields
    <3>2. t[k].purl = id
      BY <1>6, <2>5, <3>1 DEF SameEntry
    <3>3. id # <<>>
      BY <1>4
    <3> QED
      BY <3>2, <3>3 DEF Identify
  <2>12. n <= k /\ k < n
    BY <1>7, <1>13, <2>9, <2>10, <2>11
  <2>13. n \in Nat /\ k \in Nat
    <3>1. IsInventory(s)
      BY <1>1, <1>2, NormalizeTells
    <3> QED
      BY <1>7, <3>1, InventoryEntries
  <2> QED
    BY <2>12, <2>13
<1> QED
  BY <1>16, <1>17

\* The services of the host are those of the report, the others are of containers.
LEMMA ServicesTell ==
  ASSUME NEW surface \in Surfaces, NEW r, IsListing(r.services), r.containers = surface.containers,
         NEW row \in ToSet(AllServices(r)), row.root = HostRoot
  PROVE  \E s \in ToSet(r.services) : row.service = s
<1> DEFINE own == [i \in DOMAIN r.services |-> [service |-> r.services[i], zone |-> HostZone(r.services[i]),
                                                root |-> <<>>]]
           part(c) == [j \in DOMAIN c.services |->
                         [service |-> c.services[j], zone |-> "container-network",
                          root |-> <<"container:", c.id>>]]
           parts == [i \in DOMAIN r.containers |-> part(r.containers[i])]
<1>1. AllServices(r) = own \o FlattenSeq(parts)
  BY Zenon DEF AllServices
<1>2. IsListing(own) /\ \A x \in ToSet(own) : \E s \in ToSet(r.services) : x.service = s
  <2>1. Len(r.services) \in Nat /\ DOMAIN r.services = 1..Len(r.services)
    BY ListingEntries
  <2>2. DOMAIN own = 1..Len(r.services) /\ own = [i \in DOMAIN own |-> own[i]]
    BY <2>1
  <2>3. \A i \in DOMAIN own : own[i].service = r.services[i] /\ r.services[i] \in ToSet(r.services)
    BY <2>1 DEF ToSet
  <2> HIDE DEF own
  <2> QED
    BY <2>1, <2>2, <2>3, FunctionLists DEF ToSet
<1>3. PICK m \in Nat : DOMAIN parts = 1..m
  <2>1. IsListing(r.containers)
    BY SeriesConstants, SeqLists DEF IsListing
  <2> QED
    BY <2>1, ListingEntries
<1>4. ASSUME NEW i \in 1..m
      PROVE  IsListing(parts[i]) /\ \A x \in ToSet(parts[i]) : x.root # <<>>
  <2>1. PICK c \in ToSet(surface.containers) : parts[i] = part(c)
    BY <1>3 DEF ToSet
  <2>2. IsListing(c.services)
    BY SeriesConstants, SeqLists DEF IsListing
  <2>3. Len(c.services) \in Nat /\ DOMAIN c.services = 1..Len(c.services)
    BY <2>2, ListingEntries
  <2>4. DOMAIN part(c) = 1..Len(c.services) /\ part(c) = [j \in DOMAIN part(c) |-> part(c)[j]]
    BY <2>3
  <2>5. \A j \in DOMAIN part(c) : part(c)[j].root = <<"container:", c.id>>
    BY <2>3
  <2> HIDE DEF part, parts
  <2>6. IsListing(parts[i])
    BY <2>1, <2>3, <2>4, FunctionLists
  <2>7. \A x \in ToSet(parts[i]) : x.root = <<"container:", c.id>>
    BY <2>1, <2>5 DEF ToSet
  <2>8. <<"container:", c.id>> # <<>>
    OBVIOUS
  <2> HIDE DEF own
  <2> QED
    BY <2>6, <2>7, <2>8
<1>5. parts = [i \in DOMAIN parts |-> parts[i]]
  OBVIOUS
<1> HIDE DEF own, parts
<1>6. /\ IsListing(FlattenSeq(parts))
      /\ ToSet(FlattenSeq(parts)) = UNION {ToSet(parts[i]) : i \in 1..m}
  BY <1>3, <1>4, <1>5, FlattenLists
<1>7. ToSet(AllServices(r)) = ToSet(own) \cup ToSet(FlattenSeq(parts))
  BY <1>1, <1>2, <1>6, ConcatLists
<1>8. row \in ToSet(own)
  BY <1>4, <1>6, <1>7 DEF HostRoot
<1> QED
  BY <1>2, <1>8

\* A listener of a report is one of the machine's, with the owners of its executable, and
\* with its libraries named after theirs.
LEMMA AttachTells ==
  ASSUME NEW surface \in Surfaces, NEW owners,
         NEW services, services = AttachLinks(surface, owners).services
  PROVE  /\ IsListing(services)
         /\ \A s \in ToSet(services) :
              /\ \E p : s.components = OwnersSeq(owners, p)
              /\ \A i \in DOMAIN s.links : \E p : s.links[i].purl = FirstOwner(owners, p)
<1> DEFINE one(s) == [s EXCEPT !.components = OwnersSeq(owners, s.exe), !.links = ModelLinks(@, owners)]
           all == surface.services
<1>1. services = [i \in DOMAIN all |-> one(all[i])]
  BY DEF AttachLinks
<1>2. IsListing(all) /\ \A s \in ToSet(all) : IsListener(s)
  BY SeriesConstants, SeqLists DEF IsListing
<1> HIDE DEF all
<1>3. Len(all) \in Nat /\ DOMAIN all = 1..Len(all)
  BY <1>2, ListingEntries
<1>4. IsListing(services)
  <2>1. DOMAIN services = 1..Len(all) /\ services = [i \in DOMAIN services |-> services[i]]
    BY <1>1, <1>3
  <2> QED
    BY <1>3, <2>1, FunctionLists
<1>5. ASSUME NEW s \in ToSet(all)
      PROVE  /\ one(s).components = OwnersSeq(owners, s.exe)
             /\ one(s).links = ModelLinks(s.links, owners)
  <2>1. s = [exe |-> s.exe, components |-> s.components, links |-> s.links, endpoints |-> s.endpoints]
    BY <1>2 DEF IsListener
  <2> QED
    BY <2>1
<1>6. ASSUME NEW s \in ToSet(all), NEW i \in DOMAIN ModelLinks(s.links, owners)
      PROVE  ModelLinks(s.links, owners)[i].purl = FirstOwner(owners, s.links[i].path)
  <2>1. i \in DOMAIN s.links /\ ModelLinks(s.links, owners)[i] =
                                  [s.links[i] EXCEPT !.purl = FirstOwner(owners, s.links[i].path)]
    BY DEF ModelLinks
  <2>2. IsLibrary(s.links[i])
    BY <1>2, <2>1 DEF IsListener, ToSet
  <2> QED
    BY <2>1, <2>2 DEF IsLibrary
<1>7. ASSUME NEW x \in ToSet(services)
      PROVE  /\ \E p : x.components = OwnersSeq(owners, p)
             /\ \A i \in DOMAIN x.links : \E p : x.links[i].purl = FirstOwner(owners, p)
  <2>1. PICK s \in ToSet(all) : x = one(s)
    <3>1. PICK i \in DOMAIN services : x = services[i]
      BY DEF ToSet
    <3>2. i \in DOMAIN all /\ services[i] = one(all[i])
      BY <1>1
    <3> HIDE DEF one
    <3> QED
      BY <3>1, <3>2 DEF ToSet
  <2>2. x.components = OwnersSeq(owners, s.exe) /\ x.links = ModelLinks(s.links, owners)
    BY <1>5, <2>1
  <2> HIDE DEF one
  <2> QED
    BY <1>6, <2>2
<1> QED
  BY <1>4, <1>7

LEMMA IdentityTells ==
  ASSUME NEW r, IsListing(r.components), NEW id \in DOMAIN ByIdentity(r),
         NEW n, n = ByIdentity(r)[id]
  PROVE  /\ n \in DOMAIN r.components /\ Identify(r.components[n]) = id
         /\ \A m \in DOMAIN r.components : Identify(r.components[m]) = id => n <= m
<1> DEFINE S == {i \in DOMAIN r.components : Identify(r.components[i]) = id}
<1>1. /\ DOMAIN ByIdentity(r) = {Identify(c) : c \in ToSet(r.components)}
      /\ n = Least(S)
  BY DEF ByIdentity
<1>2. S \subseteq Nat /\ S # {}
  <2>1. DOMAIN r.components \subseteq Nat
    BY ListingEntries
  <2>2. PICK c \in ToSet(r.components) : Identify(c) = id
    BY <1>1
  <2>3. PICK i \in DOMAIN r.components : c = r.components[i]
    BY DEF ToSet
  <2> QED
    BY <2>1, <2>2, <2>3
<1>3. Least(S) \in S /\ \A m \in S : Least(S) <= m
  <2> HIDE DEF S
  <2> QED
    BY <1>2, LeastNumber
<1> QED
  BY <1>1, <1>3

\* An edge of a listener of the host goes to the first of the list that bears a name the
\* host's own packages were found under.
LEMMA DependsTells ==
  ASSUME NEW surface \in Surfaces, NEW packages, ArePackages(packages),
         NEW owners, owners = ScanOf(packages, surface).fileOwners,
         NEW r, r.services = AttachLinks(surface, owners).services,
         r.containers = surface.containers,
         NEW row \in ToSet(CdxServices(r)), row.root = HostRoot, NEW n \in row.dependsOn
  PROVE  \E id \in HostPurls(packages) : id \in DOMAIN ByIdentity(r) /\ n = ByIdentity(r)[id]
<1> DEFINE all == AllServices(r)
           named == ByIdentity(r)
           refs == UniqueRefs([i \in DOMAIN all |-> <<all[i].service.exe>>])
           libraries(s) == {s.links[i].purl : i \in DOMAIN s.links} \ {<<>>}
           names(s) == (ToSet(s.components) \cup libraries(s)) \cap DOMAIN named
           edge(i) == [ref |-> refs[i], zone |-> all[i].zone, root |-> all[i].root,
                       service |-> all[i].service,
                       dependsOn |-> {named[id] : id \in names(all[i].service)}]
<1>1. CdxServices(r) = [i \in DOMAIN all |-> edge(i)]
  BY Zenon DEF CdxServices
<1>2. PICK i \in DOMAIN all : row = edge(i)
  BY <1>1 DEF ToSet
<1>3. row.root = all[i].root /\ row.dependsOn = {named[id] : id \in names(all[i].service)}
  BY <1>2
<1> HIDE DEF all, names, named, edge
<1>4. all[i] \in ToSet(all)
  BY DEF ToSet
<1>5. /\ IsListing(r.services)
      /\ \A s \in ToSet(r.services) :
           /\ \E p : s.components = OwnersSeq(owners, p)
           /\ \A k \in DOMAIN s.links : \E p : s.links[k].purl = FirstOwner(owners, p)
  BY AttachTells
<1>6. PICK s \in ToSet(r.services) : all[i].service = s
  BY <1>3, <1>4, <1>5, ServicesTell DEF all
<1>7. PICK id : id \in names(s) /\ n = named[id]
  BY <1>3, <1>6
<1>8. id \in ToSet(s.components) \/ id \in libraries(s)
  BY <1>7 DEF names
<1>9. id \in DOMAIN named
  BY <1>7 DEF names
<1>10. CASE id \in ToSet(s.components)
  <2>1. PICK p : s.components = OwnersSeq(owners, p)
    BY <1>5
  <2> QED
    BY <1>7, <1>9, <1>10, <2>1, OwnersAreHostPurls DEF named
<1>11. CASE id \in libraries(s)
  <2>1. PICK k \in DOMAIN s.links : id = s.links[k].purl /\ id # <<>>
    BY <1>11
  <2>2. PICK p : id = FirstOwner(owners, p)
    BY <1>5, <2>1
  <2>3. id \in HostPurls(packages)
    BY <2>1, <2>2, OwnersAreHostPurls
  <2> QED
    BY <1>7, <1>9, <2>3 DEF named
<1> QED
  BY <1>8, <1>10, <1>11

EdgesInv == MachineOK /\ HostEdgesNameHostSoftware

LEMMA EdgesKeep ==
  ASSUME EdgesInv, [SeriesNext]_seriesVars
  PROVE  EdgesInv'
<1> USE DEF EdgesInv
<1>1. CASE UNCHANGED seriesVars
  <2>1. machine' = machine /\ report' = report
    BY <1>1 DEF seriesVars
  <2> QED
    BY <2>1 DEF MachineOK, HostEdgesNameHostSoftware, Reported, Full
<1>2. CASE SoftwareChanges
  <2>1. MachineOK'
    BY <1>2, SoftwareStays
  <2>2. report' = NoReport
    BY <1>2 DEF SoftwareChanges
  <2> QED
    BY <2>1, <2>2 DEF HostEdgesNameHostSoftware, Reported
<1>3. CASE SeriesNext /\ ~SoftwareChanges
  <2>1. PICK mode \in Modes, order \in Orders, merged \in BOOLEAN, surface \in Surfaces, forced \in BOOLEAN :
          /\ ArePackages(Packages(order, merged))
          /\ Done(mode, Packages(order, merged), surface, forced)
    BY <1>3, RunOfMachine
  <2>2. PICK packages, owners, q : /\ packages = Packages(order, merged) /\ q = report'
                                   /\ owners = ScanOf(packages, surface).fileOwners
    OBVIOUS
  <2>3. /\ q.services = AttachLinks(surface, owners).services /\ machine' = machine
        /\ q.containers = surface.containers
        /\ SameList(q.inventory, InventoryOf(mode, packages, surface))
    BY <2>1, <2>2 DEF Done, Ready, Surfaced
  <2>4. MachineOK'
    BY <2>3 DEF MachineOK
  <2>5. ASSUME q.components = q.inventory, NEW row \in ToSet(CdxServices(q)), row.root = HostRoot,
               NEW n \in row.dependsOn
        PROVE  q.components[n].root = HostRoot
    <3>1. PICK id \in HostPurls(packages) : id \in DOMAIN ByIdentity(q) /\ n = ByIdentity(q)[id]
      BY <2>1, <2>2, <2>3, <2>5, DependsTells
    <3>2. IsListing(q.components)
      BY <2>3, <2>5 DEF SameList, IsInventory
    <3>3. /\ n \in DOMAIN q.components /\ Identify(q.components[n]) = id
          /\ \A m \in DOMAIN q.components : Identify(q.components[m]) = id => n <= m
      BY <3>1, <3>2, IdentityTells
    <3> QED
      BY <2>1, <2>2, <2>3, <2>5, <3>3, HostComesFirst
  <2>6. HostEdgesNameHostSoftware'
    BY <2>2, <2>5 DEF HostEdgesNameHostSoftware, Full, Reported
  <2> QED
    BY <2>4, <2>6
<1> QED
  BY <1>1, <1>2, <1>3

\* In the document of a whole inventory a listener of the host never depends on the
\* software of a container or of a nested root, whatever they have in common
\* (writeCycloneDX, FinalizeOwners, StripDistroClaim).
THEOREM HostEdgesNameHostSoftwareAlways == SeriesSpec => []HostEdgesNameHostSoftware
<1>1. SeriesInit => EdgesInv
  BY SeriesConstants DEF SeriesInit, EdgesInv, MachineOK, HostEdgesNameHostSoftware, Reported
<1>2. EdgesInv /\ [SeriesNext]_seriesVars => EdgesInv'
  BY EdgesKeep
<1>3. EdgesInv => HostEdgesNameHostSoftware
  BY DEF EdgesInv
<1> QED
  BY <1>1, <1>2, <1>3, PTL DEF SeriesSpec
-----------------------------------------------------------------------------
(* The difference of two lists, copy by copy.                              *)

Having(cs, k) == {i \in DOMAIN cs : <<cs[i].name, cs[i].typ, cs[i].version>> = k}
Over(n, m) == IF n > m THEN n - m ELSE 0

LEMMA HavingTells ==
  ASSUME NEW cs, IsListing(cs), NEW k
  PROVE  /\ IsFiniteSet(Having(cs, k)) /\ Having(cs, k) \subseteq DOMAIN cs /\ DOMAIN cs \subseteq Nat
         /\ Amount(cs, k) = Cardinality(Having(cs, k)) /\ Amount(cs, k) \in Nat
<1>1. Len(cs) \in Nat /\ DOMAIN cs = 1..Len(cs)
  BY ListingEntries
<1>2. IsFiniteSet(1..Len(cs))
  BY <1>1, FS_Interval
<1>3. Having(cs, k) \subseteq DOMAIN cs
  BY DEF Having
<1>4. IsFiniteSet(Having(cs, k))
  BY <1>1, <1>2, <1>3, FS_Subset
<1>5. Amount(cs, k) = Cardinality(Having(cs, k))
  BY DEF Amount, Having
<1> QED
  BY <1>1, <1>3, <1>4, <1>5, FS_CardinalityType

\* Of the copies one list has of a version as many are left as it has more than the other.
LEMMA DiffCounts ==
  ASSUME NEW a, IsListing(a), NEW b, IsListing(b), NEW k,
         NEW T, T = {i \in DiffVersions(a, b) : <<a[i].name, a[i].typ, a[i].version>> = k}
  PROVE  IsFiniteSet(T) /\ Cardinality(T) = Over(Amount(a, k), Amount(b, k))
<1> DEFINE A == Having(a, k)
           B == Having(b, k)
<1>1. ASSUME NEW i \in A
      PROVE  /\ Copies(a, Identity(a[i]), a[i].version) = A
             /\ Copies(b, Identity(a[i]), a[i].version) = B
  <2>1. k = <<a[i].name, a[i].typ, a[i].version>>
    BY DEF Having
  <2> QED
    BY <2>1 DEF Having, Copies, Identity
<1>2. A = {i \in DOMAIN a : <<a[i].name, a[i].typ, a[i].version>> = k}
  BY DEF Having
<1>3. /\ IsFiniteSet(A) /\ A \subseteq Nat
      /\ Amount(a, k) = Cardinality(A) /\ Amount(b, k) = Cardinality(B) /\ Cardinality(B) \in Nat
  BY HavingTells
<1> HIDE DEF A, B
<1>4. T = Surplus(A, Cardinality(B))
  <2>1. ASSUME NEW i
        PROVE  i \in T <=> i \in A /\ Cardinality({j \in A : j <= i}) > Cardinality(B)
    <3>1. i \in T <=> i \in A /\ i \in DiffVersions(a, b)
      BY <1>2 DEF DiffVersions
    <3>2. ASSUME i \in A
          PROVE  i \in DiffVersions(a, b) <=> Cardinality({j \in A : j <= i}) > Cardinality(B)
      <4>1. i \in DOMAIN a
        BY <1>2, <3>2
      <4>2. i \in DiffVersions(a, b) <=>
              Cardinality({j \in Copies(a, Identity(a[i]), a[i].version) : j <= i})
                > Cardinality(Copies(b, Identity(a[i]), a[i].version))
        BY <4>1 DEF DiffVersions
      <4> QED
        BY <1>1, <3>2, <4>2
    <3> QED
      BY <3>1, <3>2
  <2> QED
    BY <2>1 DEF Surplus
<1>5. /\ IsFiniteSet(Surplus(A, Cardinality(B)))
      /\ Cardinality(Surplus(A, Cardinality(B))) = Over(Cardinality(A), Cardinality(B))
  BY <1>3, LeftOver DEF Over
<1> QED
  BY <1>3, <1>4, <1>5

\* A list of what stands at some positions has as many copies as stand there.
LEMMA PickCounts ==
  ASSUME NEW cs, NEW S, S \subseteq DOMAIN cs, IsFiniteSet(S), S \subseteq Nat, NEW k,
         NEW T, T = {i \in S : <<cs[i].name, cs[i].typ, cs[i].version>> = k}
  PROVE  Amount(At(cs, S), k) = Cardinality(T)
<1> DEFINE P == Positions(S)
           N == Cardinality(S)
           list == At(cs, S)
           H == {n \in DOMAIN list : <<list[n].name, list[n].typ, list[n].version>> = k}
<1>1. /\ DOMAIN P = 1..N /\ \A n \in 1..N : P[n] \in S
      /\ \A x \in S : \E n \in 1..N : P[n] = x
      /\ \A n, m \in 1..N : P[n] = P[m] => n = m
  BY PositionsRank
<1>2. list = [n \in DOMAIN P |-> cs[P[n]]]
  BY DEF At
<1>3. N \in Nat
  BY FS_CardinalityType
<1>4. IsFiniteSet(1..N)
  BY <1>3, FS_Interval
<1> HIDE DEF P, N, list
<1>5. DOMAIN list = 1..N /\ \A n \in 1..N : list[n] = cs[P[n]]
  BY <1>1, <1>2
<1>6. H \subseteq 1..N /\ \A n \in 1..N : n \in H <=> P[n] \in T
  BY <1>1, <1>5
<1>7. IsFiniteSet(H)
  BY <1>4, <1>6, FS_Subset
<1>8. Amount(list, k) = Cardinality(H)
  BY DEF Amount
<1> HIDE DEF H
<1> PICK f : f = [n \in H |-> P[n]]
  OBVIOUS
<1>9. f \in [H -> T]
  BY <1>6
<1>10. \A n, m \in H : f[n] = f[m] => n = m
  BY <1>1, <1>6
<1>11. ASSUME NEW x \in T PROVE \E n \in H : f[n] = x
  <2>1. PICK n \in 1..N : P[n] = x
    BY <1>1
  <2>2. n \in H
    BY <1>6, <2>1
  <2> QED
    BY <2>1, <2>2
<1>12. Cardinality(T) = Cardinality(H)
  BY <1>7, <1>9, <1>10, <1>11, SameSize
<1> QED
  BY <1>8, <1>12 DEF list

OfVersion(cs, T, version) == {i \in T : cs[i].version = version}

LEMMA MoveOfOne ==
  ASSUME NEW cs, NEW T, T \subseteq Nat, IsFiniteSet(T), Cardinality(T) = 1, NEW version
  PROVE  Cardinality(OfVersion(cs, T, version)) = IF cs[Least(T)].version = version THEN 1 ELSE 0
<1>1. PICK f : T = {f}
  BY FS_Singleton
<1>2. T \subseteq Nat /\ T # {}
  BY <1>1
<1>3. Least(T) \in T
  BY <1>2, LeastNumber
<1>4. Least(T) = f
  BY <1>1, <1>3
<1>5. OfVersion(cs, T, version) = IF cs[f].version = version THEN {f} ELSE {}
  BY <1>1 DEF OfVersion
<1>6. Cardinality({}) = 0 /\ Cardinality({f}) = 1
  BY FS_EmptySet, FS_Singleton
<1> QED
  BY <1>4, <1>5, <1>6

\* What is left over and given back makes up the difference.
LEMMA OverMakesUp ==
  ASSUME NEW n \in Nat, NEW m \in Nat
  PROVE  n = m - Over(m, n) + Over(n, m)
BY DEF Over

LEMMA DeltaCounts ==
  ASSUME NEW cur, IsListing(cur), NEW base, IsListing(base), NEW d, d = ComputeDelta(cur, base),
         NEW name, NEW typ, NEW version, NEW k, k = <<name, typ, version>>
  PROVE  Amount(cur, k) = Amount(base, k) - Amount(d.removed, k) - Cardinality(MovesFrom(d, k))
                            + Amount(d.added, k) + Cardinality(MovesTo(d, k))
<1> DEFINE new == DiffVersions(cur, base)
           old == DiffVersions(base, cur)
           fresh(id) == {i \in new : Identity(cur[i]) = id}
           lost(id) == {i \in old : Identity(base[i]) = id}
           ids == {Identity(cur[i]) : i \in DOMAIN cur}
           moved == {id \in ids : Cardinality(fresh(id)) = 1 /\ Cardinality(lost(id)) = 1}
           change(id) == [name |-> id[1], typ |-> id[2], from |-> base[Least(lost(id))].version,
                          to |-> cur[Least(fresh(id))].version,
                          purl |-> cur[Least(fresh(id))].purl]
           ch == [id \in moved |-> change(id)]
           S == {i \in new : Identity(cur[i]) \notin moved}
           R == {i \in old : Identity(base[i]) \notin moved}
           at == <<name, typ>>
           N == {i \in new : <<cur[i].name, cur[i].typ, cur[i].version>> = k}
           O == {i \in old : <<base[i].name, base[i].typ, base[i].version>> = k}
<1>1. d = [added |-> At(cur, S), removed |-> At(base, R), changed |-> {change(id) : id \in moved}]
  BY Zenon DEF ComputeDelta, At
<1>2. d.added = At(cur, S) /\ d.removed = At(base, R)
  BY <1>1
<1>3. d.changed = {ch[id] : id \in moved}
  <2>1. d.changed = {change(id) : id \in moved}
    BY <1>1
  <2>2. \A id \in moved : ch[id] = change(id)
    OBVIOUS
  <2> HIDE DEF moved, change, ch
  <2> QED
    BY <2>1, <2>2
<1>4. \A j \in moved : <<ch[j].name, ch[j].typ>> = j
  BY DEF Identity
<1>5. \A j \in moved : /\ ch[j].to = cur[Least(fresh(j))].version
                       /\ ch[j].from = base[Least(lost(j))].version
                       /\ Cardinality(fresh(j)) = 1 /\ Cardinality(lost(j)) = 1
  OBVIOUS
<1>6. /\ new \subseteq DOMAIN cur /\ DOMAIN cur \subseteq Nat /\ IsFiniteSet(new)
      /\ old \subseteq DOMAIN base /\ DOMAIN base \subseteq Nat /\ IsFiniteSet(old)
  <2>1. /\ DOMAIN cur = 1..Len(cur) /\ Len(cur) \in Nat
        /\ DOMAIN base = 1..Len(base) /\ Len(base) \in Nat
    BY ListingEntries
  <2>2. IsFiniteSet(1..Len(cur)) /\ IsFiniteSet(1..Len(base))
    BY <2>1, FS_Interval
  <2>3. new \subseteq DOMAIN cur /\ old \subseteq DOMAIN base
    BY DEF DiffVersions
  <2> QED
    BY <2>1, <2>2, <2>3, FS_Subset
<1>7. /\ Cardinality(N) = Over(Amount(cur, k), Amount(base, k))
      /\ Cardinality(O) = Over(Amount(base, k), Amount(cur, k))
  BY DiffCounts
<1>8. Amount(cur, k) \in Nat /\ Amount(base, k) \in Nat
  BY HavingTells
<1>9. S \subseteq new /\ R \subseteq old
  OBVIOUS
<1>10. /\ Amount(d.added, k) = Cardinality({i \in S : <<cur[i].name, cur[i].typ, cur[i].version>> = k})
       /\ Amount(d.removed, k) = Cardinality({i \in R : <<base[i].name, base[i].typ, base[i].version>> = k})
  <2> HIDE DEF S, R, new, old
  <2>1. S \subseteq DOMAIN cur /\ IsFiniteSet(S) /\ S \subseteq Nat
    BY <1>6, <1>9, FS_Subset
  <2>2. R \subseteq DOMAIN base /\ IsFiniteSet(R) /\ R \subseteq Nat
    BY <1>6, <1>9, FS_Subset
  <2> QED
    BY <1>2, <2>1, <2>2, PickCounts
<1>11. /\ \A i \in new : <<cur[i].name, cur[i].typ, cur[i].version>> = k
                           <=> Identity(cur[i]) = at /\ cur[i].version = version
       /\ \A i \in old : <<base[i].name, base[i].typ, base[i].version>> = k
                           <=> Identity(base[i]) = at /\ base[i].version = version
  BY DEF Identity
<1>12. /\ N = OfVersion(cur, fresh(at), version)
       /\ O = OfVersion(base, lost(at), version)
  BY <1>11 DEF OfVersion
<1>13. /\ {i \in S : <<cur[i].name, cur[i].typ, cur[i].version>> = k} = IF at \in moved THEN {} ELSE N
       /\ {i \in R : <<base[i].name, base[i].typ, base[i].version>> = k} = IF at \in moved THEN {} ELSE O
  <2> HIDE DEF moved, new, old, at
  <2> QED
    BY <1>11
<1> HIDE DEF new, old, fresh, lost, moved, ch, S, R, N, O
<1>16. /\ MovesTo(d, k) = IF at \in moved /\ ch[at].to = version THEN {ch[at]} ELSE {}
       /\ MovesFrom(d, k) = IF at \in moved /\ ch[at].from = version THEN {ch[at]} ELSE {}
  <2>1. \A a, b, c : <<a, b, c>> = k <=> <<a, b>> = at /\ c = version
    BY DEF at
  <2> HIDE DEF at
  <2>2. \A c : c \in d.changed <=> \E j \in moved : c = ch[j]
    BY <1>3
  <2>3. \A c : c \in MovesTo(d, k) <=> \E j \in moved : c = ch[j] /\ j = at /\ c.to = version
    BY <1>4, <2>1, <2>2 DEF MovesTo
  <2>4. \A c : c \in MovesFrom(d, k) <=> \E j \in moved : c = ch[j] /\ j = at /\ c.from = version
    BY <1>4, <2>1, <2>2 DEF MovesFrom
  <2> QED
    BY <2>3, <2>4
<1>17. Cardinality({}) = 0 /\ \A x : Cardinality({x}) = 1
  BY FS_EmptySet, FS_Singleton
<1>18. ASSUME at \notin moved
       PROVE  /\ Amount(d.added, k) = Cardinality(N) /\ Amount(d.removed, k) = Cardinality(O)
              /\ Cardinality(MovesTo(d, k)) = 0 /\ Cardinality(MovesFrom(d, k)) = 0
  BY <1>10, <1>13, <1>16, <1>17, <1>18
<1>19. ASSUME at \in moved
       PROVE  /\ Amount(d.added, k) = 0 /\ Amount(d.removed, k) = 0
              /\ Cardinality(MovesTo(d, k)) = Cardinality(N) /\ Cardinality(MovesFrom(d, k)) = Cardinality(O)
  <2>1. Amount(d.added, k) = 0 /\ Amount(d.removed, k) = 0
    BY <1>10, <1>13, <1>17, <1>19
  <2>2. Cardinality(N) = IF cur[Least(fresh(at))].version = version THEN 1 ELSE 0
    <3>1. fresh(at) \subseteq new
      BY DEF fresh
    <3>2. fresh(at) \subseteq Nat /\ IsFiniteSet(fresh(at)) /\ Cardinality(fresh(at)) = 1
      BY <1>5, <1>6, <1>19, <3>1, FS_Subset
    <3> QED
      BY <1>12, <3>2, MoveOfOne
  <2>3. Cardinality(O) = IF base[Least(lost(at))].version = version THEN 1 ELSE 0
    <3>1. lost(at) \subseteq old
      BY DEF lost
    <3>2. lost(at) \subseteq Nat /\ IsFiniteSet(lost(at)) /\ Cardinality(lost(at)) = 1
      BY <1>5, <1>6, <1>19, <3>1, FS_Subset
    <3> QED
      BY <1>12, <3>2, MoveOfOne
  <2>4. Cardinality(MovesTo(d, k)) = Cardinality(N) /\ Cardinality(MovesFrom(d, k)) = Cardinality(O)
    BY <1>5, <1>16, <1>17, <1>19, <2>2, <2>3
  <2> QED
    BY <2>1, <2>4
<1> QED
  <2>1. PICK n \in Nat, m \in Nat : n = Amount(cur, k) /\ m = Amount(base, k)
    BY <1>8
  <2>2. PICK x, y : x = Over(n, m) /\ y = Over(m, n)
    OBVIOUS
  <2> x \in Nat /\ y \in Nat
    BY <2>2 DEF Over
  <2>3. n = m - y + x
    BY <2>2, OverMakesUp
  <2>4. Cardinality(N) = x /\ Cardinality(O) = y
    BY <1>7, <2>1, <2>2
  <2>5. CASE at \notin moved
    <3>1. /\ Amount(d.added, k) = x /\ Amount(d.removed, k) = y
          /\ Cardinality(MovesTo(d, k)) = 0 /\ Cardinality(MovesFrom(d, k)) = 0
      BY <1>18, <2>4, <2>5
    <3> QED
      BY <2>1, <2>3, <3>1
  <2>6. CASE at \in moved
    <3>1. /\ Amount(d.added, k) = 0 /\ Amount(d.removed, k) = 0
          /\ Cardinality(MovesTo(d, k)) = x /\ Cardinality(MovesFrom(d, k)) = y
      BY <1>19, <2>4, <2>6
    <3> QED
      BY <2>1, <2>3, <3>1
  <2> QED
    BY <2>5, <2>6

\* Marking what changed takes no copy away.
LEMMA TagCounts ==
  ASSUME NEW s, IsInventory(s), NEW d, NEW k
  PROVE  Amount(Tag(d, s), k) = Amount(s, k)
<1> PICK t : t = Tag(d, s)
  OBVIOUS
<1>1. DOMAIN t = DOMAIN s /\ \A i \in DOMAIN s : SameEntry(t[i], s[i])
  BY TagRestates, RestatedTells
<1>2. \A i \in DOMAIN s : t[i].name = s[i].name /\ t[i].typ = s[i].typ /\ t[i].version = s[i].version
  BY <1>1 DEF SameEntry
<1>3. \A i \in DOMAIN s : <<t[i].name, t[i].typ, t[i].version>> = <<s[i].name, s[i].typ, s[i].version>>
  BY <1>2
<1>4. \A i : i \in Having(t, k) <=> i \in Having(s, k)
  BY <1>1, <1>3 DEF Having
<1>5. Having(t, k) = Having(s, k)
  BY <1>4
<1>6. Amount(t, k) = Cardinality(Having(t, k)) /\ Amount(s, k) = Cardinality(Having(s, k))
  BY DEF Amount, Having
<1> QED
  BY <1>5, <1>6

Balanced(list, against, d, k) ==
  Amount(list, k) = Amount(against, k) - Amount(d.removed, k) - Cardinality(MovesFrom(d, k))
                      + Amount(d.added, k) + Cardinality(MovesTo(d, k))

LEMMA DeltaBalances ==
  ASSUME NEW r, NEW base, Compared(r, base), r.delta # NoDelta, IsInventory(base.components),
         NEW c
  PROVE  Balanced(r.inventory, r.delta.against, r.delta.it, <<c.name, c.typ, c.version>>)
<1> PICK name, typ, version : name = c.name /\ typ = c.typ /\ version = c.version
  OBVIOUS
<1> PICK k : k = <<name, typ, version>>
  OBVIOUS
<1>1. PICK s : /\ IsInventory(s) /\ r.delta.against = base.components
               /\ r.delta.it = ComputeDelta(s, base.components)
               /\ r.inventory = Tag(ComputeDelta(s, base.components), s)
  BY DEF Compared
<1> PICK b : b = base.components
  OBVIOUS
<1> PICK d : d = ComputeDelta(s, b)
  OBVIOUS
<1>2. IsListing(s) /\ IsListing(b)
  BY <1>1 DEF IsInventory
<1>3. Amount(s, k) = Amount(b, k) - Amount(d.removed, k) - Cardinality(MovesFrom(d, k))
                       + Amount(d.added, k) + Cardinality(MovesTo(d, k))
  BY <1>2, DeltaCounts
<1>4. Amount(Tag(d, s), k) = Amount(s, k)
  BY <1>1, TagCounts
<1>5. r.inventory = Tag(d, s) /\ r.delta.against = b /\ r.delta.it = d
  BY <1>1
<1> QED
  BY <1>3, <1>4, <1>5 DEF Balanced

\* What --since compares with is a whole inventory, not what changed in one.
DeltaInv ==
  /\ MachineOK
  /\ baseline # NoBaseline /\ ~baseline.only => IsInventory(baseline.components)
  /\ DeltaReplays

LEMMA DeltaKeeps ==
  ASSUME DeltaInv, [SeriesNext]_seriesVars
  PROVE  DeltaInv'
<1> USE DEF DeltaInv
<1>1. CASE UNCHANGED seriesVars
  BY <1>1 DEF seriesVars, MachineOK, DeltaReplays, Reported
<1>2. CASE SoftwareChanges
  <2>1. MachineOK'
    BY <1>2, SoftwareStays
  <2>2. report' = NoReport /\ baseline' = baseline
    BY <1>2 DEF SoftwareChanges
  <2> QED
    BY <2>1, <2>2 DEF DeltaReplays, Reported
<1>3. CASE SeriesNext /\ ~SoftwareChanges
  <2>1. PICK mode \in Modes, order \in Orders, merged \in BOOLEAN, surface \in Surfaces, forced \in BOOLEAN :
          /\ ArePackages(Packages(order, merged))
          /\ Done(mode, Packages(order, merged), surface, forced)
    BY <1>3, RunOfMachine
  <2> PICK r : r = report'
    OBVIOUS
  <2>2. /\ Compared(r, baseline) /\ LoadBaseline(mode) /\ machine' = machine
        /\ r.mode = mode /\ IsInventory(r.inventory)
        /\ baseline' = IF mode.aside THEN baseline
                       ELSE [kind |-> "report", components |-> r.components,
                             only |-> mode.deltaOnly /\ r.delta # NoDelta]
    BY <2>1 DEF Done, Ready, SameList
  <2>3. MachineOK'
    BY <2>2 DEF MachineOK
  <2>4. (baseline # NoBaseline /\ ~baseline.only => IsInventory(baseline.components))'
    <3>1. CASE mode.aside
      BY <2>2, <3>1
    <3>2. CASE ~mode.aside
      <4>1. /\ baseline'.components = r.components
            /\ baseline'.only <=> mode.deltaOnly /\ r.delta # NoDelta
        BY <2>2, <3>2
      <4>2. ~baseline'.only => r.components = r.inventory
        BY <2>2, <4>1 DEF Compared
      <4> QED
        BY <2>2, <4>1, <4>2
    <3> QED
      BY <3>1, <3>2
  <2>5. DeltaReplays'
    <3>1. ASSUME r.delta # NoDelta
          PROVE  \A c : Balanced(r.inventory, r.delta.against, r.delta.it, <<c.name, c.typ, c.version>>)
      <4>1. IsInventory(baseline.components)
        BY <2>2, <3>1 DEF Compared, LoadBaseline
      <4> PICK base : base = baseline
        OBVIOUS
      <4> QED
        BY <2>2, <3>1, <4>1, DeltaBalances
    <3> QED
      BY <3>1 DEF DeltaReplays, Reported, Balanced
  <2> QED
    BY <2>3, <2>4, <2>5
<1> QED
  BY <1>1, <1>2, <1>3

\* The delta is the whole difference: the baseline without what was removed or moved from,
\* with what was added or moved to, is the inventory of this scan, copy by copy, whatever
\* reports the earlier runs left as the baseline (model.ComputeDelta, loadBaseline).
THEOREM DeltaReplaysAlways == SeriesSpec => []DeltaReplays
<1>1. SeriesInit => DeltaInv
  BY SeriesConstants DEF SeriesInit, DeltaInv, MachineOK, DeltaReplays, Reported
<1>2. DeltaInv /\ [SeriesNext]_seriesVars => DeltaInv'
  BY DeltaKeeps
<1>3. DeltaInv => DeltaReplays
  BY DEF DeltaInv
<1> QED
  BY <1>1, <1>2, <1>3, PTL DEF SeriesSpec

-----------------------------------------------------------------------------
(* What a stream is announced to carry.                                    *)

\* S is the sum after each size.
Sums(S, sizes, n) == S[0] = 0 /\ \A k \in 1..n : S[k] = S[k - 1] + sizes[k]

LEMMA TotalSteps ==
  ASSUME NEW n \in Nat, NEW sizes, Len(sizes) = n
  PROVE  \E S : Sums(S, sizes, n) /\ Total(sizes) = S[n]
<1> DEFINE F(h) == [k \in 0..n |-> IF k = 0 THEN 0 ELSE h[k - 1] + sizes[k]]
           sum == CHOOSE h : h = F(h)
           T == {k \in Nat : \E S : Sums(S, sizes, k)}
<1>1. Total(sizes) = sum[n]
  BY DEF Total
<1>2. 0 \in T
  <2>1. Sums([k \in {0} |-> 0], sizes, 0)
    BY DEF Sums
  <2> QED
    BY <2>1
<1>3. ASSUME NEW k \in Nat, k \in T PROVE k + 1 \in T
  <2>1. PICK S : Sums(S, sizes, k)
    BY <1>3
  <2> DEFINE e == [i \in 0..(k + 1) |-> IF i <= k THEN S[i] ELSE S[k] + sizes[k + 1]]
  <2>2. e[0] = 0
    BY <2>1 DEF Sums
  <2>3. ASSUME NEW i \in 1..(k + 1) PROVE e[i] = e[i - 1] + sizes[i]
    <3>1. \A j \in 0..(k + 1) : e[j] = IF j <= k THEN S[j] ELSE S[k] + sizes[k + 1]
      OBVIOUS
    <3> HIDE DEF e
    <3>2. CASE i = k + 1
      <4>1. i - 1 = k /\ ~(i <= k) /\ i - 1 \in 0..(k + 1) /\ i \in 0..(k + 1) /\ i - 1 <= k
        BY <3>2
      <4> QED
        BY <3>1, <3>2, <4>1
    <3>3. CASE i <= k
      <4>1. i \in 0..(k + 1) /\ i - 1 \in 0..(k + 1) /\ i - 1 <= k /\ i \in 1..k
        BY <3>3
      <4> QED
        BY <2>1, <3>1, <3>3, <4>1 DEF Sums
    <3> QED
      BY <3>2, <3>3
  <2> HIDE DEF e
  <2>4. Sums(e, sizes, k + 1)
    BY <2>2, <2>3 DEF Sums
  <2> QED
    BY <2>4
<1>4. PICK S : Sums(S, sizes, n)
  <2> HIDE DEF T
  <2>1. \A k \in Nat : k < n /\ k \in T => k + 1 \in T
    BY <1>3
  <2>2. 0..n \subseteq T
    BY <1>2, <2>1, NumbersUpto
  <2> QED
    BY <2>2 DEF T
<1>5. sum = F(sum)
  <2> DEFINE h == [k \in 0..n |-> S[k]]
  <2>1. ASSUME NEW k \in 0..n PROVE h[k] = IF k = 0 THEN 0 ELSE h[k - 1] + sizes[k]
    <3>1. CASE k = 0
      BY <3>1, <1>4 DEF Sums
    <3>2. CASE k # 0
      <4>1. k \in 1..n /\ k - 1 \in 0..n
        BY <3>2
      <4> QED
        BY <3>2, <4>1, <1>4 DEF Sums
    <3> QED
      BY <3>1, <3>2
  <2>2. h = F(h)
    BY <2>1
  <2> HIDE DEF h, F
  <2> QED
    BY <2>2
<1> HIDE DEF sum
<1>6. \A k \in 0..n : sum[k] = IF k = 0 THEN 0 ELSE sum[k - 1] + sizes[k]
  BY <1>5
<1>7. Sums(sum, sizes, n)
  <2>1. 0 \in 0..n /\ \A k \in 1..n : k \in 0..n /\ k # 0
    OBVIOUS
  <2> QED
    BY <1>6, <2>1 DEF Sums
<1> QED
  BY <1>1, <1>7

\* A list of lines, all of one type.
LinesOf(s, type) == IsListing(s) /\ \A x \in ToSet(s) : x.kind = type

\* n parts of one type, and their sizes.
Parts(seqs, sizes, type, n) ==
  /\ DOMAIN seqs = 1..n /\ seqs = [k \in DOMAIN seqs |-> seqs[k]]
  /\ DOMAIN sizes = 1..n /\ sizes = [k \in DOMAIN sizes |-> sizes[k]]
  /\ \A k \in 1..n : LinesOf(seqs[k], type) /\ Len(seqs[k]) = sizes[k]

\* They make a list of that type, as long as they are together.
LEMMA FlattenLines ==
  ASSUME NEW n \in Nat, NEW seqs, NEW sizes, NEW type, Parts(seqs, sizes, type, n)
  PROVE  /\ LinesOf(FlattenSeq(seqs), type) /\ Len(FlattenSeq(seqs)) = Total(sizes)
         /\ \A k \in 1..n : ToSet(seqs[k]) \subseteq ToSet(FlattenSeq(seqs))
<1> USE DEF Parts
<1>1. /\ LinesOf(FlattenSeq(seqs), type)
      /\ \A k \in 1..n : ToSet(seqs[k]) \subseteq ToSet(FlattenSeq(seqs))
  <2>1. \A k \in 1..n : IsListing(seqs[k])
    BY DEF LinesOf
  <2>2. /\ IsListing(FlattenSeq(seqs))
        /\ ToSet(FlattenSeq(seqs)) = UNION {ToSet(seqs[k]) : k \in 1..n}
    BY <2>1, FlattenLists
  <2> QED
    BY <2>2 DEF LinesOf
<1>2. IsListing(seqs) /\ Len(seqs) = n /\ Len(sizes) = n
  BY FunctionLists
<1>3. PICK S : Sums(S, sizes, n) /\ Total(sizes) = S[n]
  BY <1>2, TotalSteps
<1>4. CASE n = 0
  <2>1. FlattenSeq(seqs) = seqs
    BY <1>2, <1>4 DEF FlattenSeq
  <2> QED
    BY <1>1, <1>2, <1>3, <1>4, <2>1 DEF Sums
<1>5. CASE n # 0
  <2>1. PICK J : Joins(J, seqs, n) /\ FlattenSeq(seqs) = J[n]
    BY <1>2, <1>5, FlattenSteps
  <2> DEFINE T == {k \in Nat : IsListing(J[k + 1]) /\ Len(J[k + 1]) = S[k + 1]}
  <2>2. 0 \in T
    <3>1. 1 \in 1..n /\ 1 - 1 = 0
      BY <1>5
    <3>2. J[1] = seqs[1] /\ IsListing(seqs[1]) /\ Len(seqs[1]) = sizes[1]
      BY <2>1, <3>1 DEF Joins, LinesOf
    <3>3. S[1] = 0 + sizes[1] /\ Len(seqs[1]) \in Nat
      BY <1>3, <3>1, <3>2, ListingEntries DEF Sums
    <3> QED
      BY <3>2, <3>3
  <2>3. ASSUME NEW k \in Nat, k < n - 1, k \in T PROVE k + 1 \in T
    <3>1. k + 1 \in 1..(n - 1) /\ k + 2 \in 1..n /\ (k + 1) + 1 = k + 2 /\ (k + 2) - 1 = k + 1
      BY <2>3
    <3>2. J[k + 2] = J[k + 1] \o seqs[k + 2] /\ IsListing(seqs[k + 2]) /\ Len(seqs[k + 2]) = sizes[k + 2]
      BY <2>1, <3>1 DEF Joins, LinesOf
    <3>3. IsListing(J[k + 1]) /\ Len(J[k + 1]) = S[k + 1]
      BY <2>3
    <3>4. S[k + 2] = S[k + 1] + sizes[k + 2]
      BY <1>3, <3>1 DEF Sums
    <3>5. IsListing(J[k + 2]) /\ Len(J[k + 2]) = Len(J[k + 1]) + Len(seqs[k + 2])
      <4> PICK front, part : front = J[k + 1] /\ part = seqs[k + 2]
        OBVIOUS
      <4>1. IsListing(front) /\ IsListing(part)
        BY <3>2, <3>3
      <4>2. IsListing(front \o part) /\ Len(front \o part) = Len(front) + Len(part)
        BY <4>1, ConcatLists
      <4> QED
        BY <3>2, <4>2
    <3>6. IsListing(J[(k + 1) + 1]) /\ Len(J[(k + 1) + 1]) = S[(k + 1) + 1]
      BY <3>1, <3>2, <3>3, <3>4, <3>5
    <3> QED
      BY <3>6
  <2>4. n - 1 \in T
    <3> HIDE DEF T
    <3>1. n - 1 \in Nat /\ n - 1 \in 0..(n - 1)
      BY <1>5
    <3> QED
      BY <2>2, <2>3, <3>1, NumbersUpto
  <2>5. (n - 1) + 1 = n
    OBVIOUS
  <2> QED
    BY <1>1, <1>3, <2>1, <2>4, <2>5
<1> QED
  BY <1>4, <1>5

\* How many lines of a type a list has.
Count(s, type) == Cardinality({i \in DOMAIN s : s[i].kind = type})

LEMMA CountOne ==
  ASSUME NEW s, NEW type, LinesOf(s, type), NEW other
  PROVE  Count(s, other) = IF other = type THEN Len(s) ELSE 0
<1>1. Len(s) \in Nat /\ DOMAIN s = 1..Len(s) /\ \A i \in DOMAIN s : s[i].kind = type
  BY ListingEntries DEF LinesOf
<1>2. CASE other = type
  <2>1. {i \in DOMAIN s : s[i].kind = other} = 1..Len(s)
    BY <1>1, <1>2
  <2>2. Cardinality(1..Len(s)) = Len(s)
    BY <1>1, FS_Interval
  <2> QED
    BY <1>2, <2>1, <2>2 DEF Count
<1>3. CASE other # type
  <2>1. {i \in DOMAIN s : s[i].kind = other} = {}
    BY <1>1, <1>3
  <2> QED
    BY <1>3, <2>1, FS_EmptySet DEF Count
<1> QED
  BY <1>2, <1>3

LEMMA CountBoth ==
  ASSUME NEW s, IsListing(s), NEW t, IsListing(t), NEW type
  PROVE  /\ Count(s, type) \in Nat
         /\ Count(s \o t, type) = Count(s, type) + Count(t, type)
<1> DEFINE n == Len(s)
           m == Len(t)
           u == s \o t
           A == {i \in DOMAIN s : s[i].kind = type}
           B == {i \in DOMAIN t : t[i].kind = type}
           C == {i \in DOMAIN u : u[i].kind = type}
           D == {i \in C : i > n}
<1>1. n \in Nat /\ m \in Nat /\ DOMAIN s = 1..n /\ DOMAIN t = 1..m
  BY ListingEntries
<1>2. /\ IsListing(u) /\ Len(u) = n + m /\ \A k \in 1..n : u[k] = s[k]
      /\ \A k \in 1..m : u[n + k] = t[k]
  BY ConcatLists
<1> HIDE DEF u
<1>3. DOMAIN u = 1..(n + m)
  BY <1>2, ListingEntries
<1> HIDE DEF n, m
<1>4. C = A \cup D
  <2>1. \A i \in A : i \in C
    BY <1>1, <1>2, <1>3
  <2>2. \A i \in C : i \in A \/ i > n
    BY <1>1, <1>2, <1>3
  <2> QED
    BY <2>1, <2>2
<1>5. A \cap D = {}
  BY <1>1
<1>6. IsFiniteSet(A) /\ IsFiniteSet(B)
  <2>1. IsFiniteSet(1..n) /\ IsFiniteSet(1..m) /\ A \subseteq 1..n /\ B \subseteq 1..m
    BY <1>1, FS_Interval
  <2> QED
    BY <2>1, FS_Subset
<1>7. IsFiniteSet(D) /\ Cardinality(D) = Cardinality(B)
  <2> PICK f : f = [k \in B |-> n + k]
    OBVIOUS
  <2>1. \A k \in B : n + k \in D /\ k \in Nat
    BY <1>1, <1>2, <1>3
  <2>2. f \in [B -> D]
    BY <2>1
  <2>3. \A x, y \in B : f[x] = f[y] => x = y
    BY <1>1, <2>1
  <2>4. ASSUME NEW z \in D PROVE \E x \in B : f[x] = z
    <3>1. z - n \in 1..m /\ n + (z - n) = z
      BY <1>1, <1>3
    <3>2. z - n \in B
      BY <1>1, <1>2, <3>1
    <3> QED
      BY <3>1, <3>2
  <2> HIDE DEF B, D
  <2> QED
    BY <1>6, <2>2, <2>3, <2>4, SameSize
<1>8. Cardinality(A) \in Nat /\ Cardinality(B) \in Nat
  BY <1>6, FS_CardinalityType
<1>9. Cardinality(A \cup D) = Cardinality(A) + Cardinality(D) - Cardinality(A \cap D)
  <2> HIDE DEF A, D
  <2> QED
    BY <1>6, <1>7, FS_Union
<1>10. Cardinality(A \cap D) = 0
  BY <1>5, FS_EmptySet
<1>11. Cardinality(C) = Cardinality(A) + Cardinality(B)
  <2> HIDE DEF A, B, C, D
  <2> QED
    BY <1>4, <1>7, <1>8, <1>9, <1>10
<1> QED
  BY <1>8, <1>11 DEF Count, u

\* A line for each element of a list.
LEMMA LineEach ==
  ASSUME NEW list, IsListing(list), NEW s, DOMAIN s = DOMAIN list, s = [i \in DOMAIN s |-> s[i]],
         NEW type, \A i \in DOMAIN s : s[i].kind = type
  PROVE  LinesOf(s, type) /\ Len(s) = Len(list)
<1>1. Len(list) \in Nat /\ DOMAIN list = 1..Len(list)
  BY ListingEntries
<1>2. IsListing(s) /\ Len(s) = Len(list)
  BY <1>1, FunctionLists
<1> QED
  BY <1>2, ListingEntries DEF LinesOf

\* All that a stream is made of is in lists.
Listeners(services) == IsListing(services) /\ \A s \in ToSet(services) : IsListing(s.links)
IsStreamed(r) ==
  /\ IsListing(r.components) /\ IsListing(r.config)
  /\ Listeners(r.services) /\ Listeners(r.links)
  /\ IsListing(r.containers) /\ \A c \in ToSet(r.containers) : Listeners(c.services)
  /\ IsListing(r.exposure) /\ \A e \in ToSet(r.exposure) : IsListing(e.components)

\* s has a line under exe for each of the libraries.
Carries(s, exe, links) ==
  \A l \in ToSet(links) : \E x \in ToSet(s) : x.exe = exe /\ x.path = l.path

LEMMA LibraryLines ==
  ASSUME NEW links, IsListing(links), NEW exe,
         NEW s, DOMAIN s = DOMAIN links, s = [i \in DOMAIN s |-> s[i]],
         \A i \in DOMAIN s : s[i].kind = "link" /\ s[i].exe = exe /\ s[i].path = links[i].path
  PROVE  LinesOf(s, "link") /\ Len(s) = Len(links) /\ Carries(s, exe, links)
<1>1. LinesOf(s, "link") /\ Len(s) = Len(links)
  BY LineEach
<1>2. ASSUME NEW l \in ToSet(links) PROVE \E x \in ToSet(s) : x.exe = exe /\ x.path = l.path
  <2>1. PICK k \in DOMAIN links : l = links[k]
    BY DEF ToSet
  <2>2. s[k] \in ToSet(s)
    BY DEF ToSet
  <2> QED
    BY <2>1, <2>2
<1> QED
  BY <1>1, <1>2 DEF Carries

\* A part for each listener, as long as what it loads.
LEMMA LinesOfListeners ==
  ASSUME NEW services, Listeners(services),
         NEW seqs, DOMAIN seqs = DOMAIN services, seqs = [i \in DOMAIN seqs |-> seqs[i]],
         \A i \in DOMAIN services : /\ LinesOf(seqs[i], "link")
                                   /\ Len(seqs[i]) = Len(services[i].links)
                                   /\ Carries(seqs[i], services[i].exe, services[i].links)
  PROVE  /\ LinesOf(FlattenSeq(seqs), "link") /\ Len(FlattenSeq(seqs)) = LinksOf(services)
         /\ \A s \in ToSet(services) : Carries(FlattenSeq(seqs), s.exe, s.links)
<1>1. Len(services) \in Nat /\ DOMAIN services = 1..Len(services)
  BY ListingEntries DEF Listeners
<1> PICK sizes : sizes = [i \in DOMAIN services |-> Len(services[i].links)]
  OBVIOUS
<1>2. Parts(seqs, sizes, "link", Len(services))
  BY <1>1 DEF Parts
<1>3. /\ LinesOf(FlattenSeq(seqs), "link") /\ Len(FlattenSeq(seqs)) = Total(sizes)
      /\ \A k \in DOMAIN services : ToSet(seqs[k]) \subseteq ToSet(FlattenSeq(seqs))
  BY <1>1, <1>2, FlattenLines
<1>4. ASSUME NEW s \in ToSet(services) PROVE Carries(FlattenSeq(seqs), s.exe, s.links)
  <2>1. PICK k \in DOMAIN services : s = services[k]
    BY DEF ToSet
  <2>2. Carries(seqs[k], s.exe, s.links) /\ ToSet(seqs[k]) \subseteq ToSet(FlattenSeq(seqs))
    BY <1>3, <2>1
  <2> QED
    BY <2>2 DEF Carries
<1> QED
  BY <1>3, <1>4 DEF LinksOf

\* What is announced of the links is what is written (countLinkLines, linkLines).
LEMMA LinksWritten ==
  ASSUME NEW r, IsStreamed(r)
  PROVE  /\ LinesOf(LinkLines(r), "link") /\ Len(LinkLines(r)) = CountLinkLines(r)
         /\ \A s \in ToSet(r.services) : Carries(LinkLines(r), s.exe, s.links)
         /\ \A c \in ToSet(r.containers) : \A s \in ToSet(c.services) :
              Carries(LinkLines(r), s.exe, s.links)
         /\ \A b \in ToSet(r.links) :
              \/ Carries(LinkLines(r), b.exe, b.links)
              \/ \E s \in ToSet(r.services) : s.exe = b.exe /\ s.links # <<>>
<1> DEFINE roots == RecordRoots(r.components)
           lines(exe, purl, cid, listening, links) ==
             [i \in DOMAIN links |->
                [kind |-> "link", exe |-> exe, exePurl |-> purl, soname |-> links[i].soname,
                 path |-> links[i].path, purl |-> links[i].purl, listening |-> listening,
                 cid |-> cid,
                 root |-> IF cid # "" THEN ContainerRoot(cid)
                          ELSE RootForPath(roots, <<links[i].path, exe>>)]]
           head(s) == IF s.components = <<>> THEN <<>> ELSE s.components[1]
           behind == {s.exe : s \in {t \in ToSet(r.services) : t.links # <<>>}}
           ofHost == [i \in DOMAIN r.services |->
                        lines(r.services[i].exe, head(r.services[i]), "", TRUE, r.services[i].links)]
           ofContainer(c) == [i \in DOMAIN c.services |->
                        lines(c.services[i].exe, head(c.services[i]), c.id, TRUE, c.services[i].links)]
           ofContainers == [i \in DOMAIN r.containers |-> FlattenSeq(ofContainer(r.containers[i]))]
           ofBinaries == [i \in DOMAIN r.links |->
                            IF r.links[i].exe \in behind THEN <<>>
                            ELSE lines(r.links[i].exe, r.links[i].purl, "", FALSE, r.links[i].links)]
<1>1. LinkLines(r) = FlattenSeq(ofHost) \o FlattenSeq(ofContainers) \o FlattenSeq(ofBinaries)
  BY Zenon DEF LinkLines
<1> HIDE DEF roots, head
<1>3. /\ LinesOf(FlattenSeq(ofHost), "link") /\ Len(FlattenSeq(ofHost)) = LinksOf(r.services)
      /\ \A s \in ToSet(r.services) : Carries(FlattenSeq(ofHost), s.exe, s.links)
  <2>1. Listeners(r.services)
    BY DEF IsStreamed
  <2>2. \A i \in DOMAIN r.services : IsListing(r.services[i].links)
    BY <2>1, ListingEntries DEF Listeners
  <2>3. /\ DOMAIN ofHost = DOMAIN r.services /\ ofHost = [i \in DOMAIN ofHost |-> ofHost[i]]
        /\ \A i \in DOMAIN r.services :
             /\ LinesOf(ofHost[i], "link") /\ Len(ofHost[i]) = Len(r.services[i].links)
             /\ Carries(ofHost[i], r.services[i].exe, r.services[i].links)
    <3> SUFFICES ASSUME NEW i \in DOMAIN r.services
                 PROVE  /\ LinesOf(ofHost[i], "link") /\ Len(ofHost[i]) = Len(r.services[i].links)
                        /\ Carries(ofHost[i], r.services[i].exe, r.services[i].links)
      OBVIOUS
    <3> PICK exe, purl, links : /\ exe = r.services[i].exe /\ purl = head(r.services[i])
                               /\ links = r.services[i].links
      OBVIOUS
    <3>1. IsListing(links)
      BY <2>2
    <3> DEFINE t == lines(exe, purl, "", TRUE, links)
    <3>2. /\ DOMAIN t = DOMAIN links /\ t = [j \in DOMAIN t |-> t[j]]
          /\ \A j \in DOMAIN t : t[j].kind = "link" /\ t[j].exe = exe /\ t[j].path = links[j].path
      OBVIOUS
    <3>3. ofHost[i] = t
      BY DEF ofHost
    <3> HIDE DEF t
    <3>4. LinesOf(t, "link") /\ Len(t) = Len(links) /\ Carries(t, exe, links)
      BY <3>1, <3>2, LibraryLines
    <3> QED
      BY <3>3, <3>4
  <2> HIDE DEF ofHost
  <2> QED
    BY <2>1, <2>3, LinesOfListeners
<1>4. /\ LinesOf(FlattenSeq(ofContainers), "link")
      /\ Len(FlattenSeq(ofContainers)) = LinksInside(r.containers)
      /\ \A c \in ToSet(r.containers) : \A s \in ToSet(c.services) :
           Carries(FlattenSeq(ofContainers), s.exe, s.links)
  <2> DEFINE cs == r.containers
             n == Len(cs)
  <2>1. n \in Nat /\ DOMAIN cs = 1..n /\ \A i \in DOMAIN cs : Listeners(cs[i].services)
    BY ListingEntries DEF IsStreamed
  <2>2. ASSUME NEW c, Listeners(c.services)
        PROVE  /\ LinesOf(FlattenSeq(ofContainer(c)), "link")
               /\ Len(FlattenSeq(ofContainer(c))) = LinksOf(c.services)
               /\ \A s \in ToSet(c.services) : Carries(FlattenSeq(ofContainer(c)), s.exe, s.links)
    <3> DEFINE part == ofContainer(c)
    <3>1. \A i \in DOMAIN c.services : IsListing(c.services[i].links)
      BY <2>2, ListingEntries DEF Listeners
    <3>2. /\ DOMAIN part = DOMAIN c.services /\ part = [i \in DOMAIN part |-> part[i]]
          /\ \A i \in DOMAIN c.services :
               /\ LinesOf(part[i], "link") /\ Len(part[i]) = Len(c.services[i].links)
               /\ Carries(part[i], c.services[i].exe, c.services[i].links)
      <4> SUFFICES ASSUME NEW i \in DOMAIN c.services
                   PROVE  /\ LinesOf(part[i], "link") /\ Len(part[i]) = Len(c.services[i].links)
                          /\ Carries(part[i], c.services[i].exe, c.services[i].links)
        OBVIOUS
      <4> PICK exe, purl, links : /\ exe = c.services[i].exe /\ purl = head(c.services[i])
                                 /\ links = c.services[i].links
        OBVIOUS
      <4>1. IsListing(links)
        BY <3>1
      <4> DEFINE t == lines(exe, purl, c.id, TRUE, links)
      <4>2. /\ DOMAIN t = DOMAIN links /\ t = [j \in DOMAIN t |-> t[j]]
            /\ \A j \in DOMAIN t : t[j].kind = "link" /\ t[j].exe = exe /\ t[j].path = links[j].path
        OBVIOUS
      <4>3. part[i] = t
        BY DEF part
      <4> HIDE DEF t
      <4>4. LinesOf(t, "link") /\ Len(t) = Len(links) /\ Carries(t, exe, links)
        BY <4>1, <4>2, LibraryLines
      <4> QED
        BY <4>3, <4>4
    <3> HIDE DEF ofContainer, part
    <3>3. /\ LinesOf(FlattenSeq(part), "link") /\ Len(FlattenSeq(part)) = LinksOf(c.services)
          /\ \A s \in ToSet(c.services) : Carries(FlattenSeq(part), s.exe, s.links)
      BY <2>2, <3>2, LinesOfListeners
    <3> QED
      BY <3>3 DEF part
  <2> HIDE DEF ofContainer
  <2> PICK sizes : sizes = [i \in DOMAIN cs |-> LinksOf(cs[i].services)]
    OBVIOUS
  <2>3. Parts(ofContainers, sizes, "link", n)
    BY <2>1, <2>2 DEF Parts
  <2> HIDE DEF ofContainers, n, cs
  <2>4. /\ LinesOf(FlattenSeq(ofContainers), "link") /\ Len(FlattenSeq(ofContainers)) = Total(sizes)
        /\ \A i \in 1..n : ToSet(ofContainers[i]) \subseteq ToSet(FlattenSeq(ofContainers))
    BY <2>1, <2>3, FlattenLines
  <2>5. ASSUME NEW c \in ToSet(cs), NEW s \in ToSet(c.services)
        PROVE  Carries(FlattenSeq(ofContainers), s.exe, s.links)
    <3>1. PICK i \in 1..n : c = cs[i]
      BY <2>1 DEF ToSet
    <3>2. Listeners(c.services) /\ ofContainers[i] = FlattenSeq(ofContainer(c))
      BY <2>1, <3>1 DEF ofContainers, cs
    <3>3. Carries(ofContainers[i], s.exe, s.links)
      BY <2>2, <3>2
    <3> QED
      BY <2>4, <3>3 DEF Carries
  <2> QED
    BY <2>4, <2>5 DEF LinksInside, cs
<1>5. /\ LinesOf(FlattenSeq(ofBinaries), "link")
      /\ Len(FlattenSeq(ofBinaries)) =
           Total([i \in DOMAIN r.links |-> IF r.links[i].exe \in behind THEN 0 ELSE Len(r.links[i].links)])
      /\ \A b \in ToSet(r.links) : b.exe \notin behind => Carries(FlattenSeq(ofBinaries), b.exe, b.links)
  <2> DEFINE bs == r.links
             n == Len(bs)
  <2>1. n \in Nat /\ DOMAIN bs = 1..n /\ \A i \in DOMAIN bs : IsListing(bs[i].links)
    BY ListingEntries DEF IsStreamed, Listeners
  <2>2. LinesOf(<<>>, "link") /\ Len(<<>>) = 0
    <3>1. IsListing(<<>>) /\ ToSet(<<>>) = {} /\ Len(<<>>) = 0
      BY DEF IsListing, ToSet
    <3> QED
      BY <3>1 DEF LinesOf
  <2> HIDE DEF behind
  <2> PICK sizes : sizes = [i \in DOMAIN bs |-> IF bs[i].exe \in behind THEN 0 ELSE Len(bs[i].links)]
    OBVIOUS
  <2>3. \A i \in 1..n : /\ LinesOf(ofBinaries[i], "link") /\ Len(ofBinaries[i]) = sizes[i]
                        /\ bs[i].exe \notin behind => Carries(ofBinaries[i], bs[i].exe, bs[i].links)
    <3> SUFFICES ASSUME NEW i \in 1..n
                 PROVE  /\ LinesOf(ofBinaries[i], "link") /\ Len(ofBinaries[i]) = sizes[i]
                        /\ bs[i].exe \notin behind => Carries(ofBinaries[i], bs[i].exe, bs[i].links)
      OBVIOUS
    <3>1. CASE bs[i].exe \in behind
      <4>1. ofBinaries[i] = <<>> /\ sizes[i] = 0
        BY <2>1, <3>1
      <4> QED
        BY <2>2, <3>1, <4>1
    <3>2. CASE bs[i].exe \notin behind
      <4> PICK exe, purl, links : exe = bs[i].exe /\ purl = bs[i].purl /\ links = bs[i].links
        OBVIOUS
      <4>1. IsListing(links)
        BY <2>1
      <4> DEFINE t == lines(exe, purl, "", FALSE, links)
      <4>2. /\ DOMAIN t = DOMAIN links /\ t = [j \in DOMAIN t |-> t[j]]
            /\ \A j \in DOMAIN t : t[j].kind = "link" /\ t[j].exe = exe /\ t[j].path = links[j].path
        OBVIOUS
      <4>3. ofBinaries[i] = t /\ sizes[i] = Len(links)
        BY <2>1, <3>2 DEF ofBinaries
      <4> HIDE DEF t
      <4> PICK s : s = t
        OBVIOUS
      <4>4. LinesOf(s, "link") /\ Len(s) = Len(links) /\ Carries(s, exe, links)
        <5>1. /\ DOMAIN s = DOMAIN links /\ s = [j \in DOMAIN s |-> s[j]]
              /\ \A j \in DOMAIN s : s[j].kind = "link" /\ s[j].exe = exe /\ s[j].path = links[j].path
          BY <4>2
        <5> QED
          BY <4>1, <5>1, LibraryLines
      <4> QED
        BY <4>3, <4>4
    <3> QED
      BY <3>1, <3>2
  <2>7. /\ DOMAIN ofBinaries = 1..n /\ ofBinaries = [k \in DOMAIN ofBinaries |-> ofBinaries[k]]
        /\ DOMAIN sizes = 1..n /\ sizes = [k \in DOMAIN sizes |-> sizes[k]]
    BY <2>1
  <2> HIDE DEF ofBinaries, n
  <2>8. \A i \in 1..n : LinesOf(ofBinaries[i], "link") /\ Len(ofBinaries[i]) = sizes[i]
    BY <2>3
  <2>5. Parts(ofBinaries, sizes, "link", n)
    BY <2>7, <2>8 DEF Parts
  <2>4. /\ LinesOf(FlattenSeq(ofBinaries), "link") /\ Len(FlattenSeq(ofBinaries)) = Total(sizes)
        /\ \A i \in 1..n : ToSet(ofBinaries[i]) \subseteq ToSet(FlattenSeq(ofBinaries))
    BY <2>1, <2>5, FlattenLines
  <2>6. ASSUME NEW b \in ToSet(bs), b.exe \notin behind
        PROVE  Carries(FlattenSeq(ofBinaries), b.exe, b.links)
    <3>1. PICK i \in 1..n : b = bs[i]
      BY <2>1 DEF ToSet
    <3>2. Carries(ofBinaries[i], b.exe, b.links)
      BY <2>3, <2>6, <3>1
    <3> QED
      BY <2>4, <3>2 DEF Carries
  <2> QED
    BY <2>4, <2>6
<1>6. CountLinkLines(r) = LinksOf(r.services) + LinksInside(r.containers)
         + Total([i \in DOMAIN r.links |-> IF r.links[i].exe \in behind THEN 0 ELSE Len(r.links[i].links)])
  BY Zenon DEF CountLinkLines
<1> PICK a, b, c : a = FlattenSeq(ofHost) /\ b = FlattenSeq(ofContainers) /\ c = FlattenSeq(ofBinaries)
  OBVIOUS
<1> HIDE DEF ofHost, ofContainers, ofBinaries, behind
<1>7. LinesOf(a, "link") /\ LinesOf(b, "link") /\ LinesOf(c, "link") /\ LinkLines(r) = a \o b \o c
  BY <1>1, <1>3, <1>4, <1>5
<1>8. IsListing(a \o b) /\ ToSet(a \o b) = ToSet(a) \cup ToSet(b) /\ Len(a \o b) = Len(a) + Len(b)
  BY <1>7, ConcatLists DEF LinesOf
<1> PICK d : d = a \o b
  OBVIOUS
<1>9. IsListing(d \o c) /\ ToSet(d \o c) = ToSet(d) \cup ToSet(c) /\ Len(d \o c) = Len(d) + Len(c)
  BY <1>7, <1>8, ConcatLists DEF LinesOf
<1>10. LinesOf(LinkLines(r), "link")
  BY <1>7, <1>8, <1>9 DEF LinesOf
<1>11. Len(LinkLines(r)) = Len(a) + Len(b) + Len(c)
  BY <1>7, <1>8, <1>9
<1>12. ToSet(LinkLines(r)) = ToSet(a) \cup ToSet(b) \cup ToSet(c)
  BY <1>7, <1>8, <1>9
<1>13. \A s \in ToSet(r.services) : Carries(LinkLines(r), s.exe, s.links)
  BY <1>3, <1>12 DEF Carries
<1>14. \A x \in ToSet(r.containers) : \A s \in ToSet(x.services) : Carries(LinkLines(r), s.exe, s.links)
  BY <1>4, <1>12 DEF Carries
<1>15. \A x \in ToSet(r.links) : \/ Carries(LinkLines(r), x.exe, x.links)
                                \/ \E s \in ToSet(r.services) : s.exe = x.exe /\ s.links # <<>>
  BY <1>5, <1>12 DEF Carries, behind
<1> QED
  BY <1>3, <1>4, <1>5, <1>6, <1>10, <1>11, <1>13, <1>14, <1>15

\* The lines of a row bear its key, and name all its software.
Attributes(s, e) ==
  /\ s # <<>> /\ \A x \in ToSet(s) : x.key = e.key
  /\ \A v \in ToSet(e.components) : \E x \in ToSet(s) : x.key = e.key /\ x.purl = v

\* What is announced of the rows is what is written (countExposureLines, exposureLines).
LEMMA ExposureWritten ==
  ASSUME NEW r, IsStreamed(r)
  PROVE  /\ LinesOf(ExposureLines(r), "exposure") /\ Len(ExposureLines(r)) = CountExposureLines(r)
         /\ \A x \in ToSet(ExposureLines(r)) : \E e \in ToSet(r.exposure) : x.key = e.key
         /\ \A e \in ToSet(r.exposure) :
              /\ \E x \in ToSet(ExposureLines(r)) : x.key = e.key
              /\ \A v \in ToSet(e.components) :
                   \E x \in ToSet(ExposureLines(r)) : x.key = e.key /\ x.purl = v
<1> DEFINE roots == RecordRoots(r.components)
           base(e) == LET cid == IF e.backend.cid # "" THEN e.backend.cid ELSE e.container
                          exe == IF e.backend.cid # "" THEN e.backend.exe ELSE e.exe
                      IN  [kind |-> "exposure", key |-> e.key, exe |-> exe, cid |-> cid,
                           purl |-> <<>>,
                           root |-> IF cid # "" THEN ContainerRoot(cid) ELSE RootForPath(roots, <<exe>>)]
           lines(e) == IF e.components = <<>> THEN <<base(e)>>
                       ELSE [i \in DOMAIN e.components |-> [base(e) EXCEPT !.purl = e.components[i]]]
           es == r.exposure
           n == Len(es)
           seqs == [i \in DOMAIN es |-> lines(es[i])]
<1>1. ExposureLines(r) = FlattenSeq(seqs)
  BY Zenon DEF ExposureLines
<1>2. n \in Nat /\ DOMAIN es = 1..n /\ \A i \in DOMAIN es : IsListing(es[i].components)
  BY ListingEntries DEF IsStreamed
<1>3. ASSUME NEW e, IsListing(e.components)
      PROVE  /\ LinesOf(lines(e), "exposure")
             /\ Len(lines(e)) = IF e.components = <<>> THEN 1 ELSE Len(e.components)
             /\ Attributes(lines(e), e)
  <2>1. \A v : /\ [base(e) EXCEPT !.purl = v].kind = "exposure" /\ base(e).kind = "exposure"
              /\ [base(e) EXCEPT !.purl = v].key = e.key /\ base(e).key = e.key
              /\ [base(e) EXCEPT !.purl = v].purl = v
    OBVIOUS
  <2> HIDE DEF base
  <2>2. CASE e.components = <<>>
    <3> PICK b : b = base(e)
      OBVIOUS
    <3>1. IsListing(<<b>>) /\ ToSet(<<b>>) = {b} /\ Len(<<b>>) = 1
      BY DEF IsListing, ToSet
    <3>2. <<b>> # <<>> /\ ToSet(e.components) = {}
      BY <2>2 DEF ToSet
    <3> PICK t : t = lines(e)
      OBVIOUS
    <3>3. t = <<b>>
      BY <2>2
    <3>4. LinesOf(t, "exposure") /\ Len(t) = 1 /\ Attributes(t, e)
      BY <2>1, <3>1, <3>2, <3>3 DEF LinesOf, Attributes
    <3> QED
      BY <2>2, <3>4
  <2>3. CASE e.components # <<>>
    <3> DEFINE s == lines(e)
    <3>1. /\ DOMAIN s = DOMAIN e.components /\ s = [i \in DOMAIN s |-> s[i]]
          /\ \A i \in DOMAIN s : /\ s[i].kind = "exposure" /\ s[i].key = e.key
                                /\ s[i].purl = e.components[i]
      BY <2>1, <2>3
    <3> HIDE DEF s
    <3>2. LinesOf(s, "exposure") /\ Len(s) = Len(e.components)
      BY <1>3, <3>1, LineEach
    <3>3. s # <<>>
      <4>1. Len(<<>>) = 0 /\ Len(e.components) # 0
        <5>1. Len(e.components) \in Nat /\ e.components = [k \in 1..Len(e.components) |-> e.components[k]]
          BY <1>3, ListingEntries
        <5>2. CASE Len(e.components) = 0
          <6>1. 1..0 = {}
            OBVIOUS
          <6>2. e.components = <<>>
            BY <5>1, <5>2, <6>1
          <6> QED
            BY <2>3, <6>2
        <5> QED
          BY <5>2
      <4> QED
        BY <3>2, <4>1
    <3>4. \A x \in ToSet(s) : x.key = e.key
      BY <3>1 DEF ToSet
    <3>5. ASSUME NEW v \in ToSet(e.components) PROVE \E x \in ToSet(s) : x.key = e.key /\ x.purl = v
      <4>1. PICK k \in DOMAIN e.components : v = e.components[k]
        BY DEF ToSet
      <4>2. s[k] \in ToSet(s) /\ s[k].key = e.key /\ s[k].purl = v
        BY <3>1, <4>1 DEF ToSet
      <4> QED
        BY <4>2
    <3>6. Attributes(s, e)
      BY <3>3, <3>4, <3>5 DEF Attributes
    <3> QED
      BY <2>3, <3>2, <3>6 DEF s
  <2> QED
    BY <2>2, <2>3
<1> HIDE DEF lines
<1> PICK sizes : sizes = [i \in DOMAIN r.exposure |->
                   IF r.exposure[i].components = <<>> THEN 1 ELSE Len(r.exposure[i].components)]
  OBVIOUS
<1>4. Parts(seqs, sizes, "exposure", n)
  BY <1>2, <1>3 DEF Parts
<1>6. /\ \A k \in 1..n : IsListing(seqs[k]) /\ Attributes(seqs[k], es[k])
      /\ DOMAIN seqs = 1..n /\ seqs = [k \in DOMAIN seqs |-> seqs[k]]
  BY <1>2, <1>3 DEF LinesOf
<1> HIDE DEF seqs, n
<1>5. LinesOf(FlattenSeq(seqs), "exposure") /\ Len(FlattenSeq(seqs)) = Total(sizes)
  BY <1>2, <1>4, FlattenLines
<1> PICK all : all = FlattenSeq(seqs)
  OBVIOUS
<1>7. ToSet(all) = UNION {ToSet(seqs[k]) : k \in 1..n}
  BY <1>2, <1>6, FlattenLists
<1>8. ASSUME NEW x \in ToSet(all) PROVE \E e \in ToSet(es) : x.key = e.key
  <2>1. PICK k \in 1..n : x \in ToSet(seqs[k])
    BY <1>7
  <2>2. x.key = es[k].key
    BY <1>6, <2>1 DEF Attributes
  <2>3. es[k] \in ToSet(es)
    BY <1>2, <1>6 DEF ToSet
  <2> QED
    BY <2>2, <2>3
<1>9. ASSUME NEW e \in ToSet(es)
      PROVE  /\ \E x \in ToSet(all) : x.key = e.key
             /\ \A v \in ToSet(e.components) : \E x \in ToSet(all) : x.key = e.key /\ x.purl = v
  <2>1. PICK k \in 1..n : e = es[k]
    BY <1>2 DEF ToSet
  <2> PICK s : s = seqs[k]
    OBVIOUS
  <2>2. Attributes(s, e) /\ IsListing(s)
    BY <1>6, <2>1
  <2>3. \A x \in ToSet(s) : x \in ToSet(all)
    BY <1>7
  <2>4. \E x \in ToSet(s) : TRUE
    <3>1. Len(s) \in Nat /\ DOMAIN s = 1..Len(s) /\ s = [i \in 1..Len(s) |-> s[i]] /\ s # <<>>
          /\ \A i \in DOMAIN s : s[i] \in ToSet(s)
      BY <2>2, ListingEntries DEF Attributes
    <3>2. CASE Len(s) = 0
      <4>1. 1..0 = {}
        OBVIOUS
      <4>2. s = <<>>
        BY <3>1, <3>2, <4>1
      <4> QED
        BY <3>1, <4>2
    <3> QED
      BY <3>1, <3>2
  <2> QED
    BY <2>2, <2>3, <2>4 DEF Attributes
<1> QED
  BY <1>1, <1>5, <1>8, <1>9 DEF CountExposureLines

LEMMA OthersWritten ==
  ASSUME NEW r, IsStreamed(r)
  PROVE  /\ LinesOf(ContainerLines(r), "container") /\ Len(ContainerLines(r)) = Len(r.containers)
         /\ LinesOf(ConfigLines(r), "config") /\ Len(ConfigLines(r)) = Len(r.config)
         /\ LinesOf(ComponentLines(r), "component") /\ Len(ComponentLines(r)) = Len(r.components)
<1> DEFINE a == ContainerLines(r)
           b == ConfigLines(r)
           c == ComponentLines(r)
<1>1. /\ DOMAIN a = DOMAIN r.containers /\ a = [i \in DOMAIN a |-> a[i]]
      /\ \A i \in DOMAIN a : a[i].kind = "container"
  BY DEF ContainerLines
<1>2. /\ DOMAIN b = DOMAIN r.config /\ b = [i \in DOMAIN b |-> b[i]]
      /\ \A i \in DOMAIN b : b[i].kind = "config"
  BY DEF ConfigLines
<1>3. /\ DOMAIN c = DOMAIN r.components /\ c = [i \in DOMAIN c |-> c[i]]
      /\ \A i \in DOMAIN c : c[i].kind = "component"
  BY DEF ComponentLines
<1>4. IsListing(r.containers) /\ IsListing(r.config) /\ IsListing(r.components)
  BY DEF IsStreamed
<1> HIDE DEF a, b, c
<1>5. LinesOf(a, "container") /\ Len(a) = Len(r.containers)
  BY <1>1, <1>4, LineEach
<1>6. LinesOf(b, "config") /\ Len(b) = Len(r.config)
  BY <1>2, <1>4, LineEach
<1>7. LinesOf(c, "component") /\ Len(c) = Len(r.components)
  BY <1>3, <1>4, LineEach
<1> QED
  BY <1>5, <1>6, <1>7 DEF a, b, c

\* No stream is refused for what was announced.
LEMMA StreamIsCounted ==
  ASSUME NEW r, IsStreamed(r)
  PROVE  WriteNDJSON(r).ok
<1> DEFINE suppressed == r.digest # NoDigest /\ r.unchanged
           e == IF Includes(r, "exposure") THEN ExposureLines(r) ELSE <<>>
           c == IF Includes(r, "container") THEN ContainerLines(r) ELSE <<>>
           l == IF Includes(r, "link") /\ ~r.unchanged THEN LinkLines(r) ELSE <<>>
           f == IF Includes(r, "config") THEN ConfigLines(r) ELSE <<>>
           m == IF suppressed THEN <<>> ELSE ComponentLines(r)
           records == ExtraRecords(r) \o m
<1>1. WriteNDJSON(r).ok = (Written(records) = NdjsonCounts(r))
  BY DEF WriteNDJSON
<1>2. \A type : LinesOf(<<>>, type) /\ Len(<<>>) = 0
  <2>1. IsListing(<<>>) /\ ToSet(<<>>) = {} /\ Len(<<>>) = 0
    BY DEF IsListing, ToSet
  <2> QED
    BY <2>1 DEF LinesOf
<1>3. /\ LinesOf(e, "exposure") /\ Len(e) = IF Includes(r, "exposure") THEN CountExposureLines(r) ELSE 0
      /\ LinesOf(c, "container") /\ Len(c) = IF Includes(r, "container") THEN Len(r.containers) ELSE 0
      /\ LinesOf(l, "link") /\ Len(l) = IF Includes(r, "link") /\ ~r.unchanged THEN CountLinkLines(r) ELSE 0
      /\ LinesOf(f, "config") /\ Len(f) = IF Includes(r, "config") THEN Len(r.config) ELSE 0
      /\ LinesOf(m, "component") /\ Len(m) = IF suppressed THEN 0 ELSE Len(r.components)
  BY <1>2, ExposureWritten, LinksWritten, OthersWritten
<1>4. records = (((e \o c) \o l) \o f) \o m
  BY Zenon DEF ExtraRecords
<1> HIDE DEF e, c, l, f, m
<1>5. IsListing(e) /\ IsListing(c) /\ IsListing(l) /\ IsListing(f) /\ IsListing(m)
  BY <1>3 DEF LinesOf
<1> PICK ec : ec = e \o c
  OBVIOUS
<1>6. IsListing(ec) /\ \A type : Count(ec, type) = Count(e, type) + Count(c, type)
  BY <1>5, ConcatLists, CountBoth
<1> PICK ecl : ecl = ec \o l
  OBVIOUS
<1>7. IsListing(ecl) /\ \A type : Count(ecl, type) = Count(ec, type) + Count(l, type)
  BY <1>5, <1>6, ConcatLists, CountBoth
<1> PICK eclf : eclf = ecl \o f
  OBVIOUS
<1>8. IsListing(eclf) /\ \A type : Count(eclf, type) = Count(ecl, type) + Count(f, type)
  BY <1>5, <1>7, ConcatLists, CountBoth
<1>9. records = eclf \o m
  BY <1>4
<1>10. \A type : Count(records, type) = Count(eclf, type) + Count(m, type)
  BY <1>5, <1>8, <1>9, CountBoth
<1>11. \A type : /\ Count(e, type) = IF type = "exposure" THEN Len(e) ELSE 0
                 /\ Count(c, type) = IF type = "container" THEN Len(c) ELSE 0
                 /\ Count(l, type) = IF type = "link" THEN Len(l) ELSE 0
                 /\ Count(f, type) = IF type = "config" THEN Len(f) ELSE 0
                 /\ Count(m, type) = IF type = "component" THEN Len(m) ELSE 0
  BY <1>3, CountOne
<1>12. Len(e) \in Nat /\ Len(c) \in Nat /\ Len(l) \in Nat /\ Len(f) \in Nat /\ Len(m) \in Nat
  BY <1>5, ListingEntries
<1> HIDE DEF records
<1>13. \A type : Count(records, type) =
         (((Count(e, type) + Count(c, type)) + Count(l, type)) + Count(f, type)) + Count(m, type)
  BY <1>6, <1>7, <1>8, <1>10
<1>14. /\ Count(records, "exposure") = Len(e) /\ Count(records, "container") = Len(c)
       /\ Count(records, "link") = Len(l) /\ Count(records, "config") = Len(f)
       /\ Count(records, "component") = Len(m)
  <2>2. /\ "exposure" # "container" /\ "exposure" # "link" /\ "exposure" # "config"
        /\ "exposure" # "component" /\ "container" # "link" /\ "container" # "config"
        /\ "container" # "component" /\ "link" # "config" /\ "link" # "component"
        /\ "config" # "component"
    OBVIOUS
  <2>3. Count(records, "exposure") = Len(e)
    <3>1. Count(records, "exposure") = (((Len(e) + 0) + 0) + 0) + 0
      BY <1>11, <1>13, <2>2
    <3> QED
      BY <1>12, <3>1
  <2>4. Count(records, "container") = Len(c)
    <3>1. Count(records, "container") = (((0 + Len(c)) + 0) + 0) + 0
      BY <1>11, <1>13, <2>2
    <3> QED
      BY <1>12, <3>1
  <2>5. Count(records, "link") = Len(l)
    <3>1. Count(records, "link") = (((0 + 0) + Len(l)) + 0) + 0
      BY <1>11, <1>13, <2>2
    <3> QED
      BY <1>12, <3>1
  <2>6. Count(records, "config") = Len(f)
    <3>1. Count(records, "config") = (((0 + 0) + 0) + Len(f)) + 0
      BY <1>11, <1>13, <2>2
    <3> QED
      BY <1>12, <3>1
  <2>7. Count(records, "component") = Len(m)
    <3>1. Count(records, "component") = (((0 + 0) + 0) + 0) + Len(m)
      BY <1>11, <1>13, <2>2
    <3> QED
      BY <1>12, <3>1
  <2> QED
    BY <2>3, <2>4, <2>5, <2>6, <2>7
<1>15. \A t \in RecordTypes : NdjsonCounts(r)[t] = Count(records, t)
  <2>1. \A t \in RecordTypes : NdjsonCounts(r)[t] =
          CASE t = "component" -> IF r.digest # NoDigest /\ r.unchanged THEN 0 ELSE Len(r.components)
            [] t = "exposure" -> IF Includes(r, t) THEN CountExposureLines(r) ELSE 0
            [] t = "container" -> IF Includes(r, t) THEN Len(r.containers) ELSE 0
            [] t = "link" -> IF Includes(r, t) /\ ~r.unchanged THEN CountLinkLines(r) ELSE 0
            [] OTHER -> IF Includes(r, t) THEN Len(r.config) ELSE 0
    BY DEF NdjsonCounts
  <2>2. RecordTypes = {"component", "exposure", "container", "link", "config"}
    BY DEF RecordTypes
  <2> QED
    BY <1>3, <1>14, <2>1, <2>2
<1>16. Written(records) = [t \in RecordTypes |-> Count(records, t)]
  BY DEF Written, Count
<1>17. NdjsonCounts(r) = [t \in RecordTypes |-> NdjsonCounts(r)[t]]
  BY DEF NdjsonCounts
<1>18. Written(records) = NdjsonCounts(r)
  BY <1>15, <1>16, <1>17
<1> QED
  BY <1>1, <1>18

\* A list stays a list when it is sorted.
LEMMA SortedLists ==
  ASSUME NEW cs, IsListing(cs)
  PROVE  IsListing(Sorted(cs))
<1> DEFINE before == {at \in (DOMAIN cs) \X (DOMAIN cs) :
                        \/ Less(cs[at[1]], cs[at[2]])
                        \/ ~Less(cs[at[2]], cs[at[1]]) /\ at[1] < at[2]}
           order == InOrder(DOMAIN cs, before)
           t == [k \in DOMAIN order |-> cs[order[k]]]
<1>1. Sorted(cs) = t
  BY Zenon DEF Sorted
<1>2. Cardinality(DOMAIN cs) \in Nat
  <2>1. Len(cs) \in Nat /\ DOMAIN cs = 1..Len(cs)
    BY ListingEntries
  <2> QED
    BY <2>1, FS_Interval
<1> HIDE DEF before
<1>3. DOMAIN order = 1..Cardinality(DOMAIN cs)
  BY DEF InOrder
<1> HIDE DEF order
<1>4. DOMAIN t = 1..Cardinality(DOMAIN cs) /\ t = [k \in DOMAIN t |-> t[k]]
  BY <1>3
<1> HIDE DEF t
<1> QED
  BY <1>1, <1>2, <1>4, FunctionLists

\* What --delta-only leaves is a list.
LEMMA DeltaLists ==
  ASSUME NEW s, IsListing(s), NEW base, IsListing(base), NEW cs
  PROVE  IsListing(DeltaComponents(ComputeDelta(s, base), cs))
<1> DEFINE new == DiffVersions(s, base)
           old == DiffVersions(base, s)
           fresh(id) == {i \in new : Identity(s[i]) = id}
           lost(id) == {i \in old : Identity(base[i]) = id}
           ids == {Identity(s[i]) : i \in DOMAIN s}
           moved == {id \in ids : Cardinality(fresh(id)) = 1 /\ Cardinality(lost(id)) = 1}
           pick(list, S) == LET at == Positions({i \in S : Identity(list[i]) \notin moved})
                            IN  [k \in DOMAIN at |-> list[at[k]]]
           move(id) == [name |-> id[1], typ |-> id[2],
                        from |-> base[Least(lost(id))].version,
                        to |-> s[Least(fresh(id))].version,
                        purl |-> s[Least(fresh(id))].purl]
           delta == ComputeDelta(s, base)
<1>1. /\ delta.added = pick(s, new) /\ delta.removed = pick(base, old)
      /\ delta.changed = {move(id) : id \in moved}
  BY DEF ComputeDelta
<1>2. new \subseteq DOMAIN s /\ old \subseteq DOMAIN base
  BY DEF DiffVersions
<1>3. ASSUME NEW list, IsListing(list), NEW S, S \subseteq DOMAIN list
      PROVE  IsListing(pick(list, S))
  <2> DEFINE K == {i \in S : Identity(list[i]) \notin moved}
             t == pick(list, S)
  <2>1. Len(list) \in Nat /\ DOMAIN list = 1..Len(list)
    BY <1>3, ListingEntries
  <2>2. IsFiniteSet(K) /\ K \subseteq Nat
    <3>1. IsFiniteSet(1..Len(list)) /\ K \subseteq 1..Len(list)
      BY <1>3, <2>1, FS_Interval
    <3>2. 1..Len(list) \subseteq Nat
      OBVIOUS
    <3> HIDE DEF K
    <3> QED
      BY <3>1, <3>2, FS_Subset
  <2>3. t = [k \in DOMAIN Positions(K) |-> list[Positions(K)[k]]]
    BY Zenon
  <2> HIDE DEF K, t, moved
  <2>4. DOMAIN Positions(K) = 1..Cardinality(K) /\ Cardinality(K) \in Nat
    BY <2>2, PositionsLists, FS_CardinalityType
  <2>5. DOMAIN t = 1..Cardinality(K) /\ t = [k \in DOMAIN t |-> t[k]]
    BY <2>3, <2>4
  <2>6. IsListing(t)
    BY <2>4, <2>5, FunctionLists
  <2> QED
    BY <2>6 DEF t
<1>4. IsListing(delta.added) /\ IsListing(delta.removed)
  <2> HIDE DEF pick, new, old, delta
  <2> QED
    BY <1>1, <1>2, <1>3
<1>5. Cardinality(delta.changed) \in Nat
  <2> DEFINE f == [k \in DOMAIN s |-> Identity(s[k])]
  <2>1. f \in Surjection(DOMAIN s, ids)
    BY DEF Surjection
  <2>2. IsFiniteSet(DOMAIN s)
    <3>1. Len(s) \in Nat /\ DOMAIN s = 1..Len(s)
      BY ListingEntries
    <3> QED
      BY <3>1, FS_Interval
  <2> HIDE DEF f, ids
  <2>3. IsFiniteSet(ids)
    BY <2>1, <2>2, FS_Surjection
  <2>4. moved \subseteq ids
    OBVIOUS
  <2> HIDE DEF moved, move
  <2>5. IsFiniteSet(moved)
    BY <2>3, <2>4, FS_Subset
  <2> DEFINE T == {move(id) : id \in moved}
             g == [id \in moved |-> move(id)]
  <2>6. g \in Surjection(moved, T)
    BY DEF Surjection
  <2> HIDE DEF g, T
  <2>7. IsFiniteSet(T)
    BY <2>5, <2>6, FS_Surjection
  <2>8. Cardinality(T) \in Nat
    BY <2>7, FS_CardinalityType
  <2> HIDE DEF delta
  <2> QED
    BY <1>1, <2>8 DEF T
<1> PICK d : d = delta
  OBVIOUS
<1> HIDE DEF delta
<1> DEFINE mark(list, kind) == [i \in DOMAIN list |-> [list[i] EXCEPT !.change = kind]]
           target(ch) == {i \in DOMAIN cs : Identity(cs[i]) = <<ch.name, ch.typ>>
                                            /\ cs[i].version = ch.to}
           last(S) == CHOOSE i \in S : \A j \in S : j <= i
           shifted == [i \in 1..Cardinality(d.changed) |-> cs[last(target(SetToSeq(d.changed)[i]))]]
<1>6. DeltaComponents(d, cs) = Sorted(mark(d.added, "added") \o mark(d.removed, "removed")
                                        \o mark(shifted, "changed"))
  BY Zenon DEF DeltaComponents
<1>7. IsListing(shifted)
  <2>1. Cardinality(d.changed) \in Nat
    BY <1>5
  <2>2. DOMAIN shifted = 1..Cardinality(d.changed) /\ shifted = [i \in DOMAIN shifted |-> shifted[i]]
    OBVIOUS
  <2> HIDE DEF shifted
  <2> QED
    BY <2>1, <2>2, FunctionLists
<1> HIDE DEF shifted
<1>8. ASSUME NEW list, IsListing(list), NEW kind PROVE IsListing(mark(list, kind))
  <2> DEFINE t == mark(list, kind)
  <2>1. Len(list) \in Nat /\ DOMAIN list = 1..Len(list)
    BY <1>8, ListingEntries
  <2>2. DOMAIN t = 1..Len(list) /\ t = [i \in DOMAIN t |-> t[i]]
    BY <2>1
  <2> HIDE DEF t
  <2>3. IsListing(t)
    BY <2>1, <2>2, FunctionLists
  <2> QED
    BY <2>3 DEF t
<1> PICK a, b, c : a = mark(d.added, "added") /\ b = mark(d.removed, "removed") /\ c = mark(shifted, "changed")
  OBVIOUS
<1> HIDE DEF mark
<1>9. IsListing(a) /\ IsListing(b) /\ IsListing(c)
  BY <1>4, <1>7, <1>8
<1>10. IsListing(a \o b)
  BY <1>9, ConcatLists
<1> PICK ab : ab = a \o b
  OBVIOUS
<1>11. IsListing(ab \o c)
  BY <1>9, <1>10, ConcatLists
<1>12. IsListing(Sorted(ab \o c))
  BY <1>11, SortedLists
<1>13. DeltaComponents(d, cs) = Sorted(ab \o c)
  BY <1>6
<1> QED
  BY <1>12, <1>13 DEF delta

\* What a run reports is in lists.
LEMMA SurfaceStreams ==
  ASSUME NEW packages, ArePackages(packages), NEW surface \in Surfaces,
         NEW owners, owners = ScanOf(packages, surface).fileOwners
  PROVE  /\ Listeners(AttachLinks(surface, owners).services)
         /\ Listeners(AttachLinks(surface, owners).links)
         /\ IsListing(Exposed(surface, owners))
         /\ \A e \in ToSet(Exposed(surface, owners)) : IsListing(e.components)
         /\ IsListing(surface.config) /\ IsListing(surface.containers)
         /\ \A c \in ToSet(surface.containers) : Listeners(c.services)
<1>1. /\ IsListing(surface.services) /\ \A s \in ToSet(surface.services) : IsListener(s)
      /\ IsListing(surface.links) /\ \A b \in ToSet(surface.links) : IsBinary(b)
      /\ IsListing(surface.exposure) /\ \A e \in ToSet(surface.exposure) : IsRow(e)
      /\ IsListing(surface.config) /\ IsListing(surface.containers)
  BY SeriesConstants DEF IsListing
<1>2. ASSUME NEW c \in ToSet(surface.containers)
      PROVE  /\ Listeners(c.services)
             /\ \A s \in ToSet(c.services) : IsListing(s.components)
  <2>1. /\ IsListing(c.services)
        /\ \A s \in ToSet(c.services) : /\ s.components \in Seq(Int \X Int \X Int \X STRING)
                                         /\ IsListing(s.links)
    BY SeriesConstants DEF IsListing
  <2>2. \A s \in ToSet(c.services) : IsListing(s.components)
    BY <2>1, SeqLists
  <2> QED
    BY <2>1, <2>2 DEF Listeners
<1>3. ASSUME NEW links, IsListing(links) PROVE IsListing(ModelLinks(links, owners))
  <2> DEFINE t == ModelLinks(links, owners)
  <2>1. Len(links) \in Nat /\ DOMAIN links = 1..Len(links)
    BY <1>3, ListingEntries
  <2>2. DOMAIN t = 1..Len(links) /\ t = [i \in DOMAIN t |-> t[i]]
    BY <2>1 DEF ModelLinks
  <2> HIDE DEF t
  <2>3. IsListing(t)
    BY <2>1, <2>2, FunctionLists
  <2> QED
    BY <2>3 DEF t
<1>4. ASSUME NEW list, IsListing(list), NEW t, DOMAIN t = DOMAIN list, t = [i \in DOMAIN t |-> t[i]],
             \A i \in DOMAIN list : list[i] \in ToSet(list) => IsListing(t[i].links)
      PROVE  Listeners(t)
  <2>1. Len(list) \in Nat /\ DOMAIN list = 1..Len(list) /\ \A i \in DOMAIN list : list[i] \in ToSet(list)
    BY <1>4, ListingEntries
  <2>2. IsListing(t)
    BY <1>4, <2>1, FunctionLists
  <2> QED
    BY <1>4, <2>1, <2>2, ListingEntries DEF Listeners
<1>5. Listeners(AttachLinks(surface, owners).services)
  <2> DEFINE one(s) == [s EXCEPT !.components = OwnersSeq(owners, s.exe), !.links = ModelLinks(@, owners)]
             t == [i \in DOMAIN surface.services |-> one(surface.services[i])]
  <2>1. AttachLinks(surface, owners).services = t
    BY DEF AttachLinks
  <2>2. ASSUME NEW s, IsListener(s) PROVE IsListing(one(s).links)
    <3>1. one(s).links = ModelLinks(s.links, owners)
      <4>1. s = [exe |-> s.exe, components |-> s.components, links |-> s.links, endpoints |-> s.endpoints]
        BY <2>2 DEF IsListener
      <4> QED
        BY <4>1
    <3>2. IsListing(s.links)
      BY <2>2 DEF IsListener, IsListing
    <3> HIDE DEF one
    <3> QED
      BY <1>3, <3>1, <3>2
  <2> HIDE DEF one
  <2>3. /\ DOMAIN t = DOMAIN surface.services /\ t = [i \in DOMAIN t |-> t[i]]
        /\ \A i \in DOMAIN surface.services :
             surface.services[i] \in ToSet(surface.services) => IsListing(t[i].links)
    BY <1>1, <2>2
  <2> HIDE DEF t
  <2>4. Listeners(t)
    BY <1>1, <1>4, <2>3
  <2> QED
    BY <2>1, <2>4
<1>6. Listeners(AttachLinks(surface, owners).links)
  <2> DEFINE one(b) == [b EXCEPT !.purl = FirstOwner(owners, b.exe), !.links = ModelLinks(@, owners)]
             t == [i \in DOMAIN surface.links |-> one(surface.links[i])]
  <2>1. AttachLinks(surface, owners).links = t
    BY DEF AttachLinks
  <2>2. ASSUME NEW b, IsBinary(b) PROVE IsListing(one(b).links)
    <3>1. one(b).links = ModelLinks(b.links, owners)
      <4>1. b = [exe |-> b.exe, purl |-> b.purl, links |-> b.links]
        BY <2>2 DEF IsBinary
      <4> QED
        BY <4>1
    <3>2. IsListing(b.links)
      BY <2>2 DEF IsBinary, IsListing
    <3> HIDE DEF one
    <3> QED
      BY <1>3, <3>1, <3>2
  <2> HIDE DEF one
  <2>3. /\ DOMAIN t = DOMAIN surface.links /\ t = [i \in DOMAIN t |-> t[i]]
        /\ \A i \in DOMAIN surface.links :
             surface.links[i] \in ToSet(surface.links) => IsListing(t[i].links)
    BY <1>1, <2>2
  <2> HIDE DEF t
  <2>4. Listeners(t)
    BY <1>1, <1>4, <2>3
  <2> QED
    BY <2>1, <2>4
<1>7. /\ IsListing(Exposed(surface, owners))
      /\ \A e \in ToSet(Exposed(surface, owners)) : IsListing(e.components)
  <2> DEFINE cs == surface.containers
             ofServices(ss) == [j \in DOMAIN ss |-> ss[j].components]
             parts(id) == [i \in DOMAIN cs |-> IF cs[i].id # id THEN <<>>
                                               ELSE FlattenSeq(ofServices(cs[i].services))]
             inside(id) == FlattenSeq(parts(id))
             told(e) == IF e.backend.cid # "" THEN inside(e.backend.cid) ELSE OwnersSeq(owners, e.exe)
             es == surface.exposure
             t == [i \in DOMAIN es |-> [es[i] EXCEPT !.components = told(es[i])]]
  <2>1. Exposed(surface, owners) = t
    BY Zenon DEF Exposed
  <2>2. ASSUME NEW ss, IsListing(ss), \A s \in ToSet(ss) : IsListing(s.components)
        PROVE  IsListing(FlattenSeq(ofServices(ss)))
    <3> DEFINE seqs == ofServices(ss)
               n == Len(ss)
    <3>1. n \in Nat /\ DOMAIN ss = 1..n /\ \A k \in 1..n : IsListing(ss[k].components)
      BY <2>2, ListingEntries
    <3>2. /\ DOMAIN seqs = 1..n /\ seqs = [k \in DOMAIN seqs |-> seqs[k]]
          /\ \A k \in 1..n : IsListing(seqs[k])
      BY <3>1
    <3> HIDE DEF seqs, n
    <3>3. IsListing(FlattenSeq(seqs))
      BY <3>1, <3>2, FlattenLists
    <3> QED
      BY <3>3 DEF seqs
  <2> HIDE DEF ofServices
  <2>3. ASSUME NEW id PROVE IsListing(inside(id))
    <3> DEFINE seqs == parts(id)
               n == Len(cs)
    <3>1. n \in Nat /\ DOMAIN cs = 1..n /\ \A k \in DOMAIN cs : cs[k] \in ToSet(cs)
      BY <1>1, ListingEntries
    <3>2. ASSUME NEW k \in 1..n PROVE IsListing(seqs[k])
      <4>1. IsListing(FlattenSeq(ofServices(cs[k].services)))
        <5>1. cs[k] \in ToSet(cs)
          BY <3>1
        <5>2. IsListing(cs[k].services) /\ \A s \in ToSet(cs[k].services) : IsListing(s.components)
          BY <1>2, <5>1 DEF Listeners
        <5> QED
          BY <2>2, <5>2
      <4>2. IsListing(<<>>)
        BY DEF IsListing, ToSet
      <4> QED
        BY <3>1, <4>1, <4>2
    <3>3. DOMAIN seqs = 1..n /\ seqs = [k \in DOMAIN seqs |-> seqs[k]]
      BY <3>1
    <3> HIDE DEF seqs, n
    <3>4. IsListing(FlattenSeq(seqs))
      BY <3>1, <3>2, <3>3, FlattenLists
    <3> QED
      BY <3>4 DEF seqs
  <2> HIDE DEF inside
  <2>4. ASSUME NEW e PROVE IsListing(told(e))
    BY <2>3, OwnersAreHostPurls
  <2> HIDE DEF told
  <2>5. Len(es) \in Nat /\ DOMAIN es = 1..Len(es) /\ \A i \in DOMAIN es : IsRow(es[i])
    BY <1>1, ListingEntries
  <2>6. DOMAIN t = 1..Len(es) /\ t = [i \in DOMAIN t |-> t[i]]
    BY <2>5
  <2>7. ASSUME NEW i \in DOMAIN es PROVE t[i].components = told(es[i])
    <3> PICK e, v : e = es[i] /\ v = told(es[i])
      OBVIOUS
    <3>1. t[i] = [e EXCEPT !.components = v] /\ IsRow(e)
      BY <2>5
    <3> HIDE DEF t
    <3> QED
      BY <3>1 DEF IsRow
  <2> HIDE DEF t
  <2>8. IsListing(t)
    BY <2>5, <2>6, FunctionLists
  <2>9. \A e \in ToSet(t) : IsListing(e.components)
    BY <2>4, <2>5, <2>6, <2>7, <2>8, ListingEntries
  <2> QED
    BY <2>1, <2>8, <2>9
<1> QED
  BY <1>1, <1>2, <1>5, <1>6, <1>7

\* With whatever record types it is written.
LEMMA ReportStreams ==
  ASSUME NEW mode, NEW packages, ArePackages(packages), NEW surface \in Surfaces,
         NEW r, Ready(r, mode, packages, surface),
         NEW base, IsListing(base.components), Compared(r, base),
         NEW include, NEW q, q = [r EXCEPT !.include = include]
  PROVE  IsStreamed(q) /\ IsListing(r.components)
<1>1. IsListing(r.components)
  <2>1. CASE r.components = r.inventory
    BY <2>1 DEF Ready, SameList, IsInventory
  <2>2. CASE r.components # r.inventory
    <3>1. PICK s : IsListing(s) /\ r.components = DeltaComponents(ComputeDelta(s, base.components), r.inventory)
      BY <2>2 DEF Compared, IsInventory
    <3> PICK list : list = base.components
      OBVIOUS
    <3> PICK cs : cs = r.inventory
      OBVIOUS
    <3>2. IsListing(DeltaComponents(ComputeDelta(s, list), cs))
      BY <3>1, DeltaLists
    <3> QED
      BY <3>1, <3>2
  <2> QED
    BY <2>1, <2>2
<1>2. /\ q.components = r.components /\ q.services = r.services /\ q.links = r.links
      /\ q.containers = r.containers /\ q.exposure = r.exposure /\ q.config = r.config
  BY DEF Ready, IsReport
<1> PICK owners : owners = ScanOf(packages, surface).fileOwners
  OBVIOUS
<1>3. /\ r.services = AttachLinks(surface, owners).services
      /\ r.links = AttachLinks(surface, owners).links
      /\ r.exposure = Exposed(surface, owners)
      /\ r.config = surface.config /\ r.containers = surface.containers
  BY DEF Ready, Surfaced
<1>4. /\ Listeners(AttachLinks(surface, owners).services)
      /\ Listeners(AttachLinks(surface, owners).links)
      /\ IsListing(Exposed(surface, owners))
      /\ \A e \in ToSet(Exposed(surface, owners)) : IsListing(e.components)
      /\ IsListing(surface.config) /\ IsListing(surface.containers)
      /\ \A c \in ToSet(surface.containers) : Listeners(c.services)
  BY SurfaceStreams
<1> QED
  BY <1>1, <1>2, <1>3, <1>4 DEF IsStreamed

CountsInv == MachineOK /\ IsListing(baseline.components) /\ CountsMatchStream

LEMMA CountsKeep ==
  ASSUME CountsInv, [SeriesNext]_seriesVars
  PROVE  CountsInv'
<1> USE DEF CountsInv
<1>1. CASE UNCHANGED seriesVars
  BY <1>1 DEF seriesVars, MachineOK, CountsMatchStream, Reported
<1>2. CASE SoftwareChanges
  <2>1. MachineOK'
    BY <1>2, SoftwareStays
  <2>2. report' = NoReport /\ baseline' = baseline
    BY <1>2 DEF SoftwareChanges
  <2> QED
    BY <2>1, <2>2 DEF CountsMatchStream, Reported
<1>3. CASE SeriesNext /\ ~SoftwareChanges
  <2>1. PICK mode \in Modes, order \in Orders, merged \in BOOLEAN, surface \in Surfaces, forced \in BOOLEAN :
          /\ ArePackages(Packages(order, merged))
          /\ Done(mode, Packages(order, merged), surface, forced)
    BY <1>3, RunOfMachine
  <2>2. PICK packages, base, r : packages = Packages(order, merged) /\ base = baseline /\ r = report'
    OBVIOUS
  <2>3. /\ Ready(r, mode, packages, surface) /\ Compared(r, base) /\ machine' = machine
        /\ baseline' = IF mode.aside THEN base
                       ELSE [kind |-> "report", components |-> r.components,
                             only |-> mode.deltaOnly /\ r.delta # NoDelta]
    BY <2>1, <2>2 DEF Done
  <2>4. MachineOK'
    BY <2>3 DEF MachineOK
  <2>5. IsListing(r.components)
    <3> PICK q : q = [r EXCEPT !.include = {}]
      OBVIOUS
    <3> QED
      BY <2>1, <2>2, <2>3, ReportStreams
  <2>6. IsListing(baseline.components)'
    <3>1. baseline'.components = IF mode.aside THEN base.components ELSE r.components
      BY <2>3
    <3> QED
      BY <2>2, <2>5, <3>1
  <2>7. ASSUME NEW include PROVE WriteNDJSON([r EXCEPT !.include = include]).ok
    <3> PICK q : q = [r EXCEPT !.include = include]
      OBVIOUS
    <3>1. IsStreamed(q)
      BY <2>1, <2>2, <2>3, ReportStreams
    <3>2. WriteNDJSON(q).ok
      BY <3>1, StreamIsCounted
    <3> QED
      BY <3>2
  <2>8. CountsMatchStream'
    BY <2>2, <2>7 DEF CountsMatchStream
  <2> QED
    BY <2>4, <2>6, <2>8
<1> QED
  BY <1>1, <1>2, <1>3

\* WriteNDJSON never refuses its own stream: what the manifest announces before a line is
\* built is what the lines are, whatever record types were asked for, also of a delta and of
\* an unchanged inventory (countLinkLines, countExposureLines, reconcileNDJSON).
THEOREM CountsMatchStreamAlways == SeriesSpec => []CountsMatchStream
<1>1. SeriesInit => CountsInv
  <2>1. IsListing(<<>>)
    BY DEF IsListing, ToSet
  <2> QED
    BY <2>1, SeriesConstants DEF SeriesInit, CountsInv, MachineOK, CountsMatchStream, Reported, NoBaseline
<1>2. CountsInv /\ [SeriesNext]_seriesVars => CountsInv'
  BY CountsKeep
<1>3. CountsInv => CountsMatchStream
  BY DEF CountsInv
<1> QED
  BY <1>1, <1>2, <1>3, PTL DEF SeriesSpec

-----------------------------------------------------------------------------
(* What a page shows of a stream.                                          *)

\* What stands at the positions K is a list, as long as they are many.
LEMMA AtSize ==
  ASSUME NEW list, IsListing(list), NEW K, K \subseteq DOMAIN list
  PROVE  /\ IsListing(At(list, K)) /\ Len(At(list, K)) = Cardinality(K)
         /\ ToSet(At(list, K)) = {list[k] : k \in K}
<1> DEFINE t == At(list, K)
<1>1. Len(list) \in Nat /\ DOMAIN list = 1..Len(list)
  BY ListingEntries
<1>2. IsFiniteSet(K) /\ K \subseteq Nat
  <2>1. IsFiniteSet(1..Len(list)) /\ 1..Len(list) \subseteq Nat
    BY <1>1, FS_Interval
  <2> QED
    BY <1>1, <2>1, FS_Subset
<1>3. DOMAIN Positions(K) = 1..Cardinality(K) /\ Cardinality(K) \in Nat
  BY <1>2, PositionsLists, FS_CardinalityType
<1>4. DOMAIN t = 1..Cardinality(K) /\ t = [k \in DOMAIN t |-> t[k]]
  BY <1>3 DEF At
<1>5. /\ \A k \in K : \E n \in DOMAIN t : t[n] = list[k]
      /\ \A n \in DOMAIN t : \E k \in K : t[n] = list[k]
  <2>1. list \in Seq(ToSet(list))
    BY DEF IsListing
  <2> QED
    BY <2>1, AtLists
<1> HIDE DEF t
<1>6. IsListing(t) /\ Len(t) = Cardinality(K)
  BY <1>3, <1>4, FunctionLists
<1>7. ToSet(t) = {list[k] : k \in K}
  BY <1>5 DEF ToSet
<1> QED
  BY <1>6, <1>7 DEF t

LEMMA OfTells ==
  ASSUME NEW lines, IsListing(lines), NEW type
  PROVE  /\ IsListing(Of(type, lines)) /\ Len(Of(type, lines)) = Count(lines, type)
         /\ ToSet(Of(type, lines)) = {x \in ToSet(lines) : x.kind = type}
<1> DEFINE K == {i \in DOMAIN lines : lines[i].kind = type}
<1>1. K \subseteq DOMAIN lines
  OBVIOUS
<1>2. Of(type, lines) = At(lines, K) /\ Count(lines, type) = Cardinality(K)
  BY DEF Of, Count
<1>3. {lines[k] : k \in K} = {x \in ToSet(lines) : x.kind = type}
  BY DEF ToSet
<1> HIDE DEF K
<1>4. /\ IsListing(At(lines, K)) /\ Len(At(lines, K)) = Cardinality(K)
      /\ ToSet(At(lines, K)) = {lines[k] : k \in K}
  BY <1>1, AtSize
<1> QED
  BY <1>2, <1>3, <1>4

\* The lines of a type that end a stream are all of that type, in their order.
LEMMA OfTheLast ==
  ASSUME NEW front, IsListing(front), NEW type, \A x \in ToSet(front) : x.kind # type,
         NEW last, LinesOf(last, type)
  PROVE  /\ DOMAIN Of(type, front \o last) = DOMAIN last
         /\ \A k \in DOMAIN last : Of(type, front \o last)[k] = last[k]
<1> DEFINE lines == front \o last
           a == Len(front)
           n == Len(last)
           K == {i \in DOMAIN lines : lines[i].kind = type}
           P == Positions(K)
<1>1. /\ a \in Nat /\ DOMAIN front = 1..a /\ n \in Nat /\ DOMAIN last = 1..n
      /\ \A k \in 1..a : front[k].kind # type
      /\ \A k \in 1..n : last[k].kind = type
  BY ListingEntries DEF LinesOf
<1>2. /\ IsListing(lines) /\ Len(lines) = a + n /\ \A k \in 1..a : lines[k] = front[k]
      /\ \A k \in 1..n : lines[a + k] = last[k]
  BY ConcatLists DEF LinesOf
<1> HIDE DEF lines
<1>3. DOMAIN lines = 1..(a + n)
  BY <1>2, ListingEntries
<1> HIDE DEF a, n
<1>4. K = (a + 1)..(a + n)
  <2>1. ASSUME NEW i \in K PROVE i \in (a + 1)..(a + n)
    BY <1>1, <1>2, <1>3
  <2>2. ASSUME NEW i \in (a + 1)..(a + n) PROVE i \in K
    <3>1. i - a \in 1..n /\ a + (i - a) = i /\ i \in 1..(a + n)
      BY <1>1
    <3> QED
      BY <1>1, <1>2, <1>3, <3>1
  <2> QED
    BY <2>1, <2>2
<1>5. Of(type, lines) = [k \in DOMAIN P |-> lines[P[k]]]
  BY DEF Of, At
<1> HIDE DEF K, P
<1>6. IsFiniteSet(K) /\ K \subseteq Nat /\ Cardinality(K) = n
  <2>1. IsFiniteSet((a + 1)..(a + n)) /\ Cardinality((a + 1)..(a + n)) = IF a + 1 > a + n THEN 0 ELSE (a + n) - (a + 1) + 1
    BY <1>1, FS_Interval
  <2>2. (IF a + 1 > a + n THEN 0 ELSE (a + n) - (a + 1) + 1) = n
    BY <1>1
  <2>3. (a + 1)..(a + n) \subseteq Nat
    BY <1>1
  <2> QED
    BY <1>4, <2>1, <2>2, <2>3
<1>7. /\ DOMAIN P = 1..n
      /\ \A k \in 1..n : P[k] \in K /\ Cardinality({j \in K : j <= P[k]}) = k
  BY <1>6, PositionsRank DEF P
<1>8. ASSUME NEW k \in 1..n PROVE P[k] = a + k
  <2>1. P[k] \in (a + 1)..(a + n)
    BY <1>4, <1>7
  <2> PICK i : i = P[k]
    OBVIOUS
  <2>2. {j \in K : j <= i} = (a + 1)..i
    BY <1>1, <1>4, <2>1
  <2>3. Cardinality((a + 1)..i) = i - (a + 1) + 1
    <3>1. a + 1 \in Int /\ i \in Int /\ ~(a + 1 > i)
      BY <1>1, <2>1
    <3> QED
      BY <3>1, FS_Interval
  <2>4. i - (a + 1) + 1 = k
    BY <1>7, <2>2, <2>3
  <2> QED
    BY <1>1, <2>1, <2>4
<1>9. ASSUME NEW k \in 1..n PROVE Of(type, lines)[k] = last[k]
  <2>1. Of(type, lines)[k] = lines[P[k]]
    BY <1>5, <1>7
  <2> QED
    BY <1>2, <1>8, <2>1
<1> QED
  BY <1>1, <1>5, <1>7, <1>9 DEF lines

\* One head for each key, with it.
Leads(h, s, keys) ==
  /\ IsListing(h) /\ Len(h) = Cardinality({keys[i] : i \in DOMAIN s})
  /\ \A n \in DOMAIN h : \E k \in DOMAIN s : h[n] = s[k]
  /\ \A i \in DOMAIN s : \E k \in DOMAIN s : keys[k] = keys[i] /\ \E n \in DOMAIN h : h[n] = s[k]

LEMMA FirstOfTells ==
  ASSUME NEW s, IsListing(s), NEW keys, DOMAIN keys = DOMAIN s,
         NEW h, h = FirstOf(s, keys)
  PROVE  Leads(h, s, keys)
<1> DEFINE K == {i \in DOMAIN s : \A j \in 1..(i - 1) : keys[j] # keys[i]}
           T == {keys[i] : i \in DOMAIN s}
<1>1. h = At(s, K)
  BY DEF FirstOf
<1>2. Len(s) \in Nat /\ DOMAIN s = 1..Len(s)
  BY ListingEntries
<1>3. ASSUME NEW i \in DOMAIN s PROVE \E k \in K : keys[k] = keys[i]
  <2> DEFINE same == {j \in DOMAIN s : keys[j] = keys[i]}
  <2>1. same \subseteq Nat /\ same # {}
    BY <1>2
  <2>2. Least(same) \in same /\ \A y \in same : Least(same) <= y
    <3> HIDE DEF same
    <3> QED
      BY <2>1, LeastNumber
  <2> PICK k : k = Least(same)
    OBVIOUS
  <2>3. k \in DOMAIN s /\ keys[k] = keys[i]
    BY <2>2
  <2>4. ASSUME NEW j \in 1..(k - 1) PROVE keys[j] # keys[k]
    <3>1. j \in DOMAIN s /\ ~(k <= j)
      BY <1>2, <2>3
    <3> QED
      BY <2>2, <2>3, <3>1
  <2> QED
    BY <2>3, <2>4
<1>4. \A x, y \in K : keys[x] = keys[y] => x = y
  <2> SUFFICES ASSUME NEW x \in K, NEW y \in K, keys[x] = keys[y], x # y PROVE FALSE
    OBVIOUS
  <2>1. x \in 1..Len(s) /\ y \in 1..Len(s)
    BY <1>2
  <2>2. CASE x < y
    <3>1. x \in 1..(y - 1)
      BY <2>1, <2>2
    <3> QED
      BY <3>1
  <2>3. CASE y < x
    <3>1. y \in 1..(x - 1)
      BY <2>1, <2>3
    <3> QED
      BY <3>1
  <2> QED
    BY <2>1, <2>2, <2>3
<1>5. K \subseteq DOMAIN s
  OBVIOUS
<1> HIDE DEF K
<1>6. IsListing(h) /\ Len(h) = Cardinality(K) /\ ToSet(h) = {s[k] : k \in K}
  BY <1>1, <1>5, AtSize
<1>7. Cardinality(T) = Cardinality(K)
  <2> PICK f : f = [k \in K |-> keys[k]]
    OBVIOUS
  <2>1. f \in [K -> T]
    BY <1>5
  <2>2. \A z \in T : \E k \in K : f[k] = z
    BY <1>3
  <2>3. IsFiniteSet(K)
    <3>1. IsFiniteSet(1..Len(s))
      BY <1>2, FS_Interval
    <3> QED
      BY <1>2, <1>5, <3>1, FS_Subset
  <2> HIDE DEF T
  <2> QED
    BY <1>4, <2>1, <2>2, <2>3, SameSize
<1>8. \A n \in DOMAIN h : \E k \in DOMAIN s : h[n] = s[k]
  BY <1>5, <1>6, ListingEntries
<1>9. ASSUME NEW k \in K PROVE \E n \in DOMAIN h : h[n] = s[k]
  <2> PICK x : x = s[k]
    OBVIOUS
  <2>1. x \in ToSet(h)
    BY <1>6
  <2>2. \E n \in DOMAIN h : x = h[n]
    BY <2>1 DEF ToSet
  <2> QED
    BY <2>2
<1> QED
  BY <1>3, <1>5, <1>6, <1>7, <1>8, <1>9 DEF Leads

LEMMA ConcatAssociates ==
  ASSUME NEW a, IsListing(a), NEW b, IsListing(b), NEW c, IsListing(c)
  PROVE  a \o (b \o c) = (a \o b) \o c
<1> PICK x, y : x = a \o b /\ y = b \o c
  OBVIOUS
<1>1. IsListing(x) /\ IsListing(y) /\ Len(x) = Len(a) + Len(b) /\ Len(y) = Len(b) + Len(c)
      /\ (\A k \in 1..Len(a) : x[k] = a[k]) /\ (\A k \in 1..Len(b) : x[Len(a) + k] = b[k])
      /\ (\A k \in 1..Len(b) : y[k] = b[k]) /\ (\A k \in 1..Len(c) : y[Len(b) + k] = c[k])
  BY ConcatLists
<1> PICK u, v : u = a \o y /\ v = x \o c
  OBVIOUS
<1>2. IsListing(u) /\ IsListing(v) /\ Len(u) = Len(a) + Len(y) /\ Len(v) = Len(x) + Len(c)
      /\ (\A k \in 1..Len(a) : u[k] = a[k]) /\ (\A k \in 1..Len(y) : u[Len(a) + k] = y[k])
      /\ (\A k \in 1..Len(x) : v[k] = x[k]) /\ (\A k \in 1..Len(c) : v[Len(x) + k] = c[k])
  BY <1>1, ConcatLists
<1> PICK n, m, p : n = Len(a) /\ m = Len(b) /\ p = Len(c)
  OBVIOUS
<1>3. n \in Nat /\ m \in Nat /\ p \in Nat
  BY ListingEntries
<1>4. Len(u) = n + (m + p) /\ Len(v) = (n + m) + p
  BY <1>1, <1>2
<1>5. ASSUME NEW k \in 1..((n + m) + p) PROVE u[k] = v[k]
  <2>1. CASE k <= n
    <3>1. k \in 1..n /\ k \in 1..(n + m)
      BY <1>3, <2>1
    <3> QED
      BY <1>1, <1>2, <3>1
  <2>2. CASE n < k /\ k <= n + m
    <3>1. k - n \in 1..m /\ k - n \in 1..(m + p) /\ k \in 1..(n + m) /\ n + (k - n) = k
      BY <1>3, <2>2
    <3>2. u[k] = y[k - n] /\ v[k] = x[k]
      BY <1>1, <1>2, <3>1
    <3>3. y[k - n] = b[k - n] /\ x[k] = b[k - n]
      BY <1>1, <3>1
    <3> QED
      BY <3>2, <3>3
  <2>3. CASE n + m < k
    <3>1. /\ k - (n + m) \in 1..p /\ k - n \in 1..(m + p) /\ n + (k - n) = k
          /\ m + (k - (n + m)) = k - n /\ (n + m) + (k - (n + m)) = k
      BY <1>3, <2>3
    <3>2. u[k] = y[k - n]
      BY <1>1, <1>2, <3>1
    <3>3. v[k] = c[k - (n + m)]
      BY <1>1, <1>2, <3>1
    <3>4. y[k - n] = c[k - (n + m)]
      BY <1>1, <3>1
    <3> QED
      BY <3>2, <3>3, <3>4
  <2> QED
    BY <1>3, <2>1, <2>2, <2>3
<1>6. u = [k \in 1..Len(u) |-> u[k]] /\ v = [k \in 1..Len(v) |-> v[k]]
  BY <1>2, ListingEntries
<1>7. Len(u) = (n + m) + p /\ Len(v) = (n + m) + p
  BY <1>3, <1>4
<1>8. u = v
  BY <1>5, <1>6, <1>7
<1> QED
  BY <1>8

\* The component records of a stream.
Body(r) == IF r.digest # NoDigest /\ r.unchanged THEN <<>> ELSE ComponentLines(r)

\* The lines of the types a page is built from, as they stand in a stream.
LEMMA StreamTells ==
  ASSUME NEW r, IsStreamed(r), NEW lines, lines = WriteNDJSON(r).lines
  PROVE  /\ IsListing(lines)
         /\ DOMAIN Of("component", lines) = DOMAIN Body(r)
         /\ \A k \in DOMAIN Body(r) : Of("component", lines)[k] = Body(r)[k]
         /\ {x \in ToSet(lines) : x.kind = "exposure"} =
              IF Includes(r, "exposure") THEN ToSet(ExposureLines(r)) ELSE {}
         /\ {x \in ToSet(lines) : x.kind = "link"} =
              IF Includes(r, "link") /\ ~r.unchanged THEN ToSet(LinkLines(r)) ELSE {}
<1> DEFINE h == IF r.digest # NoDigest THEN <<ManifestRecord(r)>> ELSE <<>>
           e == IF Includes(r, "exposure") THEN ExposureLines(r) ELSE <<>>
           c == IF Includes(r, "container") THEN ContainerLines(r) ELSE <<>>
           l == IF Includes(r, "link") /\ ~r.unchanged THEN LinkLines(r) ELSE <<>>
           f == IF Includes(r, "config") THEN ConfigLines(r) ELSE <<>>
           m == Body(r)
<1>1. \A type : LinesOf(<<>>, type) /\ ToSet(<<>>) = {}
  <2>1. IsListing(<<>>) /\ ToSet(<<>>) = {}
    BY DEF IsListing, ToSet
  <2> QED
    BY <2>1 DEF LinesOf
<1>2. LinesOf(h, "heartbeat")
  <2> PICK b : b = ManifestRecord(r)
    OBVIOUS
  <2>1. b.kind = "heartbeat"
    BY DEF ManifestRecord
  <2>2. IsListing(<<b>>) /\ ToSet(<<b>>) = {b}
    BY DEF IsListing, ToSet
  <2> QED
    BY <1>1, <2>1, <2>2 DEF LinesOf
<1>3. /\ LinesOf(e, "exposure") /\ ToSet(e) = IF Includes(r, "exposure") THEN ToSet(ExposureLines(r)) ELSE {}
      /\ LinesOf(c, "container")
      /\ LinesOf(l, "link") /\ ToSet(l) = IF Includes(r, "link") /\ ~r.unchanged THEN ToSet(LinkLines(r)) ELSE {}
      /\ LinesOf(f, "config")
      /\ LinesOf(m, "component")
  BY <1>1, ExposureWritten, LinksWritten, OthersWritten DEF Body
<1>4. lines = h \o ((((e \o c) \o l) \o f) \o m)
  BY Zenon DEF WriteNDJSON, ExtraRecords, Body
<1> HIDE DEF h, e, c, l, f, m
<1>5. IsListing(h) /\ IsListing(e) /\ IsListing(c) /\ IsListing(l) /\ IsListing(f) /\ IsListing(m)
  BY <1>2, <1>3 DEF LinesOf
<1> PICK ec : ec = e \o c
  OBVIOUS
<1>6. IsListing(ec) /\ ToSet(ec) = ToSet(e) \cup ToSet(c)
  BY <1>5, ConcatLists
<1> PICK ecl : ecl = ec \o l
  OBVIOUS
<1>7. IsListing(ecl) /\ ToSet(ecl) = ToSet(ec) \cup ToSet(l)
  BY <1>5, <1>6, ConcatLists
<1> PICK eclf : eclf = ecl \o f
  OBVIOUS
<1>8. IsListing(eclf) /\ ToSet(eclf) = ToSet(ecl) \cup ToSet(f)
  BY <1>5, <1>7, ConcatLists
<1> PICK front : front = h \o eclf
  OBVIOUS
<1>9. IsListing(front) /\ ToSet(front) = ToSet(h) \cup ToSet(eclf)
  BY <1>5, <1>8, ConcatLists
<1>10. lines = front \o m
  <2>1. lines = h \o (eclf \o m)
    BY <1>4
  <2>2. h \o (eclf \o m) = (h \o eclf) \o m
    <3> PICK a, b, z : a = h /\ b = eclf /\ z = m
      OBVIOUS
    <3>1. IsListing(a) /\ IsListing(b) /\ IsListing(z)
      BY <1>5, <1>8
    <3>2. a \o (b \o z) = (a \o b) \o z
      BY <3>1, ConcatAssociates
    <3> QED
      BY <3>2
  <2> QED
    BY <2>1, <2>2
<1>11. IsListing(lines) /\ ToSet(lines) = ToSet(front) \cup ToSet(m)
  <2>1. IsListing(front \o m) /\ ToSet(front \o m) = ToSet(front) \cup ToSet(m)
    BY <1>5, <1>9, ConcatLists
  <2> QED
    BY <1>10, <2>1
<1>12. ToSet(front) = ToSet(h) \cup ToSet(e) \cup ToSet(c) \cup ToSet(l) \cup ToSet(f)
  BY <1>6, <1>7, <1>8, <1>9
<1>13. /\ \A x \in ToSet(h) : x.kind = "heartbeat"
       /\ \A x \in ToSet(e) : x.kind = "exposure"
       /\ \A x \in ToSet(c) : x.kind = "container"
       /\ \A x \in ToSet(l) : x.kind = "link"
       /\ \A x \in ToSet(f) : x.kind = "config"
       /\ \A x \in ToSet(m) : x.kind = "component"
  BY <1>2, <1>3 DEF LinesOf
<1>14. \A x \in ToSet(front) : x.kind # "component"
  BY <1>12, <1>13
<1>15. /\ DOMAIN Of("component", front \o m) = DOMAIN m
       /\ \A k \in DOMAIN m : Of("component", front \o m)[k] = m[k]
  BY <1>3, <1>9, <1>14, OfTheLast
<1>16. {x \in ToSet(lines) : x.kind = "exposure"} = ToSet(e)
  BY <1>11, <1>12, <1>13
<1>17. {x \in ToSet(lines) : x.kind = "link"} = ToSet(l)
  BY <1>11, <1>12, <1>13
<1> QED
  BY <1>3, <1>10, <1>11, <1>15, <1>16, <1>17 DEF m

\* Each component record once, in its place.
LEMMA PageComponents ==
  ASSUME NEW r, IsStreamed(r), NEW lines, lines = WriteNDJSON(r).lines,
         NEW cs, cs = NdjsonComponents(lines)
  PROVE  /\ Len(cs) = IF r.digest # NoDigest /\ r.unchanged THEN 0 ELSE Len(r.components)
         /\ \A i \in DOMAIN cs : Key(cs[i]) = Key(r.components[i])
<1> PICK m : m = Body(r)
  OBVIOUS
<1> PICK mine : mine = Of("component", lines)
  OBVIOUS
<1>1. DOMAIN mine = DOMAIN m /\ \A k \in DOMAIN m : mine[k] = m[k]
  BY StreamTells
<1>2. cs = [i \in DOMAIN mine |-> [name |-> mine[i].name, version |-> mine[i].version,
         typ |-> mine[i].typ, purl |-> mine[i].purl, root |-> mine[i].root,
         source |-> mine[i].source]]
  BY DEF NdjsonComponents
<1>3. Len(m) \in Nat /\ DOMAIN m = 1..Len(m)
      /\ Len(m) = IF r.digest # NoDigest /\ r.unchanged THEN 0 ELSE Len(r.components)
  <2>1. IsListing(<<>>) /\ Len(<<>>) = 0
    BY DEF IsListing, ToSet
  <2>2. IsListing(ComponentLines(r)) /\ Len(ComponentLines(r)) = Len(r.components)
    BY OthersWritten DEF LinesOf
  <2>3. IsListing(m)
    BY <2>1, <2>2 DEF Body
  <2> QED
    BY <2>1, <2>2, <2>3, ListingEntries DEF Body
<1>4. Len(cs) = Len(m)
  <2>1. DOMAIN cs = 1..Len(m) /\ cs = [i \in DOMAIN cs |-> cs[i]]
    BY <1>1, <1>2, <1>3
  <2> QED
    BY <1>3, <2>1, FunctionLists
<1>5. ASSUME NEW i \in DOMAIN cs PROVE Key(cs[i]) = Key(r.components[i])
  <2>1. i \in DOMAIN m /\ mine[i] = m[i]
    BY <1>1, <1>2
  <2>2. m = ComponentLines(r)
    <3>1. CASE r.digest # NoDigest /\ r.unchanged
      BY <1>3, <2>1, <3>1
    <3> QED
      BY <3>1 DEF Body
  <2> PICK c : c = r.components[i]
    OBVIOUS
  <2>3. m[i] = [kind |-> "component", name |-> c.name, version |-> c.version,
                typ |-> c.typ, purl |-> c.purl, root |-> c.root,
                source |-> c.source, change |-> c.change]
    BY <2>1, <2>2 DEF ComponentLines
  <2> PICK x, y : x = mine[i] /\ y = cs[i]
    OBVIOUS
  <2>4. y = [name |-> x.name, version |-> x.version, typ |-> x.typ, purl |-> x.purl,
             root |-> x.root, source |-> x.source]
    BY <1>2
  <2>5. x = [kind |-> "component", name |-> c.name, version |-> c.version,
                typ |-> c.typ, purl |-> c.purl, root |-> c.root,
                source |-> c.source, change |-> c.change]
    BY <2>1, <2>3
  <2>6. Key(y) = Key(c)
    BY <2>4, <2>5 DEF Key
  <2> QED
    BY <2>6
<1> QED
  BY <1>3, <1>4, <1>5

\* The listeners that lines make, and the binaries.
RowsOf(all) ==
  LET heads == FirstOf(all, [i \in DOMAIN all |-> all[i].key])
  IN  [i \in DOMAIN heads |->
         [key |-> heads[i].key, exe |-> heads[i].exe,
          components |-> LET mine == At(all, {k \in DOMAIN all : all[k].key = heads[i].key
                                                       /\ all[k].purl # <<>>})
                         IN  [j \in DOMAIN mine |-> mine[j].purl]]]
BinariesOf(all) ==
  LET heads == FirstOf(all, [i \in DOMAIN all |-> all[i].exe])
  IN  [i \in DOMAIN heads |->
         [exe |-> heads[i].exe, purl |-> heads[i].exePurl,
          links |-> LET mine == At(all, {k \in DOMAIN all : all[k].exe = heads[i].exe})
                    IN  [j \in DOMAIN mine |-> [soname |-> mine[j].soname,
                                                path |-> mine[j].path, purl |-> mine[j].purl]]]]

LEMMA RowsTell ==
  ASSUME NEW all, IsListing(all), NEW rows, rows = RowsOf(all)
  PROVE  /\ {p.key : p \in ToSet(rows)} = {x.key : x \in ToSet(all)}
         /\ Len(rows) = Cardinality({x.key : x \in ToSet(all)})
         /\ \A x \in ToSet(all), p \in ToSet(rows) :
              p.key = x.key /\ x.purl # <<>> => x.purl \in ToSet(p.components)
<1> DEFINE keys == [i \in DOMAIN all |-> all[i].key]
           heads == FirstOf(all, keys)
           mine(x) == At(all, {k \in DOMAIN all : all[k].key = x.key /\ all[k].purl # <<>>})
           told(x) == [j \in DOMAIN mine(x) |-> mine(x)[j].purl]
<1>1. rows = [i \in DOMAIN heads |-> [key |-> heads[i].key, exe |-> heads[i].exe,
                                      components |-> told(heads[i])]]
  BY DEF RowsOf
<1>2. DOMAIN keys = DOMAIN all /\ \A i \in DOMAIN all : keys[i] = all[i].key
  OBVIOUS
<1>3. ASSUME NEW x \in ToSet(all), x.purl # <<>>, NEW y, y.key = x.key
      PROVE  x.purl \in ToSet(told(y))
  <2> DEFINE S == {k \in DOMAIN all : all[k].key = y.key /\ all[k].purl # <<>>}
  <2>1. PICK i \in DOMAIN all : x = all[i]
    BY DEF ToSet
  <2>2. i \in S /\ S \subseteq DOMAIN all
    BY <1>3, <2>1
  <2>3. mine(y) = At(all, S)
    OBVIOUS
  <2> HIDE DEF S
  <2>4. ToSet(At(all, S)) = {all[k] : k \in S}
    BY <2>2, AtSize
  <2> PICK t : t = mine(y)
    OBVIOUS
  <2>5. PICK j \in DOMAIN t : t[j] = all[i]
    BY <2>2, <2>3, <2>4 DEF ToSet
  <2>6. told(y) = [k \in DOMAIN t |-> t[k].purl]
    OBVIOUS
  <2> HIDE DEF told
  <2> PICK w : w = told(y)
    OBVIOUS
  <2>7. j \in DOMAIN w /\ w[j] = x.purl
    BY <2>1, <2>5, <2>6
  <2> QED
    BY <2>7 DEF ToSet
<1> HIDE DEF keys, told
<1> PICK ks : ks = keys
  OBVIOUS
<1>4. Leads(heads, all, ks)
  BY <1>2, FirstOfTells
<1> HIDE DEF heads
<1> PICK hs : hs = heads
  OBVIOUS
<1>5. /\ IsListing(hs) /\ Len(hs) = Cardinality({ks[i] : i \in DOMAIN all})
      /\ \A n \in DOMAIN hs : \E k \in DOMAIN all : hs[n] = all[k]
      /\ \A i \in DOMAIN all : \E k \in DOMAIN all : ks[k] = ks[i] /\ \E n \in DOMAIN hs : hs[n] = all[k]
  BY <1>4 DEF Leads
<1>6. \A i \in DOMAIN all : ks[i] = all[i].key
  BY <1>2
<1>7. {ks[i] : i \in DOMAIN all} = {x.key : x \in ToSet(all)}
  <2>1. {x.key : x \in ToSet(all)} = {all[i].key : i \in DOMAIN all}
    BY DEF ToSet
  <2> QED
    BY <1>6, <2>1
<1>8. rows = [i \in DOMAIN hs |-> [key |-> hs[i].key, exe |-> hs[i].exe, components |-> told(hs[i])]]
  BY <1>1
<1>9. Len(rows) = Len(hs)
  <2>1. Len(hs) \in Nat /\ DOMAIN rows = 1..Len(hs) /\ rows = [i \in DOMAIN rows |-> rows[i]]
    BY <1>5, <1>8, ListingEntries
  <2> QED
    BY <2>1, FunctionLists
<1>10. ASSUME NEW p \in ToSet(rows)
       PROVE  \E n \in DOMAIN hs : p.key = hs[n].key /\ p.components = told(hs[n])
  <2>1. PICK n \in DOMAIN hs : p = rows[n]
    BY <1>8 DEF ToSet
  <2> PICK x : x = hs[n]
    OBVIOUS
  <2>2. p = [key |-> x.key, exe |-> x.exe, components |-> told(x)]
    BY <1>8, <2>1
  <2> QED
    BY <2>2
<1>11. ASSUME NEW x \in ToSet(all) PROVE \E p \in ToSet(rows) : p.key = x.key
  <2>1. PICK i \in DOMAIN all : x = all[i]
    BY DEF ToSet
  <2>2. PICK k \in DOMAIN all : ks[k] = ks[i] /\ \E n \in DOMAIN hs : hs[n] = all[k]
    BY <1>5
  <2>3. PICK n \in DOMAIN hs : hs[n] = all[k]
    BY <2>2
  <2> PICK y, p : y = hs[n] /\ p = rows[n]
    OBVIOUS
  <2>4. p = [key |-> y.key, exe |-> y.exe, components |-> told(y)] /\ n \in DOMAIN rows
    BY <1>8
  <2>7. rows[n] \in ToSet(rows)
    <3>1. n \in DOMAIN rows
      BY <2>4
    <3> QED
      BY <3>1 DEF ToSet
  <2>5. p.key = y.key /\ p \in ToSet(rows)
    BY <2>4, <2>7
  <2>6. y.key = x.key
    BY <1>6, <2>1, <2>2, <2>3
  <2> QED
    BY <2>5, <2>6
<1>12. ASSUME NEW p \in ToSet(rows) PROVE \E x \in ToSet(all) : p.key = x.key
  <2>1. PICK n \in DOMAIN hs : p.key = hs[n].key
    BY <1>10
  <2>2. PICK k \in DOMAIN all : hs[n] = all[k]
    BY <1>5
  <2>3. all[k] \in ToSet(all)
    BY DEF ToSet
  <2> QED
    BY <2>1, <2>2, <2>3
<1>13. ASSUME NEW x \in ToSet(all), NEW p \in ToSet(rows), p.key = x.key, x.purl # <<>>
       PROVE  x.purl \in ToSet(p.components)
  <2>1. PICK n \in DOMAIN hs : p.key = hs[n].key /\ p.components = told(hs[n])
    BY <1>10
  <2> PICK y : y = hs[n]
    OBVIOUS
  <2>2. y.key = x.key
    BY <1>13, <2>1
  <2>3. x.purl \in ToSet(told(y))
    BY <1>3, <1>13, <2>2
  <2> QED
    BY <2>1, <2>3
<1>14. {p.key : p \in ToSet(rows)} = {x.key : x \in ToSet(all)}
  BY <1>11, <1>12
<1> QED
  BY <1>5, <1>7, <1>9, <1>13, <1>14

LEMMA BinariesTell ==
  ASSUME NEW all, IsListing(all), NEW rows, rows = BinariesOf(all), NEW x \in ToSet(all)
  PROVE  \E p \in ToSet(rows) : p.exe = x.exe /\ x.path \in {k.path : k \in ToSet(p.links)}
<1> DEFINE exes == [i \in DOMAIN all |-> all[i].exe]
           heads == FirstOf(all, exes)
           mine(y) == At(all, {k \in DOMAIN all : all[k].exe = y.exe})
           loads(y) == [j \in DOMAIN mine(y) |-> [soname |-> mine(y)[j].soname,
                                                  path |-> mine(y)[j].path, purl |-> mine(y)[j].purl]]
<1>1. rows = [i \in DOMAIN heads |-> [exe |-> heads[i].exe, purl |-> heads[i].exePurl,
                                      links |-> loads(heads[i])]]
  BY DEF BinariesOf
<1>2. DOMAIN exes = DOMAIN all /\ \A i \in DOMAIN all : exes[i] = all[i].exe
  OBVIOUS
<1>3. PICK i \in DOMAIN all : x = all[i]
  BY DEF ToSet
<1>4. ASSUME NEW y, y.exe = x.exe PROVE x.path \in {k.path : k \in ToSet(loads(y))}
  <2> DEFINE S == {k \in DOMAIN all : all[k].exe = y.exe}
  <2>1. i \in S /\ S \subseteq DOMAIN all
    BY <1>3, <1>4
  <2>2. mine(y) = At(all, S)
    OBVIOUS
  <2> HIDE DEF S
  <2>3. ToSet(At(all, S)) = {all[k] : k \in S}
    BY <2>1, AtSize
  <2> PICK t : t = mine(y)
    OBVIOUS
  <2>4. PICK j \in DOMAIN t : t[j] = all[i]
    BY <2>1, <2>2, <2>3 DEF ToSet
  <2>5. loads(y) = [k \in DOMAIN t |-> [soname |-> t[k].soname, path |-> t[k].path, purl |-> t[k].purl]]
    OBVIOUS
  <2> HIDE DEF loads
  <2> PICK w, v : w = loads(y) /\ v = t[j]
    OBVIOUS
  <2>6. j \in DOMAIN w /\ w[j] = [soname |-> v.soname, path |-> v.path, purl |-> v.purl]
    BY <2>4, <2>5
  <2>7. w[j].path = x.path
    BY <1>3, <2>4, <2>6
  <2> QED
    BY <2>6, <2>7 DEF ToSet
<1> HIDE DEF exes, loads
<1> PICK es : es = exes
  OBVIOUS
<1>5. Leads(heads, all, es)
  BY <1>2, FirstOfTells
<1> HIDE DEF heads
<1> PICK hs : hs = heads
  OBVIOUS
<1>6. \A m \in DOMAIN all : \E k \in DOMAIN all : es[k] = es[m] /\ \E n \in DOMAIN hs : hs[n] = all[k]
  BY <1>5 DEF Leads
<1>7. PICK k \in DOMAIN all : es[k] = es[i] /\ \E n \in DOMAIN hs : hs[n] = all[k]
  BY <1>6
<1>8. PICK n \in DOMAIN hs : hs[n] = all[k]
  BY <1>7
<1> PICK y, p : y = hs[n] /\ p = rows[n]
  OBVIOUS
<1>9. p = [exe |-> y.exe, purl |-> y.exePurl, links |-> loads(y)] /\ n \in DOMAIN rows
  BY <1>1
<1>10. p \in ToSet(rows) /\ p.exe = y.exe /\ p.links = loads(y)
  <2>1. n \in DOMAIN rows
    BY <1>9
  <2>2. rows[n] \in ToSet(rows)
    BY <2>1 DEF ToSet
  <2> QED
    BY <1>9, <2>2
<1>11. y.exe = x.exe
  BY <1>2, <1>3, <1>7, <1>8
<1> QED
  BY <1>4, <1>10, <1>11

\* One listener for each key of a row, with all its software.
LEMMA PageExposure ==
  ASSUME NEW r, IsStreamed(r), Includes(r, "exposure"),
         \A e \in ToSet(r.exposure) : <<>> \notin ToSet(e.components),
         NEW lines, lines = WriteNDJSON(r).lines, NEW rows, rows = NdjsonExposure(lines)
  PROVE  /\ {p.key : p \in ToSet(rows)} = {e.key : e \in ToSet(r.exposure)}
         /\ Len(rows) = Cardinality({e.key : e \in ToSet(r.exposure)})
         /\ \A e \in ToSet(r.exposure), p \in ToSet(rows) :
              p.key = e.key => ToSet(e.components) \subseteq ToSet(p.components)
<1>1. rows = RowsOf(Of("exposure", lines))
  BY DEF NdjsonExposure, RowsOf
<1>2. IsListing(lines) /\ {x \in ToSet(lines) : x.kind = "exposure"} = ToSet(ExposureLines(r))
  BY StreamTells
<1>3. PICK all : all = Of("exposure", lines)
  OBVIOUS
<1>4. IsListing(all) /\ ToSet(all) = ToSet(ExposureLines(r))
  BY <1>2, <1>3, OfTells
<1>5. /\ \A x \in ToSet(all) : \E e \in ToSet(r.exposure) : x.key = e.key
      /\ \A e \in ToSet(r.exposure) :
           /\ \E x \in ToSet(all) : x.key = e.key
           /\ \A v \in ToSet(e.components) : \E x \in ToSet(all) : x.key = e.key /\ x.purl = v
  <2>1. /\ \A x \in ToSet(ExposureLines(r)) : \E e \in ToSet(r.exposure) : x.key = e.key
        /\ \A e \in ToSet(r.exposure) :
             /\ \E x \in ToSet(ExposureLines(r)) : x.key = e.key
             /\ \A v \in ToSet(e.components) :
                  \E x \in ToSet(ExposureLines(r)) : x.key = e.key /\ x.purl = v
    BY ExposureWritten
  <2> QED
    BY <1>4, <2>1
<1>6. rows = RowsOf(all)
  BY <1>1, <1>3
<1>7. /\ {p.key : p \in ToSet(rows)} = {x.key : x \in ToSet(all)}
      /\ Len(rows) = Cardinality({x.key : x \in ToSet(all)})
      /\ \A x \in ToSet(all), p \in ToSet(rows) :
           p.key = x.key /\ x.purl # <<>> => x.purl \in ToSet(p.components)
  BY <1>4, <1>6, RowsTell
<1>8. {x.key : x \in ToSet(all)} = {e.key : e \in ToSet(r.exposure)}
  BY <1>5
<1>9. ASSUME NEW e \in ToSet(r.exposure), NEW p \in ToSet(rows), p.key = e.key,
             NEW v \in ToSet(e.components)
      PROVE  v \in ToSet(p.components)
  <2>1. PICK x \in ToSet(all) : x.key = e.key /\ x.purl = v
    BY <1>5
  <2>2. v # <<>>
    OBVIOUS
  <2> QED
    BY <1>7, <1>9, <2>1, <2>2
<1> QED
  BY <1>7, <1>8, <1>9

\* Each library under what loads it.
LEMMA PageLinks ==
  ASSUME NEW r, IsStreamed(r), Includes(r, "link"), ~r.unchanged,
         NEW lines, lines = WriteNDJSON(r).lines, NEW rows, rows = NdjsonLinks(lines),
         NEW exe, NEW links, Carries(LinkLines(r), exe, links), NEW l \in ToSet(links)
  PROVE  \E p \in ToSet(rows) : p.exe = exe /\ l.path \in {k.path : k \in ToSet(p.links)}
<1>1. rows = BinariesOf(Of("link", lines))
  BY DEF NdjsonLinks, BinariesOf
<1>2. IsListing(lines) /\ {x \in ToSet(lines) : x.kind = "link"} = ToSet(LinkLines(r))
  BY StreamTells
<1>3. PICK all : all = Of("link", lines)
  OBVIOUS
<1>4. IsListing(all) /\ ToSet(all) = ToSet(LinkLines(r))
  BY <1>2, <1>3, OfTells
<1>5. rows = BinariesOf(all)
  BY <1>1, <1>3
<1>6. PICK x \in ToSet(all) : x.exe = exe /\ x.path = l.path
  BY <1>4 DEF Carries
<1>7. \E p \in ToSet(rows) : p.exe = x.exe /\ x.path \in {k.path : k \in ToSet(p.links)}
  BY <1>4, <1>5, BinariesTell
<1> QED
  BY <1>6, <1>7

\* What a page shows of a report.
Shows(page, r) ==
  LET inside == UNION {ToSet(c.services) : c \in ToSet(r.containers)}
  IN  /\ Len(page.components) = (IF r.unchanged THEN 0 ELSE Len(r.components))
      /\ \A i \in DOMAIN page.components :
           Key(page.components[i]) = Key(r.components[i])
      /\ "exposure" \in r.include =>
           /\ {e.key : e \in ToSet(page.exposure)} = {e.key : e \in ToSet(r.exposure)}
           /\ Len(page.exposure) = Cardinality({e.key : e \in ToSet(r.exposure)})
           /\ \A e \in ToSet(r.exposure), p \in ToSet(page.exposure) :
                p.key = e.key => ToSet(e.components) \subseteq ToSet(p.components)
      /\ "link" \in r.include /\ ~r.unchanged =>
           \A b \in ToSet(r.services) \cup ToSet(r.links) \cup inside :
             \A l \in ToSet(b.links) :
               \E p \in ToSet(page.links) :
                 p.exe = b.exe /\ l.path \in {k.path : k \in ToSet(p.links)}

\* Software is named by package URLs; where a binary listens it loads what it loads.
Bound(services, binaries) ==
  \A s \in ToSet(services), b \in ToSet(binaries) : s.exe = b.exe /\ s.links # <<>> => b.links = s.links
IsPaged(r) ==
  /\ IsStreamed(r) /\ Bound(r.services, r.links)
  /\ \A e \in ToSet(r.exposure) : <<>> \notin ToSet(e.components)
  /\ r.unchanged => r.digest # NoDigest

LEMMA PageShows ==
  ASSUME NEW r, IsPaged(r), NEW page \in ReconstructFromNDJSON(WriteNDJSON(r).lines)
  PROVE  Shows(page, r)
<1> PICK lines : lines = WriteNDJSON(r).lines
  OBVIOUS
<1> PICK cs, rows, bins : /\ cs = NdjsonComponents(lines) /\ rows = NdjsonExposure(lines)
                          /\ bins = NdjsonLinks(lines)
  OBVIOUS
<1>1. page.components = cs /\ page.exposure = rows /\ page.links = bins
  <2>1. lines # <<>> /\ page \in {[components |-> cs, links |-> bins,
         exposure |-> rows, containers |-> Of("container", lines),
         config |-> Of("config", lines),
         sources |-> IF Of("heartbeat", lines) = <<>> THEN <<>>
                     ELSE Of("heartbeat", lines)[1].sources]}
    BY DEF ReconstructFromNDJSON
  <2> QED
    BY <2>1
<1>2. IsStreamed(r)
  BY DEF IsPaged
<1>3. /\ Len(cs) = (IF r.unchanged THEN 0 ELSE Len(r.components))
      /\ \A i \in DOMAIN cs : Key(cs[i]) = Key(r.components[i])
  <2>1. /\ Len(cs) = IF r.digest # NoDigest /\ r.unchanged THEN 0 ELSE Len(r.components)
        /\ \A i \in DOMAIN cs : Key(cs[i]) = Key(r.components[i])
    BY <1>2, PageComponents
  <2> QED
    BY <2>1 DEF IsPaged
<1>4. ASSUME "exposure" \in r.include
      PROVE  /\ {p.key : p \in ToSet(rows)} = {e.key : e \in ToSet(r.exposure)}
             /\ Len(rows) = Cardinality({e.key : e \in ToSet(r.exposure)})
             /\ \A e \in ToSet(r.exposure), p \in ToSet(rows) :
                  p.key = e.key => ToSet(e.components) \subseteq ToSet(p.components)
  <2>1. Includes(r, "exposure") /\ \A e \in ToSet(r.exposure) : <<>> \notin ToSet(e.components)
    BY <1>4 DEF Includes, IsPaged
  <2>2. {p.key : p \in ToSet(rows)} = {e.key : e \in ToSet(r.exposure)}
    BY <1>2, <2>1, PageExposure
  <2>3. Len(rows) = Cardinality({e.key : e \in ToSet(r.exposure)})
    BY <1>2, <2>1, PageExposure
  <2>4. ASSUME NEW e \in ToSet(r.exposure), NEW p \in ToSet(rows), p.key = e.key
        PROVE  ToSet(e.components) \subseteq ToSet(p.components)
    BY <1>2, <2>1, <2>4, PageExposure, Zenon
  <2> QED
    BY <2>2, <2>3, <2>4
<1>5. ASSUME "link" \in r.include, ~r.unchanged,
             NEW exe, NEW links, Carries(LinkLines(r), exe, links), NEW l \in ToSet(links)
      PROVE  \E p \in ToSet(bins) : p.exe = exe /\ l.path \in {k.path : k \in ToSet(p.links)}
  <2>1. Includes(r, "link")
    BY <1>5 DEF Includes
  <2> QED
    BY <1>2, <1>5, <2>1, PageLinks
<1>6. /\ \A s \in ToSet(r.services) : Carries(LinkLines(r), s.exe, s.links)
      /\ \A c \in ToSet(r.containers) : \A s \in ToSet(c.services) : Carries(LinkLines(r), s.exe, s.links)
      /\ \A b \in ToSet(r.links) : \/ Carries(LinkLines(r), b.exe, b.links)
                                   \/ \E s \in ToSet(r.services) : s.exe = b.exe /\ s.links # <<>>
  BY <1>2, LinksWritten
<1>7. \A b \in ToSet(r.links) : Carries(LinkLines(r), b.exe, b.links)
  <2> SUFFICES ASSUME NEW b \in ToSet(r.links), NEW s \in ToSet(r.services), s.exe = b.exe, s.links # <<>>
               PROVE  Carries(LinkLines(r), b.exe, b.links)
    BY <1>6
  <2>1. b.links = s.links
    BY DEF IsPaged, Bound
  <2>2. Carries(LinkLines(r), s.exe, s.links)
    BY <1>6
  <2> QED
    BY <2>1, <2>2
<1> PICK inside : inside = UNION {ToSet(c.services) : c \in ToSet(r.containers)}
  OBVIOUS
<1>8. \A b \in ToSet(r.services) \cup ToSet(r.links) \cup inside : Carries(LinkLines(r), b.exe, b.links)
  BY <1>6, <1>7
<1>9. "link" \in r.include /\ ~r.unchanged =>
        \A b \in ToSet(r.services) \cup ToSet(r.links) \cup inside :
          \A l \in ToSet(b.links) :
            \E p \in ToSet(bins) : p.exe = b.exe /\ l.path \in {k.path : k \in ToSet(p.links)}
  <2> SUFFICES ASSUME "link" \in r.include, ~r.unchanged,
                      NEW b \in ToSet(r.services) \cup ToSet(r.links) \cup inside, NEW l \in ToSet(b.links)
               PROVE  \E p \in ToSet(bins) : p.exe = b.exe /\ l.path \in {k.path : k \in ToSet(p.links)}
    OBVIOUS
  <2> PICK exe, links : exe = b.exe /\ links = b.links
    OBVIOUS
  <2>1. Carries(LinkLines(r), exe, links)
    BY <1>8
  <2>2. \E p \in ToSet(bins) : p.exe = exe /\ l.path \in {k.path : k \in ToSet(p.links)}
    BY <1>5, <2>1
  <2> QED
    BY <2>2
<1> QED
  BY <1>1, <1>3, <1>4, <1>9 DEF Shows

LEMMA SurfaceIsBound ==
  ASSUME NEW surface \in Surfaces, NEW owners, NEW at, at = AttachLinks(surface, owners)
  PROVE  Bound(at.services, at.links)
<1> DEFINE one(s) == [s EXCEPT !.components = OwnersSeq(owners, s.exe), !.links = ModelLinks(@, owners)]
           two(b) == [b EXCEPT !.purl = FirstOwner(owners, b.exe), !.links = ModelLinks(@, owners)]
           ss == surface.services
           bs == surface.links
           ts == [i \in DOMAIN ss |-> one(ss[i])]
           us == [i \in DOMAIN bs |-> two(bs[i])]
<1>1. at.services = ts /\ at.links = us
  BY DEF AttachLinks
<1>2. /\ \A s \in ToSet(ss) : IsListener(s)
      /\ \A b \in ToSet(bs) : IsBinary(b)
      /\ \A s \in ToSet(ss), b \in ToSet(bs) : s.exe = b.exe /\ s.links # <<>> => b.links = s.links
  BY SeriesConstants
<1>3. ASSUME NEW s, IsListener(s) PROVE one(s).exe = s.exe /\ one(s).links = ModelLinks(s.links, owners)
  <2>1. s = [exe |-> s.exe, components |-> s.components, links |-> s.links, endpoints |-> s.endpoints]
    BY <1>3 DEF IsListener
  <2> QED
    BY <2>1
<1>4. ASSUME NEW b, IsBinary(b) PROVE two(b).exe = b.exe /\ two(b).links = ModelLinks(b.links, owners)
  <2>1. b = [exe |-> b.exe, purl |-> b.purl, links |-> b.links]
    BY <1>4 DEF IsBinary
  <2> QED
    BY <2>1
<1>5. ModelLinks(<<>>, owners) = <<>>
  BY DEF ModelLinks
<1>6. ASSUME NEW x \in ToSet(ts)
      PROVE  \E s \in ToSet(ss) : x.exe = s.exe /\ x.links = ModelLinks(s.links, owners)
  <2> HIDE DEF one
  <2>1. PICK i \in DOMAIN ss : x = one(ss[i])
    BY DEF ToSet
  <2>2. ss[i] \in ToSet(ss)
    BY DEF ToSet
  <2> QED
    BY <1>2, <1>3, <2>1, <2>2
<1>7. ASSUME NEW y \in ToSet(us)
      PROVE  \E b \in ToSet(bs) : y.exe = b.exe /\ y.links = ModelLinks(b.links, owners)
  <2> HIDE DEF two
  <2>1. PICK i \in DOMAIN bs : y = two(bs[i])
    BY DEF ToSet
  <2>2. bs[i] \in ToSet(bs)
    BY DEF ToSet
  <2> QED
    BY <1>2, <1>4, <2>1, <2>2
<1> HIDE DEF ts, us, ss, bs
<1>8. ASSUME NEW x \in ToSet(ts), NEW y \in ToSet(us), x.exe = y.exe, x.links # <<>>
      PROVE  y.links = x.links
  <2>1. PICK s \in ToSet(ss) : x.exe = s.exe /\ x.links = ModelLinks(s.links, owners)
    BY <1>6
  <2>2. PICK b \in ToSet(bs) : y.exe = b.exe /\ y.links = ModelLinks(b.links, owners)
    BY <1>7
  <2>3. s.links # <<>>
    BY <1>5, <1>8, <2>1
  <2>4. b.links = s.links
    BY <1>2, <1>8, <2>1, <2>2, <2>3
  <2> QED
    BY <2>1, <2>2, <2>4
<1> QED
  BY <1>1, <1>8 DEF Bound

LEMMA ExposedAreNamed ==
  ASSUME NEW packages, ArePackages(packages), NEW surface \in Surfaces,
         NEW owners, owners = ScanOf(packages, surface).fileOwners, NEW row \in ToSet(Exposed(surface, owners))
  PROVE  <<>> \notin ToSet(row.components)
<1> DEFINE cs == surface.containers
           es == surface.exposure
           ofServices(ss) == [j \in DOMAIN ss |-> ss[j].components]
           parts(id) == [i \in DOMAIN cs |-> IF cs[i].id # id THEN <<>>
                                             ELSE FlattenSeq(ofServices(cs[i].services))]
           told(e) == IF e.backend.cid # "" THEN FlattenSeq(parts(e.backend.cid))
                      ELSE OwnersSeq(owners, e.exe)
           Named(s) == IsListing(s) /\ <<>> \notin ToSet(s)
<1>1. Exposed(surface, owners) = [i \in DOMAIN es |-> [es[i] EXCEPT !.components = told(es[i])]]
  BY Zenon DEF Exposed
<1>2. ASSUME NEW n \in Nat, NEW seqs, DOMAIN seqs = 1..n, seqs = [k \in DOMAIN seqs |-> seqs[k]],
             \A k \in 1..n : Named(seqs[k])
      PROVE  Named(FlattenSeq(seqs))
  <2>1. /\ IsListing(FlattenSeq(seqs))
        /\ ToSet(FlattenSeq(seqs)) = UNION {ToSet(seqs[k]) : k \in 1..n}
    BY <1>2, FlattenLists
  <2> QED
    BY <1>2, <2>1
<1>3. \A p : Named(OwnersSeq(owners, p))
  <2> SUFFICES ASSUME NEW p PROVE Named(OwnersSeq(owners, p))
    OBVIOUS
  <2>1. ToSet(OwnersSeq(owners, p)) \subseteq HostPurls(packages) /\ IsListing(OwnersSeq(owners, p))
    BY OwnersAreHostPurls
  <2>2. <<>> \notin HostPurls(packages)
    BY DEF HostPurls, Purl
  <2> QED
    BY <2>1, <2>2
<1>4. /\ IsListing(cs) /\ IsListing(es) /\ \A e \in ToSet(es) : IsRow(e)
      /\ \A c \in ToSet(cs) : /\ IsListing(c.services)
                              /\ \A s \in ToSet(c.services) : s.components \in Seq(Int \X Int \X Int \X STRING)
  BY SeriesConstants DEF IsListing
<1>5. ASSUME NEW s, s \in Seq(Int \X Int \X Int \X STRING) PROVE Named(s)
  <2>1. IsListing(s) /\ ToSet(s) \subseteq Int \X Int \X Int \X STRING
    BY <1>5, SeqLists
  <2>2. <<>> \notin Int \X Int \X Int \X STRING
    OBVIOUS
  <2> QED
    BY <2>1, <2>2
<1>6. Named(<<>>)
  BY DEF IsListing, ToSet
<1> HIDE DEF Named, cs, es
<1>7. ASSUME NEW c \in ToSet(cs) PROVE Named(FlattenSeq(ofServices(c.services)))
  <2> DEFINE seqs == ofServices(c.services)
             n == Len(c.services)
  <2>1. /\ n \in Nat /\ DOMAIN c.services = 1..n
        /\ \A k \in 1..n : c.services[k].components \in Seq(Int \X Int \X Int \X STRING)
    BY <1>4, ListingEntries
  <2>2. /\ DOMAIN seqs = 1..n /\ seqs = [k \in DOMAIN seqs |-> seqs[k]]
        /\ \A k \in 1..n : seqs[k] = c.services[k].components
    BY <2>1
  <2> HIDE DEF seqs, n
  <2>3. \A k \in 1..n : Named(seqs[k])
    BY <1>5, <2>1, <2>2
  <2>4. Named(FlattenSeq(seqs))
    BY <1>2, <2>1, <2>2, <2>3
  <2> QED
    BY <2>4 DEF seqs
<1> HIDE DEF ofServices
<1>8. ASSUME NEW id PROVE Named(FlattenSeq(parts(id)))
  <2> DEFINE seqs == parts(id)
             n == Len(cs)
  <2>1. n \in Nat /\ DOMAIN cs = 1..n /\ \A k \in 1..n : cs[k] \in ToSet(cs)
    BY <1>4, ListingEntries
  <2>2. DOMAIN seqs = 1..n /\ seqs = [k \in DOMAIN seqs |-> seqs[k]]
    BY <2>1
  <2>3. \A k \in 1..n : Named(seqs[k])
    BY <1>6, <1>7, <2>1
  <2> HIDE DEF seqs, n
  <2>4. Named(FlattenSeq(seqs))
    BY <1>2, <2>1, <2>2, <2>3
  <2> QED
    BY <2>4 DEF seqs
<1> HIDE DEF parts
<1>9. ASSUME NEW e PROVE Named(told(e))
  BY <1>3, <1>8
<1> HIDE DEF told
<1>10. PICK i \in DOMAIN es : row = [es[i] EXCEPT !.components = told(es[i])]
  BY <1>1 DEF ToSet
<1> PICK e, v : e = es[i] /\ v = told(es[i])
  OBVIOUS
<1>11. IsRow(e) /\ Named(v) /\ row = [e EXCEPT !.components = v]
  BY <1>4, <1>9, <1>10, ListingEntries
<1>12. row.components = v
  BY <1>11 DEF IsRow
<1> QED
  BY <1>11, <1>12 DEF Named

PageInv == CountsInv /\ PageIsTheStream

LEMMA PageKeeps ==
  ASSUME PageInv, [SeriesNext]_seriesVars
  PROVE  PageInv'
<1>1. CountsInv'
  BY CountsKeep DEF PageInv
<1>2. CASE UNCHANGED seriesVars
  BY <1>1, <1>2 DEF seriesVars, PageInv, PageIsTheStream, Reported
<1>3. CASE SoftwareChanges
  BY <1>1, <1>3 DEF SoftwareChanges, PageInv, PageIsTheStream, Reported
<1>4. CASE SeriesNext /\ ~SoftwareChanges
  <2>1. PICK mode \in Modes, order \in Orders, merged \in BOOLEAN, surface \in Surfaces, forced \in BOOLEAN :
          /\ ArePackages(Packages(order, merged))
          /\ Done(mode, Packages(order, merged), surface, forced)
    BY <1>4, RunOfMachine DEF PageInv, CountsInv
  <2>2. PICK packages, base, r : packages = Packages(order, merged) /\ base = baseline /\ r = report'
    OBVIOUS
  <2>3. /\ Ready(r, mode, packages, surface) /\ Compared(r, base)
        /\ r.unchanged => r.digest # NoDigest
    BY <2>1, <2>2 DEF Done, NoDigest
  <2>4. IsStreamed(r)
    <3>1. r = [r EXCEPT !.include = r.include]
      BY <2>3 DEF Ready, IsReport
    <3>2. IsListing(base.components)
      BY <2>2 DEF PageInv, CountsInv
    <3> PICK include, q : include = r.include /\ q = [r EXCEPT !.include = include]
      OBVIOUS
    <3>3. IsStreamed(q)
      BY <2>1, <2>2, <2>3, <3>2, ReportStreams
    <3> QED
      BY <3>1, <3>3
  <2> PICK owners, at : owners = ScanOf(packages, surface).fileOwners /\ at = AttachLinks(surface, owners)
    OBVIOUS
  <2>5. r.services = at.services /\ r.links = at.links /\ r.exposure = Exposed(surface, owners)
    BY <2>3 DEF Ready, Surfaced
  <2>6. Bound(at.services, at.links)
    BY SurfaceIsBound
  <2>7. \A e \in ToSet(r.exposure) : <<>> \notin ToSet(e.components)
    BY <2>1, <2>2, <2>5, ExposedAreNamed
  <2>8. IsPaged(r)
    BY <2>3, <2>4, <2>5, <2>6, <2>7 DEF IsPaged
  <2>9. \A page \in ReconstructFromNDJSON(WriteNDJSON(r).lines) : Shows(page, r)
    BY <2>8, PageShows
  <2>10. PageIsTheStream'
    BY <2>2, <2>9 DEF PageIsTheStream, Shows
  <2> QED
    BY <1>1, <2>10 DEF PageInv
<1> QED
  BY <1>2, <1>3, <1>4

\* A page built from a stream shows it: the component records, each in its place, or none of
\* an unchanged inventory; each listener once, with all its software; and each library under
\* the binary that loads it, whether it is listed with a listener, a container or on its own
\* (reconstructFromNDJSON, linkLines, exposureLines).
THEOREM PageIsTheStreamAlways == SeriesSpec => []PageIsTheStream
<1>1. SeriesInit => PageInv
  <2>1. IsListing(<<>>)
    BY DEF IsListing, ToSet
  <2> QED
    BY <2>1, SeriesConstants DEF SeriesInit, PageInv, CountsInv, MachineOK, CountsMatchStream,
                                 PageIsTheStream, Reported, NoBaseline
<1>2. PageInv /\ [SeriesNext]_seriesVars => PageInv'
  BY PageKeeps
<1>3. PageInv => PageIsTheStream
  BY DEF PageInv
<1> QED
  BY <1>1, <1>2, <1>3, PTL DEF SeriesSpec

-----------------------------------------------------------------------------
(* The state of the heartbeat.                                             *)

Late == {"files", "send"}

-----------------------------------------------------------------------------
(* The invariant.                                                          *)

\* Faults are taken from a budget and never put back.
Within == \A k \in FaultKinds : left[k] <= Faults[k]

\* A run carries the full list from its decision to its end.
Flags ==
  \A h \in Hosts :
    /\ pc[h] \in {"idle", "read"} => ~full[h]
    /\ pc[h] = "record" => full[h]

\* Scans begin in the order of the lists that reach the consumer or are lost.
Clock ==
  \A h \in Hosts :
    /\ lostAt[h] <= time /\ fullSent[h] <= time
    /\ pc[h] # "idle" =>
         began[h] <= time /\ lostAt[h] <= began[h] /\ fullSent[h] <= began[h]

\* An entry is no younger than the last list of h that arrived, or that was
\* lost, or that is on its way.
Accounted(h, e) ==
  \/ e.fullAt <= lostAt[h]
  \/ e.fullAt <= fullSent[h]
  \/ full[h] /\ e.fullAt <= began[h]

\* So are the entry in the file and those the runs have read, one of which may
\* be written back later.
AllAccounted ==
  Unspent({"edit"}) => \A h \in Hosts :
    /\ Accounted(h, state[h])
    /\ \A a \in Hosts : Accounted(h, snapshot[a][h])

\* A run that leaves the list out is not due yet.
NotDue ==
  Unspent({"edit"}) => \A h \in Hosts : pc[h] \in Late /\ ~full[h] =>
    \/ FullInterval = 0
    \/ began[h] < lostAt[h] + FullInterval
    \/ began[h] < fullSent[h] + FullInterval

\* With nothing lost the digest in the file is that of the list the consumer
\* has, but between the record and the delivery of the next one.
Recalled ==
  Unspent(Losses) => \A h \in Hosts :
    /\ ~degraded[h]
    /\ pc[h] \in {"idle", "read"} => state[h].digest \in {Unknown, have[h]}
    /\ pc[h] \in Late /\ full[h] => state[h].digest \in {Unknown, seen[h]}
    /\ pc[h] \in Late /\ ~full[h] =>
         have[h] = seen[h] /\ state[h].digest \in {Unknown, have[h]}

-----------------------------------------------------------------------------
(* Types.                                                                  *)

\* Taking a fault keeps the types, and shows in the budget.
LEMMA SpendTypes ==
  ASSUME TypeOK, Within, NEW k \in FaultKinds, Spend(k)
  PROVE  /\ left' \in [FaultKinds -> Nat]
         /\ Within'
         /\ \A ks \in SUBSET FaultKinds :
              Unspent(ks)' => Unspent(ks) /\ k \notin ks
<1>1. left \in [FaultKinds -> Nat] /\ left[k] \in Nat /\ Faults \in [FaultKinds -> Nat]
  BY HeartbeatConstants DEF TypeOK
<1>2. left[k] - 1 \in Nat /\ left'[k] = left[k] - 1
  BY <1>1 DEF Spend
<1>3. \A j \in FaultKinds \ {k} : left'[j] = left[j]
  BY <1>1 DEF Spend
<1>4. left' \in [FaultKinds -> Nat]
  BY <1>1, <1>2 DEF Spend
<1>5. left'[k] < Faults[k]
  BY <1>1, <1>2 DEF Within
<1>6. Within'
  <2>1. \A j \in FaultKinds \ {k} : left'[j] <= Faults[j]
    BY <1>3 DEF Within
  <2>2. left'[k] <= Faults[k]
    BY <1>1, <1>2, <1>5
  <2> QED
    BY <2>1, <2>2 DEF Within
<1>7. ASSUME NEW ks \in SUBSET FaultKinds, Unspent(ks)'
      PROVE  Unspent(ks) /\ k \notin ks
  <2>1. k \notin ks
    BY <1>1, <1>5, <1>7 DEF Unspent
  <2> QED
    BY <1>3, <1>7, <2>1 DEF Unspent
<1> QED
  BY <1>4, <1>6, <1>7

\* Nothing of the budget is taken.
LEMMA KeepsBudget ==
  ASSUME Within, UNCHANGED left
  PROVE  Within' /\ \A ks \in SUBSET FaultKinds : Unspent(ks)' => Unspent(ks)
BY DEF Within, Unspent

LEMMA NoEntryTypes == NoEntry \in Entry /\ NoEntries \in [Hosts -> Entry]
BY HeartbeatConstants DEF NoEntry, NoEntries, Entry, Times

LEMMA TypeInit == Init => TypeOK /\ Within
BY NoEntryTypes, HeartbeatConstants
DEF Init, TypeOK, Within, Times

\* A run that ends keeps the types.
LEMMA EndsTypes ==
  ASSUME TypeOK, NEW h \in Hosts, Ends(h)
  PROVE  /\ pc' \in [Hosts -> {"idle", "read", "record", "files", "send"}]
         /\ seen' \in [Hosts -> Inventories \union {Unknown}]
         /\ began' \in [Hosts -> Times]
         /\ degraded' \in [Hosts -> BOOLEAN]
         /\ snapshot' \in [Hosts -> [Hosts -> Entry]]
         /\ full' \in [Hosts -> BOOLEAN]
<1>1. 0 \in Times
  BY HeartbeatConstants DEF Times
<1> QED
  BY <1>1, NoEntryTypes DEF TypeOK, Ends

\* So does a stream that arrives or is lost.
LEMMA HistoryTypes ==
  ASSUME TypeOK, NEW h \in Hosts, Receive(h) \/ Lose(h)
  PROVE  /\ have' \in [Hosts -> Inventories \union {Unknown}]
         /\ fullSent' \in [Hosts -> Times]
         /\ lostAt' \in [Hosts -> Times]
         /\ previous' \in [Hosts -> Inventories \union {Unknown}]
<1>1. CASE Receive(h)
  BY <1>1, ZenonT(30) DEF TypeOK, Receive
<1>2. CASE Lose(h)
  BY <1>2 DEF TypeOK, Lose
<1> QED
  BY <1>1, <1>2

LEMMA TypeNext == TypeOK /\ Within /\ [Next]_vars => TypeOK' /\ Within'
<1> SUFFICES ASSUME TypeOK, Within, [Next]_vars PROVE TypeOK' /\ Within'
  OBVIOUS
<1>1. ASSUME NEW h \in Hosts, Scan(h) PROVE TypeOK' /\ Within'
  <2>1. left' \in [FaultKinds -> Nat] /\ Within'
    BY <1>1, SpendTypes, KeepsBudget DEF Scan, FaultKinds, TypeOK
  <2> QED
    BY <1>1, <2>1 DEF Scan, Move, TypeOK, world, hist
<1>2. ASSUME NEW h \in Hosts, ReadState(h) PROVE TypeOK' /\ Within'
  <2>1. left' \in [FaultKinds -> Nat] /\ Within'
    BY <1>2, SpendTypes, KeepsBudget DEF ReadState, FaultKinds, TypeOK
  <2>2. full' \in [Hosts -> BOOLEAN]
    BY <1>2 DEF ReadState, TypeOK, MustSendFull, IntervalOver
  <2>3. AfterRead(full'[h]) \in {"record", "files"}
    BY DEF AfterRead
  <2>4. pc' \in [Hosts -> {"idle", "read", "record", "files", "send"}]
    BY <1>2, <2>3 DEF ReadState, TypeOK
  <2> QED
    BY <1>2, <2>1, <2>2, <2>4 DEF ReadState, TypeOK, world
<1>3. ASSUME NEW h \in Hosts, RecordState(h) PROVE TypeOK' /\ Within'
  <2>1. left' \in [FaultKinds -> Nat] /\ Within'
    BY <1>3, SpendTypes, KeepsBudget DEF RecordState, FaultKinds, TypeOK
  <2>2. Recorded(h) \in Entry
    BY DEF Recorded, Entry, TypeOK
  <2>3. state' \in [Hosts -> Entry]
    BY <1>3, <2>2 DEF RecordState, TypeOK
  <2> QED
    BY <1>3, <2>1, <2>3 DEF RecordState, Move, TypeOK, world, hist
<1>4. ASSUME NEW h \in Hosts, WriteFiles(h) PROVE TypeOK' /\ Within'
  <2>1. left' \in [FaultKinds -> Nat] /\ Within'
    BY <1>4, SpendTypes, KeepsBudget DEF WriteFiles, FaultKinds, TypeOK
  <2>2. CASE Ends(h) /\ (Receive(h) \/ Lose(h))
    BY <1>4, <2>1, <2>2, EndsTypes, HistoryTypes DEF WriteFiles, TypeOK, world
  <2>3. CASE /\ pc' = [pc EXCEPT ![h] = "send"]
             /\ UNCHANGED <<seen, began, degraded, snapshot, full, hist, left>>
    BY <1>4, <2>1, <2>3 DEF WriteFiles, TypeOK, world, hist
  <2> QED
    BY <1>4, <2>2, <2>3 DEF WriteFiles
<1>5. ASSUME NEW h \in Hosts, Upload(h) PROVE TypeOK' /\ Within'
  <2>1. left' \in [FaultKinds -> Nat] /\ Within'
    BY <1>5, KeepsBudget DEF Upload, TypeOK
  <2> QED
    BY <1>5, <2>1, EndsTypes, HistoryTypes DEF Upload, TypeOK, world
<1>6. ASSUME NEW h \in Hosts, Crash(h) PROVE TypeOK' /\ Within'
  <2>1. left' \in [FaultKinds -> Nat] /\ Within'
    BY <1>6, SpendTypes DEF Crash, FaultKinds
  <2> QED
    BY <1>6, <2>1, EndsTypes, HistoryTypes DEF Crash, TypeOK, world
<1>7. ASSUME NEW h \in Hosts, Change(h) PROVE TypeOK' /\ Within'
  BY <1>7 DEF Change, TypeOK, Within, run, hist
<1>8. ASSUME Tick PROVE TypeOK' /\ Within'
  BY <1>8, HeartbeatConstants DEF Tick, TypeOK, Within, Times, run, hist
<1>9. ASSUME DeleteState PROVE TypeOK' /\ Within'
  <2>1. left' \in [FaultKinds -> Nat] /\ Within'
    BY <1>9, SpendTypes DEF DeleteState, FaultKinds
  <2> QED
    BY <1>9, <2>1, NoEntryTypes DEF DeleteState, TypeOK, world, run, hist
<1>10. ASSUME EditState PROVE TypeOK' /\ Within'
  <2>1. left' \in [FaultKinds -> Nat] /\ Within'
    BY <1>10, SpendTypes DEF EditState, FaultKinds
  <2>2. PICK h \in Hosts, t \in Times : state' = [state EXCEPT ![h].fullAt = t]
    BY <1>10 DEF EditState
  <2>3. state' \in [Hosts -> Entry]
    BY <2>2 DEF TypeOK, Entry
  <2> QED
    BY <1>10, <2>1, <2>3 DEF EditState, TypeOK, world, run, hist
<1>11. CASE UNCHANGED vars
  BY <1>11 DEF vars, world, run, hist, TypeOK, Within
<1> QED
  BY <1>1, <1>2, <1>3, <1>4, <1>5, <1>6, <1>7, <1>8, <1>9, <1>10, <1>11 DEF Next, Acts

\* Every reachable state has its types.
THEOREM TypeCorrect == Spec => []TypeOK
BY TypeInit, TypeNext, PTL DEF Spec

-----------------------------------------------------------------------------
(* The steps, by what they do to a run.                                    *)

\* A run is over and its stream has arrived, or never will.
Ending(h) ==
  /\ pc[h] # "idle" /\ Ends(h)
  /\ Receive(h) \/ Lose(h)
  /\ UNCHANGED <<world, state>>

\* The files are there and the upload is next.
HandsOver(h) ==
  /\ pc[h] = "files" /\ pc' = [pc EXCEPT ![h] = "send"]
  /\ UNCHANGED <<world, state, seen, began, degraded, snapshot, full, hist, left>>

LEMMA Endings ==
  ASSUME NEW h \in Hosts, WriteFiles(h) \/ Upload(h) \/ Crash(h)
  PROVE  Ending(h) \/ HandsOver(h)
<1>1. CASE WriteFiles(h)
  BY <1>1 DEF WriteFiles, Ending, HandsOver, world, hist
<1>2. CASE Upload(h)
  BY <1>2 DEF Upload, Ending
<1>3. CASE Crash(h)
  BY <1>3 DEF Crash, Ending
<1> QED
  BY <1>1, <1>2, <1>3

\* What has not happened after a step had not happened before it.
LEMMA UnspentBefore ==
  ASSUME TypeOK, Within, [Next]_vars, NEW ks \in SUBSET FaultKinds, Unspent(ks)'
  PROVE  Unspent(ks)
<1>1. CASE UNCHANGED left
  BY <1>1, KeepsBudget
<1>2. CASE \E k \in FaultKinds : Spend(k)
  BY <1>2, SpendTypes
<1> QED
  BY <1>1, <1>2
  DEF Next, Acts, Scan, ReadState, RecordState, WriteFiles, Upload, Crash, Change, Tick,
      DeleteState, EditState, FaultKinds, vars

\* An edit of the file is a fault.
LEMMA EditSpends ==
  ASSUME TypeOK, Within, EditState
  PROVE  ~Unspent({"edit"})'
<1>1. "edit" \in FaultKinds /\ {"edit"} \in SUBSET FaultKinds /\ Spend("edit")
  BY DEF EditState, FaultKinds
<1> QED
  BY <1>1, SpendTypes

-----------------------------------------------------------------------------
(* How wrong an "unchanged" can be.                                        *)

LEMMA FlagsNext == TypeOK /\ Flags /\ [Next]_vars => Flags'
<1> SUFFICES ASSUME TypeOK, Flags, [Next]_vars PROVE Flags'
  OBVIOUS
<1>1. ASSUME NEW h \in Hosts, Scan(h) PROVE Flags'
  BY <1>1 DEF Scan, Move, TypeOK, Flags
<1>2. ASSUME NEW h \in Hosts, ReadState(h) PROVE Flags'
  <2>1. /\ full' \in [Hosts -> BOOLEAN]
        /\ \A a \in Hosts \ {h} : full'[a] = full[a] /\ pc'[a] = pc[a]
    BY <1>2 DEF ReadState, TypeOK, MustSendFull, IntervalOver
  <2>2. pc'[h] = AfterRead(full'[h])
    BY <1>2 DEF ReadState, TypeOK
  <2>3. /\ pc'[h] \in {"record", "files"}
        /\ pc'[h] = "record" => full'[h]
    BY <2>2 DEF AfterRead
  <2> QED
    BY <2>1, <2>3 DEF Flags
<1>3. ASSUME NEW h \in Hosts, RecordState(h) PROVE Flags'
  BY <1>3 DEF RecordState, Move, TypeOK, Flags
<1>4. ASSUME NEW h \in Hosts, HandsOver(h) PROVE Flags'
  BY <1>4 DEF HandsOver, TypeOK, Flags
<1>5. ASSUME NEW h \in Hosts, Ending(h) PROVE Flags'
  BY <1>5 DEF Ending, Ends, TypeOK, Flags
<1>6. CASE UNCHANGED run
  BY <1>6 DEF run, Flags
<1> QED
  BY <1>1, <1>2, <1>3, <1>4, <1>5, <1>6, Endings
  DEF Next, Acts, Change, Tick, DeleteState, EditState, vars

LEMMA ClockNext == TypeOK /\ Clock /\ [Next]_vars => Clock'
<1> SUFFICES ASSUME TypeOK, Clock, [Next]_vars PROVE Clock'
  OBVIOUS
<1>0. /\ time \in Nat
      /\ \A h \in Hosts : began[h] \in Nat /\ lostAt[h] \in Nat /\ fullSent[h] \in Nat
  BY HeartbeatConstants DEF TypeOK, Times
<1>1. ASSUME NEW h \in Hosts, Scan(h) PROVE Clock'
  BY <1>0, <1>1 DEF Scan, Move, TypeOK, Clock, world, hist
<1>2. ASSUME NEW h \in Hosts, ReadState(h) PROVE Clock'
  <2>1. \A a \in Hosts : pc'[a] # "idle" => pc[a] # "idle"
    BY <1>2 DEF ReadState, TypeOK
  <2> QED
    BY <1>2, <2>1 DEF ReadState, Clock, world
<1>3. ASSUME NEW h \in Hosts, RecordState(h) PROVE Clock'
  BY <1>3 DEF RecordState, Move, TypeOK, Clock, world, hist
<1>4. ASSUME NEW h \in Hosts, HandsOver(h) PROVE Clock'
  BY <1>4 DEF HandsOver, TypeOK, Clock, world, hist
<1>5. ASSUME NEW h \in Hosts, Ending(h) PROVE Clock'
  <2>1. /\ pc'[h] = "idle" /\ time' = time
        /\ \A a \in Hosts \ {h} : pc'[a] = pc[a] /\ began'[a] = began[a]
    BY <1>5 DEF Ending, Ends, TypeOK, world
  <2>2. /\ \A a \in Hosts \ {h} : lostAt'[a] = lostAt[a] /\ fullSent'[a] = fullSent[a]
        /\ lostAt'[h] \in {lostAt[h], began[h]}
        /\ fullSent'[h] \in {fullSent[h], began[h]}
    BY <1>5 DEF Ending, Receive, Lose, TypeOK
  <2>3. pc[h] # "idle"
    BY <1>5 DEF Ending
  <2> QED
    BY <2>1, <2>2, <2>3 DEF Clock
<1>6. CASE Tick
  BY <1>0, <1>6 DEF Tick, run, hist, Clock
<1>7. CASE UNCHANGED <<time, run, hist>>
  BY <1>7 DEF run, hist, Clock
<1> QED
  BY <1>1, <1>2, <1>3, <1>4, <1>5, <1>6, <1>7, Endings
  DEF Next, Acts, Change, DeleteState, EditState, vars, world

\* What a run knows of an entry when it ends.
LEMMA EndingAccounts ==
  ASSUME TypeOK, Clock, NEW h \in Hosts, Ending(h),
         NEW a \in Hosts, NEW e \in Entry, Accounted(a, e)
  PROVE  Accounted(a, e)'
<1>0. /\ e.fullAt \in Nat
      /\ \A b \in Hosts : began[b] \in Nat /\ lostAt[b] \in Nat /\ fullSent[b] \in Nat
  BY HeartbeatConstants DEF TypeOK, Times, Entry
<1>1. CASE a # h
  BY <1>1 DEF Ending, Ends, Receive, Lose, TypeOK, Accounted
<1>2. CASE a = h /\ full[h]
  <2>1. lostAt[h] <= began[h] /\ fullSent[h] <= began[h]
    BY DEF Ending, Clock
  <2>2. \/ fullSent'[h] = began[h] /\ lostAt'[h] = lostAt[h]
        \/ lostAt'[h] = began[h] /\ fullSent'[h] = fullSent[h]
    BY <1>2 DEF Ending, Receive, Lose, TypeOK
  <2> QED
    BY <1>0, <1>2, <2>1, <2>2 DEF Accounted
<1>3. CASE a = h /\ ~full[h]
  BY <1>3 DEF Ending, Receive, Lose, TypeOK, Accounted
<1> QED
  BY <1>1, <1>2, <1>3

\* No entry at all is accounted for.
LEMMA NothingAccounted ==
  ASSUME TypeOK, NEW a \in Hosts
  PROVE  Accounted(a, NoEntries[a])
<1>1. NoEntries[a].fullAt = 0
  BY DEF NoEntries, NoEntry
<1>2. lostAt[a] \in Nat
  BY HeartbeatConstants DEF TypeOK, Times
<1> QED
  BY <1>1, <1>2 DEF Accounted

LEMMA AllAccountedNext ==
  TypeOK /\ Within /\ Flags /\ Clock /\ AllAccounted /\ [Next]_vars => AllAccounted'
<1> SUFFICES ASSUME TypeOK, Within, Flags, Clock, AllAccounted, [Next]_vars,
                    Unspent({"edit"})'
             PROVE  \A h \in Hosts :
                      /\ Accounted(h, state[h])'
                      /\ \A a \in Hosts : Accounted(h, snapshot[a][h])'
  BY DEF AllAccounted
<1>0. /\ \A h \in Hosts : Accounted(h, state[h])
      /\ \A a, h \in Hosts : Accounted(h, snapshot[a][h])
      /\ \A h \in Hosts : state[h] \in Entry
      /\ \A a, h \in Hosts : snapshot[a][h] \in Entry
  <2>1. {"edit"} \in SUBSET FaultKinds
    BY DEF FaultKinds
  <2>2. Unspent({"edit"})
    BY <2>1, UnspentBefore
  <2> QED
    BY <2>2 DEF AllAccounted, TypeOK
<1>1. ASSUME NEW g \in Hosts, Scan(g)
      PROVE  \A h \in Hosts : /\ Accounted(h, state[h])'
                              /\ \A a \in Hosts : Accounted(h, snapshot[a][h])'
  <2>1. UNCHANGED <<state, snapshot, full, lostAt, fullSent>>
    BY <1>1 DEF Scan, hist
  <2>2. \A h \in Hosts : full[h] => began'[h] = began[h]
    BY <1>1 DEF Scan, Move, TypeOK, Flags
  <2> QED
    BY <1>0, <2>1, <2>2 DEF Accounted
<1>2. ASSUME NEW g \in Hosts, ReadState(g)
      PROVE  \A h \in Hosts : /\ Accounted(h, state[h])'
                              /\ \A a \in Hosts : Accounted(h, snapshot[a][h])'
  <2>1. UNCHANGED <<state, began, lostAt, fullSent>>
    BY <1>2 DEF ReadState
  <2>2. \A h \in Hosts : full[h] => full'[h]
    BY <1>2 DEF ReadState, TypeOK, Flags
  <2>3. \A h, a \in Hosts : snapshot'[a][h] \in {state[h], snapshot[a][h]}
    BY <1>2 DEF ReadState, TypeOK
  <2> QED
    BY <1>0, <2>1, <2>2, <2>3 DEF Accounted
<1>3. ASSUME NEW g \in Hosts, RecordState(g)
      PROVE  \A h \in Hosts : /\ Accounted(h, state[h])'
                              /\ \A a \in Hosts : Accounted(h, snapshot[a][h])'
  <2>1. UNCHANGED <<snapshot, full, began, lostAt, fullSent>>
    BY <1>3 DEF RecordState, hist
  <2>2. \A h \in Hosts \ {g} : state'[h] \in {state[h], snapshot[g][h]}
    BY <1>3 DEF RecordState, TypeOK
  <2>3. Accounted(g, Recorded(g))
    <3>1. full[g]
      BY <1>3 DEF RecordState, Move, Flags
    <3>2. began[g] \in Nat
      BY HeartbeatConstants DEF TypeOK, Times
    <3> QED
      BY <3>1, <3>2 DEF Recorded, Accounted
  <2>4. state'[g] \in {state[g], Recorded(g)}
    BY <1>3 DEF RecordState, TypeOK
  <2> QED
    BY <1>0, <2>1, <2>2, <2>3, <2>4 DEF Accounted
<1>4. ASSUME NEW g \in Hosts, Ending(g)
      PROVE  \A h \in Hosts : /\ Accounted(h, state[h])'
                              /\ \A a \in Hosts : Accounted(h, snapshot[a][h])'
  <2>1. \A h \in Hosts, e \in Entry : Accounted(h, e) => Accounted(h, e)'
    BY <1>4, EndingAccounts
  <2>2. state' = state
    BY <1>4 DEF Ending
  <2>3. \A h, a \in Hosts : snapshot'[a][h] \in {NoEntries[h], snapshot[a][h]}
    BY <1>4 DEF Ending, Ends, TypeOK
  <2>4. \A h \in Hosts : NoEntries[h] \in Entry /\ Accounted(h, NoEntries[h])
    BY NoEntryTypes, NothingAccounted
  <2> QED
    BY <1>0, <2>1, <2>2, <2>3, <2>4 DEF Accounted
<1>5. CASE DeleteState
  <2>1. \A h \in Hosts : Accounted(h, NoEntries[h])
    BY NothingAccounted
  <2> QED
    BY <1>0, <1>5, <2>1 DEF DeleteState, run, hist, Accounted
<1>6. CASE UNCHANGED <<state, snapshot, full, began, lostAt, fullSent>>
  BY <1>0, <1>6 DEF Accounted
<1>7. ~EditState
  BY EditSpends
<1> QED
  BY <1>1, <1>2, <1>3, <1>4, <1>5, <1>6, <1>7, Endings
  DEF Next, Acts, Change, Tick, HandsOver, vars, run, hist

LEMMA NotDueNext ==
  TypeOK /\ Within /\ Flags /\ AllAccounted /\ NotDue /\ [Next]_vars => NotDue'
<1> SUFFICES ASSUME TypeOK, Within, Flags, AllAccounted, NotDue, [Next]_vars,
                    Unspent({"edit"})', NEW h \in Hosts, pc'[h] \in Late, ~full'[h]
             PROVE  \/ FullInterval = 0
                    \/ began'[h] < lostAt'[h] + FullInterval
                    \/ began'[h] < fullSent'[h] + FullInterval
  BY DEF NotDue
<1>0. Unspent({"edit"})
  <2>1. {"edit"} \in SUBSET FaultKinds
    BY DEF FaultKinds
  <2> QED
    BY <2>1, UnspentBefore
\* A run that was as far as this already has not learnt anything since.
<1>1. CASE /\ pc[h] \in Late /\ ~full[h]
           /\ began'[h] = began[h] /\ lostAt'[h] = lostAt[h] /\ fullSent'[h] = fullSent[h]
  BY <1>0, <1>1 DEF NotDue
<1>2. CASE ReadState(h)
  <2>1. pc[h] = "read" /\ ~full[h]
    BY <1>2 DEF ReadState, Flags
  <2>2. ~IntervalOver(h, state[h])
    BY <1>2 DEF ReadState, TypeOK, MustSendFull
  <2>3. Accounted(h, state[h])
    BY <1>0 DEF AllAccounted
  <2>4. /\ state[h].fullAt \in Nat /\ began[h] \in Nat
        /\ lostAt[h] \in Nat /\ fullSent[h] \in Nat /\ FullInterval \in Nat
    BY HeartbeatConstants DEF TypeOK, Entry, Times
  <2> QED
    BY <1>2, <2>1, <2>2, <2>3, <2>4 DEF ReadState, IntervalOver, Accounted
<1>3. ASSUME NEW g \in Hosts, Scan(g) \/ RecordState(g) \/ HandsOver(g) \/ Ending(g)
      PROVE  /\ pc[h] \in Late /\ ~full[h]
             /\ began'[h] = began[h] /\ lostAt'[h] = lostAt[h] /\ fullSent'[h] = fullSent[h]
  <2>1. CASE Scan(g)
    BY <2>1 DEF Scan, Move, TypeOK, Late, hist
  <2>2. CASE RecordState(g)
    BY <2>2 DEF RecordState, Move, TypeOK, Late, Flags, hist
  <2>3. CASE HandsOver(g)
    BY <2>3 DEF HandsOver, TypeOK, Late, hist
  <2>4. CASE Ending(g)
    BY <2>4 DEF Ending, Ends, Receive, Lose, TypeOK, Late
  <2> QED
    BY <1>3, <2>1, <2>2, <2>3, <2>4
<1>4. ASSUME NEW g \in Hosts \ {h}, ReadState(g)
      PROVE  /\ pc[h] \in Late /\ ~full[h]
             /\ began'[h] = began[h] /\ lostAt'[h] = lostAt[h] /\ fullSent'[h] = fullSent[h]
  BY <1>4 DEF ReadState, TypeOK
<1>5. CASE UNCHANGED <<pc, full, began, lostAt, fullSent>>
  BY <1>1, <1>5
<1> QED
  BY <1>1, <1>2, <1>3, <1>4, <1>5, Endings
  DEF Next, Acts, Change, Tick, DeleteState, EditState, vars, run, hist

Inv == TypeOK /\ Within /\ Flags /\ Clock /\ AllAccounted /\ NotDue

LEMMA InvInit == Init => Inv
<1> SUFFICES ASSUME Init PROVE Inv
  OBVIOUS
<1>1. TypeOK /\ Within
  BY TypeInit
<1>2. Flags /\ NotDue
  BY DEF Init, Flags, NotDue, Late
<1>3. Clock
  <2>1. \A h \in Hosts : pc[h] = "idle" /\ lostAt[h] = 0 /\ fullSent[h] = 0
    BY DEF Init
  <2>2. time = 0 /\ 0 <= 0
    BY DEF Init
  <2>3. \A h \in Hosts : lostAt[h] <= time /\ fullSent[h] <= time
    BY <2>1, <2>2
  <2> QED
    BY <2>1, <2>3 DEF Clock
<1>4. AllAccounted
  <2>1. \A h \in Hosts : Accounted(h, NoEntries[h])
    BY <1>1, NothingAccounted
  <2> QED
    BY <2>1 DEF Init, AllAccounted
<1> QED
  BY <1>1, <1>2, <1>3, <1>4 DEF Inv

LEMMA InvAlways == Spec => []Inv
<1>1. Inv /\ [Next]_vars => Inv'
  BY TypeNext, FlagsNext, ClockNext, AllAccountedNext, NotDueNext DEF Inv
<1> QED
  BY InvInit, <1>1, PTL DEF Spec

\* With an interval set, a stream that wrongly says "unchanged" is less than an
\* interval younger than the host's last full scan, however many hosts overwrite
\* each other's entries in the state file, and whatever is lost, deleted or
\* not recorded.
THEOREM UntruthIsBoundedAlways == ASSUME FullInterval > 0 PROVE Spec => []UntruthIsBounded
<1>1. Inv => UntruthIsBounded
  <2> SUFFICES ASSUME Inv, Unspent({"edit"}), NEW h \in Hosts, SaysUnchanged(h)
               PROVE  \/ began[h] < lostAt[h] + FullInterval
                      \/ began[h] < fullSent[h] + FullInterval
    BY DEF UntruthIsBounded
  <2>1. pc[h] \in Late /\ ~full[h]
    BY DEF SaysUnchanged, Late
  <2> QED
    BY <2>1, HeartbeatConstants DEF Inv, NotDue
<1> QED
  BY InvAlways, <1>1, PTL

-----------------------------------------------------------------------------
(* When an "unchanged" is right.                                           *)

\* A step of one host leaves what the others hold alone, and there are none.
LEMMA RecalledNext ==
  ASSUME \A a, b \in Hosts : a = b
  PROVE  TypeOK /\ Within /\ Flags /\ Recalled /\ [Next]_vars => Recalled'
<1> SUFFICES ASSUME TypeOK, Within, Flags, Recalled, [Next]_vars, Unspent(Losses)',
                    NEW h \in Hosts
             PROVE  /\ ~degraded'[h]
                    /\ pc'[h] \in {"idle", "read"} => state'[h].digest \in {Unknown, have'[h]}
                    /\ pc'[h] \in Late /\ full'[h] => state'[h].digest \in {Unknown, seen'[h]}
                    /\ pc'[h] \in Late /\ ~full'[h] =>
                         have'[h] = seen'[h] /\ state'[h].digest \in {Unknown, have'[h]}
  BY DEF Recalled
<1>0. /\ ~degraded[h]
      /\ pc[h] \in {"idle", "read"} => state[h].digest \in {Unknown, have[h]}
      /\ pc[h] \in Late /\ full[h] => state[h].digest \in {Unknown, seen[h]}
      /\ pc[h] \in Late /\ ~full[h] =>
           have[h] = seen[h] /\ state[h].digest \in {Unknown, have[h]}
  <2>1. Losses \in SUBSET FaultKinds
    BY DEF Losses, FaultKinds
  <2> QED
    BY <2>1, UnspentBefore DEF Recalled
<1>1. \A k \in Losses : ~Spend(k)
  BY SpendTypes DEF Losses, FaultKinds
<1>2. \A g \in Hosts : g = h
  OBVIOUS
<1>3. CASE Scan(h)
  <2>1. degraded' = [degraded EXCEPT ![h] = FALSE]
    BY <1>1, <1>3 DEF Scan, Losses
  <2> QED
    BY <1>0, <1>3, <2>1 DEF Scan, Move, TypeOK, Late, hist
<1>4. CASE ReadState(h)
  <2>1. /\ degraded' = degraded /\ state' = state /\ seen' = seen /\ have' = have
        /\ pc[h] = "read" /\ state[h].digest \in {Unknown, have[h]}
    BY <1>0, <1>4 DEF ReadState
  <2>2. pc'[h] = IF full'[h] THEN "record" ELSE "files"
    BY <1>4 DEF ReadState, TypeOK, AfterRead
  <2>3. ~full'[h] => ~MustSendFull(h, state[h])
    BY <1>4 DEF ReadState, TypeOK
  <2> QED
    BY <1>0, <2>1, <2>2, <2>3 DEF MustSendFull, Late
<1>5. CASE RecordState(h)
  <2>1. state' = [snapshot[h] EXCEPT ![h] = Recorded(h)]
    BY <1>1, <1>5 DEF RecordState, Losses
  <2>2. state'[h].digest = seen[h]
    BY <2>1 DEF TypeOK, Recorded
  <2>3. pc'[h] = "files" /\ full[h] /\ UNCHANGED <<degraded, full, seen, have>>
    BY <1>5 DEF RecordState, Move, TypeOK, Flags, hist
  <2> QED
    BY <1>0, <2>2, <2>3 DEF Late
<1>6. CASE HandsOver(h)
  BY <1>0, <1>6 DEF HandsOver, TypeOK, Late, hist
\* With nothing lost a run ends by delivering.
<1>7. CASE WriteFiles(h) /\ ~HandsOver(h)
  <2>1. Ends(h) /\ Receive(h) /\ state' = state /\ pc[h] = "files"
    BY <1>1, <1>7 DEF WriteFiles, HandsOver, world, hist, Losses
  <2> QED
    BY <1>0, <2>1 DEF Ends, Receive, TypeOK, Late
<1>8. CASE Upload(h)
  <2>1. Ends(h) /\ Receive(h) /\ state' = state /\ pc[h] = "send"
    BY <1>0, <1>8 DEF Upload
  <2> QED
    BY <1>0, <2>1 DEF Ends, Receive, TypeOK, Late
<1>9. ~Crash(h)
  BY <1>1 DEF Crash, Losses
<1>10. CASE DeleteState
  <2>1. state'[h].digest = Unknown
    BY <1>10 DEF DeleteState, NoEntries, NoEntry
  <2> QED
    BY <1>0, <1>10, <2>1 DEF DeleteState, run, hist
<1>11. CASE EditState
  <2>1. PICK g \in Hosts, t \in Times : state' = [state EXCEPT ![g].fullAt = t]
    BY <1>11 DEF EditState
  <2>2. state'[h].digest = state[h].digest
    BY <1>2, <2>1 DEF TypeOK, Entry
  <2> QED
    BY <1>0, <1>11, <2>2 DEF EditState, run, hist
<1>12. CASE UNCHANGED <<state, run, hist>>
  BY <1>0, <1>12 DEF run, hist
<1> QED
  BY <1>2, <1>3, <1>4, <1>5, <1>6, <1>7, <1>8, <1>9, <1>10, <1>11, <1>12
  DEF Next, Acts, Change, Tick, vars

\* One host alone in its directory: as long as no list was lost and no entry
\* kept from the file, a stream that says "unchanged" is right, through any
\* number of deletions, edits and forced lists.
THEOREM UnchangedIsTrueAlways ==
  ASSUME \A a, b \in Hosts : a = b PROVE Spec => []UnchangedIsTrue
<1>1. Init => Recalled
  <2> SUFFICES ASSUME Init, NEW h \in Hosts
               PROVE  pc[h] = "idle" /\ ~degraded[h] /\ state[h].digest = Unknown
    BY DEF Recalled, Late
  <2> QED
    BY DEF Init, NoEntries, NoEntry
<1>2. Inv /\ Recalled /\ [Next]_vars => Recalled'
  BY RecalledNext DEF Inv
<1>3. Recalled => UnchangedIsTrue
  BY DEF Recalled, UnchangedIsTrue, SaysUnchanged, Late
<1> QED
  BY InvAlways, <1>1, <1>2, <1>3, PTL DEF Spec
=============================================================================
