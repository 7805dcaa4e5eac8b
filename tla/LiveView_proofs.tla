--------------------------- MODULE LiveView_proofs ---------------------------
(***************************************************************************)
(* Theorems about LiveView, for any number of rows, changes and loads: its *)
(* types, that its websocket is one subscriber of ChangeFeed, that no row  *)
(* is listed twice, and that a list that missed nothing shows the table.   *)
(***************************************************************************)
EXTENDS LiveView, FiniteSetTheorems, WellFoundedInduction, TLAPS

-----------------------------------------------------------------------------
(* Sets of positions, and sequences made of sets.                          *)

\* The last of some positions.
LEMMA LastOfMember ==
    ASSUME NEW S \in SUBSET Nat, S # {}, NEW n \in Nat, \A i \in S : i <= n
    PROVE  LastOf(S) \in S /\ \A i \in S : i <= LastOf(S)
<1> DEFINE Above == {k \in Nat : \A i \in S : i <= k}
<1>1. \E k \in Above : \A j \in Above : ~(<<j, k>> \in OpToRel(<, Nat))
  BY NatLessThanWellFounded, WFMin
<1>2. PICK k \in Above : \A j \in Above : ~(j < k)
  BY <1>1 DEF OpToRel
<1>3. k \in S
  <2> SUFFICES ASSUME k \notin S PROVE FALSE
    OBVIOUS
  <2>1. /\ \A i \in S : i \in Nat /\ i <= k /\ i # k
        /\ k \in Nat
    OBVIOUS
  <2>2. PICK i \in S : TRUE
    OBVIOUS
  <2>3. k - 1 \in Nat
    BY <2>1, <2>2
  <2>4. k - 1 \in Above
    BY <2>1, <2>3
  <2> QED
    BY <1>2, <2>1, <2>4
<1> QED
  BY <1>3 DEF LastOf

\* An injection between sets of one size reaches everything.
LEMMA SameSizeOnto ==
    ASSUME NEW S, NEW T, IsFiniteSet(S), IsFiniteSet(T),
           Cardinality(S) = Cardinality(T), NEW f \in [S -> T],
           \A x, y \in S : f[x] = f[y] => x = y
    PROVE  \A t \in T : \E x \in S : f[x] = t
<1> SUFFICES ASSUME NEW t \in T, \A x \in S : f[x] # t PROVE FALSE
  OBVIOUS
<1>1. /\ IsFiniteSet(T \ {t}) /\ Cardinality(T) \in Nat
      /\ Cardinality(T \ {t}) = Cardinality(T) - 1
  BY FS_RemoveElement, FS_CardinalityType
<1>2. f \in [S -> T \ {t}]
  OBVIOUS
<1>3. \E x, y \in S : x # y /\ f[x] = f[y]
  BY <1>1, <1>2, FS_PigeonHole
<1> QED
  BY <1>3

\* The elements of a finite set, each once.
LEMMA SetToSeqMembers ==
    ASSUME NEW S, IsFiniteSet(S)
    PROVE  /\ SetToSeq(S) \in Seq(S)
           /\ Range(SetToSeq(S)) = S
           /\ \A i, j \in DOMAIN SetToSeq(S) :
                 SetToSeq(S)[i] = SetToSeq(S)[j] => i = j
<1> DEFINE n == Cardinality(S)
<1>1. n \in Nat /\ ExistsBijection(1 .. n, S)
  BY FS_CardinalityType
<1>2. \E f \in [1 .. n -> S] : IsInjective(f)
  BY <1>1 DEF ExistsBijection, Bijection, Injection
<1> DEFINE s == SetToSeq(S)
<1>3. s \in [1 .. n -> S] /\ IsInjective(s)
  BY <1>2 DEF SetToSeq
<1> HIDE DEF s
<1>4. \A i, j \in 1 .. n : s[i] = s[j] => i = j
  BY <1>3 DEF IsInjective
<1>5. IsFiniteSet(1 .. n) /\ Cardinality(1 .. n) = n
  BY <1>1, FS_Interval
<1>6. \A x \in S : \E i \in 1 .. n : s[i] = x
  <2> DEFINE D == 1 .. n
  <2>1. s \in [D -> S] /\ Cardinality(D) = Cardinality(S) /\ IsFiniteSet(D)
    BY <1>3, <1>5
  <2>2. \A i, j \in D : s[i] = s[j] => i = j
    BY <1>4
  <2> HIDE DEF D
  <2>3. \A x \in S : \E i \in D : s[i] = x
    BY <2>1, <2>2, SameSizeOnto
  <2> QED
    BY <2>3 DEF D
<1>7. s \in Seq(S) /\ Range(s) = S
  BY <1>1, <1>3, <1>6 DEF Range
<1>8. \A i, j \in DOMAIN s : s[i] = s[j] => i = j
  BY <1>3, <1>4
<1> QED
  BY <1>7, <1>8 DEF s

\* Different numbers, one for each element and none too large: each is used.
LEMMA RankOnto ==
    \A S : IsFiniteSet(S) =>
       \A r \in [S -> 1 .. Cardinality(S)] :
          (\A i, j \in S : r[i] = r[j] => i = j)
             => \A n \in 1 .. Cardinality(S) : \E i \in S : r[i] = n
<1> SUFFICES ASSUME NEW S, IsFiniteSet(S), NEW r \in [S -> 1 .. Cardinality(S)],
                    \A i, j \in S : r[i] = r[j] => i = j
             PROVE  \A n \in 1 .. Cardinality(S) : \E i \in S : r[i] = n
  OBVIOUS
<1> DEFINE D == 1 .. Cardinality(S)
<1>1. Cardinality(S) \in Nat
  BY FS_CardinalityType
<1>2. IsFiniteSet(D) /\ Cardinality(S) = Cardinality(D) /\ r \in [S -> D]
  BY <1>1, FS_Interval
<1> HIDE DEF D
<1>3. \A n \in D : \E i \in S : r[i] = n
  BY <1>2, SameSizeOnto
<1> QED
  BY <1>3 DEF D

\* The numbers of a finite set can be told in increasing order.
LEMMA IncreasingOrder ==
    ASSUME NEW S \in SUBSET Nat, IsFiniteSet(S)
    PROVE  \E f \in [1 .. Cardinality(S) -> S] :
              \A m, n \in DOMAIN f : m < n => f[m] < f[n]
<1> DEFINE c == Cardinality(S)
           UpTo(i) == {j \in S : j <= i}
           rank == [i \in S |-> Cardinality(UpTo(i))]
<1>1. c \in Nat
  BY FS_CardinalityType
<1>2. ASSUME NEW i \in S
      PROVE  /\ IsFiniteSet(UpTo(i))
             /\ rank[i] \in 1 .. c
  <2>1. UpTo(i) \in SUBSET S /\ i \in UpTo(i)
    OBVIOUS
  <2>2. IsFiniteSet(UpTo(i)) /\ Cardinality(UpTo(i)) <= c
    BY <2>1, FS_Subset
  <2>3. Cardinality(UpTo(i)) \in Nat /\ Cardinality(UpTo(i)) # 0
    BY <2>1, <2>2, FS_CardinalityType, FS_EmptySet
  <2> QED
    BY <1>1, <2>2, <2>3
<1>3. ASSUME NEW i \in S, NEW j \in S, i < j
      PROVE  rank[i] < rank[j]
  <2> DEFINE T == UpTo(j) \ {j}
  <2>1. i \in Nat /\ j \in Nat /\ \A k \in S : k \in Nat
    OBVIOUS
  <2>2. UpTo(i) \in SUBSET T /\ j \in UpTo(j)
    <3>1. ASSUME NEW k \in S, k <= i
          PROVE  k <= j /\ k # j
      <4>1. k \in Nat
        BY <2>1
      <4> QED
        BY <1>3, <2>1, <3>1, <4>1
    <3>2. \A k \in UpTo(i) : k \in S /\ k <= i
      OBVIOUS
    <3>3. \A k \in UpTo(i) : k \in UpTo(j) /\ k # j
      BY <3>1, <3>2
    <3>4. j \in UpTo(j)
      BY <2>1
    <3> QED
      BY <3>3, <3>4
  <2>3. IsFiniteSet(UpTo(j)) /\ Cardinality(UpTo(j)) \in Nat
    BY <1>2, FS_CardinalityType
  <2>4. IsFiniteSet(T) /\ Cardinality(T) = Cardinality(UpTo(j)) - 1
    BY <2>2, <2>3, FS_RemoveElement
  <2>5. Cardinality(UpTo(i)) <= Cardinality(T)
    BY <2>2, <2>4, FS_Subset
  <2>6. Cardinality(UpTo(i)) \in Nat
    BY <1>2, FS_CardinalityType
  <2> QED
    BY <2>3, <2>4, <2>5, <2>6
<1> HIDE DEF UpTo
<1>4. rank \in [S -> 1 .. c] /\ \A i, j \in S : rank[i] = rank[j] => i = j
  <2>1. rank \in [S -> 1 .. c]
    BY <1>2
  <2> HIDE DEF rank
  <2>2. ASSUME NEW i \in S, NEW j \in S, rank[i] = rank[j]
        PROVE  i = j
    <3>1. ~(i < j) /\ ~(j < i)
      BY <1>1, <1>3, <2>1, <2>2
    <3> QED
      BY <3>1
  <2> QED
    BY <2>1, <2>2
<1> HIDE DEF rank
<1>5. IsFiniteSet(1 .. c) /\ Cardinality(1 .. c) = Cardinality(S)
  BY <1>1, FS_Interval
<1>6. \A n \in 1 .. c : \E i \in S : rank[i] = n
  <2>1. \A r \in [S -> 1 .. c] :
           (\A i, j \in S : r[i] = r[j] => i = j)
              => \A n \in 1 .. c : \E i \in S : r[i] = n
    BY <1>5, RankOnto, Zenon
  <2> HIDE DEF c
  <2> QED
    BY <1>4, <2>1
<1> DEFINE f == [n \in 1 .. c |-> CHOOSE i \in S : rank[i] = n]
<1>7. f \in [1 .. c -> S] /\ \A n \in 1 .. c : rank[f[n]] = n
  BY <1>6
<1> HIDE DEF f
<1>8. ASSUME NEW m \in 1 .. c, NEW n \in 1 .. c, m < n
      PROVE  f[m] < f[n]
  <2>1. f[m] \in S /\ f[n] \in S /\ rank[f[m]] = m /\ rank[f[n]] = n
    BY <1>7
  <2>2. f[m] \in Nat /\ f[n] \in Nat /\ m \in Nat /\ n \in Nat
    <3>1. f[m] \in Nat /\ f[n] \in Nat
      BY <2>1
    <3>2. m \in Nat /\ n \in Nat
      BY <1>1
    <3> QED
      BY <3>1, <3>2
  <2>3. ~(f[n] < f[m]) /\ f[m] # f[n]
    BY <1>3, <1>8, <2>1, <2>2
  <2> QED
    BY <2>2, <2>3
<1> QED
  BY <1>7, <1>8

-----------------------------------------------------------------------------
(* The list, and what the push of a change does to it.                     *)

\* No row is listed twice, and no ghost is listed besides its row.
Unique(items) ==
    \A i, j \in DOMAIN items :
        items[i].id \in {items[j].id, -items[j].id} => i = j

\* Without is a part of the list, in which every item is at most once.
LEMMA WithoutPlaces ==
    ASSUME NEW items \in Seq(Item), NEW id
    PROVE  /\ Without(items, id) \in Seq(Item)
           /\ \E f \in [DOMAIN Without(items, id) -> DOMAIN items] :
                 /\ \A n \in DOMAIN f : Without(items, id)[n] = items[f[n]]
                 /\ \A m, n \in DOMAIN f : f[m] = f[n] => m = n
                 /\ \A n \in DOMAIN f : items[f[n]].id # id
                 /\ \A i \in DOMAIN items :
                       items[i].id # id => \E n \in DOMAIN f : f[n] = i
<1> DEFINE kept == {i \in DOMAIN items : items[i].id # id}
           c == Cardinality(kept)
           order == CHOOSE f \in [1 .. c -> kept] :
                       \A m, n \in DOMAIN f : m < n => f[m] < f[n]
           w == [n \in DOMAIN order |-> items[order[n]]]
<1>1. /\ DOMAIN items = 1 .. Len(items) /\ Len(items) \in Nat
      /\ \A i \in DOMAIN items : items[i] \in Item
  OBVIOUS
<1>2. kept \in SUBSET DOMAIN items /\ kept \in SUBSET Nat
  BY <1>1
<1>3. IsFiniteSet(kept)
  <2>1. IsFiniteSet(1 .. Len(items))
    BY <1>1, FS_Interval
  <2> QED
    BY <1>1, <1>2, <2>1, FS_Subset
<1>4. c \in Nat
  BY <1>3, FS_CardinalityType
<1>5. /\ order \in [1 .. c -> kept]
      /\ \A m, n \in 1 .. c : m < n => order[m] < order[n]
  <2>1. \E f \in [1 .. c -> kept] : \A m, n \in DOMAIN f : m < n => f[m] < f[n]
    BY <1>2, <1>3, IncreasingOrder
  <2> HIDE DEF c, kept
  <2>2. /\ order \in [1 .. c -> kept]
        /\ \A m, n \in DOMAIN order : m < n => order[m] < order[n]
    BY <2>1
  <2> HIDE DEF order
  <2> QED
    BY <2>2
<1> HIDE DEF order
<1>6. ASSUME NEW m \in 1 .. c, NEW n \in 1 .. c, order[m] = order[n]
      PROVE  m = n
  <2>1. order[m] \in Nat /\ order[n] \in Nat /\ m \in Nat /\ n \in Nat
    BY <1>2, <1>4, <1>5
  <2>2. ~(m < n) /\ ~(n < m)
    BY <1>5, <1>6, <2>1
  <2> QED
    BY <2>1, <2>2
<1>7. \A i \in kept : \E n \in 1 .. c : order[n] = i
  <2> DEFINE D == 1 .. c
  <2>1. IsFiniteSet(D) /\ Cardinality(D) = Cardinality(kept)
    BY <1>4, FS_Interval
  <2>2. order \in [D -> kept]
    BY <1>5
  <2>3. \A m, n \in D : order[m] = order[n] => m = n
    BY <1>6
  <2> HIDE DEF D, c, kept
  <2>4. \A i \in kept : \E n \in D : order[n] = i
    BY <1>3, <2>1, <2>2, <2>3, SameSizeOnto
  <2> QED
    BY <2>4 DEF D
<1>8. DOMAIN order = 1 .. c /\ DOMAIN w = 1 .. c
  BY <1>5
<1>9. Without(items, id) = w
  BY DEF Without, order
<1>10. w \in Seq(Item)
  <2>1. \A n \in 1 .. c : w[n] \in Item
    BY <1>1, <1>2, <1>5, <1>8
  <2> QED
    BY <1>4, <1>8, <2>1
<1>11. order \in [DOMAIN w -> DOMAIN items]
  BY <1>2, <1>5, <1>8
<1>12. \A n \in DOMAIN order : w[n] = items[order[n]] /\ items[order[n]].id # id
  BY <1>5, <1>8
<1>13. \A i \in DOMAIN items : items[i].id # id => \E n \in DOMAIN order : order[n] = i
  BY <1>7, <1>8
<1>14. \A m, n \in DOMAIN order : order[m] = order[n] => m = n
  BY <1>6, <1>8
<1> HIDE DEF w, kept, c
<1> QED
  BY <1>9, <1>10, <1>11, <1>12, <1>13, <1>14

\* An ID and its negative are different.
LEMMA ItemID == \A x \in Item : x.id \in Int /\ x.id # -x.id /\ -(-x.id) = x.id
<1>1. MaxRow \in Nat
  BY LiveViewConstants DEF LiveViewConstants
<1> QED
  BY <1>1 DEF Item, RowID

\* A push replaces, drops or adds one item, and leaves the others.
LEMMA MergeItems ==
    ASSUME NEW items \in Seq(Item), Unique(items), NEW f \in Item
    PROVE  /\ Merge(items, f) \in Seq(Item)
           /\ Unique(Merge(items, f))
           /\ \A x : x \in Range(Merge(items, f)) <=>
                        \/ x \in Range(items) /\ x.id \notin {f.id, -f.id}
                        \/ x = f /\ \A y \in Range(items) : y.id # -f.id
<1> DEFINE hit == \E i \in DOMAIN items : items[i].id \in {f.id, -f.id}
           kept == Without(items, -f.id)
           new == [n \in DOMAIN kept |-> IF kept[n].id = f.id THEN f ELSE kept[n]]
<1>1. PICK g \in [DOMAIN kept -> DOMAIN items] :
         /\ \A n \in DOMAIN g : kept[n] = items[g[n]]
         /\ \A m, n \in DOMAIN g : g[m] = g[n] => m = n
         /\ \A n \in DOMAIN g : items[g[n]].id # -f.id
         /\ \A i \in DOMAIN items :
               items[i].id # -f.id => \E n \in DOMAIN g : g[n] = i
  BY WithoutPlaces
<1>2. kept \in Seq(Item)
  BY WithoutPlaces
<1> HIDE DEF kept
<1>3. /\ DOMAIN kept = 1 .. Len(kept) /\ Len(kept) \in Nat
      /\ \A n \in DOMAIN kept : kept[n] \in Item
      /\ \A i \in DOMAIN items : items[i] \in Item
  BY <1>2
<1>4. f.id \in Int /\ f.id # -f.id /\ -(-f.id) = f.id
  BY ItemID
<1>5. \A i, j \in DOMAIN items :
          items[i].id = items[j].id \/ items[i].id = -items[j].id => i = j
  BY DEF Unique
<1>6. new \in Seq(Item) /\ Len(new) = Len(kept) /\ DOMAIN new = DOMAIN kept
  BY <1>3
<1>7. \A n \in DOMAIN kept :
          /\ kept[n].id # f.id => new[n] = kept[n]
          /\ kept[n].id = f.id => new[n] = f
          /\ new[n].id = kept[n].id
          /\ kept[n].id # -f.id
  BY <1>1, <1>3
<1> HIDE DEF new
<1>8. \A m, n \in DOMAIN kept :
          kept[m].id = kept[n].id \/ kept[m].id = -kept[n].id => m = n
  <2> SUFFICES ASSUME NEW m \in DOMAIN kept, NEW n \in DOMAIN kept,
                      kept[m].id = kept[n].id \/ kept[m].id = -kept[n].id
               PROVE  m = n
    OBVIOUS
  <2>1. /\ g[m] \in DOMAIN items /\ g[n] \in DOMAIN items
        /\ kept[m] = items[g[m]] /\ kept[n] = items[g[n]]
    BY <1>1
  <2>2. g[m] = g[n]
    BY <1>5, <2>1
  <2> QED
    BY <1>1, <2>2
<1>9. Unique(new)
  BY <1>6, <1>7, <1>8 DEF Unique
<1>10. \A x : x \in Range(items) /\ x.id \notin {f.id, -f.id}
                 <=> \E n \in DOMAIN kept : kept[n] = x /\ x.id # f.id
  <2> SUFFICES ASSUME NEW x
               PROVE  x \in Range(items) /\ x.id \notin {f.id, -f.id}
                         <=> \E n \in DOMAIN kept : kept[n] = x /\ x.id # f.id
    OBVIOUS
  <2>1. ASSUME x \in Range(items), x.id \notin {f.id, -f.id}
        PROVE  \E n \in DOMAIN kept : kept[n] = x /\ x.id # f.id
    <3>1. PICK i \in DOMAIN items : items[i] = x
      BY <2>1 DEF Range
    <3>2. PICK n \in DOMAIN g : g[n] = i
      BY <1>1, <2>1, <3>1
    <3> QED
      BY <1>1, <2>1, <3>1, <3>2
  <2>2. ASSUME NEW n \in DOMAIN kept, kept[n] = x, x.id # f.id
        PROVE  x \in Range(items) /\ x.id \notin {f.id, -f.id}
    <3>1. g[n] \in DOMAIN items /\ items[g[n]] = x
      BY <1>1, <2>2
    <3> QED
      BY <1>7, <2>2, <3>1 DEF Range
  <2> QED
    BY <2>1, <2>2
<1>11. CASE hit
  <2>1. Merge(items, f) = new
    BY <1>11 DEF Merge, new, kept
  <2>2. \A x : x \in Range(new) <=>
               \/ \E n \in DOMAIN kept : kept[n] = x /\ x.id # f.id
               \/ x = f /\ \E n \in DOMAIN kept : kept[n].id = f.id
    BY <1>6, <1>7 DEF Range
  <2>3. (\E n \in DOMAIN kept : kept[n].id = f.id)
           <=> \A y \in Range(items) : y.id # -f.id
    <3>1. ASSUME NEW n \in DOMAIN kept, kept[n].id = f.id, NEW y \in Range(items),
                 y.id = -f.id
          PROVE  FALSE
      <4>1. PICK i \in DOMAIN items : items[i] = y
        BY DEF Range
      <4>2. g[n] \in DOMAIN items /\ items[g[n]].id = f.id /\ items[g[n]].id # -f.id
        BY <1>1, <3>1
      <4>3. items[i].id = -items[g[n]].id
        BY <3>1, <4>1, <4>2
      <4>4. i = g[n]
        BY <1>5, <4>2, <4>3
      <4> QED
        BY <3>1, <4>1, <4>2, <4>4
    <3>2. ASSUME \A y \in Range(items) : y.id # -f.id
          PROVE  \E n \in DOMAIN kept : kept[n].id = f.id
      <4>1. PICK i \in DOMAIN items : items[i].id = f.id
        BY <1>11, <3>2 DEF Range
      <4>2. PICK n \in DOMAIN g : g[n] = i
        BY <1>1, <1>4, <4>1
      <4> QED
        BY <1>1, <4>1, <4>2
    <3> QED
      BY <3>1, <3>2
  <2> QED
    BY <1>6, <1>9, <1>10, <2>1, <2>2, <2>3
<1>12. CASE ~hit
  <2>1. Merge(items, f) = Append(new, f)
    BY <1>12 DEF Merge, new, kept
  <2>2. \A n \in DOMAIN kept : kept[n].id # f.id /\ kept[n].id # -f.id
    <3> SUFFICES ASSUME NEW n \in DOMAIN kept PROVE kept[n].id \notin {f.id, -f.id}
      OBVIOUS
    <3>1. g[n] \in DOMAIN items /\ kept[n] = items[g[n]]
      BY <1>1
    <3> QED
      BY <1>12, <3>1
  <2> DEFINE s == Append(new, f)
  <2>3. /\ s \in Seq(Item) /\ Len(s) = Len(kept) + 1 /\ DOMAIN s = 1 .. Len(kept) + 1
        /\ \A n \in 1 .. Len(kept) : s[n] = kept[n]
        /\ s[Len(kept) + 1] = f
    BY <1>3, <1>6, <1>7, <2>2
  <2> HIDE DEF s
  <2>4. \A x : x \in Range(s) <=> x = f \/ \E n \in DOMAIN kept : kept[n] = x
    <3>1. ASSUME NEW x, x \in Range(s)
          PROVE  x = f \/ \E n \in DOMAIN kept : kept[n] = x
      BY <1>3, <2>3, <3>1 DEF Range
    <3>2. f \in Range(s)
      <4>1. Len(kept) + 1 \in DOMAIN s
        BY <1>3, <2>3
      <4> QED
        BY <2>3, <4>1 DEF Range
    <3>3. ASSUME NEW n \in DOMAIN kept PROVE kept[n] \in Range(s)
      <4>1. n \in DOMAIN s /\ s[n] = kept[n]
        BY <1>3, <2>3
      <4> QED
        BY <4>1 DEF Range
    <3> QED
      BY <3>1, <3>2, <3>3
  <2>5. \A y \in Range(items) : y.id # -f.id
    BY <1>12 DEF Range
  <2>6. Unique(s)
    <3> SUFFICES ASSUME NEW m \in DOMAIN s, NEW n \in DOMAIN s,
                        s[m].id = s[n].id \/ s[m].id = -s[n].id
                 PROVE  m = n
      BY DEF Unique
    <3>1. CASE m \in DOMAIN kept /\ n \in DOMAIN kept
      BY <1>3, <1>8, <2>3, <3>1
    <3>2. CASE m = Len(kept) + 1 /\ n \in DOMAIN kept
      <4>1. s[m] = f /\ s[n] = kept[n] /\ kept[n] \in Item
        BY <1>3, <2>3, <3>2
      <4>2. kept[n].id # f.id /\ kept[n].id # -f.id /\ -(-kept[n].id) = kept[n].id
        BY <2>2, <3>2, <4>1, ItemID
      <4> QED
        BY <4>1, <4>2
    <3>3. CASE m \in DOMAIN kept /\ n = Len(kept) + 1
      BY <1>3, <2>2, <2>3, <3>3
    <3>4. CASE m = Len(kept) + 1 /\ n = Len(kept) + 1
      BY <3>4
    <3> QED
      BY <1>3, <2>3, <3>1, <3>2, <3>3, <3>4
  <2>7. \A x : (\E n \in DOMAIN kept : kept[n] = x)
                  <=> (\E n \in DOMAIN kept : kept[n] = x /\ x.id # f.id)
    BY <2>2
  <2>8. Merge(items, f) = s
    BY <2>1 DEF s
  <2> QED
    BY <1>10, <2>3, <2>4, <2>5, <2>6, <2>7, <2>8
<1> QED
  BY <1>11, <1>12

\* There are finitely many entries, so a set of them can be listed.
LEMMA EntriesFinite == IsFiniteSet(Entry)
<1>1. MaxRow \in Nat /\ MaxChanges \in Nat
  BY LiveViewConstants DEF LiveViewConstants
<1>2. IsFiniteSet(RowID) /\ IsFiniteSet(Data)
  <2>1. IsFiniteSet(1 .. MaxRow) /\ IsFiniteSet(1 .. MaxChanges)
    BY <1>1, FS_Interval
  <2>2. IsFiniteSet({Gone})
    BY FS_Singleton
  <2>3. IsFiniteSet((1 .. MaxChanges) \cup {Gone})
    BY <2>1, <2>2, FS_Union
  <2> QED
    BY <2>1, <2>3 DEF RowID, Data
<1>3. IsFiniteSet(RowID \X Data)
  BY <1>2, FS_Product
<1> DEFINE f == [e \in Entry |-> <<e.id, e.data>>]
<1>4. f \in Injection(Entry, RowID \X Data)
  <2>1. f \in [Entry -> RowID \X Data]
    BY DEF Entry
  <2>2. ASSUME NEW a \in Entry, NEW b \in Entry, f[a] = f[b]
        PROVE  a = b
    <3>1. a.id = b.id /\ a.data = b.data
      BY <2>2
    <3> QED
      BY <3>1 DEF Entry
  <2> QED
    BY <2>1, <2>2 DEF Injection, IsInjective
<1> QED
  BY <1>3, <1>4, FS_Injection

LEMMA RowsToItems ==
    ASSUME NEW rows \in SUBSET Entry
    PROVE  /\ SetToSeq(rows) \in Seq(Item)
           /\ Range(SetToSeq(rows)) = rows
           /\ \A i, j \in DOMAIN SetToSeq(rows) :
                 SetToSeq(rows)[i] = SetToSeq(rows)[j] => i = j
<1>1. IsFiniteSet(rows)
  BY EntriesFinite, FS_Subset
<1>2. /\ SetToSeq(rows) \in Seq(rows)
      /\ Range(SetToSeq(rows)) = rows
      /\ \A i, j \in DOMAIN SetToSeq(rows) :
            SetToSeq(rows)[i] = SetToSeq(rows)[j] => i = j
  BY <1>1, SetToSeqMembers
<1>3. Entry \subseteq Item
  BY DEF Entry, Item
<1> DEFINE s == SetToSeq(rows)
<1>4. s \in Seq(rows)
  BY <1>2
<1> HIDE DEF s
<1>5. s \in Seq(Item)
  BY <1>3, <1>4
<1> QED
  BY <1>2, <1>5 DEF s

-----------------------------------------------------------------------------
(* The websocket is one subscriber of ChangeFeed.                          *)

FeedProofs == INSTANCE ChangeFeed_proofs WITH
                  Subscriber <- {Push}, Change <- Entry, Faulty <- {}, missed <- {}

\* Both instances are of the same invariant and of the same steps.
LEMMA FeedInvariant ==
    FeedProofs!FeedInv <=> Feed!FeedTypeOK /\ Feed!Contiguous
BY DEF FeedProofs!FeedInv, FeedProofs!FeedTypeOK, Feed!FeedTypeOK,
       FeedProofs!Contiguous, Feed!Contiguous, FeedProofs!Joined, Feed!Joined,
       FeedProofs!Off, Feed!Off

LEMMA FeedSteps ==
    [Feed!FeedNext]_(Feed!feedVars) => [FeedProofs!FeedNext]_(FeedProofs!feedVars)
BY DEF Feed!FeedNext, FeedProofs!FeedNext, Feed!feedVars, FeedProofs!feedVars,
       Feed!Grow, FeedProofs!Grow, Feed!Join, FeedProofs!Join,
       Feed!Deliver, FeedProofs!Deliver, Feed!Leave, FeedProofs!Leave,
       Feed!Miss, FeedProofs!Miss, Feed!Joined, FeedProofs!Joined,
       Feed!Off, FeedProofs!Off

LEMMA FeedStep ==
    Feed!FeedTypeOK /\ Feed!Contiguous /\ [Feed!FeedNext]_(Feed!feedVars)
        => Feed!FeedTypeOK' /\ Feed!Contiguous'
<1>1. FeedProofs!FeedInv' <=> Feed!FeedTypeOK' /\ Feed!Contiguous'
  BY DEF FeedProofs!FeedInv, FeedProofs!FeedTypeOK, Feed!FeedTypeOK,
         FeedProofs!Contiguous, Feed!Contiguous, FeedProofs!Joined, Feed!Joined,
         FeedProofs!Off, Feed!Off
<1> QED
  BY <1>1, FeedInvariant, FeedSteps, FeedProofs!StepFeedInv

\* A statement, whether it stands or is taken back.
Grown(id, d) ==
    Callback(id, d) /\ refused' \in {refused, refused \cup {Len(log) + 1}}

LEMMA StatementsGrow ==
    ASSUME NEW id
    PROVE  /\ \A d : Write(id, d) => Grown(id, d)
           /\ DeleteRefused(id) => Grown(id, Gone)
BY DEF Grown, Write, DeleteRefused

\* A statement appends one change.
LEMMA WriteAppends ==
    ASSUME TypeOK, NEW id \in RowID, NEW d \in {Len(log) + 1, Gone}, Grown(id, d)
    PROVE  /\ log' \in Seq(Entry) /\ Len(log) \in Nat /\ Len(log') = Len(log) + 1
           /\ [id |-> id, data |-> d] \in Entry
           /\ log'[Len(log) + 1] = [id |-> id, data |-> d]
           /\ \A i \in 1 .. Len(log) : log'[i] = log[i] /\ log[i] \in Entry
<1>1. log \in Seq(Entry) /\ Len(log) \in Nat
  BY DEF TypeOK, Feed!FeedTypeOK
<1>2. [id |-> id, data |-> d] \in Entry
  <2>1. d \in Data
    BY <1>1, LiveViewConstants DEF Grown, Callback, Data, LiveViewConstants
  <2> QED
    BY <2>1 DEF Entry
<1> DEFINE e == [id |-> id, data |-> d]
<1>3. log' = Append(log, e)
  BY DEF Grown, Callback
<1>4. e \in Entry
  BY <1>2
<1> HIDE DEF e
<1>5. /\ log' \in Seq(Entry) /\ Len(log') = Len(log) + 1
      /\ log'[Len(log) + 1] = e
      /\ \A i \in 1 .. Len(log) : log'[i] = log[i] /\ log[i] \in Entry
  BY <1>1, <1>3, <1>4
<1> QED
  BY <1>1, <1>4, <1>5 DEF e

\* What a step may do to the subscription.
StaysOut == cursor[Push] = Feed!Off /\ UNCHANGED <<log, cursor, got>>

LEMMA EndSubscriptionSteps == EndSubscription => Feed!Leave(Push) \/ StaysOut
BY DEF EndSubscription, StaysOut

\* Every step is one of ChangeFeed, or leaves it alone.
LEMMA StepIsFeed == TypeOK /\ [Next]_vars => [Feed!FeedNext]_(Feed!feedVars)
<1> SUFFICES ASSUME TypeOK, [Next]_vars PROVE [Feed!FeedNext]_(Feed!feedVars)
  OBVIOUS
<1>1. UNCHANGED <<log, cursor, got>> => UNCHANGED Feed!feedVars
  BY DEF Feed!feedVars
<1>2. Feed!Leave(Push) => Feed!FeedNext
  BY DEF Feed!FeedNext
<1>3. EndSubscription => [Feed!FeedNext]_(Feed!feedVars)
  BY <1>1, <1>2, EndSubscriptionSteps DEF StaysOut
<1>4. ASSUME NEW id \in RowID, NEW d \in {Len(log) + 1, Gone}, Grown(id, d)
      PROVE  Feed!FeedNext
  <2>1. /\ log' \in Seq(Entry) /\ Len(log) \in Nat /\ Len(log') = Len(log) + 1
        /\ \A i \in 1 .. Len(log) : log'[i] = log[i]
    BY <1>4, WriteAppends, Zenon
  <2> QED
    BY <1>4, <2>1 DEF Grown, Callback, Feed!FeedNext, Feed!Grow
<1>5. Publish => [Feed!FeedNext]_(Feed!feedVars)
  BY <1>1 DEF Publish, Feed!FeedNext
<1>6. HandleSubscribe => Feed!FeedNext
  BY DEF HandleSubscribe, Feed!FeedNext, TypeOK
<1>7. HandleUnsubscribe \/ CloseCompletes \/ ConnectionLost
         => [Feed!FeedNext]_(Feed!feedVars)
  BY <1>3 DEF HandleUnsubscribe, CloseCompletes, ConnectionLost, OnClose
<1>8. ASSUME NEW i \in Load, Show(i) \/ Retry(i) \/ LoadStep(i)
      PROVE  UNCHANGED <<log, cursor, got>>
  BY <1>8 DEF Show, Retry, LoadStep, AfterViewInit, AnswerLoad, LoadArrives,
              LoadFails, serverVars
<1>9. Destroy \/ SocketOpens \/ MergePush \/ PushTooEarly
         => UNCHANGED <<log, cursor, got>>
  BY DEF Destroy, SocketOpens, MergePush, PushTooEarly, serverVars
<1>10. CASE UNCHANGED vars
  BY <1>1, <1>10 DEF vars
<1> QED
  BY <1>1, <1>4, <1>5, <1>6, <1>7, <1>8, <1>9, <1>10, StatementsGrow DEF Next

-----------------------------------------------------------------------------
(* Where the subscription, the socket and the list are with each other.    *)

\* A subscriber that has joined is as far as the publisher.
CursorInv ==
    /\ cursor[Push] = Feed!Off => got[Push] = << >>
    /\ cursor[Push] # Feed!Off => cursor[Push] = published

\* Every connection starts anew; on an open one nothing has been unsubscribed.
\* Before the view is shown, and while a Retry is offered, there is none.
SocketInv ==
    /\ socket \in {"none", "connecting"} =>
          read = 0 /\ cursor[Push] = Feed!Off /\ toServer = << >>
    /\ socket = "open" =>
          /\ read <= Len(got[Push])
          /\ \A i \in DOMAIN toServer : toServer[i] # "unsubscribe"
    /\ retry => socket = "none"
    /\ view = "new" => socket = "none" /\ ~isActive /\ ~retry

\* What was merged comes before what the browser handles next.
MergedInv ==
    /\ merged \subseteq 1 .. published
    /\ socket = "open" =>
          \A i \in merged : i <= published - Len(got[Push]) + read

StreamInv == TypeOK /\ Feed!Contiguous /\ CursorInv /\ SocketInv /\ MergedInv

LEMMA InitStream == Init => StreamInv
<1> SUFFICES ASSUME Init PROVE StreamInv
  OBVIOUS
<1> USE DEF Init, Feed!FeedInit, Feed!Off, Push
<1>1. Feed!FeedTypeOK /\ Feed!Contiguous
  BY DEF Feed!FeedTypeOK, Feed!Contiguous, Feed!Joined
<1>2. << >> \in Seq({"subscribe", "unsubscribe"}) /\ Len(log) = 0
  OBVIOUS
<1>3. loads \in [Load -> [state : {"unused", "sent", "answered", "done"},
                          rows : SUBSET Entry, at : Nat]]
  OBVIOUS
<1>4. TypeOK
  <2>1. published \in 0 .. Len(log) /\ read \in Nat /\ base \in Nat
    BY <1>2
  <2>2. merged \subseteq 1 .. Len(log) /\ dataSource \in Seq(Item) \cup {NoSource}
    OBVIOUS
  <2> QED
    BY <1>1, <1>2, <1>3, <2>1, <2>2 DEF TypeOK
<1>5. CursorInv /\ SocketInv /\ MergedInv
  BY DEF CursorInv, SocketInv, MergedInv
<1> QED
  BY <1>1, <1>4, <1>5 DEF StreamInv

\* The numbers of a subscription.
LEMMA CursorFacts ==
    ASSUME StreamInv
    PROVE  /\ Len(log) \in Nat /\ published \in Nat /\ published <= Len(log)
           /\ got[Push] \in Seq(Entry) /\ Len(got[Push]) \in Nat
           /\ Len(got[Push]) <= published
           /\ cursor[Push] # Feed!Off => cursor[Push] = published
           /\ got[Push] # << >> =>
                 /\ cursor[Push] = published
                 /\ \A i \in 1 .. Len(got[Push]) :
                       got[Push][i] = log[published - Len(got[Push]) + i]
           /\ read \in Nat
<1>1. /\ log \in Seq(Entry) /\ got \in [{Push} -> Seq(Entry)]
      /\ cursor \in [{Push} -> Nat \cup {Feed!Off}]
      /\ published \in 0 .. Len(log) /\ read \in Nat
  BY DEF StreamInv, TypeOK, Feed!FeedTypeOK
<1>2. Len(log) \in Nat /\ got[Push] \in Seq(Entry) /\ Len(got[Push]) \in Nat
  BY <1>1
<1>3. CASE cursor[Push] = Feed!Off
  BY <1>1, <1>2, <1>3 DEF StreamInv, CursorInv
<1>4. CASE cursor[Push] # Feed!Off
  <2>1. Push \in Feed!Joined \ {}
    BY <1>4 DEF Feed!Joined
  <2>2. /\ Len(got[Push]) <= cursor[Push]
        /\ \A i \in 1 .. Len(got[Push]) :
              got[Push][i] = log[cursor[Push] - Len(got[Push]) + i]
    BY <2>1 DEF StreamInv, Feed!Contiguous
  <2> QED
    BY <1>1, <1>2, <1>4, <2>2 DEF StreamInv, CursorInv
<1> QED
  BY <1>3, <1>4

\* What a step makes of the cursor of the websocket and of what it was handed.
LEMMA JoinEffect ==
    ASSUME Feed!FeedTypeOK, NEW at, Feed!Join(Push, at)
    PROVE  /\ cursor[Push] = Feed!Off /\ cursor'[Push] = at
           /\ got'[Push] = << >> /\ log' = log
BY DEF Feed!FeedTypeOK, Feed!Join

LEMMA DeliverEffect ==
    ASSUME Feed!FeedTypeOK, Feed!Deliver(Push)
    PROVE  /\ log' = log /\ cursor'[Push] = cursor[Push] + 1
           /\ Len(got'[Push]) = Len(got[Push]) + 1
           /\ cursor[Push] # Feed!Off /\ cursor[Push] \in Nat
<1>1. /\ log \in Seq(Entry) /\ got \in [{Push} -> Seq(Entry)]
      /\ cursor \in [{Push} -> Nat \cup {Feed!Off}]
  BY DEF Feed!FeedTypeOK
<1>2. cursor[Push] # Feed!Off /\ cursor[Push] < Len(log) /\ cursor[Push] \in Nat
  BY <1>1 DEF Feed!Deliver, Feed!Joined
<1>3. log[cursor[Push] + 1] \in Entry /\ got[Push] \in Seq(Entry)
  BY <1>1, <1>2
<1>4. /\ log' = log /\ cursor'[Push] = cursor[Push] + 1
      /\ got'[Push] = Append(got[Push], log[cursor[Push] + 1])
  BY <1>1 DEF Feed!Deliver
<1> QED
  BY <1>2, <1>3, <1>4

LEMMA EndEffect ==
    ASSUME Feed!FeedTypeOK, EndSubscription
    PROVE  /\ cursor'[Push] = Feed!Off /\ log' = log
           /\ cursor[Push] = Feed!Off => got'[Push] = got[Push]
           /\ cursor[Push] # Feed!Off => got'[Push] = << >>
BY DEF Feed!FeedTypeOK, EndSubscription, Feed!Leave, Feed!Joined, Feed!Off

LEMMA StreamFeed ==
    StreamInv /\ [Next]_vars => Feed!FeedTypeOK' /\ Feed!Contiguous'
BY FeedStep, StepIsFeed DEF StreamInv, TypeOK

\* The record of a GET keeps its type.
LEMMA LoadType ==
    ASSUME TypeOK, NEW i \in Load
    PROVE  /\ \A s \in {"unused", "sent", "answered", "done"} :
                 [loads EXCEPT ![i].state = s] \in
                    [Load -> [state : {"unused", "sent", "answered", "done"},
                              rows : SUBSET Entry, at : Nat]]
           /\ \A rows \in SUBSET Entry, at \in Nat :
                 [loads EXCEPT ![i] = [state |-> "answered", rows |-> rows, at |-> at]]
                    \in [Load -> [state : {"unused", "sent", "answered", "done"},
                                  rows : SUBSET Entry, at : Nat]]
BY DEF TypeOK

\* The rows of the table are entries of the log.
LEMMA RowAtMember ==
    ASSUME log \in Seq(Entry), NEW n \in 0 .. Len(log), NEW id, NEW x \in RowAt(id, n)
    PROVE  /\ Positions(id, n) # {}
           /\ LastOf(Positions(id, n)) \in Positions(id, n)
           /\ \A i \in Positions(id, n) : i <= LastOf(Positions(id, n))
           /\ x = log[LastOf(Positions(id, n))]
           /\ x \in Entry /\ x.id = id /\ x.data # Gone
<1> DEFINE S == Positions(id, n)
<1>1. S # {} /\ log[LastOf(S)].data # Gone /\ x = log[LastOf(S)]
  BY DEF RowAt
<1>2. S \in SUBSET Nat /\ n \in Nat /\ \A i \in S : i <= n
  BY DEF Positions
<1>3. LastOf(S) \in S /\ \A i \in S : i <= LastOf(S)
  BY <1>1, <1>2, LastOfMember
<1>4. \A i \in S : i \in 1 .. Len(log) /\ log[i] \in Entry /\ log[i].id = id
  BY DEF Positions
<1> QED
  BY <1>1, <1>3, <1>4

LEMMA TableType ==
    ASSUME log \in Seq(Entry), NEW n \in 0 .. Len(log)
    PROVE  TableAt(n) \in SUBSET Entry
BY RowAtMember DEF TableAt

\* The server: a statement, and what the publisher makes of it.
LEMMA WriteStream ==
    ASSUME StreamInv, Feed!FeedTypeOK', Feed!Contiguous',
           NEW id \in RowID, NEW d \in {Len(log) + 1, Gone}, Grown(id, d)
    PROVE  StreamInv'
<1>1. TypeOK
  BY DEF StreamInv
<1>2. Len(log) \in Nat /\ Len(log') = Len(log) + 1
  BY <1>1, WriteAppends
<1>3. TypeOK'
  <2>1. published' \in 0 .. Len(log') /\ merged' \subseteq 1 .. Len(log')
    BY <1>1, <1>2 DEF TypeOK, Grown, Callback, shownVars
  <2>2. refused' \subseteq 1 .. Len(log')
    <3>1. \A i \in refused : i \in 1 .. Len(log)
      BY <1>1 DEF TypeOK
    <3>2. \A i \in refused' : i \in refused \/ i = Len(log) + 1
      BY DEF Grown
    <3> QED
      BY <1>2, <3>1, <3>2
  <2> QED
    BY <1>1, <2>1, <2>2
       DEF TypeOK, Grown, Callback, networkVars, socketVars, shownVars, pageVars
<1>4. CursorInv' /\ SocketInv' /\ MergedInv'
  BY DEF StreamInv, CursorInv, SocketInv, MergedInv, Grown, Callback, networkVars,
         socketVars, shownVars, pageVars
<1> QED
  BY <1>3, <1>4 DEF StreamInv

LEMMA PublishStream ==
    ASSUME StreamInv, Feed!FeedTypeOK', Feed!Contiguous', Publish
    PROVE  StreamInv'
<1>1. TypeOK /\ Feed!FeedTypeOK
  BY DEF StreamInv, TypeOK
<1>2. /\ Len(log) \in Nat /\ published \in Nat /\ published < Len(log)
      /\ published' = published + 1 /\ log' = log
  BY <1>1, CursorFacts DEF Publish, Feed!Deliver
<1>3. TypeOK'
  <2>1. /\ published' \in 0 .. Len(log') /\ merged' \subseteq 1 .. Len(log')
        /\ refused' \subseteq 1 .. Len(log')
    BY <1>1, <1>2 DEF TypeOK, Publish, shownVars
  <2> QED
    BY <1>1, <2>1
       DEF TypeOK, Publish, networkVars, socketVars, shownVars, pageVars
<1>4. CASE cursor[Push] # Feed!Off /\ Feed!Deliver(Push)
  <2>1. /\ cursor'[Push] = cursor[Push] + 1 /\ cursor[Push] \in Nat
        /\ Len(got'[Push]) = Len(got[Push]) + 1
        /\ Len(got[Push]) \in Nat /\ read \in Nat
    BY <1>1, <1>4, DeliverEffect, CursorFacts
  <2>2. CursorInv'
    <3>1. cursor'[Push] = published' /\ cursor'[Push] # Feed!Off
      BY <1>2, <1>4, <2>1 DEF StreamInv, CursorInv, Feed!Off
    <3> QED
      BY <3>1 DEF CursorInv
  <2>3. SocketInv'
    BY <1>4, <2>1
       DEF StreamInv, SocketInv, Publish, networkVars, socketVars, pageVars
  <2>4. MergedInv'
    <3>1. published' - Len(got'[Push]) = published - Len(got[Push])
      BY <1>2, <2>1
    <3>2. socket' = socket /\ read' = read /\ merged' = merged
      BY DEF Publish, socketVars, shownVars
    <3>3. merged' \subseteq 1 .. published'
      BY <1>2, <3>2 DEF StreamInv, MergedInv
    <3> QED
      BY <3>1, <3>2, <3>3 DEF StreamInv, MergedInv
  <2> QED
    BY <1>3, <2>2, <2>3, <2>4 DEF StreamInv
<1>5. CASE StaysOut
  <2>1. CursorInv'
    BY <1>5 DEF StreamInv, CursorInv, StaysOut
  <2>2. SocketInv'
    BY <1>5
       DEF StreamInv, SocketInv, StaysOut, Publish, networkVars, socketVars, pageVars
  <2>3. MergedInv'
    <3>1. Len(got[Push]) \in Nat /\ read \in Nat /\ merged \subseteq 1 .. published
      BY CursorFacts DEF StreamInv, MergedInv
    <3>2. socket' = socket /\ read' = read /\ merged' = merged /\ got' = got
      BY <1>5 DEF StaysOut, Publish, socketVars, shownVars
    <3>3. merged' \subseteq 1 .. published'
      BY <1>2, <3>1, <3>2
    <3>4. \A i \in merged : socket = "open" => i <= published - Len(got[Push]) + read
      BY DEF StreamInv, MergedInv
    <3>5. ASSUME NEW i \in merged, socket = "open"
          PROVE  i <= published' - Len(got[Push]) + read
      BY <1>2, <3>1, <3>4, <3>5
    <3> QED
      BY <3>2, <3>3, <3>5 DEF MergedInv
  <2> QED
    BY <1>3, <2>1, <2>2, <2>3 DEF StreamInv
<1> QED
  BY <1>4, <1>5 DEF Publish, StaysOut

LEMMA HandleSubscribeStream ==
    ASSUME StreamInv, Feed!FeedTypeOK', Feed!Contiguous', HandleSubscribe
    PROVE  StreamInv'
<1>1. TypeOK /\ Feed!FeedTypeOK
  BY DEF StreamInv, TypeOK
<1>2. /\ cursor[Push] = Feed!Off /\ cursor'[Push] = published
      /\ got'[Push] = << >> /\ log' = log /\ published' = published
  BY <1>1, JoinEffect DEF HandleSubscribe
<1>3. got[Push] = << >> /\ Len(<< >>) = 0
  BY <1>2 DEF StreamInv, CursorInv
<1>4. /\ toServer' \in Seq({"subscribe", "unsubscribe"})
      /\ \A i \in DOMAIN toServer' : i + 1 \in DOMAIN toServer
                                     /\ toServer'[i] = toServer[i + 1]
  BY <1>1 DEF TypeOK, HandleSubscribe
<1>5. TypeOK'
  BY <1>1, <1>2, <1>4
     DEF TypeOK, HandleSubscribe, socketVars, shownVars, pageVars
<1>6. CursorInv'
  BY <1>2 DEF CursorInv
<1>7. SocketInv'
  <2>1. socket \notin {"none", "connecting"}
    BY DEF StreamInv, SocketInv, HandleSubscribe
  <2> QED
    BY <1>2, <1>3, <1>4, <2>1
       DEF StreamInv, SocketInv, HandleSubscribe, socketVars, pageVars
<1>8. MergedInv'
  BY <1>2, <1>3 DEF StreamInv, MergedInv, HandleSubscribe, socketVars, shownVars
<1> QED
  BY <1>5, <1>6, <1>7, <1>8 DEF StreamInv

LEMMA HandleUnsubscribeStream ==
    ASSUME StreamInv, Feed!FeedTypeOK', Feed!Contiguous', HandleUnsubscribe
    PROVE  StreamInv'
<1>1. TypeOK /\ Feed!FeedTypeOK
  BY DEF StreamInv, TypeOK
<1>2. /\ cursor'[Push] = Feed!Off /\ log' = log /\ got'[Push] = << >>
      /\ published' = published
  BY <1>1, EndEffect DEF HandleUnsubscribe, StreamInv, CursorInv
<1>3. toServer' \in Seq({"subscribe", "unsubscribe"})
  BY <1>1 DEF TypeOK, HandleUnsubscribe
<1>4. TypeOK'
  BY <1>1, <1>2, <1>3
     DEF TypeOK, HandleUnsubscribe, socketVars, shownVars, pageVars
<1>5. socket \notin {"none", "connecting", "open"}
  <2>1. toServer # << >> /\ 1 \in DOMAIN toServer /\ toServer[1] = "unsubscribe"
    BY <1>1 DEF TypeOK, HandleUnsubscribe
  <2> QED
    BY <2>1 DEF StreamInv, SocketInv
<1>6. CursorInv' /\ SocketInv'
  BY <1>2, <1>5 DEF StreamInv, CursorInv, SocketInv, HandleUnsubscribe, socketVars,
                    pageVars
<1>7. MergedInv'
  BY <1>2, <1>5 DEF StreamInv, MergedInv, HandleUnsubscribe, socketVars, shownVars
<1> QED
  BY <1>4, <1>6, <1>7 DEF StreamInv

\* Steps of a GET leave the subscription alone.
LEMMA LoadStepStream ==
    ASSUME StreamInv, Feed!FeedTypeOK', Feed!Contiguous',
           NEW i \in Load, LoadStep(i)
    PROVE  StreamInv'
<1>1. TypeOK
  BY DEF StreamInv
<1>2. /\ UNCHANGED <<serverVars, toServer, socketVars>>
      /\ view' = view /\ (retry' = retry \/ retry' = FALSE) /\ isActive' = isActive
      /\ merged' = merged \/ merged' = {}
  BY DEF LoadStep, AnswerLoad, LoadArrives, LoadFails, shownVars, pageVars
<1>3. CursorInv' /\ SocketInv' /\ MergedInv'
  <2>1. /\ cursor' = cursor /\ got' = got /\ published' = published
        /\ socket' = socket /\ read' = read /\ toServer' = toServer
    BY <1>2 DEF serverVars, socketVars
  <2>2. CursorInv'
    BY <2>1 DEF StreamInv, CursorInv
  <2>3. SocketInv'
    BY <1>2, <2>1 DEF StreamInv, SocketInv
  <2>4. MergedInv'
    BY <1>2, <2>1 DEF StreamInv, MergedInv
  <2> QED
    BY <2>2, <2>3, <2>4
<1>4. /\ loads' \in [Load -> [state : {"unused", "sent", "answered", "done"},
                              rows : SUBSET Entry, at : Nat]]
      /\ dataSource' \in Seq(Item) \cup {NoSource} /\ base' \in Nat
  <2>0. dataSource \in Seq(Item) \cup {NoSource} /\ base \in Nat
    BY <1>1 DEF TypeOK
  <2>1. CASE AnswerLoad(i)
    <3>1. Len(log) \in Nat /\ Table \in SUBSET Entry
      <4>1. log \in Seq(Entry) /\ Len(log) \in 0 .. Len(log) /\ Len(log) \in Nat
        BY <1>1 DEF TypeOK, Feed!FeedTypeOK
      <4> QED
        BY <4>1, TableType DEF Table
    <3>2. loads' = [loads EXCEPT ![i] = [state |-> "answered", rows |-> Table,
                                         at |-> Len(log)]]
      BY <2>1 DEF AnswerLoad
    <3>3. dataSource' = dataSource /\ base' = base
      BY <2>1 DEF AnswerLoad, shownVars
    <3> QED
      BY <1>1, <2>0, <3>1, <3>2, <3>3, LoadType
  <2>2. CASE LoadFails(i)
    BY <1>1, <2>0, <2>2, LoadType DEF LoadFails, shownVars
  <2>3. CASE LoadArrives(i)
    <3>1. loads' = [loads EXCEPT ![i].state = "done"]
      BY <2>3 DEF LoadArrives
    <3>2. loads[i].rows \in SUBSET Entry /\ loads[i].at \in Nat
      BY <1>1 DEF TypeOK
    <3>3. CASE loads[i].rows = {}
      <4>1. dataSource' = dataSource /\ base' = base
        BY <2>3, <3>3 DEF LoadArrives, shownVars
      <4> QED
        BY <1>1, <2>0, <3>1, <4>1, LoadType
    <3>4. CASE loads[i].rows # {}
      <4>1. dataSource' = SetToSeq(loads[i].rows) /\ base' = loads[i].at
        BY <2>3, <3>4 DEF LoadArrives
      <4>2. SetToSeq(loads[i].rows) \in Seq(Item)
        BY <3>2, RowsToItems
      <4> QED
        BY <1>1, <3>1, <3>2, <4>1, <4>2, LoadType
    <3> QED
      BY <3>3, <3>4
  <2> QED
    BY <2>1, <2>2, <2>3 DEF LoadStep
<1>5. merged' \subseteq 1 .. Len(log')
  BY <1>1, <1>2 DEF TypeOK, serverVars
<1>6. retry' \in BOOLEAN
  BY <1>1, <1>2 DEF TypeOK
<1>7. TypeOK'
  BY <1>1, <1>2, <1>4, <1>5, <1>6 DEF TypeOK, serverVars, socketVars
<1> QED
  BY <1>3, <1>7 DEF StreamInv

LEMMA ShowStream ==
    ASSUME StreamInv, Feed!FeedTypeOK', Feed!Contiguous',
           NEW i \in Load, Show(i) \/ Retry(i)
    PROVE  StreamInv'
<1>1. TypeOK
  BY DEF StreamInv
<1>2. /\ AfterViewInit(i) /\ socket = "none" /\ retry' = FALSE
      /\ view' \in {"shown", "destroyed"}
  <2>1. CASE Show(i)
    BY <2>1 DEF StreamInv, SocketInv, Show
  <2>2. CASE Retry(i)
    BY <1>1, <2>2 DEF StreamInv, SocketInv, Retry, TypeOK
  <2> QED
    BY <2>1, <2>2
<1>3. /\ UNCHANGED <<serverVars, toServer, read, shownVars>>
      /\ socket' = "connecting" /\ subscribed' = TRUE /\ isActive' = TRUE
  BY <1>2 DEF AfterViewInit
<1>4. loads' \in [Load -> [state : {"unused", "sent", "answered", "done"},
                           rows : SUBSET Entry, at : Nat]]
  BY <1>1, <1>2, LoadType DEF AfterViewInit
<1>5. TypeOK'
  BY <1>1, <1>2, <1>3, <1>4 DEF TypeOK, serverVars, shownVars
<1>6. CursorInv' /\ SocketInv' /\ MergedInv'
  BY <1>2, <1>3 DEF StreamInv, CursorInv, SocketInv, MergedInv, serverVars, shownVars
<1> QED
  BY <1>5, <1>6 DEF StreamInv

\* The view unsubscribes: the frame goes out and the socket is closing.
LEMMA UnsubscribeEffect ==
    ASSUME TypeOK, Unsubscribe
    PROVE  /\ subscribed' = FALSE
           /\ toServer' \in Seq({"subscribe", "unsubscribe"})
           /\ \/ toServer' = toServer /\ socket' = socket
              \/ socket = "open" /\ socket' = "closing"
           /\ socket' \in {"none", "connecting", "open", "closing"}
<1>1. /\ toServer \in Seq({"subscribe", "unsubscribe"})
      /\ socket \in {"none", "connecting", "open", "closing"}
  BY DEF TypeOK
<1>2. Append(toServer, "unsubscribe") \in Seq({"subscribe", "unsubscribe"})
  BY <1>1
<1>3. CASE subscribed /\ socket = "open"
  BY <1>2, <1>3 DEF Unsubscribe
<1>4. CASE ~(subscribed /\ socket = "open")
  BY <1>1, <1>4 DEF Unsubscribe
<1> QED
  BY <1>3, <1>4

LEMMA DestroyStream ==
    ASSUME StreamInv, Feed!FeedTypeOK', Feed!Contiguous', Destroy
    PROVE  StreamInv'
<1>1. TypeOK /\ Unsubscribe
  BY DEF StreamInv, Destroy
<1>2. TypeOK'
  BY <1>1, UnsubscribeEffect DEF TypeOK, Destroy, serverVars, shownVars
<1>3. CursorInv' /\ SocketInv' /\ MergedInv'
  BY <1>1, UnsubscribeEffect
     DEF StreamInv, CursorInv, SocketInv, MergedInv, Destroy, serverVars, shownVars
<1> QED
  BY <1>2, <1>3 DEF StreamInv

LEMMA PushTooEarlyStream ==
    ASSUME StreamInv, Feed!FeedTypeOK', Feed!Contiguous', PushTooEarly
    PROVE  StreamInv'
<1>1. TypeOK /\ Unsubscribe /\ read' = read + 1
  BY DEF StreamInv, PushTooEarly
<1>2. socket' = "closing" /\ toServer' \in Seq({"subscribe", "unsubscribe"})
  BY <1>1 DEF PushTooEarly, HasPush, Unsubscribe, TypeOK
<1>3. TypeOK'
  <2>1. subscribed' = FALSE /\ read' \in Nat
    BY <1>1 DEF Unsubscribe, TypeOK
  <2>2. UNCHANGED <<serverVars, loads, shownVars, pageVars>>
    BY DEF PushTooEarly
  <2> QED
    BY <1>1, <1>2, <2>1, <2>2 DEF TypeOK, serverVars, shownVars, pageVars
<1>4. socket = "open"
  BY DEF PushTooEarly, HasPush
<1>5. CursorInv' /\ SocketInv' /\ MergedInv'
  BY <1>2, <1>4
     DEF StreamInv, CursorInv, SocketInv, MergedInv, PushTooEarly, serverVars,
         shownVars, pageVars
<1> QED
  BY <1>3, <1>5 DEF StreamInv

LEMMA SocketOpensStream ==
    ASSUME StreamInv, Feed!FeedTypeOK', Feed!Contiguous', SocketOpens
    PROVE  StreamInv'
<1>1. TypeOK /\ socket = "connecting"
  BY DEF StreamInv, SocketOpens
<1>2. /\ UNCHANGED <<serverVars, loads, subscribed, read, shownVars, pageVars>>
      /\ \/ socket' = "closing" /\ toServer' = toServer
         \/ socket' = "open" /\ toServer' = Append(toServer, "subscribe")
  BY DEF SocketOpens
<1>3. toServer = << >> /\ read = 0 /\ got[Push] = << >> /\ cursor[Push] = Feed!Off
  BY <1>1 DEF StreamInv, SocketInv, CursorInv
<1>4. TypeOK'
  <2>1. toServer' \in Seq({"subscribe", "unsubscribe"})
    BY <1>1, <1>2 DEF TypeOK
  <2>2. socket' \in {"none", "connecting", "open", "closing"}
    BY <1>2
  <2> QED
    BY <1>1, <1>2, <2>1, <2>2 DEF TypeOK, serverVars, shownVars, pageVars
<1>5. CursorInv' /\ SocketInv'
  <2>1. Append(<< >>, "subscribe") = <<"subscribe">> /\ Len(<< >>) = 0
    OBVIOUS
  <2> QED
    BY <1>1, <1>2, <1>3, <2>1
       DEF StreamInv, CursorInv, SocketInv, serverVars, pageVars
<1>6. MergedInv'
  <2>1. merged \subseteq 1 .. published /\ published \in Nat
    BY CursorFacts DEF StreamInv, MergedInv
  <2>2. /\ got'[Push] = << >> /\ Len(<< >>) = 0 /\ read' = 0
        /\ published' = published /\ merged' = merged
    BY <1>2, <1>3 DEF serverVars, shownVars
  <2>3. published - Len(<< >>) + 0 = published
    BY <2>1
  <2> QED
    BY <2>1, <2>2, <2>3 DEF MergedInv
<1> QED
  BY <1>4, <1>5, <1>6 DEF StreamInv

LEMMA OnCloseStream ==
    ASSUME StreamInv, Feed!FeedTypeOK', Feed!Contiguous', OnClose, socket # "none"
    PROVE  StreamInv'
<1>1. TypeOK /\ Feed!FeedTypeOK
  BY DEF StreamInv, TypeOK
<1>2. /\ cursor'[Push] = Feed!Off /\ log' = log /\ got'[Push] = << >>
      /\ published' = published /\ refused' = refused
  BY <1>1, EndEffect DEF OnClose, StreamInv, CursorInv
<1>3. /\ socket' = "none" /\ subscribed' = FALSE /\ toServer' = << >> /\ read' = 0
      /\ loads' = loads /\ view' = view /\ isActive' = isActive
      /\ UNCHANGED shownVars /\ retry' \in BOOLEAN
  BY <1>1 DEF OnClose, TypeOK
<1>4. view # "new"
  BY DEF StreamInv, SocketInv
<1>5. TypeOK'
  <2>1. toServer' \in Seq({"subscribe", "unsubscribe"}) /\ read' \in Nat
    BY <1>3
  <2>2. base' = base /\ merged' = merged /\ dataSource' = dataSource
    BY <1>3 DEF shownVars
  <2> QED
    BY <1>1, <1>2, <1>3, <2>1, <2>2 DEF TypeOK
<1>6. CursorInv' /\ SocketInv' /\ MergedInv'
  BY <1>2, <1>3, <1>4 DEF StreamInv, CursorInv, SocketInv, MergedInv, shownVars
<1> QED
  BY <1>5, <1>6 DEF StreamInv

\* The position of the push that the browser handles next.
LEMMA NextPush ==
    ASSUME StreamInv, HasPush
    PROVE  /\ NextPosition \in 1 .. published
           /\ got[Push][read + 1] = log[NextPosition]
           /\ log[NextPosition] \in Entry
           /\ NextPosition = published - Len(got[Push]) + read + 1
           /\ \A i \in merged : i < NextPosition
<1>1. /\ read < Len(got[Push]) /\ read \in Nat /\ Len(got[Push]) \in Nat
      /\ got[Push] \in Seq(Entry) /\ got[Push] # << >>
      /\ Len(got[Push]) <= published /\ published \in Nat
  BY CursorFacts DEF HasPush
<1>2. /\ cursor[Push] = published
      /\ \A i \in 1 .. Len(got[Push]) :
            got[Push][i] = log[published - Len(got[Push]) + i]
  BY <1>1, CursorFacts
<1>3. NextPosition = published - Len(got[Push]) + read + 1
  BY <1>2 DEF NextPosition
<1>4. /\ NextPosition \in 1 .. published
      /\ published - Len(got[Push]) + (read + 1) = NextPosition
      /\ read + 1 \in 1 .. Len(got[Push])
  BY <1>1, <1>3
<1>5. got[Push][read + 1] = log[NextPosition] /\ got[Push][read + 1] \in Entry
  <2>1. got[Push][read + 1] = log[published - Len(got[Push]) + (read + 1)]
    BY <1>2, <1>4
  <2>2. got[Push][read + 1] \in Entry
    BY <1>1, <1>4
  <2> QED
    BY <1>4, <2>1, <2>2
<1>6. \A i \in merged : i \in 1 .. published /\ i <= published - Len(got[Push]) + read
  BY DEF StreamInv, MergedInv, HasPush
<1>7. \A i \in merged : i < NextPosition
  <2> DEFINE handled == published - Len(got[Push]) + read
  <2>1. handled \in Int /\ NextPosition = handled + 1
    BY <1>1, <1>3
  <2>2. \A i \in merged : i \in 1 .. published /\ i <= handled
    BY <1>6, Zenon
  <2>3. \A i \in merged : i \in Int
    BY <1>6
  <2> HIDE DEF handled
  <2> QED
    BY <2>1, <2>2, <2>3
<1> QED
  BY <1>3, <1>4, <1>5, <1>7

\* What is sent of a change is an item.
LEMMA FrameType == \A e \in Entry : Frame(e) \in Item
<1>1. MaxRow \in Nat
  BY LiveViewConstants DEF LiveViewConstants
<1> QED
  BY <1>1 DEF Entry, Item, Frame, RowID

LEMMA MergePushStream ==
    ASSUME StreamInv, Feed!FeedTypeOK', Feed!Contiguous', MergePush,
           dataSource' \in Seq(Item)
    PROVE  StreamInv'
<1>1. TypeOK /\ HasPush /\ socket = "open" /\ read' = read + 1
  BY DEF StreamInv, MergePush, HasPush
<1>2. /\ UNCHANGED <<serverVars, networkVars, socket, subscribed, base, isActive, view>>
      /\ merged' = merged \cup {NextPosition} /\ retry' = FALSE
  BY DEF MergePush
<1>3. /\ NextPosition \in 1 .. published /\ published \in Nat /\ published <= Len(log)
      /\ NextPosition = published - Len(got[Push]) + read + 1
      /\ Len(log) \in Nat /\ read \in Nat /\ Len(got[Push]) \in Nat
      /\ \A i \in merged : i < NextPosition
      /\ merged \subseteq 1 .. published
  BY <1>1, NextPush, CursorFacts DEF StreamInv, MergedInv
<1>4. TypeOK'
  <2>1. merged' \subseteq 1 .. Len(log') /\ read' \in Nat
    <3>1. log' = log /\ 1 .. published \subseteq 1 .. Len(log)
      BY <1>2, <1>3 DEF serverVars
    <3>2. merged' \subseteq 1 .. published
      BY <1>2, <1>3, Zenon
    <3> QED
      BY <1>1, <1>3, <3>1, <3>2
  <2> QED
    BY <1>1, <1>2, <2>1 DEF TypeOK, serverVars, networkVars
<1>5. CursorInv'
  BY <1>2 DEF StreamInv, CursorInv, serverVars
<1>6. SocketInv'
  <2>1. read' <= Len(got'[Push])
    BY <1>1, <1>2, <1>3 DEF HasPush, serverVars
  <2>2. socket' = "open" /\ toServer' = toServer /\ view' = view
    BY <1>1, <1>2 DEF networkVars
  <2> QED
    BY <1>1, <1>2, <2>1, <2>2 DEF StreamInv, SocketInv
<1>7. MergedInv'
  <2>1. /\ published' = published /\ got' = got
        /\ published - Len(got[Push]) + read' = NextPosition
    BY <1>1, <1>2, <1>3 DEF serverVars
  <2>2. merged' \subseteq 1 .. published
    BY <1>2, <1>3
  <2>3. \A i \in merged' : i <= NextPosition
    <3>1. NextPosition \in Int /\ \A i \in merged : i \in Int
      BY <1>3
    <3>2. ASSUME NEW i \in merged
          PROVE  i <= NextPosition
      <4>1. i \in Int /\ i < NextPosition
        BY <1>3, <3>1
      <4> QED
        BY <3>1, <4>1
    <3> QED
      BY <1>2, <3>1, <3>2
  <2> QED
    BY <2>1, <2>2, <2>3 DEF MergedInv
<1> QED
  BY <1>4, <1>5, <1>6, <1>7 DEF StreamInv

\* The list stays a list.
LEMMA MergePushList ==
    ASSUME StreamInv, MergePush, Unique(dataSource)
    PROVE  /\ dataSource \in Seq(Item)
           /\ dataSource' = Merge(dataSource, Frame(log[NextPosition]))
           /\ NextPosition \in 1 .. Len(log)
           /\ log[NextPosition] \in Entry
           /\ dataSource' \in Seq(Item) /\ Unique(dataSource')
<1>1. dataSource \in Seq(Item) /\ HasPush
  BY DEF StreamInv, TypeOK, MergePush
<1>2. /\ got[Push][read + 1] = log[NextPosition] /\ log[NextPosition] \in Entry
      /\ NextPosition \in 1 .. published
  BY <1>1, NextPush
<1>3. NextPosition \in 1 .. Len(log)
  BY <1>2, CursorFacts
<1>4. dataSource' = Merge(dataSource, Frame(log[NextPosition]))
  BY <1>2 DEF MergePush
<1> QED
  BY <1>1, <1>2, <1>3, <1>4, FrameType, MergeItems


-----------------------------------------------------------------------------
(* What the log says of a row.                                             *)

\* A row is there before it is deleted, and never after it really was.
LogInv ==
    \A j \in 1 .. Len(log) :
        /\ log[j].data = Gone =>
              \E i \in (1 .. j - 1) \ refused : log[i].id = log[j].id
        /\ \A i \in (1 .. j - 1) \ refused :
              log[i].id = log[j].id => log[i].data # Gone

\* A reply holds the table as it was at one moment.
LoadInv ==
    /\ base <= Len(log)
    /\ \A i \in Load, n \in Nat :
          loads[i].state = "answered" /\ loads[i].at = n =>
             n <= Len(log) /\ loads[i].rows = TableAt(n)

\* What the log said of a row at an earlier moment does not change.
LEMMA WriteKeepsRows ==
    ASSUME TypeOK, NEW id \in RowID, NEW d \in {Len(log) + 1, Gone}, Grown(id, d),
           NEW n \in 0 .. Len(log)
    PROVE  /\ \A q : RowAt(q, n)' = RowAt(q, n)
           /\ TableAt(n)' = TableAt(n)
<1>1. /\ log \in Seq(Entry) /\ Len(log) \in Nat
      /\ \A i \in 1 .. n : i \in 1 .. Len(log)
  BY DEF TypeOK, Feed!FeedTypeOK
<1>2. \A i \in 1 .. Len(log) :
          log'[i] = log[i] /\ (i \in refused' <=> i \in refused)
  <2>1. Len(log) + 1 \notin 1 .. Len(log)
    BY <1>1
  <2> QED
    BY <2>1, WriteAppends DEF Grown
<1>3. \A q : Positions(q, n)' = Positions(q, n)
  BY <1>1, <1>2 DEF Positions
<1>4. ASSUME NEW q
      PROVE  RowAt(q, n)' = RowAt(q, n)
  <2> DEFINE S == Positions(q, n)
  <2>0. Positions(q, n)' = S
    BY <1>3
  <2>1. CASE S = {}
    BY <1>3, <2>1 DEF RowAt
  <2>2. CASE S # {}
    <3>1. S \in SUBSET Nat /\ n \in Nat /\ \A i \in S : i <= n /\ i \in 1 .. n
      BY DEF Positions
    <3>2. LastOf(S) \in S
      BY <2>2, <3>1, LastOfMember
    <3>3. log'[LastOf(S)] = log[LastOf(S)]
      BY <1>1, <1>2, <3>1, <3>2
    <3>4. RowAt(q, n) = IF S = {} \/ log[LastOf(S)].data = Gone
                        THEN {} ELSE {log[LastOf(S)]}
      BY DEF RowAt
    <3> HIDE DEF S
    <3>5. RowAt(q, n)' = IF S = {} \/ log'[LastOf(S)].data = Gone
                         THEN {} ELSE {log'[LastOf(S)]}
      BY <2>0 DEF RowAt
    <3> QED
      BY <3>3, <3>4, <3>5
  <2> QED
    BY <2>1, <2>2
<1> QED
  BY <1>4 DEF TableAt

LEMMA WriteLog ==
    ASSUME TypeOK, LogInv, LoadInv,
           NEW id \in RowID, NEW d \in {Len(log) + 1, Gone}, Grown(id, d)
    PROVE  LogInv' /\ LoadInv'
<1> DEFINE L == Len(log)
<1>1. /\ L \in Nat /\ Len(log') = L + 1 /\ log \in Seq(Entry)
      /\ log'[L + 1] = [id |-> id, data |-> d]
      /\ \A i \in 1 .. L : log'[i] = log[i] /\ (i \in refused' <=> i \in refused)
  <2>1. /\ L \in Nat /\ Len(log') = L + 1 /\ log \in Seq(Entry)
        /\ log'[L + 1] = [id |-> id, data |-> d]
        /\ \A i \in 1 .. L : log'[i] = log[i]
    BY WriteAppends DEF TypeOK, Feed!FeedTypeOK
  <2>2. L + 1 \notin 1 .. L
    BY <2>1
  <2> QED
    BY <2>1, <2>2 DEF Grown
<1>2. \/ RowAt(id, L) # {}
      \/ UsedIDs = 1 .. id - 1 /\ d # Gone
  BY DEF Grown, Callback
<1>3. d = Gone => \E i \in (1 .. L) \ refused : log[i].id = id
  <2> SUFFICES ASSUME d = Gone
               PROVE  \E i \in (1 .. L) \ refused : log[i].id = id
    OBVIOUS
  <2>1. PICK x \in RowAt(id, L) : TRUE
    BY <1>2
  <2>2. Positions(id, L) # {}
    BY <1>1, <2>1, RowAtMember
  <2> QED
    BY <2>2 DEF Positions
<1>4. ASSUME NEW i \in (1 .. L) \ refused, log[i].id = id
      PROVE  log[i].data # Gone
  <2>1. CASE RowAt(id, L) # {}
    <3> DEFINE p == LastOf(Positions(id, L))
    <3>1. PICK x \in RowAt(id, L) : TRUE
      BY <2>1
    <3>2. /\ p \in Positions(id, L) /\ log[p].data # Gone
          /\ \A k \in Positions(id, L) : k <= p
      BY <1>1, <3>1, RowAtMember
    <3>3. p \in 1 .. L /\ log[p].id = id /\ i <= p
      BY <1>4, <3>2 DEF Positions
    <3> HIDE DEF p
    <3>4. CASE i = p
      BY <3>2, <3>4
    <3>5. CASE i # p
      <4>1. i \in 1 .. p - 1
        BY <3>3, <3>5
      <4> QED
        BY <1>4, <3>3, <4>1 DEF LogInv
    <3> QED
      BY <3>4, <3>5
  <2>2. CASE UsedIDs = 1 .. id - 1
    <3>1. id \in UsedIDs
      BY <1>4 DEF UsedIDs
    <3>2. id \in Nat
      BY DEF RowID
    <3> QED
      BY <2>2, <3>1, <3>2
  <2> QED
    BY <1>2, <2>1, <2>2
<1>5. LogInv'
  <2> SUFFICES ASSUME NEW j \in 1 .. L + 1
               PROVE  /\ log'[j].data = Gone =>
                            \E i \in (1 .. j - 1) \ refused' : log'[i].id = log'[j].id
                      /\ \A i \in (1 .. j - 1) \ refused' :
                            log'[i].id = log'[j].id => log'[i].data # Gone
    BY <1>1 DEF LogInv
  <2>1. CASE j \in 1 .. L
    <3>1. \A i \in 1 .. j - 1 : i \in 1 .. L
      BY <1>1, <2>1
    <3> QED
      BY <1>1, <2>1, <3>1 DEF LogInv
  <2>2. CASE j = L + 1
    <3>1. j - 1 = L
      BY <1>1, <2>2
    <3> QED
      BY <1>1, <1>3, <1>4, <2>2, <3>1
  <2> QED
    BY <1>1, <2>1, <2>2
<1>6. LoadInv'
  <2>1. base' = base /\ loads' = loads /\ base \in Nat
    BY DEF Grown, Callback, shownVars, networkVars, TypeOK
  <2>2. base' <= Len(log')
    BY <1>1, <2>1 DEF LoadInv
  <2>3. ASSUME NEW i \in Load, NEW n \in Nat,
               loads'[i].state = "answered", loads'[i].at = n
        PROVE  n <= Len(log') /\ loads'[i].rows = TableAt(n)'
    <3>1. n \in 0 .. L /\ loads[i].rows = TableAt(n)
      BY <1>1, <2>1, <2>3 DEF LoadInv
    <3>2. TableAt(n)' = TableAt(n)
      BY <3>1, WriteKeepsRows
    <3> QED
      BY <1>1, <2>1, <3>1, <3>2
  <2> QED
    BY <2>1, <2>2, <2>3 DEF LoadInv
<1> QED
  BY <1>5, <1>6

\* Nothing else changes the log, nor what it says.
LEMMA LogKept ==
    ASSUME log' = log, refused' = refused
    PROVE  /\ LogInv => LogInv'
           /\ \A id, n : RowAt(id, n)' = RowAt(id, n)
           /\ \A n : TableAt(n)' = TableAt(n)
<1>1. LogInv => LogInv'
  BY DEF LogInv
<1>2. \A id, n : RowAt(id, n)' = RowAt(id, n)
  BY DEF RowAt, Positions
<1>3. \A n : TableAt(n)' = TableAt(n)
  BY <1>2 DEF TableAt
<1> QED
  BY <1>1, <1>2, <1>3

LEMMA LoadKept ==
    ASSUME LoadInv, log' = log, refused' = refused, base' = base,
           \A i \in Load : \/ loads'[i] = loads[i]
                           \/ loads'[i].state # "answered"
    PROVE  LoadInv'
BY LogKept DEF LoadInv

LEMMA LoadStepLog ==
    ASSUME TypeOK, LogInv, LoadInv, NEW i \in Load, LoadStep(i)
    PROVE  LogInv' /\ LoadInv'
<1>1. /\ log' = log /\ refused' = refused /\ log \in Seq(Entry) /\ Len(log) \in Nat
      /\ DOMAIN loads = Load
  BY DEF LoadStep, AnswerLoad, LoadArrives, LoadFails, serverVars, TypeOK,
         Feed!FeedTypeOK
<1>2. LogInv'
  BY <1>1, LogKept
<1>3. CASE AnswerLoad(i)
  <2>1. /\ base' = base
        /\ loads'[i] = [state |-> "answered", rows |-> Table, at |-> Len(log)]
        /\ \A j \in Load \ {i} : loads'[j] = loads[j]
    BY <1>1, <1>3 DEF AnswerLoad, shownVars
  <2>2. ASSUME NEW j \in Load, NEW n \in Nat,
               loads'[j].state = "answered", loads'[j].at = n
        PROVE  n <= Len(log') /\ loads'[j].rows = TableAt(n)'
    <3>1. CASE j = i
      <4>1. n = Len(log) /\ loads'[j].rows = TableAt(n)
        BY <2>1, <2>2, <3>1 DEF Table
      <4>2. TableAt(n)' = TableAt(n)
        BY <1>1, LogKept
      <4> QED
        BY <1>1, <4>1, <4>2
    <3>2. CASE j # i
      <4>1. n <= Len(log) /\ loads[j].rows = TableAt(n)
        BY <2>1, <2>2, <3>2 DEF LoadInv
      <4>2. TableAt(n)' = TableAt(n)
        BY <1>1, LogKept
      <4> QED
        BY <1>1, <2>1, <3>2, <4>1, <4>2
    <3> QED
      BY <3>1, <3>2
  <2>3. base' <= Len(log')
    BY <1>1, <2>1 DEF LoadInv
  <2> QED
    BY <1>2, <2>2, <2>3 DEF LoadInv
<1>4. CASE LoadFails(i) \/ LoadArrives(i)
  <2>1. /\ loads'[i].state = "done"
        /\ \A j \in Load \ {i} : loads'[j] = loads[j]
    BY <1>1, <1>4 DEF LoadFails, LoadArrives, TypeOK
  <2>2. \/ base' = base
        \/ loads[i].state = "answered" /\ base' = loads[i].at /\ loads[i].at \in Nat
    BY <1>4 DEF LoadFails, LoadArrives, shownVars, TypeOK
  <2>3. base' <= Len(log')
    BY <1>1, <2>2 DEF LoadInv
  <2>4. ASSUME NEW j \in Load, NEW n \in Nat,
               loads'[j].state = "answered", loads'[j].at = n
        PROVE  n <= Len(log') /\ loads'[j].rows = TableAt(n)'
    <3>1. n <= Len(log) /\ loads'[j].rows = TableAt(n)
      BY <2>1, <2>4 DEF LoadInv
    <3>2. TableAt(n)' = TableAt(n)
      BY <1>1, LogKept
    <3> QED
      BY <1>1, <3>1, <3>2
  <2> QED
    BY <1>2, <2>3, <2>4 DEF LoadInv
<1> QED
  BY <1>3, <1>4 DEF LoadStep

-----------------------------------------------------------------------------
(***************************************************************************)
(* What the list shows of a row: what the load saw of it, or, once changes *)
(* of it were merged, the last of them.  They come in the order of the     *)
(* log, so a delete is the last of its row, and it leaves a ghost only if  *)
(* nothing else of the row was loaded or merged.  Nothing is said of a row *)
(* of which a refused delete was merged.                                   *)
(***************************************************************************)
MergedOf(id) == {i \in merged : log[i].id = id}
ItemsOf(id) == {x \in Range(dataSource) : x.id = id}

ShowsLoad(id, n) == ItemsOf(id) = RowAt(id, n) /\ ItemsOf(-id) = {}

ShowsChange(id, p, n) ==
    /\ log[p].data # Gone => ItemsOf(id) = {log[p]} /\ ItemsOf(-id) = {}
    /\ log[p].data = Gone =>
          /\ ItemsOf(id) = {}
          /\ ItemsOf(-id) # {} => RowAt(id, n) = {} /\ MergedOf(id) = {p}

RowsInv ==
    \A id \in RowID \ Misled, n \in Nat : base = n =>
        /\ MergedOf(id) = {} => ShowsLoad(id, n)
        /\ \A p \in MergedOf(id) :
              (\A q \in MergedOf(id) : q <= p) => ShowsChange(id, p, n)

ListInv == dataSource # NoSource => Unique(dataSource) /\ RowsInv

LEMMA WriteList ==
    ASSUME StreamInv, LoadInv, ListInv,
           NEW id \in RowID, NEW d \in {Len(log) + 1, Gone}, Grown(id, d)
    PROVE  ListInv'
<1> SUFFICES ASSUME dataSource' # NoSource PROVE Unique(dataSource)' /\ RowsInv'
  BY DEF ListInv
<1>1. TypeOK /\ UNCHANGED shownVars
  BY DEF StreamInv, Grown, Callback
<1>2. Unique(dataSource) /\ RowsInv
  BY <1>1 DEF ListInv, shownVars
<1>3. Unique(dataSource)'
  BY <1>1, <1>2 DEF Unique, shownVars
<1>4. \A k : ItemsOf(k)' = ItemsOf(k)
  BY <1>1 DEF ItemsOf, shownVars
<1>5. \A i \in merged : log'[i] = log[i]
  BY <1>1, WriteAppends DEF TypeOK
<1>6. \A k : MergedOf(k)' = MergedOf(k)
  BY <1>1, <1>5 DEF MergedOf, shownVars
<1>8. merged' \cap refused' = merged \cap refused /\ Misled' = Misled
  <2>1. Len(log) + 1 \notin merged
    BY <1>1 DEF TypeOK, Feed!FeedTypeOK
  <2>2. merged' \cap refused' = merged \cap refused
    BY <1>1, <2>1 DEF Grown, shownVars
  <2> QED
    BY <1>5, <2>2 DEF Misled
<1>7. ASSUME NEW k \in RowID \ Misled, NEW n \in Nat, base' = n
      PROVE  /\ MergedOf(k)' = {} => ShowsLoad(k, n)'
             /\ \A p \in MergedOf(k)' :
                   (\A q \in MergedOf(k)' : q <= p) => ShowsChange(k, p, n)'
  <2>1. n = base /\ n \in 0 .. Len(log)
    BY <1>1, <1>7 DEF LoadInv, shownVars, TypeOK, Feed!FeedTypeOK
  <2>2. RowAt(k, n)' = RowAt(k, n)
    BY <1>1, <2>1, WriteKeepsRows
  <2>3. MergedOf(k) = {} => ShowsLoad(k, n)
    BY <1>2, <2>1 DEF RowsInv
  <2>4. ASSUME NEW p \in MergedOf(k), \A q \in MergedOf(k) : q <= p
        PROVE  ShowsChange(k, p, n) /\ log'[p] = log[p]
    BY <1>2, <1>5, <2>1, <2>4 DEF RowsInv, MergedOf
  <2>5. ShowsLoad(k, n)' <=> ShowsLoad(k, n)
    BY <1>4, <2>2 DEF ShowsLoad
  <2>6. ASSUME NEW p \in MergedOf(k)
        PROVE  ShowsChange(k, p, n)' <=> ShowsChange(k, p, n)
    <3>1. log'[p] = log[p]
      BY <1>5 DEF MergedOf
    <3> QED
      BY <1>4, <1>6, <2>2, <3>1 DEF ShowsChange
  <2> QED
    BY <1>6, <2>3, <2>4, <2>5, <2>6
<1> QED
  BY <1>3, <1>7, <1>8 DEF RowsInv

LEMMA ListKept ==
    ASSUME ListInv, log' = log, refused' = refused, UNCHANGED shownVars
    PROVE  ListInv'
<1>1. \A k : ItemsOf(k)' = ItemsOf(k) /\ MergedOf(k)' = MergedOf(k)
  BY DEF ItemsOf, MergedOf, shownVars
<1>2. \A k, n : ShowsLoad(k, n)' <=> ShowsLoad(k, n)
  BY <1>1, LogKept DEF ShowsLoad
<1>3. \A k, p, n : ShowsChange(k, p, n)' <=> ShowsChange(k, p, n)
  BY <1>1, LogKept DEF ShowsChange
<1>4. RowsInv => RowsInv'
  <2>1. Misled' = Misled
    BY DEF Misled, shownVars
  <2> QED
    BY <1>1, <1>2, <1>3, <2>1 DEF RowsInv, shownVars
<1> QED
  BY <1>4 DEF ListInv, Unique, shownVars

LEMMA LoadArrivesList ==
    ASSUME TypeOK, LoadInv, ListInv, NEW i \in Load, LoadArrives(i)
    PROVE  ListInv'
<1>1. log' = log /\ refused' = refused /\ log \in Seq(Entry) /\ Len(log) \in Nat
  BY DEF LoadArrives, serverVars, TypeOK, Feed!FeedTypeOK
<1>2. CASE loads[i].rows = {}
  BY <1>1, <1>2, ListKept DEF LoadArrives
<1>3. CASE loads[i].rows # {}
  <2> DEFINE rows == loads[i].rows
             s == SetToSeq(rows)
             n == loads[i].at
  <2>1. dataSource' = s /\ base' = n /\ merged' = {}
    BY <1>3 DEF LoadArrives
  <2>2. rows \in SUBSET Entry /\ n \in 0 .. Len(log) /\ rows = TableAt(n)
    <3>1. rows \in SUBSET Entry /\ n \in Nat /\ loads[i].state = "answered"
      BY DEF LoadArrives, TypeOK
    <3>2. n <= Len(log) /\ rows = TableAt(n)
      BY <3>1 DEF LoadInv
    <3> QED
      BY <1>1, <3>1, <3>2
  <2>3. /\ s \in Seq(Item) /\ Range(s) = rows
        /\ \A j, k \in DOMAIN s : s[j] = s[k] => j = k
    BY <2>2, RowsToItems
  <2> HIDE DEF s, n, rows
  <2>4. ASSUME NEW x \in rows
        PROVE  x.id \in RowID /\ x \in RowAt(x.id, n)
    <3>1. PICK id \in RowID : x \in RowAt(id, n)
      BY <2>2 DEF TableAt
    <3>2. x.id = id
      BY <1>1, <2>2, <3>1, RowAtMember
    <3> QED
      BY <3>1, <3>2
  <2>5. ASSUME NEW x \in rows, NEW y \in rows, x.id = y.id \/ x.id = -y.id
        PROVE  x = y
    <3>1. x.id \in Nat \ {0} /\ y.id \in Nat \ {0}
      BY <2>4 DEF RowID
    <3>2. x.id = y.id
      BY <2>5, <3>1
    <3>3. x \in RowAt(x.id, n) /\ y \in RowAt(x.id, n)
      BY <2>4, <3>2
    <3> QED
      BY <3>3 DEF RowAt
  <2>6. Unique(s)
    <3> SUFFICES ASSUME NEW j \in DOMAIN s, NEW k \in DOMAIN s,
                        s[j].id = s[k].id \/ s[j].id = -s[k].id
                 PROVE  j = k
      BY DEF Unique
    <3>1. s[j] \in rows /\ s[k] \in rows
      BY <2>3 DEF Range
    <3> QED
      BY <2>3, <2>5, <3>1
  <2>7. ASSUME NEW id \in RowID
        PROVE  /\ {x \in rows : x.id = id} = RowAt(id, n)
               /\ {x \in rows : x.id = -id} = {}
    <3>1. \A x \in RowAt(id, n) : x \in rows /\ x.id = id
      BY <1>1, <2>2, RowAtMember DEF TableAt
    <3>2. \A x \in rows : x.id = id => x \in RowAt(id, n)
      BY <2>4
    <3>3. \A x \in rows : x.id # -id
      <4> SUFFICES ASSUME NEW x \in rows PROVE x.id # -id
        OBVIOUS
      <4>1. x.id \in Nat \ {0} /\ id \in Nat
        BY <2>4 DEF RowID
      <4> QED
        BY <4>1
    <3> QED
      BY <3>1, <3>2, <3>3
  <2>8. \A k : ItemsOf(k)' = {x \in rows : x.id = k}
    BY <2>1, <2>3 DEF ItemsOf
  <2>9. \A k : MergedOf(k)' = {}
    BY <2>1 DEF MergedOf
  <2>10. ASSUME NEW id \in RowID, NEW m \in Nat, base' = m
         PROVE  ShowsLoad(id, m)'
    <3>1. m = n /\ RowAt(id, m)' = RowAt(id, m)
      BY <1>1, <2>1, <2>10, LogKept
    <3>2. ItemsOf(id)' = RowAt(id, m)' /\ ItemsOf(-id)' = {}
      BY <2>7, <2>8, <3>1
    <3> QED
      BY <3>2 DEF ShowsLoad
  <2>11. RowsInv'
    BY <2>9, <2>10 DEF RowsInv
  <2> QED
    BY <2>1, <2>6, <2>11 DEF ListInv, Unique
<1> QED
  BY <1>2, <1>3

\* A push touches no item but those of its row.
LEMMA MergeLeaves ==
    ASSUME NEW items \in Seq(Item), Unique(items), NEW e \in Entry, NEW new,
           new = Merge(items, Frame(e))
    PROVE  \A k : k # e.id /\ k # -e.id =>
              {x \in Range(new) : x.id = k} = {x \in Range(items) : x.id = k}
<1> DEFINE f == Frame(e)
<1>1. f \in Item /\ e \in Item
  BY FrameType DEF Entry, Item
<1>2. \A x : x \in Range(new) <=>
                \/ x \in Range(items) /\ x.id \notin {f.id, -f.id}
                \/ x = f /\ \A y \in Range(items) : y.id # -f.id
  BY <1>1, MergeItems
<1>3. e.id # -e.id /\ -(-e.id) = e.id
  BY <1>1, ItemID
<1>4. f.id = e.id \/ f.id = -e.id
  BY DEF Frame, Entry
<1> HIDE DEF f
<1> QED
  BY <1>2, <1>3, <1>4

\* What the list shows of the row of a push, after it was merged.
LEMMA MergeShows ==
    ASSUME NEW items \in Seq(Item), Unique(items), NEW e \in Entry, NEW new,
           new = Merge(items, Frame(e)), \A x \in Range(items) : x.id # -e.id
    PROVE  /\ \A k : k # e.id /\ k # -e.id =>
                 {x \in Range(new) : x.id = k} = {x \in Range(items) : x.id = k}
           /\ e.data # Gone =>
                 /\ {x \in Range(new) : x.id = e.id} = {e}
                 /\ {x \in Range(new) : x.id = -e.id} = {}
           /\ e.data = Gone =>
                 /\ {x \in Range(new) : x.id = e.id} = {}
                 /\ {x \in Range(new) : x.id = -e.id} # {} =>
                       {x \in Range(items) : x.id = e.id} = {}
<1> DEFINE f == Frame(e)
<1>1. f \in Item /\ e \in Item
  BY FrameType DEF Entry, Item
<1>2. \A x : x \in Range(new) <=>
                \/ x \in Range(items) /\ x.id \notin {f.id, -f.id}
                \/ x = f /\ \A y \in Range(items) : y.id # -f.id
  BY <1>1, MergeItems
<1>3. e.id # -e.id /\ -(-e.id) = e.id
  BY <1>1, ItemID
<1>4. /\ e.data # Gone => f = e
      /\ e.data = Gone => f.id = -e.id
  BY DEF Frame, Entry
<1> HIDE DEF f
<1>5. CASE e.data # Gone
  BY <1>2, <1>3, <1>4, <1>5
<1>6. CASE e.data = Gone
  <2>1. f.id = -e.id /\ -f.id = e.id
    BY <1>3, <1>4, <1>6
  <2>2. \A x : x \in Range(new) <=>
                  \/ x \in Range(items) /\ x.id \notin {e.id, -e.id}
                  \/ x = f /\ \A y \in Range(items) : y.id # e.id
    BY <1>2, <2>1
  <2> QED
    BY <1>3, <1>6, <2>1, <2>2
<1> QED
  BY <1>5, <1>6

LEMMA MergePushRows ==
    ASSUME StreamInv, LogInv, LoadInv, ListInv, MergePush
    PROVE  ListInv'
<1>0. PICK P, e, r : P = NextPosition /\ e = log[P] /\ r = e.id
  OBVIOUS
<1>1. TypeOK /\ Unique(dataSource) /\ RowsInv /\ HasPush
  BY DEF StreamInv, ListInv, MergePush
<1>2. /\ dataSource \in Seq(Item) /\ dataSource' = Merge(dataSource, Frame(e))
      /\ P \in 1 .. Len(log) /\ e \in Entry
      /\ Unique(dataSource')
  BY <1>0, <1>1, MergePushList
<1>3. /\ merged' = merged \cup {P} /\ log' = log /\ base' = base
      /\ refused' = refused
      /\ \A i \in merged : i < P /\ i \in 1 .. P - 1
  <2>1. /\ merged' = merged \cup {P} /\ log' = log /\ base' = base
        /\ refused' = refused
    BY <1>0 DEF MergePush, serverVars
  <2>2. P \in 1 .. published /\ \A i \in merged : i < P
    BY <1>0, <1>1, NextPush
  <2>3. merged \subseteq 1 .. published /\ published \in Nat
    BY CursorFacts DEF StreamInv, MergedInv
  <2>4. ASSUME NEW i \in merged
        PROVE  i \in 1 .. P - 1
    <3>1. i \in 1 .. published /\ i < P
      BY <2>2, <2>3
    <3> QED
      BY <2>2, <2>3, <3>1
  <2> QED
    BY <2>1, <2>2, <2>4
<1>4. r \in RowID /\ \A k \in RowID : -k # r /\ k # -r /\ (k # r => -k # -r)
  BY <1>0, <1>2 DEF Entry, RowID
<1>5. \A k \in RowID \ {r} : MergedOf(k)' = MergedOf(k)
  BY <1>0, <1>3 DEF MergedOf
<1>6. MergedOf(r)' = MergedOf(r) \cup {P}
  BY <1>0, <1>3 DEF MergedOf
<1>7. ASSUME NEW k
      PROVE  ItemsOf(k) = {x \in Range(dataSource) : x.id = k}
             /\ ItemsOf(k)' = {x \in Range(dataSource') : x.id = k}
  BY DEF ItemsOf
<1>8. Misled \subseteq Misled'
  BY <1>3 DEF Misled
\* Whatever the list showed of the row, it was no ghost.
<1>9. ASSUME r \notin Misled
      PROVE  /\ ItemsOf(-r) = {}
             /\ MergedOf(r) = {} => ItemsOf(r) = RowAt(r, base)
             /\ MergedOf(r) # {} => ItemsOf(r) # {}
  <2>1. base \in Nat
    BY <1>1 DEF TypeOK
  <2>2. CASE MergedOf(r) = {}
    BY <1>1, <1>4, <1>9, <2>1, <2>2 DEF RowsInv, ShowsLoad
  <2>3. CASE MergedOf(r) # {}
    <3> DEFINE p == LastOf(MergedOf(r))
    <3>1. MergedOf(r) \in SUBSET Nat /\ P \in Nat /\ \A q \in MergedOf(r) : q <= P
      <4>1. P \in Nat /\ \A q \in MergedOf(r) : q \in 1 .. P - 1
        BY <1>2, <1>3 DEF MergedOf
      <4> QED
        BY <4>1
    <3>2. p \in MergedOf(r) /\ \A q \in MergedOf(r) : q <= p
      BY <2>3, <3>1, LastOfMember
    <3> HIDE DEF p
    <3>3. ShowsChange(r, p, base)
      BY <1>1, <1>4, <1>9, <2>1, <3>2 DEF RowsInv
    <3>4. p \in 1 .. P - 1 /\ log[p].id = log[P].id
      BY <1>0, <1>3, <3>2 DEF MergedOf
    <3>5. log[p].data # Gone
      <4>1. p \notin refused
        BY <1>0, <1>9, <3>2 DEF Misled, MergedOf
      <4> QED
        BY <1>2, <3>4, <4>1 DEF LogInv
    <3> QED
      BY <2>3, <3>3, <3>5 DEF ShowsChange
  <2> QED
    BY <2>2, <2>3
<1>10. /\ \A k : k # r /\ k # -r => ItemsOf(k)' = ItemsOf(k)
       /\ r \notin Misled =>
             /\ e.data # Gone => ItemsOf(r)' = {e} /\ ItemsOf(-r)' = {}
             /\ e.data = Gone => /\ ItemsOf(r)' = {}
                                 /\ ItemsOf(-r)' # {} => ItemsOf(r) = {}
  <2>1. r \notin Misled => \A x \in Range(dataSource) : x.id # -r
    BY <1>7, <1>9
  <2> DEFINE new == dataSource'
  <2>2. new = Merge(dataSource, Frame(e))
    BY <1>2
  <2> HIDE DEF new
  <2>3. \A k : k # e.id /\ k # -e.id =>
           {x \in Range(new) : x.id = k} = {x \in Range(dataSource) : x.id = k}
    BY <1>1, <1>2, <2>2, MergeLeaves
  <2>4. ASSUME r \notin Misled
        PROVE  /\ e.data # Gone =>
                     /\ {x \in Range(new) : x.id = e.id} = {e}
                     /\ {x \in Range(new) : x.id = -e.id} = {}
               /\ e.data = Gone =>
                     /\ {x \in Range(new) : x.id = e.id} = {}
                     /\ {x \in Range(new) : x.id = -e.id} # {} =>
                           {x \in Range(dataSource) : x.id = e.id} = {}
    BY <1>0, <1>1, <1>2, <2>1, <2>2, <2>4, MergeShows
  <2>5. \A k : /\ ItemsOf(k) = {x \in Range(dataSource) : x.id = k}
               /\ ItemsOf(k)' = {x \in Range(new) : x.id = k}
    BY <1>7 DEF new
  <2>6. \A k : k # r /\ k # -r => ItemsOf(k)' = ItemsOf(k)
    BY <1>0, <2>3, <2>5
  <2>7. ASSUME r \notin Misled
        PROVE  /\ e.data # Gone => ItemsOf(r)' = {e} /\ ItemsOf(-r)' = {}
               /\ e.data = Gone => /\ ItemsOf(r)' = {}
                                   /\ ItemsOf(-r)' # {} => ItemsOf(r) = {}
    BY <1>0, <2>4, <2>5, <2>7
  <2> QED
    BY <2>6, <2>7
<1>11. ASSUME NEW k \in RowID \ Misled', NEW n \in Nat, base' = n
       PROVE  /\ MergedOf(k)' = {} => ShowsLoad(k, n)'
              /\ \A p \in MergedOf(k)' :
                    (\A q \in MergedOf(k)' : q <= p) => ShowsChange(k, p, n)'
  <2>1. /\ base = n /\ RowAt(k, n)' = RowAt(k, n) /\ \A p : log'[p] = log[p]
        /\ k \in RowID \ Misled
    BY <1>3, <1>11, <1>8, LogKept
  <2>2. CASE k # r
    <3>1. MergedOf(k)' = MergedOf(k)
      BY <1>5, <2>2
    <3>2. ItemsOf(k)' = ItemsOf(k) /\ ItemsOf(-k)' = ItemsOf(-k)
      BY <1>4, <1>10, <2>2
    <3>3. ShowsLoad(k, n)' <=> ShowsLoad(k, n)
      BY <2>1, <3>2 DEF ShowsLoad
    <3>4. \A p : ShowsChange(k, p, n)' <=> ShowsChange(k, p, n)
      BY <2>1, <3>1, <3>2 DEF ShowsChange
    <3> QED
      BY <1>1, <2>1, <3>1, <3>3, <3>4 DEF RowsInv
  <2>3. CASE k = r
    <3>1. MergedOf(k)' = MergedOf(r) \cup {P}
      BY <1>6, <2>3
    <3> SUFFICES ASSUME NEW p \in MergedOf(r) \cup {P},
                        \A q \in MergedOf(r) \cup {P} : q <= p
                 PROVE  ShowsChange(r, p, n)'
      BY <2>3, <3>1
    <3>2. p = P
      <4>1. P \in Nat /\ \A q \in MergedOf(r) : q \in Nat /\ q < P
        BY <1>2, <1>3 DEF MergedOf
      <4>2. P <= p
        OBVIOUS
      <4> QED
        BY <4>1, <4>2
    <3>3. log'[p] = e
      BY <1>0, <2>1, <3>2
    <3>4. e.data # Gone => ItemsOf(r)' = {e} /\ ItemsOf(-r)' = {}
      BY <1>10, <2>1, <2>3
    <3>5. e.data = Gone =>
             /\ ItemsOf(r)' = {}
             /\ ItemsOf(-r)' # {} => RowAt(r, n) = {} /\ MergedOf(r) \cup {P} = {P}
      BY <1>9, <1>10, <2>1, <2>3
    <3>6. RowAt(r, n)' = RowAt(r, n) /\ MergedOf(r)' = MergedOf(r) \cup {P}
      BY <1>6, <2>1, <2>3
    <3> QED
      BY <3>2, <3>3, <3>4, <3>5, <3>6 DEF ShowsChange
  <2> QED
    BY <2>2, <2>3
<1> QED
  BY <1>2, <1>11 DEF ListInv, RowsInv, Unique

-----------------------------------------------------------------------------
(***************************************************************************)
(* The inductive invariant.                                                *)
(***************************************************************************)
LiveInv == StreamInv /\ LogInv /\ LoadInv /\ ListInv

LEMMA InitLive == Init => LiveInv
<1> SUFFICES ASSUME Init PROVE LiveInv
  OBVIOUS
<1>1. Len(log) = 0 /\ base = 0 /\ dataSource = NoSource
  BY DEF Init, Feed!FeedInit
<1>2. LogInv
  BY <1>1 DEF LogInv
<1>3. LoadInv
  <2>1. \A i \in Load : loads[i].state # "answered"
    BY DEF Init
  <2> QED
    BY <1>1, <2>1 DEF LoadInv
<1> QED
  BY <1>1, <1>2, <1>3, InitStream DEF LiveInv, ListInv

\* A step that changes neither the log, nor the GETs, nor the list.
LEMMA ElsewhereLive ==
    ASSUME LiveInv, StreamInv', log' = log, refused' = refused, UNCHANGED shownVars,
           \A i \in Load : loads'[i] = loads[i] \/ loads'[i].state # "answered"
    PROVE  LiveInv'
BY LogKept, LoadKept, ListKept DEF LiveInv, shownVars

LEMMA StepLive == LiveInv /\ [Next]_vars => LiveInv'
<1> SUFFICES ASSUME LiveInv, [Next]_vars PROVE LiveInv'
  OBVIOUS
<1>1. /\ StreamInv /\ LogInv /\ LoadInv /\ ListInv /\ TypeOK /\ Feed!FeedTypeOK
  BY DEF LiveInv, StreamInv, TypeOK
<1>2. Feed!FeedTypeOK' /\ Feed!Contiguous'
  BY <1>1, StreamFeed
<1>3. ASSUME NEW id \in RowID, NEW d \in {Len(log) + 1, Gone}, Grown(id, d)
      PROVE  LiveInv'
  BY <1>1, <1>2, <1>3, WriteStream, WriteLog, WriteList DEF LiveInv
<1>4. CASE Publish
  <2>1. log' = log /\ refused' = refused /\ loads' = loads /\ UNCHANGED shownVars
    BY <1>4 DEF Publish, Feed!Deliver, networkVars
  <2> QED
    BY <1>1, <1>2, <1>4, <2>1, PublishStream, ElsewhereLive
<1>5. CASE HandleSubscribe
  <2>1. log' = log /\ refused' = refused /\ loads' = loads /\ UNCHANGED shownVars
    BY <1>5 DEF HandleSubscribe, Feed!Join
  <2> QED
    BY <1>1, <1>2, <1>5, <2>1, HandleSubscribeStream, ElsewhereLive
<1>6. CASE HandleUnsubscribe
  <2>1. log' = log /\ refused' = refused /\ loads' = loads /\ UNCHANGED shownVars
    BY <1>1, <1>6, EndEffect DEF HandleUnsubscribe
  <2> QED
    BY <1>1, <1>2, <1>6, <2>1, HandleUnsubscribeStream, ElsewhereLive
<1>7. ASSUME NEW i \in Load, Show(i) \/ Retry(i)
      PROVE  LiveInv'
  <2>1. AfterViewInit(i)
    BY <1>7 DEF Show, Retry
  <2>2. log' = log /\ refused' = refused /\ UNCHANGED shownVars
    BY <2>1 DEF AfterViewInit, serverVars
  <2>3. \A j \in Load : loads'[j] = loads[j] \/ loads'[j].state # "answered"
    BY <1>1, <2>1 DEF AfterViewInit, TypeOK
  <2>4. StreamInv'
    BY <1>1, <1>2, <1>7, ShowStream
  <2> QED
    BY <2>2, <2>3, <2>4, ElsewhereLive
<1>8. ASSUME NEW i \in Load, LoadStep(i)
      PROVE  LiveInv'
  <2>1. StreamInv' /\ LogInv' /\ LoadInv'
    BY <1>1, <1>2, <1>8, LoadStepStream, LoadStepLog
  <2>2. CASE LoadArrives(i)
    BY <1>1, <2>1, <2>2, LoadArrivesList DEF LiveInv
  <2>3. CASE AnswerLoad(i) \/ LoadFails(i)
    <3>1. log' = log /\ refused' = refused /\ UNCHANGED shownVars
      BY <2>3 DEF AnswerLoad, LoadFails, serverVars
    <3> QED
      BY <1>1, <2>1, <3>1, ListKept DEF LiveInv
  <2> QED
    BY <1>8, <2>2, <2>3 DEF LoadStep
<1>9. CASE Destroy
  <2>1. log' = log /\ refused' = refused /\ loads' = loads /\ UNCHANGED shownVars
    BY <1>9 DEF Destroy, serverVars
  <2> QED
    BY <1>1, <1>2, <1>9, <2>1, DestroyStream, ElsewhereLive
<1>10. CASE SocketOpens
  <2>1. log' = log /\ refused' = refused /\ loads' = loads /\ UNCHANGED shownVars
    BY <1>10 DEF SocketOpens, serverVars
  <2> QED
    BY <1>1, <1>2, <1>10, <2>1, SocketOpensStream, ElsewhereLive
<1>11. CASE MergePush
  <2>1. log' = log /\ refused' = refused /\ loads' = loads /\ base' = base
    BY <1>11 DEF MergePush, serverVars, networkVars
  <2>2. dataSource' \in Seq(Item)
    BY <1>1, <1>11, MergePushList DEF ListInv, MergePush
  <2>3. StreamInv'
    BY <1>1, <1>2, <1>11, <2>2, MergePushStream
  <2>4. LogInv' /\ LoadInv'
    BY <1>1, <2>1, LogKept, LoadKept
  <2> QED
    BY <1>1, <1>11, <2>3, <2>4, MergePushRows DEF LiveInv
<1>12. CASE PushTooEarly
  <2>1. log' = log /\ refused' = refused /\ loads' = loads /\ UNCHANGED shownVars
    BY <1>12 DEF PushTooEarly, serverVars
  <2> QED
    BY <1>1, <1>2, <1>12, <2>1, PushTooEarlyStream, ElsewhereLive
<1>13. CASE CloseCompletes \/ ConnectionLost
  <2>1. OnClose /\ socket # "none"
    BY <1>13 DEF CloseCompletes, ConnectionLost
  <2>2. log' = log /\ refused' = refused /\ loads' = loads /\ UNCHANGED shownVars
    BY <1>1, <2>1, EndEffect DEF OnClose
  <2> QED
    BY <1>1, <1>2, <2>1, <2>2, OnCloseStream, ElsewhereLive
<1>14. CASE UNCHANGED vars
  <2>1. log' = log /\ refused' = refused /\ loads' = loads /\ UNCHANGED shownVars
    BY <1>14 DEF vars, shownVars
  <2>2. TypeOK'
    BY <1>1, <1>2, <1>14 DEF TypeOK, vars
  <2>3. CursorInv' /\ SocketInv' /\ MergedInv'
    BY <1>1, <1>14 DEF StreamInv, CursorInv, SocketInv, MergedInv, vars
  <2> QED
    BY <1>2, <2>1, <2>2, <2>3, ElsewhereLive DEF StreamInv
<1> QED
  BY <1>3, <1>4, <1>5, <1>6, <1>7, <1>8, <1>9, <1>10, <1>11, <1>12, <1>13, <1>14,
     StatementsGrow DEF Next

\* Every variable keeps its type, for any number of rows, changes and loads.
THEOREM LiveTyped == Spec => []TypeOK
<1>1. LiveInv => TypeOK
  BY DEF LiveInv, StreamInv
<1> QED
  BY <1>1, InitLive, StepLive, PTL DEF Spec

\* The websocket of a list is served as ChangeFeed promises: whatever the
\* user, the network and the table do, its steps are those of one subscriber.
THEOREM ServedByFeed == Spec => Feed!FeedSpec
<1>1. LiveInv => TypeOK
  BY DEF LiveInv, StreamInv
<1>2. Init => Feed!FeedInit
  BY DEF Init
<1> QED
  BY <1>1, <1>2, InitLive, StepLive, StepIsFeed, PTL DEF Spec, Feed!FeedSpec

\* The callback of SharedWebSocket never lists a row twice, nor a ghost next to
\* its row, in whatever order loads and pushes come.
THEOREM RowsListedOnce == Spec => []OneItemPerRow
<1>1. LiveInv => OneItemPerRow
  BY DEF LiveInv, ListInv, Unique, OneItemPerRow
<1> QED
  BY <1>1, InitLive, StepLive, PTL DEF Spec

-----------------------------------------------------------------------------
(* A list that missed nothing.                                             *)

\* A row of which nothing was merged is as the load saw it; of the others the
\* last change of the log was merged.
LEMMA CoveredRow ==
    ASSUME LiveInv, dataSource # NoSource, Covered, NEW id \in RowID \ Misled
    PROVE  /\ ItemsOf(id) = RowAt(id, Len(log))
           /\ ItemsOf(-id) # {} =>
                 \E i \in merged \cap 1 .. base : log[i].id = id
<1> DEFINE L == Len(log)
           last == LastOf(Positions(id, L))
<1>1. /\ log \in Seq(Entry) /\ L \in Nat /\ base \in Nat /\ base <= L
      /\ LogInv /\ RowsInv
  BY DEF LiveInv, StreamInv, TypeOK, Feed!FeedTypeOK, LoadInv, ListInv
<1>2. PICK m \in 1 .. base + 1 : merged = m .. L
  BY DEF Covered
<1>3. /\ MergedOf(id) = {} => ShowsLoad(id, base)
      /\ \A p \in MergedOf(id) :
            (\A q \in MergedOf(id) : q <= p) => ShowsChange(id, p, base)
  BY <1>1 DEF RowsInv
<1>4. \A i \in MergedOf(id) : i \notin refused
  BY DEF MergedOf, Misled
<1>5. CASE MergedOf(id) = {}
  <2>1. \A i \in 1 .. L : log[i].id = id => i \in 1 .. base
    <3> SUFFICES ASSUME NEW i \in 1 .. L, log[i].id = id
                 PROVE  i \in 1 .. base
      OBVIOUS
    <3>1. i \notin m .. L
      BY <1>2, <1>5 DEF MergedOf
    <3> QED
      BY <1>1, <3>1
  <2>2. 1 .. base \subseteq 1 .. L
    BY <1>1
  <2>3. Positions(id, L) = Positions(id, base)
    BY <2>1, <2>2 DEF Positions
  <2>4. RowAt(id, L) = RowAt(id, base)
    BY <2>3 DEF RowAt
  <2> QED
    BY <1>3, <1>5, <2>4 DEF ShowsLoad
<1>6. CASE MergedOf(id) # {}
  <2>1. PICK k \in MergedOf(id) : TRUE
    BY <1>6
  <2>2. k \in m .. L /\ k \in 1 .. L /\ log[k].id = id
    BY <1>1, <1>2, <2>1 DEF MergedOf
  <2>3. Positions(id, L) \in SUBSET Nat /\ k \in Positions(id, L)
        /\ \A i \in Positions(id, L) : i <= L
    BY <1>1, <1>4, <2>1, <2>2 DEF Positions
  <2>4. last \in Positions(id, L) /\ \A i \in Positions(id, L) : i <= last
    BY <1>1, <2>3, LastOfMember
  <2>5. last \in 1 .. L /\ log[last].id = id /\ k <= last
    BY <2>3, <2>4 DEF Positions
  <2>6. last \in MergedOf(id)
    BY <1>1, <1>2, <2>2, <2>5 DEF MergedOf
  <2>7. \A q \in MergedOf(id) : q <= last
    <3>1. \A q \in m .. L : q \in 1 .. L
      BY <1>1
    <3> QED
      BY <1>2, <1>4, <2>4, <3>1 DEF MergedOf, Positions
  <2>8. ShowsChange(id, last, base)
    BY <1>3, <2>6, <2>7
  <2>9. RowAt(id, L) = IF log[last].data = Gone THEN {} ELSE {log[last]}
    BY <2>3 DEF RowAt
  <2>10. ItemsOf(id) = RowAt(id, L)
    BY <2>8, <2>9 DEF ShowsChange
  <2>11. ASSUME ItemsOf(-id) # {}
         PROVE  last \in merged \cap 1 .. base
    <3>1. /\ log[last].data = Gone /\ RowAt(id, base) = {}
          /\ MergedOf(id) = {last}
      BY <2>8, <2>11 DEF ShowsChange
    <3>2. PICK q \in (1 .. last - 1) \ refused : log[q].id = id
      BY <1>1, <2>5, <3>1 DEF LogInv
    <3> HIDE DEF last
    <3>3. q \in 1 .. base
      <4>1. q \notin m .. L
        <5>1. q # last
          BY <2>5
        <5> QED
          BY <1>2, <3>1, <3>2, <5>1 DEF MergedOf
      <4> QED
        BY <1>1, <2>5, <4>1
    <3> DEFINE l == LastOf(Positions(id, base))
    <3>4. /\ Positions(id, base) \in SUBSET Nat /\ q \in Positions(id, base)
          /\ \A i \in Positions(id, base) : i <= base
      BY <1>1, <3>2, <3>3 DEF Positions
    <3>5. l \in Positions(id, base)
      BY <1>1, <3>4, LastOfMember
    <3>6. /\ l \in (1 .. base) \ refused
          /\ log[l].id = id /\ log[l].data = Gone
      BY <3>1, <3>4, <3>5 DEF RowAt, Positions
    <3> HIDE DEF l
    <3>7. ~(last > base)
      <4> SUFFICES ASSUME last > base PROVE FALSE
        OBVIOUS
      <4>1. l \in (1 .. last - 1) \ refused
        BY <1>1, <2>5, <3>6
      <4> QED
        BY <1>1, <2>5, <3>6, <4>1 DEF LogInv
    <3>8. last \in 1 .. base
      BY <1>1, <2>5, <3>7
    <3> QED
      BY <2>6, <3>8 DEF MergedOf
  <2> QED
    BY <2>5, <2>10, <2>11
<1> QED
  BY <1>5, <1>6

\* However the reply of the GET, the subscription and the pushes were ordered, a
\* list that missed nothing shows the table, except of a row whose refused delete
\* was pushed; a ghost of another row is of one that was gone before the load.
THEOREM CoveredCurrent == Spec => []CoveredViewIsCurrent
<1>1. ASSUME LiveInv
      PROVE  CoveredViewIsCurrent
  <2> SUFFICES ASSUME dataSource # NoSource, Covered
               PROVE  /\ \A id \in RowID \ Misled :
                            {x \in Shown : x.id = id} = RowAt(id, Len(log))
                      /\ Ghosts \subseteq {log[i].id : i \in merged \cap 1 .. base}
                                         \cup Misled
    BY DEF CoveredViewIsCurrent
  <2>1. \A id \in RowID \ Misled :
           /\ ItemsOf(id) = RowAt(id, Len(log))
           /\ ItemsOf(-id) # {} =>
                 \E i \in merged \cap 1 .. base : log[i].id = id
    BY <1>1, CoveredRow
  <2>2. ASSUME NEW x \in Range(dataSource), x.id < 0
        PROVE  -x.id \in RowID /\ -(-x.id) = x.id
    <3>1. dataSource \in Seq(Item) /\ MaxRow \in Nat
      BY <1>1, LiveViewConstants DEF LiveInv, StreamInv, TypeOK, LiveViewConstants
    <3>2. x \in Item
      BY <3>1 DEF Range
    <3> QED
      BY <2>2, <3>1, <3>2 DEF Item, RowID
  <2>3. \A id \in RowID : id > 0
    BY DEF RowID
  <2>4. \A id \in RowID : {x \in Shown : x.id = id} = ItemsOf(id)
    BY <2>3 DEF Shown, ItemsOf
  <2>5. ASSUME NEW x \in Range(dataSource), x.id < 0, -x.id \notin Misled
        PROVE  \E i \in merged \cap 1 .. base : log[i].id = -x.id
    <3>1. x \in ItemsOf(-(-x.id)) /\ -x.id \in RowID
      BY <2>2, <2>5 DEF ItemsOf
    <3> QED
      BY <2>1, <2>5, <3>1
  <2>6. Ghosts \subseteq {log[i].id : i \in merged \cap 1 .. base} \cup Misled
    BY <2>5 DEF Ghosts
  <2> QED
    BY <2>1, <2>4, <2>6
<1> QED
  BY <1>1, InitLive, StepLive, PTL DEF Spec
=============================================================================
