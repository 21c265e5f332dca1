----------------------------- MODULE PageProofs -----------------------------
(***************************************************************************)
(* Proofs about pages.  Of the paged lists (module Listing), for every set *)
(* of rows and every bound: the pages a reader is given are one sorted     *)
(* list, which leaves nothing out that it should hold, and a score shown   *)
(* is the one that ranked it.  Of the pages that compare foremen and       *)
(* shifts (module ShiftAnalysis), for any rotation, weekly sums and        *)
(* thresholds: what one shows, the others do not contradict.               *)
(***************************************************************************)
EXTENDS Listing, ShiftAnalysis, SumProofs, SequenceTheorems

-----------------------------------------------------------------------------
(* The lists: the order of the rows and what a cursor selects; one page; the  *)
(* steps of the walk.                                                      *)

Vals == Nat \cup {Null}
Placed(a) == a.value \in Vals /\ a.id \in Ids
Row == [value : Vals, id : Ids]

-----------------------------------------------------------------------------
(* The order *)

LEMMA Directions == ASSUME TypeOK PROVE list \in AllLists /\ list.dir \in {"asc", "desc"}
BY ListingAssumption DEF TypeOK, AllLists

LEMMA ValueOrder ==
  ASSUME list.dir \in {"asc", "desc"}
  PROVE  /\ \A v \in Vals : ~ValueBefore(v, v)
         /\ \A v, w \in Vals : ValueBefore(v, w) => ~ValueBefore(w, v)
         /\ \A v, w \in Vals : ValueBefore(v, w) \/ ValueBefore(w, v) \/ v = w
         /\ \A u, v, w \in Vals : ValueBefore(u, v) /\ ValueBefore(v, w) => ValueBefore(u, w)
<1>1. Null \notin Nat
  BY ListingAssumption
<1>2. ASSUME NEW u \in Vals, NEW v \in Vals, NEW w \in Vals
      PROVE  /\ ValueBefore(u, v) => ~ValueBefore(v, u)
             /\ ValueBefore(u, v) \/ ValueBefore(v, u) \/ u = v
             /\ ValueBefore(u, v) /\ ValueBefore(v, w) => ValueBefore(u, w)
  <2>1. CASE u \in Nat /\ v \in Nat /\ w \in Nat
    BY <1>1, <2>1 DEF ValueBefore
  <2>2. CASE u = Null
    BY <1>1, <2>2 DEF ValueBefore, Vals
  <2>3. CASE u \in Nat /\ v = Null
    BY <1>1, <2>3 DEF ValueBefore, Vals
  <2>4. CASE u \in Nat /\ v \in Nat /\ w = Null
    BY <1>1, <2>4 DEF ValueBefore, Vals
  <2>5. QED
    BY <2>1, <2>2, <2>3, <2>4 DEF Vals
<1>3. QED
  BY <1>2 DEF ValueBefore

LEMMA OrderFacts ==
  ASSUME list.dir \in {"asc", "desc"}
  PROVE  /\ \A a : Placed(a) => ~RowBefore(a, a)
         /\ \A a, b : Placed(a) /\ Placed(b) =>
              /\ RowBefore(a, b) => ~RowBefore(b, a)
              /\ \/ RowBefore(a, b) \/ RowBefore(b, a)
                 \/ a.value = b.value /\ a.id = b.id
         /\ \A a, b, c : Placed(a) /\ Placed(b) /\ Placed(c) /\ RowBefore(a, b) /\ RowBefore(b, c)
              => RowBefore(a, c)
<1>1. Ids \subseteq Nat
  BY ListingAssumption
<1>2. ASSUME NEW a, Placed(a) PROVE ~RowBefore(a, a)
  <2>1. a.value \in Vals /\ a.id \in Nat
    BY <1>1, <1>2 DEF Placed
  <2>2. QED
    BY <2>1, ValueOrder DEF RowBefore
<1>3. ASSUME NEW a, NEW b, Placed(a), Placed(b)
      PROVE  /\ RowBefore(a, b) => ~RowBefore(b, a)
             /\ \/ RowBefore(a, b) \/ RowBefore(b, a)
                \/ a.value = b.value /\ a.id = b.id
  <2>1. a.value \in Vals /\ a.id \in Nat /\ b.value \in Vals /\ b.id \in Nat
    BY <1>1, <1>3 DEF Placed
  <2>2. QED
    BY <2>1, ValueOrder DEF RowBefore
<1>4. ASSUME NEW a, NEW b, NEW c, Placed(a), Placed(b), Placed(c), RowBefore(a, b), RowBefore(b, c)
      PROVE  RowBefore(a, c)
  <2>1. /\ a.value \in Vals /\ a.id \in Nat /\ b.value \in Vals /\ b.id \in Nat
        /\ c.value \in Vals /\ c.id \in Nat
    BY <1>1, <1>4 DEF Placed
  <2>2. QED
    BY <2>1, <1>4, ValueOrder DEF RowBefore
<1>5. QED
  BY <1>2, <1>3, <1>4

\* The WHERE clause of a page (keyset_after) selects exactly the rows that
\* come after the cursor in the ORDER BY of the list, empty values included.
THEOREM KeysetIsOrder ==
  ASSUME list.dir \in {"asc", "desc"}, NEW v \in Vals, NEW id \in Ids, NEW c, Placed(c)
  PROVE  keyset_after(v, id, c) <=> RowBefore(c, [value |-> v, id |-> id])
<1>1. Ids \subseteq Nat /\ Null \notin Nat
  BY ListingAssumption
<1>2. CASE list.dir = "asc"
  BY <1>1, <1>2 DEF keyset_after, RowBefore, ValueBefore, Placed, Vals
<1>3. CASE list.dir = "desc"
  BY <1>1, <1>3 DEF keyset_after, RowBefore, ValueBefore, Placed, Vals
<1>4. QED
  BY <1>2, <1>3

LEMMA OrderIsPromised ==
  ASSUME list.dir \in {"asc", "desc"}, NEW a, NEW b, Placed(a), Placed(b), RowBefore(a, b)
  PROVE  Precedes(a, b)
BY ListingAssumption DEF Placed, Vals, RowBefore, ValueBefore, Precedes, Rank

\* Finitely many rows have an order, which lists each of them once: a row's
\* place is the number of rows that are not after it.
LEMMA RowsHaveOrder ==
  ASSUME list.dir \in {"asc", "desc"}, NEW R, R \subseteq Row, IsFiniteSet(R)
  PROVE  /\ Cardinality(R) \in Nat
         /\ Ordered(R) \in [1 .. Cardinality(R) -> R]
         /\ \A i, j \in 1 .. Cardinality(R) : i < j => RowBefore(Ordered(R)[i], Ordered(R)[j])
         /\ \A x \in R : \E i \in 1 .. Cardinality(R) : Ordered(R)[i] = x
<1> DEFINE N        == Cardinality(R)
           UpTo(x)  == {y \in R : y = x \/ RowBefore(y, x)}
           place    == [x \in R |-> Cardinality(UpTo(x))]
           Sorted(s) == \A i, j \in DOMAIN s : i < j => RowBefore(s[i], s[j])
<1>1. N \in Nat
  BY FS_CardinalityType
<1>2. \A x \in R : Placed(x)
  BY DEF Row, Placed
<1>3. \A x, y \in R : x.value = y.value /\ x.id = y.id => x = y
  BY DEF Row
<1>4. ASSUME NEW x \in R PROVE IsFiniteSet(UpTo(x)) /\ place[x] \in 1 .. N
  <2>1. UpTo(x) \in SUBSET R /\ UpTo(x) # {}
    OBVIOUS
  <2>2. IsFiniteSet(UpTo(x)) /\ Cardinality(UpTo(x)) <= N
    BY <2>1, FS_Subset
  <2>3. Cardinality(UpTo(x)) \in Nat /\ Cardinality(UpTo(x)) # 0
    BY <2>1, <2>2, FS_CardinalityType, FS_EmptySet
  <2>4. QED
    BY <2>2, <2>3, <1>1
<1>5. ASSUME NEW x \in R, NEW y \in R, RowBefore(x, y) PROVE place[x] < place[y]
  <2>1. UpTo(x) \subseteq UpTo(y)
    BY <1>2, <1>5, OrderFacts
  <2>2. y \in UpTo(y) /\ y \notin UpTo(x)
    BY <1>2, <1>5, OrderFacts
  <2>3. Cardinality(UpTo(x)) <= Cardinality(UpTo(y)) /\ Cardinality(UpTo(x)) # Cardinality(UpTo(y))
    BY <2>1, <2>2, <1>4, FS_Subset
  <2>4. QED
    BY <2>3, <1>4
<1>6. place \in Injection(R, 1 .. N)
  <2>1. place \in [R -> 1 .. N]
    BY <1>4
  <2>2. ASSUME NEW x \in R, NEW y \in R, place[x] = place[y] PROVE x = y
    <3>1. ~RowBefore(x, y) /\ ~RowBefore(y, x)
      BY <2>2, <1>5, <1>4
    <3>2. QED
      BY <3>1, <1>2, <1>3, OrderFacts
  <2>3. QED
    BY <2>1, <2>2 DEF Injection, IsInjective
<1>7. \A i \in 1 .. N : \E x \in R : place[x] = i
  <2>1. IsFiniteSet(1 .. N) /\ Cardinality(1 .. N) = N
    BY <1>1, FS_Interval
  <2>2. place \in Surjection(R, 1 .. N)
    BY <2>1, <1>6, FS_Injection
  <2>3. QED
    BY <2>2 DEF Surjection
<1>8. \E s \in [1 .. N -> R] : Sorted(s)
  <2> DEFINE s == [i \in 1 .. N |-> CHOOSE x \in R : place[x] = i]
  <2>1. \A i \in 1 .. N : s[i] \in R /\ place[s[i]] = i
    BY <1>7
  <2>2. ASSUME NEW i \in 1 .. N, NEW j \in 1 .. N, i < j PROVE RowBefore(s[i], s[j])
    <3>1. s[i] \in R /\ s[j] \in R /\ place[s[i]] = i /\ place[s[j]] = j
      BY <2>1
    <3> HIDE DEF s, place
    <3>2. ~RowBefore(s[j], s[i])
      <4>1. RowBefore(s[j], s[i]) => j < i
        BY <3>1, <1>5
      <4>2. QED
        BY <4>1, <2>2, <1>1
    <3>3. s[i] # s[j]
      BY <3>1, <2>2, <1>1
    <3>4. QED
      BY <3>1, <3>2, <3>3, <1>2, <1>3, OrderFacts
  <2>3. s \in [1 .. N -> R]
    BY <2>1
  <2>4. QED
    BY <2>2, <2>3
<1>9. Ordered(R) \in [1 .. N -> R] /\ Sorted(Ordered(R))
  BY <1>8 DEF Ordered
<1>10. Ordered(R) \in Injection(1 .. N, R)
  <2> DEFINE s == Ordered(R)
  <2>1. ASSUME NEW i \in 1 .. N, NEW j \in 1 .. N, s[i] = s[j] PROVE i = j
    <3>1. s[i] \in R /\ s[j] \in R /\ (i < j => RowBefore(s[i], s[j])) /\ (j < i => RowBefore(s[j], s[i]))
      BY <1>9
    <3>2. ~(i < j) /\ ~(j < i)
      BY <3>1, <2>1, <1>2, OrderFacts
    <3>3. QED
      BY <3>2, <1>1
  <2>2. QED
    BY <2>1, <1>9 DEF Injection, IsInjective
<1>11. \A x \in R : \E i \in 1 .. N : Ordered(R)[i] = x
  <2>1. IsFiniteSet(1 .. N) /\ Cardinality(1 .. N) = N
    BY <1>1, FS_Interval
  <2>2. Ordered(R) \in Surjection(1 .. N, R)
    BY <2>1, <1>10, FS_Injection
  <2>3. QED
    BY <2>2 DEF Surjection
<1>12. QED
  BY <1>1, <1>9, <1>11

-----------------------------------------------------------------------------
(* One page *)

After(x) == cursor # NoCursor => RowBefore(cursor, x)

\* What is known of a page with the values of the rows S.
GoodPage(taken, page, S, values, n) ==
  /\ page \in Seq(Row)
  /\ HasMore(taken, n) => Len(page) = n /\ taken[n] = page[n]
  /\ \A i \in 1 .. Len(page) : /\ page[i].id \in S /\ page[i].value = values[page[i].id]
                               /\ taken[i] = page[i] /\ After(page[i])
  /\ \A i, j \in 1 .. Len(page) : i < j => RowBefore(page[i], page[j])
  /\ \A id \in S :
       /\ After([value |-> values[id], id |-> id])
       /\ HasMore(taken, n) => \/ RowBefore([value |-> values[id], id |-> id], page[n])
                              \/ [value |-> values[id], id |-> id] = page[n]
       => \E i \in 1 .. Len(page) : page[i] = [value |-> values[id], id |-> id]

LEMMA PageFacts ==
  ASSUME list.dir \in {"asc", "desc"}, cursor # NoCursor => Placed(cursor),
         NEW S, S \subseteq Ids, NEW values \in [S -> Vals], NEW n \in Nat \ {0},
         NEW taken, taken = Fetch(values, n), NEW page, page = PageOf(taken, n)
  PROVE  GoodPage(taken, page, S, values, n)
<1> DEFINE entry(id) == [value |-> values[id], id |-> id]
           R      == {entry(id) : id \in {x \in DOMAIN values : cursor # NoCursor => keyset_after(values[x], x, cursor)}}
           order  == Ordered(R)
           N      == Cardinality(R)
           m      == IF N > n THEN n + 1 ELSE N
           k      == IF N > n THEN n ELSE N
<1>1. \A id \in S : entry(id) \in Row /\ (entry(id) \in R <=> After(entry(id)))
  <2>1. ASSUME NEW id \in S PROVE entry(id) \in Row /\ (entry(id) \in R <=> After(entry(id)))
    <3>1. values[id] \in Vals /\ id \in Ids
      OBVIOUS
    <3>2. entry(id) \in Row
      BY <3>1 DEF Row
    <3>3. entry(id) \in R <=> (cursor # NoCursor => keyset_after(values[id], id, cursor))
      OBVIOUS
    <3>4. QED
      BY <3>1, <3>2, <3>3, KeysetIsOrder DEF After
  <2>2. QED
    BY <2>1
<1>2. \A x \in R : x \in Row /\ x.id \in S /\ x = entry(x.id) /\ After(x)
  BY <1>1
<1>3. IsFiniteSet(R)
  <2> DEFINE f == [x \in R |-> x.id]
  <2>1. f \in Injection(R, Ids)
    BY <1>2 DEF Injection, IsInjective
  <2>2. QED
    BY <2>1, FS_Injection, ListingAssumption
<1> HIDE DEF R
<1>4. /\ N \in Nat /\ order \in [1 .. N -> R]
      /\ \A i, j \in 1 .. N : i < j => RowBefore(order[i], order[j])
      /\ \A x \in R : \E i \in 1 .. N : order[i] = x
  BY <1>2, <1>3, RowsHaveOrder
<1> HIDE DEF order, N
<1>5. order \in Seq(R) /\ Len(order) = N
  BY <1>4
<1>6. /\ taken \in Seq(R) /\ Len(taken) = m
      /\ \A i \in 1 .. m : taken[i] = order[i]
  <2>1. taken = SubSeq(order, 1, m)
    BY <1>5 DEF Fetch, R, order, N
  <2>2. QED
    BY <2>1, <1>4, <1>5, SubSeqProperties
<1>7. HasMore(taken, n) <=> N > n
  BY <1>4, <1>6 DEF HasMore
<1>8. /\ page \in Seq(R) /\ Len(page) = k
      /\ \A i \in 1 .. k : page[i] = order[i]
  <2>1. page = SubSeq(taken, 1, k)
    BY <1>4, <1>6 DEF PageOf, HasMore
  <2>2. QED
    BY <2>1, <1>4, <1>6, SubSeqProperties
<1>9. page \in Seq(Row)
  BY <1>2, <1>8
<1>10. HasMore(taken, n) => Len(page) = n /\ taken[n] = page[n]
  BY <1>4, <1>6, <1>7, <1>8
<1>11. \A i \in 1 .. Len(page) : /\ page[i].id \in S /\ page[i].value = values[page[i].id]
                                 /\ taken[i] = page[i] /\ After(page[i])
  <2>1. \A i \in 1 .. Len(page) : page[i] \in R /\ taken[i] = page[i]
    BY <1>4, <1>6, <1>8
  <2>2. QED
    BY <2>1, <1>2
<1>12. \A i, j \in 1 .. Len(page) : i < j => RowBefore(page[i], page[j])
  BY <1>4, <1>8
<1>13. ASSUME NEW id \in S, After(entry(id)),
              HasMore(taken, n) => RowBefore(entry(id), page[n]) \/ entry(id) = page[n]
       PROVE  \E i \in 1 .. Len(page) : page[i] = entry(id)
  <2>1. entry(id) \in R
    BY <1>1, <1>13
  <2>2. PICK i \in 1 .. N : order[i] = entry(id)
    BY <2>1, <1>4
  <2>3. i <= k
    <3>1. CASE N > n
      <4>1. page[n] = order[n] /\ n \in 1 .. N
        BY <3>1, <1>4, <1>8
      <4>2. Placed(order[n]) /\ Placed(order[i])
        BY <4>1, <1>2, <1>4 DEF Placed, Row
      <4>3. SUFFICES ASSUME n < i PROVE FALSE
        BY <3>1, <1>4
      <4>4. RowBefore(order[n], order[i])
        BY <4>1, <4>3, <1>4
      <4>5. RowBefore(order[i], order[n]) \/ order[i] = order[n]
        BY <3>1, <4>1, <2>2, <1>7, <1>13
      <4>6. QED
        BY <4>2, <4>4, <4>5, OrderFacts
    <3>2. CASE ~(N > n)
      BY <3>2, <1>4
    <3>3. QED
      BY <3>1, <3>2
  <2>4. i \in 1 .. k
    BY <2>3, <1>4
  <2>5. page[i] = entry(id) /\ i \in 1 .. Len(page)
    <3> HIDE DEF k, entry
    <3>1. QED
      BY <2>2, <2>4, <1>8
  <2>6. QED
    BY <2>5
<1>14. QED
  BY <1>9, <1>10, <1>11, <1>12, <1>13 DEF GoodPage

LEMMA EmptyPage ==
  ASSUME NEW n \in Nat \ {0}
  PROVE  PageOf(<<>>, n) = <<>> /\ ~HasMore(<<>>, n) /\ GoodPage(<<>>, <<>>, {}, NoValues, n)
<1>1. ~HasMore(<<>>, n)
  BY DEF HasMore
<1>2. PageOf(<<>>, n) = <<>>
  BY <1>1, SubSeqEmpty DEF PageOf
<1>3. QED
  BY <1>1, <1>2 DEF GoodPage

-----------------------------------------------------------------------------
(* The steps *)

\* What is known of a row depends on that row only.
LEMMA RowFrame ==
  ASSUME list' = list, NEW id, table'[id] = table[id], bonus'[id] = bonus[id]
  PROVE  /\ Key(id)' = Key(id) /\ RankValue(id)' = RankValue(id) /\ General(id)' = General(id)
         /\ Operational(id)' = Operational(id) /\ Reliable(id)' = Reliable(id)
         /\ \A f : Matches(id, f)' = Matches(id, f)
         /\ \A f : Member(id, f)' = Member(id, f)
         /\ \A f : Due(id, f)' = Due(id, f)
<1>1. /\ Operational(id)' = Operational(id) /\ Reliable(id)' = Reliable(id)
      /\ General(id)' = General(id)
  BY DEF Operational, Reliable, General, GeneralScore
<1>2. \A f : Matches(id, f)' = Matches(id, f)
  BY DEF Matches, WorkMatches, AnomalyMatches, ReportMatches, PlantMatches, ChiefMatches, ForemanMatches
<1>3. \A f : Member(id, f)' = Member(id, f)
  BY <1>2 DEF Member
<1>4. \A f : Due(id, f)' = Due(id, f)
  BY <1>1, <1>3 DEF Due, InLevel
<1>5. RankValue(id)' = RankValue(id)
  BY <1>1 DEF RankValue
<1>6. Key(id)' = Key(id)
  BY <1>1, <1>5 DEF Key, Name
<1>7. QED
  BY <1>1, <1>2, <1>3, <1>4, <1>5, <1>6

\* A page is delivered: the rows after the cursor go behind those shown.
LEMMA PageStep ==
  ASSUME IInv, phase = "page", NEW S, S \subseteq Ids, NEW values \in [S -> Vals],
         NEW n \in Limits, NEW points, NEW taken, NEW page, page = PageOf(taken, n),
         GoodPage(taken, page, S, values, n), Deliver(taken, points, n),
         \A id \in Still : Due(id, filter) => id \in S,
         \A id \in Still \cap S : values[id] = Key(id),
         \A i \in 1 .. Len(page) : points[page[i].id] \in Nat,
         list.of \in {"foremen", "plantForemen"} => \A i \in 1 .. Len(page) :
           /\ list.sort = "score" => points[page[i].id] = page[i].value
           /\ InLevel(points[page[i].id])
  PROVE  IInv'
<1> DEFINE old == Len(shown)
           added(i) == [value |-> page[i].value, id |-> page[i].id, score |-> points[page[i].id]]
<1>1. /\ list.dir \in {"asc", "desc"} /\ n \in Nat /\ n # 0 /\ Ids \subseteq Nat
  BY Directions, ListingAssumption DEF IInv
<1>2. /\ UNCHANGED <<table, bonus, list, filter, touched, writes, switches>>
      /\ candidates' = {} /\ scores' = NoValues /\ ranked' = NoValues
      /\ cursor' = NextCursor(taken, n)
      /\ phase' = IF HasMore(taken, n) THEN "ready" ELSE "over"
  BY DEF Deliver
<1>3. \A id : /\ Key(id)' = Key(id)
              /\ \A f : Due(id, f)' = Due(id, f)
  BY <1>2, RowFrame
<1>4. shown \in Seq(Entry) /\ old \in Nat
  BY DEF IInv, WalkShape
<1>5. page \in Seq(Row) /\ Len(page) \in Nat /\ \A i \in 1 .. Len(page) : page[i] \in Row
  BY DEF GoodPage
<1>6. /\ shown' \in Seq(Entry) /\ Len(shown') = old + Len(page)
      /\ \A i \in 1 .. old : shown'[i] = shown[i]
      /\ \A i \in 1 .. Len(page) : shown'[old + i] = added(i)
  <2> DEFINE new == [i \in DOMAIN page |-> added(i)]
  <2>1. new \in Seq(Entry) /\ Len(new) = Len(page)
    <3>1. \A i \in 1 .. Len(page) : added(i) \in Entry
      BY <1>5 DEF Row, Entry, Vals
    <3>2. DOMAIN page = 1 .. Len(page)
      BY <1>5
    <3>3. QED
      BY <3>1, <3>2, <1>5
  <2>2. shown' = shown \o new
    <3>1. \A i \in DOMAIN page : taken[i] = page[i]
      BY <1>5 DEF GoodPage
    <3>2. QED
      BY <3>1 DEF Deliver
  <2>3. \A i \in 1 .. Len(page) : new[i] = added(i)
    BY <1>5
  <2> HIDE DEF new, added
  <2>4. Len(shown') = old + Len(page) /\ shown' \in Seq(Entry)
    BY <2>1, <2>2, <1>4
  <2>5. \A i \in 1 .. old : shown'[i] = shown[i]
    BY <2>1, <2>2, <1>4
  <2>6. ASSUME NEW i \in 1 .. Len(page) PROVE shown'[old + i] = added(i)
    <3>1. shown'[old + i] = new[i]
      BY <2>1, <2>2, <1>4, <1>5
    <3>2. QED
      BY <3>1, <2>3
  <2>7. QED
    BY <2>4, <2>5, <2>6
<1>7. ASSUME NEW k \in DOMAIN shown'
      PROVE  \/ k \in 1 .. old /\ shown'[k] = shown[k]
             \/ \E i \in 1 .. Len(page) : k = old + i /\ shown'[k] = added(i)
  <2>1. k \in 1 .. old + Len(page)
    BY <1>6
  <2>2. CASE k <= old
    BY <2>1, <2>2, <1>4, <1>6
  <2>3. CASE k > old
    <3>1. k - old \in 1 .. Len(page) /\ k = old + (k - old)
      BY <2>1, <2>3, <1>4, <1>5
    <3>2. QED
      BY <3>1, <1>6
  <2>4. QED
    BY <2>1, <2>2, <2>3, <1>4, <1>5
<1>8. /\ DOMAIN shown = 1 .. old
      /\ \A k \in 1 .. old : shown[k] \in Entry
      /\ \A k \in DOMAIN shown' : shown'[k] \in Entry
  BY <1>4, <1>6
<1>9. cursor # NoCursor => Placed(cursor) /\ cursor.signature = filter
  BY DEF IInv, RequestShape, Placed, Vals
<1>10. cursor = NoCursor => old = 0
  BY DEF IInv, RequestShape
<1>11. \A k \in DOMAIN shown' : Placed(shown'[k])
  BY <1>8 DEF Placed, Entry, Vals
<1>12. \A i \in 1 .. Len(page) : Placed(page[i]) /\ Placed(added(i))
  BY <1>5 DEF Placed, Row
<1>13. ASSUME NEW k \in DOMAIN shown', shown'[k].id \notin touched
       PROVE  shown'[k].value = Key(shown'[k].id)
  <2>1. CASE k \in 1 .. old /\ shown'[k] = shown[k]
    BY <2>1, <1>8, <1>13 DEF IInv, WalkShape, Untouched
  <2>2. ASSUME NEW i \in 1 .. Len(page), shown'[k] = added(i)
        PROVE  shown'[k].value = Key(shown'[k].id)
    <3>1. page[i].id \in S /\ page[i].id \in Still /\ page[i].value = values[page[i].id]
      BY <2>2, <1>13 DEF GoodPage, Still
    <3>2. QED
      BY <2>2, <3>1
  <2>3. QED
    BY <2>1, <2>2, <1>7
<1>14. ASSUME NEW k \in 1 .. old, NEW i \in 1 .. Len(page), shown[k].id \notin touched
       PROVE  RowBefore(shown[k], added(i))
  <2>1. cursor # NoCursor /\ Reached(shown[k])
    BY <1>8, <1>10, <1>14 DEF IInv, WalkShape, Untouched
  <2>2. RowBefore(cursor, page[i])
    BY <2>1 DEF GoodPage, After
  <2>3. RowBefore(cursor, added(i))
    BY <2>2 DEF RowBefore
  <2>4. Placed(cursor) /\ Placed(shown[k]) /\ Placed(added(i))
    BY <2>1, <1>8, <1>9, <1>12 DEF Placed, Entry, Vals
  <2>5. CASE RowBefore(shown[k], cursor)
    BY <2>3, <2>4, <2>5, <1>1, OrderFacts
  <2>6. CASE shown[k].value = cursor.value /\ shown[k].id = cursor.id
    BY <2>3, <2>6 DEF RowBefore
  <2>7. QED
    BY <2>1, <2>5, <2>6 DEF Reached
<1>15. ASSUME NEW k \in DOMAIN shown', NEW l \in DOMAIN shown', k < l,
              shown'[k].id \notin touched, shown'[l].id \notin touched
       PROVE  RowBefore(shown'[k], shown'[l])
  <2>1. CASE l \in 1 .. old
    <3>1. k \in 1 .. old /\ shown'[k] = shown[k] /\ shown'[l] = shown[l]
      BY <2>1, <1>4, <1>6, <1>15
    <3>2. QED
      BY <2>1, <3>1, <1>8, <1>15 DEF IInv, WalkShape, Untouched
  <2>2. ASSUME NEW i \in 1 .. Len(page), l = old + i, shown'[l] = added(i)
        PROVE  RowBefore(shown'[k], shown'[l])
    <3>1. CASE k \in 1 .. old /\ shown'[k] = shown[k]
      BY <2>2, <3>1, <1>14, <1>15
    <3>2. ASSUME NEW j \in 1 .. Len(page), k = old + j, shown'[k] = added(j)
          PROVE  RowBefore(shown'[k], shown'[l])
      <4>1. j < i
        BY <2>2, <3>2, <1>4, <1>5, <1>15
      <4>2. RowBefore(page[j], page[i])
        BY <4>1 DEF GoodPage
      <4>3. QED
        BY <4>2, <2>2, <3>2 DEF RowBefore
    <3>3. QED
      BY <3>1, <3>2, <1>7
  <2>3. QED
    BY <2>1, <2>2, <1>7
<1>16. HasMore(taken, n) =>
         /\ cursor' = [value |-> page[n].value, id |-> page[n].id, signature |-> filter]
         /\ n \in 1 .. Len(page) /\ Placed(page[n]) /\ Placed(cursor')
         /\ cursor' \in [value : Vals, id : Ids, signature : Filters]
  <2> SUFFICES ASSUME HasMore(taken, n) PROVE
         /\ cursor' = [value |-> page[n].value, id |-> page[n].id, signature |-> filter]
         /\ n \in 1 .. Len(page) /\ Placed(page[n]) /\ Placed(cursor')
         /\ cursor' \in [value : Vals, id : Ids, signature : Filters]
    OBVIOUS
  <2>1. Len(page) = n /\ taken[n] = page[n]
    BY DEF GoodPage
  <2>2. cursor' = [value |-> page[n].value, id |-> page[n].id, signature |-> filter]
    BY <2>1, <1>2 DEF NextCursor
  <2>3. n \in 1 .. Len(page) /\ Placed(page[n])
    <3>1. n \in 1 .. Len(page)
      BY <2>1, <1>1
    <3>2. QED
      BY <3>1, <1>12
  <2>4. QED
    BY <2>2, <2>3 DEF Placed, IInv, TypeOK
<1>17. ~HasMore(taken, n) => cursor' = NoCursor
  BY <1>2 DEF NextCursor
<1>18. HasMore(taken, n) => \A i \in 1 .. Len(page) : RowBefore(page[i], page[n]) \/ i = n
  BY <1>1, <1>5, <1>16 DEF GoodPage
<1>19. ASSUME HasMore(taken, n), NEW k \in DOMAIN shown', shown'[k].id \notin touched
       PROVE  Reached(shown[k])'
  <2>1. RowBefore(shown'[k], page[n]) \/ (shown'[k].value = page[n].value /\ shown'[k].id = page[n].id)
    <3>1. CASE k \in 1 .. old /\ shown'[k] = shown[k]
      <4>1. RowBefore(shown[k], added(n))
        BY <3>1, <1>14, <1>16, <1>19
      <4>2. QED
        BY <4>1, <3>1 DEF RowBefore
    <3>2. ASSUME NEW i \in 1 .. Len(page), shown'[k] = added(i)
          PROVE  RowBefore(shown'[k], page[n]) \/ (shown'[k].value = page[n].value /\ shown'[k].id = page[n].id)
      BY <3>2, <1>18, <1>19 DEF RowBefore
    <3>3. QED
      BY <3>1, <3>2, <1>7
  <2>2. cursor'.value = page[n].value /\ cursor'.id = page[n].id /\ list' = list
    BY <1>2, <1>16, <1>19
  <2>3. QED
    BY <2>1, <2>2 DEF Reached, RowBefore, ValueBefore
<1>20. ASSUME NEW id \in Still, Due(id, filter),
              HasMore(taken, n) => RowBefore(RowOf(id), page[n]) \/ (Key(id) = page[n].value /\ id = page[n].id)
       PROVE  \E k \in DOMAIN shown' : shown'[k].id = id
  <2>1. id \in S /\ values[id] = Key(id) /\ id \in Ids /\ Key(id) \in Vals /\ Placed(RowOf(id))
    BY <1>20 DEF Placed, RowOf, Still
  <2>2. CASE After(RowOf(id))
    <3>1. HasMore(taken, n) => RowBefore(RowOf(id), page[n]) \/ RowOf(id) = page[n]
      <4>1. HasMore(taken, n) => page[n] \in Row
        BY <1>5, <1>16
      <4>2. QED
        BY <4>1, <1>20 DEF RowOf, Row
    <3>2. PICK i \in 1 .. Len(page) : page[i] = RowOf(id)
      BY <2>1, <2>2, <3>1 DEF GoodPage, RowOf
    <3>3. old + i \in DOMAIN shown' /\ shown'[old + i].id = id
      <4>1. old + i \in DOMAIN shown'
        <5> HIDE DEF added
        <5>1. QED
          BY <1>4, <1>5, <1>6
      <4>2. shown'[old + i] = added(i)
        BY <1>6
      <4>3. QED
        BY <4>1, <4>2, <3>2 DEF RowOf
    <3>4. QED
      BY <3>3
  <2>3. CASE ~After(RowOf(id))
    <3>1. cursor # NoCursor /\ Reached(RowOf(id))
      <4>1. cursor # NoCursor /\ ~RowBefore(cursor, RowOf(id)) /\ Placed(cursor)
        BY <2>3, <1>9 DEF After
      <4>2. QED
        BY <4>1, <2>1, <1>1, OrderFacts DEF Reached
    <3>2. PICK k \in DOMAIN shown : shown[k].id = id
      BY <3>1, <1>9, <1>20 DEF IInv, WalkShape
    <3>3. k \in DOMAIN shown' /\ shown'[k] = shown[k]
      BY <3>2, <1>4, <1>5, <1>6, <1>8
    <3>4. QED
      BY <3>2, <3>3
  <2>4. QED
    BY <2>2, <2>3
<1>21. WalkShape'
  <2>1. \A k \in DOMAIN shown' : Untouched(k)' => (shown[k].value = Key(shown[k].id))'
    BY <1>2, <1>3, <1>13 DEF Untouched
  <2>2. \A k, l \in DOMAIN shown' : k < l /\ Untouched(k)' /\ Untouched(l)' => RowBefore(shown[k], shown[l])'
    BY <1>2, <1>15 DEF Untouched, RowBefore, ValueBefore
  <2>3. cursor' # NoCursor => HasMore(taken, n)
    BY <1>17
  <2>4. cursor' # NoCursor => \A k \in DOMAIN shown' : Untouched(k)' => Reached(shown[k])'
    BY <2>3, <1>2, <1>19 DEF Untouched
  <2>5. ASSUME cursor' # NoCursor, NEW id \in Still, Due(id, filter), Reached(RowOf(id))'
        PROVE  \E k \in DOMAIN shown' : shown'[k].id = id
    <3>1. RowBefore(RowOf(id), page[n]) \/ (Key(id) = page[n].value /\ id = page[n].id)
      BY <2>3, <2>5, <1>2, <1>3, <1>16 DEF Reached, RowBefore, ValueBefore, RowOf
    <3>2. QED
      BY <3>1, <2>5, <1>20
  <2>6. cursor' # NoCursor => cursor'.signature = filter
    BY <2>3, <1>16
  <2>7. QED
    BY <2>1, <2>2, <2>4, <2>5, <2>6, <1>2, <1>3, <1>6 DEF WalkShape, Still
<1>22. NothingSkipped'
  <2>1. phase' = "over" => ~HasMore(taken, n)
    BY <1>2
  <2>2. QED
    BY <2>1, <1>2, <1>3, <1>20 DEF NothingSkipped, Still
<1>23. ShownAsRanked'
  <2>1. ASSUME NEW k \in DOMAIN shown', list.of \in {"foremen", "plantForemen"}
        PROVE  (list.sort = "score" => shown'[k].score = shown'[k].value) /\ InLevel(shown'[k].score)
    <3>1. CASE k \in 1 .. old /\ shown'[k] = shown[k]
      BY <2>1, <3>1, <1>8 DEF IInv, ShownAsRanked
    <3>2. ASSUME NEW i \in 1 .. Len(page), shown'[k] = added(i)
          PROVE  (list.sort = "score" => shown'[k].score = shown'[k].value) /\ InLevel(shown'[k].score)
      BY <2>1, <3>2
    <3>3. QED
      BY <3>1, <3>2, <1>7
  <2>2. QED
    BY <2>1, <1>2 DEF ShownAsRanked, InLevel
<1>24. RequestShape'
  <2>1. phase' \in {"ready", "over"} /\ (phase' = "over" => cursor' = NoCursor)
    BY <1>2, <1>17
  <2>2. cursor' # NoCursor => cursor' \in [value : Nat \cup {Null}, id : Ids, signature : Filters] /\ phase' = "ready"
    BY <1>2, <1>16, <1>17 DEF Vals
  <2>3. cursor' = NoCursor => phase' = "over"
    <3>1. HasMore(taken, n) => cursor' # NoCursor
      BY <1>16 DEF NoCursor, Filters, IInv, TypeOK
    <3>2. QED
      BY <3>1, <1>2
  <2>4. QED
    BY <2>1, <2>2, <2>3 DEF RequestShape
<1>25. TypeOK' /\ RankShape' /\ Fresh'
  <2>1. phase' \in {"ready", "over"}
    BY <1>2
  <2>2. DOMAIN scores' = {} /\ DOMAIN ranked' = {}
    BY <1>2 DEF NoValues
  <2>3. \A k \in DOMAIN shown' : shown'[k].id \in Ids
    BY <1>11 DEF Placed
  <2>4. QED
    BY <2>1, <2>2, <2>3, <1>2 DEF TypeOK, RankShape, Fresh, IInv
<1>26. QED
  BY <1>21, <1>22, <1>23, <1>24, <1>25 DEF IInv

\* A step that leaves the list, the cursor and what was shown alone, and the
\* rows that count as not written, leaves the walk where it is.
LEMMA WalkStays ==
  ASSUME IInv, list' = list, cursor' = cursor, shown' = shown, touched \subseteq touched',
         \A id \in Ids \ touched' : table'[id] = table[id] /\ bonus'[id] = bonus[id]
  PROVE  WalkShape' /\ ShownAsRanked'
<1>1. \A id \in Ids \ touched' : /\ Key(id)' = Key(id)
                                 /\ \A f : Due(id, f)' = Due(id, f)
  BY RowFrame
<1>2. \A k \in DOMAIN shown : shown[k].id \in Ids
  BY DEF IInv, TypeOK
<1>3. ShownAsRanked'
  BY DEF IInv, ShownAsRanked, InLevel
<1>4. \A k \in DOMAIN shown' : Untouched(k)' => Untouched(k) /\ (shown[k].value = Key(shown[k].id))'
  BY <1>1, <1>2 DEF IInv, WalkShape, Untouched
<1>5. \A k, l \in DOMAIN shown' : k < l /\ Untouched(k)' /\ Untouched(l)' => RowBefore(shown[k], shown[l])'
  BY <1>4 DEF IInv, WalkShape, RowBefore, ValueBefore
<1>6. ASSUME cursor' # NoCursor
      PROVE  /\ \A k \in DOMAIN shown' : Untouched(k)' => Reached(shown[k])'
             /\ \A id \in Still' : Due(id, cursor.signature)' /\ Reached(RowOf(id))'
                  => \E k \in DOMAIN shown' : shown'[k].id = id
  <2>1. \A k \in DOMAIN shown' : Untouched(k)' => Reached(shown[k])'
    BY <1>4, <1>6 DEF IInv, WalkShape, Reached, RowBefore, ValueBefore
  <2>2. ASSUME NEW id \in Still', Due(id, cursor.signature)', Reached(RowOf(id))'
        PROVE  \E k \in DOMAIN shown' : shown'[k].id = id
    <3>1. id \in Still /\ Due(id, cursor.signature) /\ Key(id)' = Key(id)
      BY <1>1, <2>2 DEF Still
    <3>2. Reached(RowOf(id))
      BY <2>2, <3>1 DEF Reached, RowBefore, ValueBefore, RowOf
    <3>3. QED
      BY <3>1, <3>2, <1>6 DEF IInv, WalkShape
  <2>3. QED
    BY <2>1, <2>2
<1>7. QED
  BY <1>3, <1>4, <1>5, <1>6 DEF IInv, WalkShape

LEMMA ListFacts ==
  ASSUME TypeOK
  PROVE  /\ list.of \in {"works", "anomalies", "reports", "foremen", "plants", "chiefs", "plantForemen"}
         /\ list.of \in {"works", "anomalies", "reports"} => list.sort = "column"
         /\ list.of \in {"foremen", "chiefs"} => list.sort \in {"name", "score", "flag"}
         /\ list.of = "plants" => list.sort \in {"name", "score"}
         /\ list.of = "plantForemen" => list.sort = "score"
         /\ list.of # "foremen" => ~list.level
         /\ list.level \in BOOLEAN
BY Directions DEF AllLists

LEMMA ScoresAreNumbers ==
  ASSUME TypeOK
  PROVE  \A id \in Ids : /\ Operational(id) \in Nat /\ Reliable(id) \in 0..1 /\ Name(id) \in Nat
                         /\ General(id) \in Nat
<1> ASSUME NEW id \in Ids
    PROVE  /\ Operational(id) \in Nat /\ Reliable(id) \in 0..1 /\ Name(id) \in Nat
           /\ General(id) \in Nat
  <2>1. Ids \subseteq Nat /\ Values \subseteq Nat /\ MaxScore \in Nat
    BY ListingAssumption
  <2>2. table[id] \in Values \cup {Null, Absent} /\ bonus[id] \in 0..1
    BY DEF TypeOK
  <2>3. Operational(id) \in Nat /\ Reliable(id) \in 0..1
    <3>1. CASE table[id] \in {Null, Absent}
      BY <3>1 DEF Operational, Reliable
    <3>2. CASE table[id] \notin {Null, Absent}
      <4>1. table[id] \in Nat
        BY <3>2, <2>1, <2>2
      <4>2. QED
        BY <3>2, <4>1 DEF Operational, Reliable
    <3>3. QED
      BY <3>1, <3>2
  <2>4. Name(id) \in Nat
    BY <2>1 DEF Name
  <2>5. General(id) \in Nat
    BY <2>1, <2>2, <2>3 DEF General, GeneralScore
  <2>6. QED
    BY <2>3, <2>4, <2>5
<1> QED
  OBVIOUS

LEMMA GeneralIsCapped ==
  \A a, b \in Nat : GeneralScore(a, b) \in 0 .. MaxScore
BY ListingAssumption DEF GeneralScore

LEMMA AskStep == ASSUME IInv, Ask PROVE IInv'
<1>1. /\ phase = "ready" /\ phase' = FirstStatement
      /\ UNCHANGED <<table, bonus, list, filter, cursor, candidates, scores, ranked, shown, writes, switches>>
      /\ cursor # NoCursor => cursor.signature = filter
  BY DEF Ask, CursorFits
<1>2. touched' \subseteq touched /\ (cursor # NoCursor => touched' = touched) /\ touched' \subseteq Ids
  BY DEF Ask, IInv, TypeOK
<1>3. /\ phase' \in {"page", "ids", "scores"}
      /\ phase' = "ids" => list.of = "foremen" \/ (list.of \in {"plants", "chiefs"} /\ Computed)
      /\ phase' = "scores" => list.of = "plantForemen"
      /\ phase' = "page" => ~Ranks
  BY <1>1, ListFacts DEF FirstStatement, Ranks, NeedsFullScores, IInv
<1>4. WalkShape' /\ ShownAsRanked'
  <2>1. CASE cursor # NoCursor
    BY <2>1, <1>1, <1>2, WalkStays
  <2>2. CASE cursor = NoCursor
    <3>1. shown' = <<>> /\ cursor' = NoCursor
      BY <2>2, <1>1 DEF IInv, RequestShape
    <3>2. QED
      BY <3>1 DEF WalkShape, ShownAsRanked
  <2>3. QED
    BY <2>1, <2>2
<1>5. Ranks' = Ranks /\ Computed' = Computed /\ NeedsFullScores' = NeedsFullScores
  BY <1>1 DEF Ranks, Computed, NeedsFullScores
<1>6. RequestShape' /\ TypeOK' /\ RankShape' /\ Fresh' /\ NothingSkipped'
  <2>1. RequestShape'
    BY <1>1, <1>3, <1>5 DEF IInv, RequestShape, Ranks
  <2>2. TypeOK'
    BY <1>1, <1>2, <1>3 DEF IInv, TypeOK
  <2>3. RankShape'
    BY <1>1, <1>3, <1>5 DEF IInv, RankShape
  <2>4. Fresh' /\ NothingSkipped'
    BY <1>1, <1>3, <1>5 DEF Fresh, NothingSkipped
  <2>5. QED
    BY <2>1, <2>2, <2>3, <2>4
<1>7. QED
  BY <1>4, <1>6 DEF IInv

LEMMA RefuseStep == ASSUME IInv, Refuse PROVE IInv'
<1>1. /\ phase = "ready" /\ phase' = "ready" /\ cursor' = NoCursor /\ shown' = <<>>
      /\ UNCHANGED <<table, bonus, list, filter, candidates, scores, ranked, touched, writes, switches>>
  BY DEF Refuse
<1>2. WalkShape' /\ ShownAsRanked'
  BY <1>1 DEF WalkShape, ShownAsRanked
<1>3. TypeOK' /\ RequestShape' /\ RankShape' /\ Fresh' /\ NothingSkipped'
  BY <1>1 DEF IInv, TypeOK, RequestShape, RankShape, Fresh, NothingSkipped
<1>4. QED
  BY <1>2, <1>3 DEF IInv

\* A statement that only reads.
ReadOnly == UNCHANGED <<table, bonus, list, filter, cursor, shown, touched, writes, switches>>

LEMMA ReadingStays ==
  ASSUME IInv, ReadOnly, phase \notin {"ready", "over"}, phase' \in {"scores", "bonuses", "page", "failed"},
         candidates' \subseteq Ids, DOMAIN ranked' \subseteq Ids,
         list.of = "foremen" => \A id \in DOMAIN ranked' : ranked'[id] \in 0 .. MaxScore,
         phase' = "scores" => Ranks, phase' = "bonuses" => list.of = "plantForemen" \/ NeedsFullScores,
         RankShape', Fresh'
  PROVE  IInv'
<1>1. Ranks' = Ranks /\ NeedsFullScores' = NeedsFullScores
  BY DEF ReadOnly, Ranks, Computed, NeedsFullScores
<1>2. WalkShape' /\ ShownAsRanked'
  BY WalkStays DEF ReadOnly
<1>3. RequestShape'
  BY <1>1 DEF ReadOnly, IInv, RequestShape
<1>4. TypeOK'
  BY DEF ReadOnly, IInv, TypeOK
<1>5. NothingSkipped'
  BY DEF NothingSkipped
<1>6. QED
  BY <1>2, <1>3, <1>4, <1>5 DEF IInv

LEMMA ReadingFrame ==
  ASSUME ReadOnly
  PROVE  /\ Ranks' = Ranks /\ NeedsFullScores' = NeedsFullScores /\ Still' = Still
         /\ \A x : InLevel(x)' = InLevel(x)
         /\ \A id : /\ Operational(id)' = Operational(id) /\ Reliable(id)' = Reliable(id)
                    /\ RankValue(id)' = RankValue(id) /\ General(id)' = General(id)
                    /\ Matches(id, filter)' = Matches(id, filter)
                    /\ Member(id, filter)' = Member(id, filter)
                    /\ Due(id, filter)' = Due(id, filter)
<1>1. /\ Ranks' = Ranks /\ NeedsFullScores' = NeedsFullScores /\ Still' = Still
      /\ \A x : InLevel(x)' = InLevel(x)
  BY DEF ReadOnly, Ranks, Computed, NeedsFullScores, Still, InLevel
<1>2. /\ filter' = filter
      /\ \A id : /\ Operational(id)' = Operational(id) /\ Reliable(id)' = Reliable(id)
                 /\ RankValue(id)' = RankValue(id) /\ General(id)' = General(id)
                 /\ \A f : Matches(id, f)' = Matches(id, f)
                 /\ \A f : Member(id, f)' = Member(id, f)
                 /\ \A f : Due(id, f)' = Due(id, f)
  BY RowFrame DEF ReadOnly
<1>3. \A id : /\ Matches(id, filter)' = Matches(id, filter)
              /\ Member(id, filter)' = Member(id, filter)
              /\ Due(id, filter)' = Due(id, filter)
  BY <1>2 DEF ReadOnly, Due, Member, Matches, WorkMatches, AnomalyMatches, ReportMatches, PlantMatches,
     ChiefMatches, ForemanMatches, General, GeneralScore, InLevel, Operational
<1>4. QED
  BY <1>1, <1>2, <1>3

LEMMA ReadIdsStep == ASSUME IInv, ReadIds PROVE IInv'
<1>1. /\ phase = "ids" /\ ReadOnly /\ candidates' = Selected(filter)
      /\ scores' = scores /\ ranked' = ranked
      /\ phase' = IF list.of = "foremen" /\ ~NeedsFullScores THEN "page" ELSE "scores"
  BY DEF ReadIds, ReadOnly
<1>2. list.of = "foremen" \/ (list.of \in {"plants", "chiefs"} /\ Computed)
  BY <1>1 DEF IInv, RequestShape
<1>3. phase' = "scores" => Ranks
  BY <1>1, <1>2 DEF Ranks
<1>4. phase' = "page" => ~Ranks
  BY <1>1, ListFacts DEF Ranks, IInv
<1>5. /\ Ranks' = Ranks /\ list.of # "plantForemen" /\ Still' = Still
      /\ \A id : Matches(id, filter)' = Matches(id, filter)
  BY <1>1, <1>2, ReadingFrame
<1>6. RankShape'
  BY <1>1, <1>4, <1>5 DEF IInv, RankShape
<1>7. Fresh'
  <2>1. \A id \in Ids : Matches(id, filter) => id \in candidates'
    BY <1>1 DEF Selected
  <2>2. phase' \in {"page", "scores"} /\ filter' = filter
    BY <1>1 DEF ReadOnly
  <2>3. phase' = "page" => ~Ranks'
    BY <1>4, <1>5
  <2>4. QED
    BY <2>1, <2>2, <2>3, <1>5 DEF Fresh, Still
<1>8. candidates' \subseteq Ids
  BY <1>1 DEF Selected
<1>9. QED
  BY <1>1, <1>3, <1>6, <1>7, <1>8, ReadingStays DEF IInv, TypeOK

\* The scores of plants and of teams are read for the candidates.
LEMMA TeamScoresStep == ASSUME IInv, ReadPlantScores \/ ReadTeamScores PROVE IInv'
<1>1. /\ phase = "scores" /\ phase' = "page" /\ ReadOnly
      /\ candidates' = candidates /\ scores' = scores
      /\ list.of \in {"plants", "chiefs"}
  BY DEF ReadPlantScores, ReadTeamScores, ReadOnly
<1>2. ranked' = [id \in candidates |-> RankValue(id)]
  <2>1. CASE ReadPlantScores
    <3>1. list.of = "plants" /\ list.sort # "flag"
      BY <2>1, ListFacts DEF ReadPlantScores, IInv
    <3>2. QED
      BY <2>1, <3>1 DEF ReadPlantScores, RankValue
  <2>2. CASE ReadTeamScores
    BY <2>2 DEF ReadTeamScores, RankValue
  <2>3. QED
    BY <2>1, <2>2
<1>3. candidates \subseteq Ids /\ \A id \in candidates : ranked'[id] \in Nat
  BY <1>1, <1>2, ScoresAreNumbers DEF IInv, TypeOK, RankValue
<1>4. RankShape'
  BY <1>1, <1>2, <1>3 DEF IInv, RankShape, ReadOnly
<1>5. Fresh'
  <2>1. \A id \in Still : Matches(id, filter) => id \in candidates
    BY <1>1 DEF IInv, Fresh
  <2>2. /\ Still' = Still /\ list' = list
        /\ \A id : /\ RankValue(id)' = RankValue(id)
                   /\ Member(id, filter)' = Member(id, filter) /\ Due(id, filter)' = Due(id, filter)
    BY <1>1, ReadingFrame DEF ReadOnly
  <2>3. QED
    BY <1>1, <1>2, <2>1, <2>2 DEF Fresh, Member, Due
<1>6. QED
  BY <1>1, <1>2, <1>3, <1>4, <1>5, ReadingStays DEF IInv, TypeOK

LEMMA ForemanScoresStep == ASSUME IInv, ReadForemanScores PROVE IInv'
<1>1. /\ phase = "scores" /\ phase' = "bonuses" /\ ReadOnly /\ ranked' = ranked
      /\ list.of \in {"foremen", "plantForemen"}
      /\ candidates' = IF list.of = "foremen" THEN candidates
                       ELSE {id \in Selected(filter) : table[id] # Null}
      /\ scores' = [id \in candidates' |-> [points |-> Operational(id), reliable |-> Reliable(id)]]
  BY DEF ReadForemanScores, ReadOnly
<1>2. candidates' \subseteq Ids
  BY <1>1 DEF Selected, IInv, TypeOK
<1>3. list.of = "plantForemen" \/ NeedsFullScores
  BY <1>1 DEF IInv, RequestShape, Ranks
<1>4. RankShape'
  <2>1. \A id \in DOMAIN scores' : scores'[id].points \in Nat /\ scores'[id].reliable \in 0..1
    BY <1>1, <1>2, ScoresAreNumbers DEF IInv
  <2>2. DOMAIN scores' = candidates' /\ \A id \in DOMAIN ranked' : ranked'[id] \in Nat
    BY <1>1 DEF IInv, RankShape
  <2>3. QED
    BY <1>1, <2>1, <2>2 DEF RankShape
<1>5. Fresh'
  <2>1. \A id \in Still : Member(id, filter) => id \in candidates'
    BY <1>1 DEF IInv, Fresh, Selected, Member, Still
  <2>2. \A id \in candidates' : /\ scores'[id].points = Operational(id)
                                /\ scores'[id].reliable = Reliable(id)
    BY <1>1
  <2>3. /\ Still' = Still
        /\ \A id : /\ Operational(id)' = Operational(id) /\ Reliable(id)' = Reliable(id)
                   /\ Member(id, filter)' = Member(id, filter)
    BY <1>1, ReadingFrame
  <2>4. QED
    BY <1>1, <2>1, <2>2, <2>3 DEF Fresh
<1>6. QED
  BY <1>1, <1>2, <1>3, <1>4, <1>5, ReadingStays DEF IInv, TypeOK

LEMMA RankForemenStep == ASSUME IInv, RankForemen PROVE IInv'
<1> DEFINE general(id) == GeneralScore(scores[id].points, bonus[id])
<1>1. /\ phase = "bonuses" /\ phase' = "page" /\ ReadOnly /\ scores' = scores
      /\ candidates' = {id \in candidates : InLevel(general(id))}
      /\ ranked' = [id \in candidates |-> general(id)]
  BY DEF RankForemen, ReadOnly, compute_general_foreman_scores, foreman_contribution_bonuses
<1>2. list.of = "plantForemen" \/ NeedsFullScores
  BY <1>1 DEF IInv, RequestShape
<1>3. list.of \in {"plantForemen", "foremen"} /\ Ranks
  BY <1>2 DEF NeedsFullScores, Ranks
<1>4. DOMAIN scores = candidates /\ candidates \subseteq Ids
  BY <1>1 DEF IInv, RankShape, TypeOK
<1>5. \A id \in candidates : general(id) \in 0 .. MaxScore /\ general(id) \in Nat
  <2>1. \A id \in candidates : scores[id].points \in Nat /\ bonus[id] \in Nat
    BY <1>4 DEF IInv, RankShape, TypeOK
  <2>2. \A id \in candidates : general(id) \in 0 .. MaxScore
    BY <2>1, GeneralIsCapped
  <2>3. \A m \in 0 .. MaxScore : m \in Nat
    BY ListingAssumption
  <2>4. QED
    BY <2>2, <2>3
<1>6. RankShape'
  BY <1>1, <1>3, <1>4, <1>5, ReadingFrame DEF IInv, RankShape
<1>7. Fresh'
  <2>1. ASSUME NEW id \in Still
        PROVE  /\ Member(id, filter) => id \in DOMAIN ranked'
               /\ Due(id, filter) => id \in candidates'
               /\ id \in DOMAIN ranked' => /\ ranked'[id] = RankValue(id)
                                           /\ scores'[id].reliable = Reliable(id)
    <3>1. /\ Member(id, filter) => id \in candidates
          /\ id \in candidates => /\ scores[id].points = Operational(id)
                                  /\ scores[id].reliable = Reliable(id)
      BY <1>1 DEF IInv, Fresh
    <3>2. id \in candidates => general(id) = General(id) /\ General(id) = RankValue(id)
      BY <3>1, <1>3 DEF General, RankValue
    <3>3. QED
      BY <3>1, <3>2, <1>1 DEF Due
  <2>2. /\ Still' = Still /\ Ranks' = Ranks
        /\ \A id : /\ RankValue(id)' = RankValue(id) /\ Reliable(id)' = Reliable(id)
                   /\ Member(id, filter)' = Member(id, filter) /\ Due(id, filter)' = Due(id, filter)
    BY <1>1, ReadingFrame
  <2>3. QED
    BY <1>1, <2>1, <2>2 DEF Fresh
<1>8. candidates' \subseteq Ids /\ DOMAIN ranked' \subseteq Ids
  BY <1>1, <1>4
<1>9. \A id \in DOMAIN ranked' : ranked'[id] \in 0 .. MaxScore
  BY <1>1, <1>5
<1>10. QED
  BY <1>1, <1>6, <1>7, <1>8, <1>9, ReadingStays

LEMMA FailStep == ASSUME IInv, phase = "page", Fail PROVE IInv'
<1>1. /\ phase' = "failed" /\ ReadOnly /\ candidates' = {} /\ scores' = NoValues /\ ranked' = NoValues
  BY DEF Fail, ReadOnly
<1>2. DOMAIN scores' = {} /\ DOMAIN ranked' = {}
  BY <1>1 DEF NoValues
<1>3. RankShape' /\ Fresh'
  BY <1>1, <1>2 DEF RankShape, Fresh
<1>4. QED
  BY <1>1, <1>2, <1>3, ReadingStays

LEMMA RetryStep == ASSUME IInv, Retry PROVE IInv'
<1>1. /\ phase = "failed" /\ phase' = "ready" /\ ReadOnly
      /\ candidates' = candidates /\ scores' = scores /\ ranked' = ranked
  BY DEF Retry, ReadOnly
<1>2. WalkShape' /\ ShownAsRanked'
  BY <1>1, WalkStays DEF ReadOnly
<1>3. TypeOK' /\ RequestShape' /\ RankShape' /\ Fresh' /\ NothingSkipped'
  BY <1>1 DEF ReadOnly, IInv, TypeOK, RequestShape, RankShape, Fresh, NothingSkipped
<1>4. QED
  BY <1>2, <1>3 DEF IInv

\* Another session writes one row while the list is loaded.
LEMMA WriteStep ==
  ASSUME IInv, Walking, NEW x \in Ids,
         UNCHANGED <<list, filter, phase, cursor, candidates, scores, ranked, shown, switches>>,
         touched' = touched \cup {x}, writes' \in 0 .. MaxWrites,
         table' \in [Ids -> Values \cup {Null, Absent}], bonus' \in [Ids -> 0..1],
         \A id \in Ids \ {x} : table'[id] = table[id] /\ bonus'[id] = bonus[id]
  PROVE  IInv'
<1>1. WalkShape' /\ ShownAsRanked'
  BY WalkStays
<1>2. phase' # "over" /\ NothingSkipped'
  BY DEF Walking, NothingSkipped
<1>3. Ranks' = Ranks /\ NeedsFullScores' = NeedsFullScores /\ Computed' = Computed
      /\ \A s : InLevel(s)' = InLevel(s)
  BY DEF Ranks, NeedsFullScores, Computed, InLevel
<1>4. Still' \subseteq Still /\ x \notin Still' /\ Still' \subseteq Ids
  BY DEF Still
<1>5. ASSUME NEW id \in Still'
      PROVE  /\ Operational(id)' = Operational(id) /\ Reliable(id)' = Reliable(id)
             /\ RankValue(id)' = RankValue(id)
             /\ Matches(id, filter)' = Matches(id, filter)
             /\ Member(id, filter)' = Member(id, filter)
             /\ Due(id, filter)' = Due(id, filter)
  <2>1. table'[id] = table[id] /\ bonus'[id] = bonus[id]
    BY <1>4
  <2>2. /\ Operational(id)' = Operational(id) /\ Reliable(id)' = Reliable(id)
        /\ RankValue(id)' = RankValue(id) /\ General(id)' = General(id)
    BY <2>1, RowFrame
  <2>3. Matches(id, filter)' = Matches(id, filter)
    BY <2>1 DEF Matches, WorkMatches, AnomalyMatches, ReportMatches, PlantMatches, ChiefMatches,
       ForemanMatches
  <2>4. Member(id, filter)' = Member(id, filter)
    BY <2>1, <2>3 DEF Member
  <2>5. QED
    BY <2>2, <2>3, <2>4, <1>3 DEF Due
<1>6. Fresh'
  <2>1. CASE phase = "scores"
    BY <2>1, <1>4, <1>5 DEF IInv, Fresh
  <2>2. CASE phase = "bonuses"
    BY <2>2, <1>4, <1>5 DEF IInv, Fresh
  <2>3. CASE phase = "page"
    BY <2>3, <1>3, <1>4, <1>5 DEF IInv, Fresh
  <2>4. CASE phase \notin {"scores", "bonuses", "page"}
    BY <2>4 DEF Fresh
  <2>5. QED
    BY <2>1, <2>2, <2>3, <2>4
<1>7. RankShape' /\ RequestShape'
  BY <1>3 DEF IInv, RankShape, RequestShape
<1>8. TypeOK'
  BY DEF IInv, TypeOK
<1>9. QED
  BY <1>1, <1>2, <1>6, <1>7, <1>8 DEF IInv

LEMMA WriterStep == ASSUME IInv, Insert \/ Delete \/ Change \/ Publish PROVE IInv'
<1>0. /\ table \in [Ids -> Values \cup {Null, Absent}] /\ bonus \in [Ids -> 0..1]
      /\ writes \in Nat /\ MaxWrites \in Nat
  BY ListingAssumption DEF IInv, TypeOK
<1>1. ASSUME NEW x \in Ids, NEW v \in Values \cup {Null, Absent}, Writable(x, v) PROVE IInv'
  <2>1. /\ UNCHANGED <<bonus, list, filter, phase, cursor, candidates, scores, ranked, shown, switches>>
        /\ Walking /\ touched' = touched \cup {x}
        /\ table' = [table EXCEPT ![x] = v] /\ writes' = writes + 1 /\ writes < MaxWrites
    BY <1>1 DEF Writable
  <2>2. writes' \in 0 .. MaxWrites
    BY <2>1, <1>0
  <2>3. QED
    BY <2>1, <2>2, <1>0, WriteStep
<1>2. ASSUME Publish PROVE IInv'
  <2>1. PICK x \in Ids :
        /\ UNCHANGED <<table, list, filter, phase, cursor, candidates, scores, ranked, shown, switches>>
        /\ Walking /\ touched' = touched \cup {x}
        /\ bonus' = [bonus EXCEPT ![x] = 1 - @] /\ writes' = writes + 1 /\ writes < MaxWrites
    BY <1>2 DEF Publish
  <2>2. writes' \in 0 .. MaxWrites /\ bonus' \in [Ids -> 0..1]
    BY <2>1, <1>0
  <2>3. QED
    BY <2>1, <2>2, <1>0, WriteStep
<1>3. QED
  BY <1>1, <1>2 DEF Insert, Delete, Change

LEMMA SwitchStep == ASSUME IInv, Switch PROVE IInv'
<1>1. /\ phase = "ready" /\ switches < MaxSwitches /\ switches' = switches + 1 /\ filter' \in Filters
      /\ UNCHANGED <<table, bonus, list, phase, cursor, candidates, scores, ranked, shown, touched, writes>>
  BY DEF Switch
<1>2. WalkShape' /\ ShownAsRanked'
  BY <1>1, WalkStays
<1>3. TypeOK' /\ RequestShape' /\ RankShape' /\ Fresh' /\ NothingSkipped'
  BY <1>1, ListingAssumption DEF IInv, TypeOK, RequestShape, RankShape, Fresh, NothingSkipped
<1>4. QED
  BY <1>2, <1>3 DEF IInv

-----------------------------------------------------------------------------
(* The pages *)

LEMMA PagePreface ==
  ASSUME IInv
  PROVE  /\ list.dir \in {"asc", "desc"} /\ Limits \subseteq Nat \ {0} /\ Ids \subseteq Nat
         /\ cursor # NoCursor => Placed(cursor)
         /\ filter \in Filters
BY Directions, ListingAssumption DEF IInv, TypeOK, RequestShape, Placed, Vals

\* Lists ordered by a column of the row.
LEMMA ColumnPageStep ==
  ASSUME IInv, phase = "page", list.of \in {"works", "anomalies", "reports"}, NEW n \in Limits,
         Deliver(Fetch([id \in Selected(filter) |-> table[id]], n), Unscored, n)
  PROVE  IInv'
<1> DEFINE S      == Selected(filter)
           values == [id \in S |-> table[id]]
           taken  == Fetch(values, n)
           page   == PageOf(taken, n)
<1>1. S \subseteq Ids /\ \A id \in S : table[id] # Absent
  BY DEF Selected, Matches, WorkMatches, AnomalyMatches, ReportMatches
<1>2. values \in [S -> Vals]
  BY <1>1, ListingAssumption DEF IInv, TypeOK, Vals
<1>3. n \in Nat \ {0}
  BY PagePreface
<1>4. GoodPage(taken, page, S, values, n)
  BY <1>1, <1>2, <1>3, PagePreface, PageFacts
<1>5. \A id \in Still : Due(id, filter) => id \in S
  BY DEF Still, Due, Member, Selected
<1>6. \A id \in Still \cap S : values[id] = Key(id)
  BY ListFacts DEF Key, IInv
<1>7. \A i \in 1 .. Len(page) : Unscored[page[i].id] \in Nat
  BY <1>1, <1>4 DEF GoodPage, Unscored
<1> HIDE DEF S, values, taken, page
<1>8. Deliver(taken, Unscored, n) /\ page = PageOf(taken, n)
  BY DEF S, values, taken, page
<1>9. QED
  BY <1>1, <1>2, <1>4, <1>5, <1>6, <1>7, <1>8, PageStep

\* The rows of a page that is joined to a ranking, or ordered by name.
LEMMA RankedPage ==
  ASSUME IInv, phase = "page", list.of \in {"foremen", "plants", "chiefs"}, NEW n \in Limits,
         NEW taken, taken = RankedRows(n), NEW page, page = PageOf(taken, n)
  PROVE  \E S \in SUBSET Ids : \E values \in [S -> Vals] :
           /\ GoodPage(taken, page, S, values, n)
           /\ \A id \in Still : Due(id, filter) => id \in S
           /\ \A id \in Still \cap S : values[id] = Key(id)
           /\ list.level => S \subseteq candidates
           /\ list.of = "foremen" /\ list.sort = "score" =>
                \A id \in S \cap DOMAIN ranked : values[id] = ranked[id]
<1>1. n \in Nat \ {0}
  BY PagePreface
<1>2. Computed => Ranks
  BY DEF Computed, Ranks, NeedsFullScores
<1>3. list.level => Ranks
  BY ListFacts DEF IInv, Ranks, NeedsFullScores
<1>4. CASE Computed /\ candidates = {}
  <2>1. taken = <<>> /\ page = <<>>
    BY <1>1, <1>4, EmptyPage DEF RankedRows
  <2>2. GoodPage(taken, page, {}, NoValues, n)
    BY <1>1, <2>1, EmptyPage
  <2>3. NoValues \in [{} -> Vals]
    BY DEF NoValues
  <2>4. \A id \in Still : ~Due(id, filter)
    BY <1>2, <1>4 DEF IInv, Fresh
  <2>5. QED
    BY <2>2, <2>3, <2>4
<1>5. CASE ~(Computed /\ candidates = {})
  <2> DEFINE S      == IF list.level THEN Selected(filter) \cap candidates ELSE Selected(filter)
             values == [id \in S |-> SortValue(id)]
  <2>1. S \in SUBSET Ids /\ S \subseteq Selected(filter) /\ (list.level => S \subseteq candidates)
    BY DEF Selected
  <2>2. \A id \in Ids : SortValue(id) \in Vals
    <3>1. ASSUME NEW id \in Ids PROVE SortValue(id) \in Vals
      <4>1. Name(id) \in Nat
        BY ScoresAreNumbers DEF IInv
      <4>2. Joined(id) \in Vals
        BY DEF Joined, IInv, RankShape, Vals
      <4>3. Computed /\ list.of = "foremen" => JoinedForeman(id) \in Vals
        <5>1. Computed /\ list.of = "foremen" => DOMAIN ranked = DOMAIN scores
          BY <1>2 DEF IInv, RankShape
        <5>2. \A x \in DOMAIN scores : scores[x].reliable \in Nat
          BY DEF IInv, RankShape
        <5>3. QED
          BY <4>2, <5>1, <5>2 DEF JoinedForeman, Vals
      <4>4. QED
        BY <4>1, <4>2, <4>3 DEF SortValue, Vals
    <3>2. QED
      BY <3>1
  <2>3. values \in [S -> Vals]
    BY <2>1, <2>2
  <2>4. taken = Fetch(values, n)
    BY <1>5 DEF RankedRows
  <2>5. GoodPage(taken, page, S, values, n)
    BY <1>1, <2>1, <2>3, <2>4, PagePreface, PageFacts
  <2>6. \A id \in Still : Due(id, filter) => id \in S
    <3>1. list.level => \A id \in Still : Due(id, filter) => id \in candidates
      BY <1>3 DEF IInv, Fresh
    <3>2. QED
      BY <3>1 DEF Due, Member, Selected, Still
  <2>7. ASSUME NEW id \in Still \cap S PROVE values[id] = Key(id)
    <3>1. Member(id, filter)
      BY <2>1 DEF Member, Selected
    <3>2. CASE Computed
      <4>1. /\ id \in DOMAIN ranked /\ ranked[id] = RankValue(id)
            /\ list.of = "foremen" => scores[id].reliable = Reliable(id)
        BY <3>1, <3>2, <1>2 DEF IInv, Fresh
      <4>2. list.of # "foremen" => SortValue(id) = Key(id)
        BY <3>2, <4>1 DEF SortValue, Joined, Key, RankValue, Computed
      <4>3. list.of = "foremen" => SortValue(id) = Key(id)
        BY <3>2, <4>1 DEF SortValue, Joined, JoinedForeman, Key, Computed
      <4>4. QED
        BY <4>2, <4>3
    <3>3. CASE ~Computed
      <4>1. list.sort = "name"
        BY <3>3, ListFacts DEF Computed, IInv
      <4>2. QED
        BY <3>3, <4>1 DEF SortValue, Key
    <3>4. QED
      BY <3>2, <3>3
  <2>8. list.of = "foremen" /\ list.sort = "score" =>
          \A id \in S \cap DOMAIN ranked : values[id] = ranked[id]
    BY DEF SortValue, JoinedForeman, Joined, Computed
  <2> HIDE DEF S, values
  <2>9. QED
    BY <2>1, <2>3, <2>5, <2>6, <2>7, <2>8
<1>6. QED
  BY <1>4, <1>5

LEMMA ForemanPageStep == ASSUME IInv, ForemanPage PROVE IInv'
<1>1. PICK n \in Limits :
        /\ phase = "page" /\ list.of = "foremen" /\ NeedsFullScores
        /\ \/ Fail
           \/ /\ \A i \in DOMAIN PageOf(RankedRows(n), n) : RankedRows(n)[i].id \in DOMAIN ranked
              /\ Deliver(RankedRows(n), [id \in DOMAIN ranked |-> ForemanScore(id)], n)
  BY DEF ForemanPage
<1>2. CASE Fail
  BY <1>1, <1>2, FailStep
<1>3. CASE ~Fail
  <2> DEFINE taken  == RankedRows(n)
             page   == PageOf(taken, n)
             points == [id \in DOMAIN ranked |-> ForemanScore(id)]
  <2> DEFINE Serves(S, values) ==
           /\ GoodPage(taken, page, S, values, n)
           /\ \A id \in Still : Due(id, filter) => id \in S
           /\ \A id \in Still \cap S : values[id] = Key(id)
           /\ list.level => S \subseteq candidates
           /\ list.of = "foremen" /\ list.sort = "score" =>
                \A id \in S \cap DOMAIN ranked : values[id] = ranked[id]
  <2>0. PICK S \in SUBSET Ids : \E values \in [S -> Vals] : Serves(S, values)
    BY <1>1, RankedPage
  <2>1. PICK values \in [S -> Vals] : Serves(S, values)
    BY <2>0
  <2>2. /\ \A i \in DOMAIN page : taken[i].id \in DOMAIN ranked
        /\ Deliver(taken, points, n)
    BY <1>1, <1>3
  <2> HIDE DEF taken
  <2>3. \A i \in 1 .. Len(page) : /\ page[i].id \in S \cap DOMAIN ranked
                                  /\ page[i].value = values[page[i].id]
    <3>1. DOMAIN page = 1 .. Len(page)
      BY <2>1 DEF GoodPage
    <3>2. QED
      BY <2>1, <2>2, <3>1 DEF GoodPage
  <2>4. \A id \in DOMAIN ranked : points[id] = ranked[id] /\ points[id] \in Nat
    BY DEF ForemanScore, IInv, RankShape
  <2>5. \A id \in candidates : InLevel(ranked[id])
    BY <1>1 DEF IInv, RankShape, Ranks
  <2>6. \A i \in 1 .. Len(page) :
          /\ points[page[i].id] \in Nat
          /\ list.sort = "score" => points[page[i].id] = page[i].value
          /\ InLevel(points[page[i].id])
    <3>1. ASSUME NEW i \in 1 .. Len(page)
          PROVE  /\ points[page[i].id] \in Nat
                 /\ list.sort = "score" => points[page[i].id] = page[i].value
                 /\ InLevel(points[page[i].id])
      <4>1. points[page[i].id] \in Nat /\ points[page[i].id] = ranked[page[i].id]
        BY <2>3, <2>4
      <4>2. list.sort = "score" => points[page[i].id] = page[i].value
        BY <1>1, <2>1, <2>3, <4>1
      <4>3. InLevel(points[page[i].id])
        BY <2>1, <2>3, <2>5, <4>1 DEF InLevel
      <4>4. QED
        BY <4>1, <4>2, <4>3
    <3>2. QED
      BY <3>1
  <2> HIDE DEF page, points
  <2>7. page = PageOf(taken, n)
    BY DEF page
  <2>8. QED
    BY <1>1, <2>1, <2>2, <2>6, <2>7, PageStep
<1>4. QED
  BY <1>2, <1>3

\* Lists whose scores are not those they are ordered by.
LEMMA RescoredPageStep ==
  ASSUME IInv, phase = "page", list.of \in {"foremen", "plants", "chiefs"}, ~NeedsFullScores,
         NEW n \in Limits, NEW points, \A id \in Ids : points[id] \in Nat,
         Deliver(RankedRows(n), points, n)
  PROVE  IInv'
<1> DEFINE taken == RankedRows(n)
           page == PageOf(taken, n)
<1> DEFINE Serves(S, values) ==
        /\ GoodPage(taken, page, S, values, n)
        /\ \A id \in Still : Due(id, filter) => id \in S
        /\ \A id \in Still \cap S : values[id] = Key(id)
<1>0. PICK S \in SUBSET Ids : \E values \in [S -> Vals] : Serves(S, values)
  BY RankedPage
<1>1. PICK values \in [S -> Vals] : Serves(S, values)
  BY <1>0
<1>2. \A i \in 1 .. Len(page) : points[page[i].id] \in Nat
  BY <1>1 DEF GoodPage
<1>3. list.of = "foremen" => list.sort # "score" /\ ~list.level
  BY DEF NeedsFullScores
<1>4. list.of \in {"foremen", "plantForemen"} => \A i \in 1 .. Len(page) :
        /\ list.sort = "score" => points[page[i].id] = page[i].value
        /\ InLevel(points[page[i].id])
  BY <1>3 DEF InLevel
<1> HIDE DEF taken, page
<1>5. page = PageOf(taken, n) /\ Deliver(taken, points, n)
  BY DEF taken, page
<1>6. QED
  BY <1>1, <1>2, <1>4, <1>5, PageStep

LEMMA OtherPageStep ==
  ASSUME IInv, ForemanPageByName \/ PlantPage \/ ChiefPage
  PROVE  IInv'
<1>1. ASSUME ForemanPageByName PROVE IInv'
  <2> DEFINE points == [id \in Ids |-> ForemanScoreReread(id)]
  <2>1. \A id \in Ids : points[id] \in Nat
    BY ScoresAreNumbers DEF IInv, ForemanScoreReread, General
  <2>2. PICK n \in Limits : /\ phase = "page" /\ list.of = "foremen" /\ ~NeedsFullScores
                            /\ Deliver(RankedRows(n), points, n)
    BY <1>1 DEF ForemanPageByName
  <2> HIDE DEF points
  <2>3. QED
    BY <2>1, <2>2, RescoredPageStep
<1>2. ASSUME PlantPage PROVE IInv'
  <2> DEFINE points == [id \in Ids |-> PlantShown(id)]
  <2>1. \A id \in Ids : points[id] \in Nat
    BY ScoresAreNumbers DEF IInv, PlantShown
  <2>2. PICK n \in Limits : /\ phase = "page" /\ list.of = "plants"
                            /\ Deliver(RankedRows(n), points, n)
    BY <1>2 DEF PlantPage
  <2>3. ~NeedsFullScores
    BY <2>2 DEF NeedsFullScores
  <2> HIDE DEF points
  <2>4. QED
    BY <2>1, <2>2, <2>3, RescoredPageStep
<1>3. ASSUME ChiefPage PROVE IInv'
  <2> DEFINE points == [id \in Ids |-> ChiefShown(id)]
  <2>1. \A id \in Ids : points[id] \in Nat
    BY ScoresAreNumbers DEF IInv, ChiefShown
  <2>2. PICK n \in Limits : /\ phase = "page" /\ list.of = "chiefs"
                            /\ Fail \/ Deliver(RankedRows(n), points, n)
    BY <1>3 DEF ChiefPage
  <2>3. ~NeedsFullScores
    BY <2>2 DEF NeedsFullScores
  <2> HIDE DEF points
  <2>4. QED
    BY <2>1, <2>2, <2>3, RescoredPageStep, FailStep
<1>4. QED
  BY <1>1, <1>2, <1>3

LEMMA PlantForemenPageStep == ASSUME IInv, PlantForemenPage PROVE IInv'
<1> DEFINE S      == {x \in candidates : table[x] # Absent}
           values == [id \in S |-> Joined(id)]
           points == [id \in DOMAIN ranked |-> ForemanScore(id)]
<1>1. PICK n \in Limits :
        /\ phase = "page" /\ list.of = "plantForemen"
        /\ Deliver(IF candidates = {} THEN <<>> ELSE Fetch(values, n), points, n)
  BY DEF PlantForemenPage
<1> DEFINE taken == IF candidates = {} THEN <<>> ELSE Fetch(values, n)
           page == PageOf(taken, n)
<1>2. n \in Nat \ {0} /\ Ranks /\ list.sort = "score" /\ ~list.level
  BY <1>1, PagePreface, ListFacts DEF Ranks, IInv
<1>3. S \subseteq Ids /\ S \subseteq DOMAIN ranked
  BY <1>1, <1>2 DEF IInv, TypeOK, RankShape
<1>4. \A id \in S : values[id] = ranked[id] /\ ranked[id] \in Nat
  BY <1>3 DEF Joined, IInv, RankShape
<1>5. values \in [S -> Vals]
  BY <1>4 DEF Vals
<1>6. GoodPage(taken, page, S, values, n)
  <2>1. CASE candidates = {}
    <3>1. S = {} /\ values = NoValues /\ taken = <<>>
      BY <2>1 DEF NoValues
    <3>2. page = <<>>
      BY <3>1, <1>2, EmptyPage
    <3> HIDE DEF S, values, taken, page
    <3>3. QED
      BY <3>1, <3>2, <1>2, EmptyPage
  <2>2. CASE candidates # {}
    BY <2>2, <1>2, <1>3, <1>5, PagePreface, PageFacts
  <2>3. QED
    BY <2>1, <2>2
<1>7. \A id \in Still : Due(id, filter) => id \in S
  <2>1. \A id \in Still : Due(id, filter) => id \in candidates
    BY <1>1, <1>2 DEF IInv, Fresh
  <2>2. \A id \in Still : Due(id, filter) => table[id] # Absent
    BY <1>1 DEF Due, Member, Matches, ForemanMatches
  <2>3. QED
    BY <2>1, <2>2
<1>8. \A id \in Still \cap S : values[id] = Key(id)
  <2>1. \A id \in Still \cap S : ranked[id] = RankValue(id)
    BY <1>1, <1>2, <1>3 DEF IInv, Fresh
  <2>2. QED
    BY <2>1, <1>2, <1>4 DEF Key
<1>9. \A i \in 1 .. Len(page) : points[page[i].id] \in Nat /\ points[page[i].id] = page[i].value
  <2>1. \A i \in 1 .. Len(page) : page[i].id \in S /\ page[i].value = values[page[i].id]
    BY <1>6 DEF GoodPage
  <2>2. \A id \in S : points[id] = ranked[id]
    BY <1>3 DEF ForemanScore
  <2> HIDE DEF page, points, S, values
  <2>3. QED
    BY <2>1, <2>2, <1>4
<1>10. \A i \in 1 .. Len(page) : InLevel(points[page[i].id])
  BY <1>2 DEF InLevel
<1> HIDE DEF S, values, points, taken, page
<1>11. page = PageOf(taken, n) /\ Deliver(taken, points, n)
  BY <1>1 DEF taken, page
<1>12. QED
  BY <1>1, <1>3, <1>5, <1>6, <1>7, <1>8, <1>9, <1>10, <1>11, PageStep

LEMMA ListPageStep == ASSUME IInv, ListWorks \/ ListAnomalies \/ ListReports PROVE IInv'
BY ColumnPageStep DEF ListWorks, ListAnomalies, ListReports

-----------------------------------------------------------------------------
(* The theorems *)

LEMMA InitInvariant == Init => IInv
<1> SUFFICES ASSUME Init PROVE IInv
  OBVIOUS
<1>1. /\ phase = "ready" /\ cursor = NoCursor /\ shown = <<>>
      /\ DOMAIN ranked = {} /\ DOMAIN scores = {}
  BY DEF Init, NoValues
<1>2. TypeOK
  BY <1>1, ListingAssumption DEF Init, TypeOK
<1>3. RequestShape /\ RankShape /\ Fresh /\ WalkShape /\ NothingSkipped /\ ShownAsRanked
  BY <1>1 DEF RequestShape, RankShape, Fresh, WalkShape, NothingSkipped, ShownAsRanked
<1>4. QED
  BY <1>2, <1>3 DEF IInv

LEMMA StepInvariant == IInv /\ [Next]_vars => IInv'
<1> SUFFICES ASSUME IInv, [Next]_vars PROVE IInv'
  OBVIOUS
<1>1. CASE UNCHANGED vars
  <2>1. WalkShape' /\ ShownAsRanked'
    BY <1>1, WalkStays DEF vars
  <2>2. TypeOK'
    BY <1>1 DEF vars, IInv, TypeOK
  <2>3. RequestShape' /\ RankShape'
    BY <1>1 DEF vars, IInv, RequestShape, RankShape, Ranks, NeedsFullScores, Computed, InLevel
  <2>4. ReadOnly /\ phase' = phase /\ candidates' = candidates /\ scores' = scores /\ ranked' = ranked
    BY <1>1 DEF vars, ReadOnly
  <2>5. Fresh' /\ NothingSkipped'
    BY <2>4, ReadingFrame DEF IInv, Fresh, NothingSkipped, ReadOnly, Still
  <2>6. QED
    BY <2>1, <2>2, <2>3, <2>5 DEF IInv
<1>2. CASE Reader
  BY <1>2, AskStep, RefuseStep, ListPageStep, ReadIdsStep, TeamScoresStep, ForemanScoresStep,
     RankForemenStep, ForemanPageStep, OtherPageStep, PlantForemenPageStep, RetryStep DEF Reader
<1>3. CASE Writer
  BY <1>3, WriterStep, SwitchStep DEF Writer
<1>4. QED
  BY <1>1, <1>2, <1>3 DEF Next

\* Every reachable state satisfies the inductive invariant: what a request has
\* read of a row that nobody writes is what the row is, and the cursor parts
\* those rows into the ones shown and the ones to come.
THEOREM InvariantCorrect == Spec => []IInv
<1>1. QED
  BY InitInvariant, StepInvariant, PTL DEF Spec

\* The pages of a list make one sorted list, in which a row that nobody writes
\* stands at most once (keyset_after and the repositories' ORDER BY).
THEOREM PagesAreOneListCorrect == Spec => []PagesAreOneList
<1>1. IInv => PagesAreOneList
  <2> SUFFICES ASSUME IInv PROVE PagesAreOneList
    OBVIOUS
  <2>1. list.dir \in {"asc", "desc"}
    BY Directions DEF IInv
  <2>2. \A k \in DOMAIN shown : Placed(shown[k])
    <3>1. \A k \in DOMAIN shown : shown[k] \in Entry
      BY DEF IInv, WalkShape
    <3>2. QED
      BY <3>1 DEF Entry, Placed, Vals
  <2>3. \A k, l \in DOMAIN shown :
          k < l /\ Untouched(k) /\ Untouched(l) => RowBefore(shown[k], shown[l])
    BY DEF IInv, WalkShape
  <2>4. InOrder
    BY <2>1, <2>2, <2>3, OrderIsPromised DEF InOrder
  <2>5. EachOnce
    <3>1. SUFFICES ASSUME NEW k \in DOMAIN shown, NEW l \in DOMAIN shown, k < l,
                          Untouched(k), Untouched(l), shown[k].id = shown[l].id
                   PROVE  FALSE
      <4>1. DOMAIN shown \subseteq Nat
        BY DEF IInv, WalkShape
      <4>2. \A k, l \in DOMAIN shown : k = l \/ k < l \/ l < k
        BY <4>1
      <4>3. QED
        BY <4>2 DEF EachOnce, Untouched
    <3>2. shown[k].value = shown[l].value
      BY <3>1 DEF IInv, WalkShape
    <3>3. RowBefore(shown[k], shown[k])
      BY <2>3, <3>1, <3>2 DEF RowBefore
    <3>4. QED
      BY <2>1, <2>2, <3>3, OrderFacts
  <2>6. QED
    BY <2>4, <2>5 DEF PagesAreOneList, IInv
<1>2. QED
  BY InvariantCorrect, <1>1, PTL

\* When a list says there is no more, no row is missing that nobody wrote and
\* that the filter lets through.
THEOREM NothingSkippedCorrect == Spec => []NothingSkipped
<1>1. QED
  BY InvariantCorrect, PTL DEF IInv

\* Foremen asked for by score or by level come with the very scores they were
\* ordered and filtered by.
THEOREM ShownAsRankedCorrect == Spec => []ShownAsRanked
<1>1. QED
  BY InvariantCorrect, PTL DEF IInv

-----------------------------------------------------------------------------
(* Averages as fractions.                                                  *)

Fraction(a) == a.num \in Int /\ a.den \in Nat \ {0}

LEMMA SizeIs ==
  \A n \in Int : Size(n) \in Nat /\ (n >= 0 => Size(n) = n) /\ (n <= 0 => Size(n) = -n)
BY DEF Size

\* The order of two products by the order of one factor.
LEMMA TimesKeepsOrder ==
  ASSUME NEW m \in Int, NEW n \in Int, NEW c \in Nat
  PROVE  /\ m * c \in Int
         /\ m <= n => m * c <= n * c
         /\ c > 0 /\ m * c <= n * c => m <= n
<1>1. m <= n => (n - m) * c >= 0
  <2>1. m <= n => n - m \in Nat
    OBVIOUS
  <2>2. \A d \in Nat : d * c >= 0
    OBVIOUS
  <2>3. QED
    BY <2>1, <2>2
<1>2. (n - m) * c = n * c - m * c
  OBVIOUS
<1>3. c > 0 /\ m > n => (m - n) * c >= 1
  <2>1. m > n => m - n \in Nat \ {0}
    OBVIOUS
  <2>2. \A d \in Nat \ {0} : c > 0 => d * c >= 1
    OBVIOUS
  <2>3. QED
    BY <2>1, <2>2
<1>4. (m - n) * c = m * c - n * c
  OBVIOUS
<1>5. m * c \in Int /\ n * c \in Int
  OBVIOUS
<1>6. QED
  BY <1>1, <1>2, <1>3, <1>4, <1>5

LEMMA SizeTimes ==
  ASSUME NEW n \in Int, NEW c \in Nat
  PROVE  Size(n * c) = Size(n) * c /\ n * c \in Int
<1>1. CASE n >= 0
  <2>1. n * c >= 0
    BY <1>1
  <2>2. QED
    BY <1>1, <2>1, SizeIs
<1>2. CASE n < 0
  <2>1. (-n) * c >= 0 /\ (-n) * c = -(n * c)
    BY <1>2
  <2>2. QED
    BY <1>2, <2>1, SizeIs
<1>3. QED
  BY <1>1, <1>2

\* The difference of two averages and the sum of their sizes, over one
\* denominator.
LEMMA CrossIs ==
  ASSUME NEW a, NEW b, Fraction(a), Fraction(b)
  PROVE  /\ Cross(a, b) \in Int /\ Cross(b, a) = -Cross(a, b)
         /\ Gap(a, b) \in Nat /\ Gap(b, a) = Gap(a, b)
         /\ Base(a, b) \in Nat /\ Base(b, a) = Base(a, b)
         /\ Base(a, b) = Size(a.num * b.den) + Size(b.num * a.den)
         /\ Gap(a, b) <= Base(a, b)
<1>0. a.num \in Int /\ b.num \in Int /\ a.den \in Nat /\ b.den \in Nat
  BY DEF Fraction
<1>1. a.num * b.den \in Int /\ b.num * a.den \in Int
  BY <1>0
<1>2. Base(a, b) = Size(a.num * b.den) + Size(b.num * a.den)
  BY <1>0, SizeTimes DEF Base
<1>3. Base(b, a) = Size(b.num * a.den) + Size(a.num * b.den)
  BY <1>0, SizeTimes DEF Base
<1>4. \A m, n \in Int : /\ Size(m - n) \in Nat /\ Size(m) + Size(n) \in Nat /\ Size(n - m) = Size(m - n)
                         /\ Size(m - n) <= Size(m) + Size(n)
  BY DEF Size
<1>5. Cross(a, b) = a.num * b.den - b.num * a.den /\ Cross(b, a) = b.num * a.den - a.num * b.den
  BY DEF Cross
<1>6. Gap(a, b) = Size(Cross(a, b)) /\ Gap(b, a) = Size(Cross(b, a))
  BY DEF Gap
<1> DEFINE p == a.num * b.den
           q == b.num * a.den
<1>8. p \in Int /\ q \in Int
  BY <1>1
<1>9. /\ Cross(a, b) = p - q /\ Cross(b, a) = q - p
      /\ Gap(a, b) = Size(p - q) /\ Gap(b, a) = Size(q - p)
      /\ Base(a, b) = Size(p) + Size(q) /\ Base(b, a) = Size(q) + Size(p)
  BY <1>2, <1>3, <1>5, <1>6
<1> HIDE DEF p, q
<1>10. Size(p) \in Nat /\ Size(q) \in Nat
  BY <1>8, SizeIs
<1>11. /\ Size(p - q) \in Nat /\ Size(q - p) = Size(p - q)
       /\ Size(p - q) <= Size(p) + Size(q)
  BY <1>4, <1>8
<1>12. Base(a, b) = Size(a.num * b.den) + Size(b.num * a.den)
  BY <1>2
<1>13. QED
  BY <1>8, <1>9, <1>10, <1>11, <1>12

LEMMA CrossOrder ==
  ASSUME NEW a, NEW b, NEW c, Fraction(a), Fraction(b), Fraction(c),
         Cross(a, b) >= 0, Cross(b, c) >= 0
  PROVE  Cross(a, c) >= 0
<1>0. /\ a.num \in Int /\ b.num \in Int /\ c.num \in Int
      /\ a.den \in Nat /\ b.den \in Nat /\ c.den \in Nat
      /\ a.den > 0 /\ b.den > 0 /\ c.den > 0
  BY DEF Fraction
<1>1. a.num * b.den >= b.num * a.den /\ b.num * c.den >= c.num * b.den
  BY <1>0 DEF Cross
<1>2. (a.num * b.den) * c.den >= (b.num * a.den) * c.den
  BY <1>0, <1>1, TimesKeepsOrder
<1>3. (b.num * c.den) * a.den >= (c.num * b.den) * a.den
  BY <1>0, <1>1, TimesKeepsOrder
<1>4. /\ (a.num * b.den) * c.den = (a.num * c.den) * b.den
      /\ (b.num * a.den) * c.den = (b.num * c.den) * a.den
      /\ (c.num * b.den) * a.den = (c.num * a.den) * b.den
  BY <1>0
<1>5. (c.num * a.den) * b.den <= (a.num * c.den) * b.den
  <2>1. /\ (c.num * a.den) * b.den \in Int /\ (a.num * c.den) * b.den \in Int
        /\ (b.num * c.den) * a.den \in Int
    BY <1>0
  <2>2. QED
    BY <1>2, <1>3, <1>4, <2>1
<1>6. c.num * a.den <= a.num * c.den
  BY <1>0, <1>5, TimesKeepsOrder
<1>7. QED
  BY <1>0, <1>6 DEF Cross

\* Moving two numbers apart does not make their difference smaller beside
\* their sizes.
LEMMA WiderNumbers ==
  ASSUME NEW w \in Int, NEW a \in Int, NEW b \in Int, NEW v \in Int, w >= a, a >= b, b >= v,
         NEW p \in Nat, Size(a) + Size(b) > 0
  PROVE  /\ Size(w) + Size(v) > 0
         /\ 200 * (a - b) >= p * (Size(a) + Size(b)) => 200 * (w - v) >= p * (Size(w) + Size(v))
<1>0. /\ Size(a) \in Nat /\ Size(b) \in Nat /\ Size(w) \in Nat /\ Size(v) \in Nat
      /\ a - b <= Size(a) + Size(b)
      /\ Size(w) + Size(v) > 0
  BY DEF Size
<1> SUFFICES ASSUME 200 * (a - b) >= p * (Size(a) + Size(b))
             PROVE  200 * (w - v) >= p * (Size(w) + Size(v))
  BY <1>0
<1>1. p <= 200
  <2>1. \A s \in Nat : s > 0 /\ p > 200 => p * s > 200 * s
    <3>1. \A s \in Nat, d \in Nat : s > 0 /\ d > 0 => d * s > 0
      OBVIOUS
    <3>2. \A s \in Nat : p * s = (p - 200) * s + 200 * s
      OBVIOUS
    <3>3. p > 200 => p - 200 \in Nat /\ p - 200 > 0
      OBVIOUS
    <3>4. \A s \in Nat : (p - 200) * s \in Int /\ 200 * s \in Int
      OBVIOUS
    <3>5. QED
      BY <3>1, <3>2, <3>3, <3>4
  <2> DEFINE s == Size(a) + Size(b)
  <2>2. s \in Nat /\ s > 0 /\ a - b <= s /\ 200 * (a - b) >= p * s
    BY <1>0
  <2> HIDE DEF s
  <2>3. 200 * (a - b) <= 200 * s
    BY <2>2
  <2>4. p * s \in Int
    BY <2>2
  <2>5. QED
    BY <2>1, <2>2, <2>3, <2>4
<1>2. /\ 200 - p \in Nat /\ 200 + p \in Nat
      /\ a * (200 - p) <= w * (200 - p) /\ v * (200 + p) <= b * (200 + p)
      /\ a * (200 + p) <= w * (200 + p) /\ v * (200 - p) <= b * (200 - p)
  <2>1. 200 - p \in Nat /\ 200 + p \in Nat
    BY <1>1
  <2>2. QED
    BY <2>1, TimesKeepsOrder
<1>3. \A m \in Int : m * (200 - p) = 200 * m - p * m /\ m * (200 + p) = 200 * m + p * m /\ p * m \in Int
  OBVIOUS
<1>4. CASE v >= 0
  <2>1. Size(a) = a /\ Size(b) = b /\ Size(w) = w /\ Size(v) = v
    BY <1>4 DEF Size
  <2>2. p * (a + b) = p * a + p * b /\ p * (w + v) = p * w + p * v
    OBVIOUS
  <2>3. 200 * a - p * a - (200 * b + p * b) >= 0
    BY <1>3, <2>1, <2>2
  <2>4. 200 * w - p * w - (200 * v + p * v) >= 0
    BY <1>2, <1>3, <2>3
  <2>5. QED
    BY <1>3, <2>1, <2>2, <2>4
<1>5. CASE w <= 0
  <2>1. Size(a) = -a /\ Size(b) = -b /\ Size(w) = -w /\ Size(v) = -v
    BY <1>5 DEF Size
  <2>2. p * (-a + -b) = -(p * a) - p * b /\ p * (-w + -v) = -(p * w) - p * v
    OBVIOUS
  <2>3. 200 * a + p * a - (200 * b - p * b) >= 0
    BY <1>3, <2>1, <2>2
  <2>4. 200 * w + p * w - (200 * v - p * v) >= 0
    BY <1>2, <1>3, <2>3
  <2>5. QED
    BY <1>3, <2>1, <2>2, <2>4
<1>6. CASE w > 0 /\ v < 0
  <2>1. Size(w) + Size(v) = w - v /\ w - v \in Nat
    BY <1>6 DEF Size
  <2>2. p * (w - v) <= 200 * (w - v)
    BY <1>1, <2>1, TimesKeepsOrder
  <2>3. QED
    BY <2>1, <2>2
<1>7. QED
  BY <1>4, <1>5, <1>6

\* Nor does it for averages, which are compared over one denominator.
LEMMA Wider ==
  ASSUME NEW w, NEW a, NEW b, NEW v, Fraction(w), Fraction(a), Fraction(b), Fraction(v),
         Cross(w, a) >= 0, Cross(a, b) >= 0, Cross(b, v) >= 0,
         NEW p \in Nat, Base(a, b) # 0
  PROVE  /\ Base(w, v) # 0
         /\ PctReaches(a, b, p) => PctReaches(w, v, p)
         /\ MinPoints \in Nat /\ ~TooClose(a, b) => ~TooClose(w, v)
<1> DEFINE wd == w.den
           ad == a.den
           bd == b.den
           vd == v.den
           in == wd * vd
           out == ad * bd
           W == w.num * vd * out
           A == a.num * bd * in
           B == b.num * ad * in
           V == v.num * wd * out
<1>0. /\ w.num \in Int /\ a.num \in Int /\ b.num \in Int /\ v.num \in Int
      /\ wd \in Nat \ {0} /\ ad \in Nat \ {0} /\ bd \in Nat \ {0} /\ vd \in Nat \ {0}
  BY DEF Fraction
<1> HIDE DEF wd, ad, bd, vd
<1>1. in \in Nat \ {0} /\ out \in Nat \ {0}
  <2>1. \A m, n \in Nat \ {0} : m * n \in Nat \ {0}
    OBVIOUS
  <2>2. QED
    BY <1>0, <2>1
<1>2. /\ (w.num * vd) * out \in Int /\ (a.num * bd) * in \in Int
      /\ (b.num * ad) * in \in Int /\ (v.num * wd) * out \in Int
      /\ w.num * vd \in Int /\ a.num * bd \in Int /\ b.num * ad \in Int /\ v.num * wd \in Int
  BY <1>0, <1>1
<1>3. W >= A
  <2>1. a.num * wd <= w.num * ad
    BY <1>0 DEF Cross, wd, ad
  <2>2. (a.num * wd) * (bd * vd) <= (w.num * ad) * (bd * vd)
    BY <1>0, <2>1, TimesKeepsOrder
  <2>3. (a.num * wd) * (bd * vd) = A /\ (w.num * ad) * (bd * vd) = W
    BY <1>0
  <2>4. QED
    BY <1>2, <2>2, <2>3
<1>4. A >= B
  <2>1. b.num * ad <= a.num * bd
    BY <1>0 DEF Cross, bd, ad
  <2>2. (b.num * ad) * in <= (a.num * bd) * in
    BY <1>0, <1>1, <2>1, TimesKeepsOrder
  <2>3. QED
    BY <1>2, <2>2
<1>5. B >= V
  <2>1. v.num * bd <= b.num * vd
    BY <1>0 DEF Cross, bd, vd
  <2>2. (v.num * bd) * (ad * wd) <= (b.num * vd) * (ad * wd)
    BY <1>0, <2>1, TimesKeepsOrder
  <2>3. (v.num * bd) * (ad * wd) = V /\ (b.num * vd) * (ad * wd) = B
    BY <1>0
  <2>4. QED
    BY <1>2, <2>2, <2>3
<1>6. Cross(w, v) >= 0
  BY CrossOrder
<1>7. /\ Gap(a, b) * in = A - B
      /\ Base(a, b) * in = Size(A) + Size(B)
      /\ Gap(a, b) \in Nat /\ Base(a, b) \in Nat
  <2>1. Gap(a, b) = a.num * bd - b.num * ad
    BY <1>0, CrossIs, SizeIs DEF Gap, Cross, ad, bd
  <2>2. Base(a, b) = Size(a.num * bd) + Size(b.num * ad)
    BY CrossIs DEF ad, bd
  <2>3. Size(A) = Size(a.num * bd) * in /\ Size(B) = Size(b.num * ad) * in
    BY <1>1, <1>2, SizeTimes
  <2>4. \A m, n \in Int : (m - n) * in = m * in - n * in /\ (m + n) * in = m * in + n * in
    BY <1>1
  <2>5. Size(a.num * bd) \in Int /\ Size(b.num * ad) \in Int
    BY <1>2, SizeIs
  <2>6. (a.num * bd - b.num * ad) * in = (a.num * bd) * in - (b.num * ad) * in
    BY <1>2, <2>4
  <2>7. (Size(a.num * bd) + Size(b.num * ad)) * in = Size(a.num * bd) * in + Size(b.num * ad) * in
    BY <2>4, <2>5
  <2>8. Gap(a, b) * in = A - B
    BY <2>1, <2>6
  <2>9. Base(a, b) * in = Size(A) + Size(B)
    BY <2>2, <2>3, <2>7
  <2>10. Gap(a, b) \in Nat /\ Base(a, b) \in Nat
    BY CrossIs
  <2>11. QED
    BY <2>8, <2>9, <2>10
<1>8. /\ Gap(w, v) * out = W - V
      /\ Base(w, v) * out = Size(W) + Size(V)
      /\ Gap(w, v) \in Nat /\ Base(w, v) \in Nat
  <2>1. Gap(w, v) = w.num * vd - v.num * wd
    BY <1>0, <1>6, CrossIs, SizeIs DEF Gap, Cross, wd, vd
  <2>2. Base(w, v) = Size(w.num * vd) + Size(v.num * wd)
    BY CrossIs DEF wd, vd
  <2>3. Size(W) = Size(w.num * vd) * out /\ Size(V) = Size(v.num * wd) * out
    BY <1>1, <1>2, SizeTimes
  <2>4. \A m, n \in Int : (m - n) * out = m * out - n * out /\ (m + n) * out = m * out + n * out
    BY <1>1
  <2>5. Size(w.num * vd) \in Int /\ Size(v.num * wd) \in Int
    BY <1>2, SizeIs
  <2>6. (w.num * vd - v.num * wd) * out = (w.num * vd) * out - (v.num * wd) * out
    BY <1>2, <2>4
  <2>7. (Size(w.num * vd) + Size(v.num * wd)) * out = Size(w.num * vd) * out + Size(v.num * wd) * out
    BY <2>4, <2>5
  <2>8. Gap(w, v) * out = W - V
    BY <2>1, <2>6
  <2>9. Base(w, v) * out = Size(W) + Size(V)
    BY <2>2, <2>3, <2>7
  <2>10. Gap(w, v) \in Nat /\ Base(w, v) \in Nat
    BY CrossIs
  <2>11. QED
    BY <2>8, <2>9, <2>10
<1>9. /\ (a.den * b.den) * in = (w.den * v.den) * out
      /\ (a.den * b.den) * in \in Nat
  BY <1>0 DEF wd, ad, bd, vd
<1>10. W \in Int /\ A \in Int /\ B \in Int /\ V \in Int
  BY <1>2
<1>11. a.den * b.den \in Nat /\ w.den * v.den \in Nat
  BY <1>0 DEF wd, ad, bd, vd
<1> HIDE DEF in, out, W, A, B, V
<1>12. Size(A) + Size(B) > 0
  <2>1. \A n \in Nat : n # 0 => n * in > 0
    BY <1>1
  <2>2. QED
    BY <1>7, <2>1
<1>13. Size(W) + Size(V) > 0
  BY <1>3, <1>4, <1>5, <1>10, <1>12, WiderNumbers
<1>14. Base(w, v) # 0
  BY <1>1, <1>8, <1>13
<1>15. ASSUME PctReaches(a, b, p) PROVE PctReaches(w, v, p)
  <2>1. 200 * Gap(a, b) >= p * Base(a, b)
    BY <1>15 DEF PctReaches
  <2>2. 200 * (Gap(a, b) * in) >= p * (Base(a, b) * in)
    <3>1. (p * Base(a, b)) * in <= (200 * Gap(a, b)) * in
      BY <1>1, <1>7, <2>1, TimesKeepsOrder
    <3>2. (p * Base(a, b)) * in = p * (Base(a, b) * in) /\ (200 * Gap(a, b)) * in = 200 * (Gap(a, b) * in)
      BY <1>1, <1>7
    <3>3. QED
      BY <3>1, <3>2
  <2>3. 200 * (W - V) >= p * (Size(W) + Size(V))
    BY <1>3, <1>4, <1>5, <1>7, <1>10, <1>12, <2>2, WiderNumbers
  <2>4. (p * Base(w, v)) * out <= (200 * Gap(w, v)) * out
    <3>1. (p * Base(w, v)) * out = p * (Base(w, v) * out) /\ (200 * Gap(w, v)) * out = 200 * (Gap(w, v) * out)
      BY <1>1, <1>8
    <3>2. QED
      BY <1>8, <2>3, <3>1
  <2>5. p * Base(w, v) <= 200 * Gap(w, v)
    BY <1>1, <1>8, <2>4, TimesKeepsOrder
  <2>6. QED
    BY <2>5 DEF PctReaches
<1>16. ASSUME MinPoints \in Nat, ~TooClose(a, b) PROVE ~TooClose(w, v)
  <2> DEFINE da == a.den * b.den
             dw == w.den * v.den
  <2>0. da \in Nat /\ dw \in Nat /\ da * in = dw * out /\ da * in \in Nat
    BY <1>9, <1>11
  <2>1. 100 * Gap(a, b) >= MinPoints * da
    <3>1. MinPoints * a.den * b.den = MinPoints * da
      BY <1>0, <1>16 DEF ad, bd
    <3>2. QED
      BY <1>7, <1>16, <2>0, <3>1 DEF TooClose
  <2>9. MinPoints * w.den * v.den = MinPoints * dw
    BY <1>0, <1>16 DEF wd, vd
  <2> HIDE DEF da, dw
  <2>2. (MinPoints * da) * in <= (100 * Gap(a, b)) * in
    BY <1>1, <1>7, <1>16, <2>0, <2>1, TimesKeepsOrder
  <2>3. /\ (MinPoints * da) * in = MinPoints * (da * in) /\ (100 * Gap(a, b)) * in = 100 * (Gap(a, b) * in)
        /\ (MinPoints * dw) * out = MinPoints * (dw * out) /\ (100 * Gap(w, v)) * out = 100 * (Gap(w, v) * out)
    BY <1>1, <1>7, <1>8, <1>16, <2>0
  <2>4. 100 * (A - B) <= 100 * (W - V)
    BY <1>3, <1>4, <1>5, <1>10
  <2>5. (MinPoints * dw) * out <= (100 * Gap(w, v)) * out
    <3>1. MinPoints * (da * in) \in Int
      BY <1>16, <2>0
    <3>2. QED
      BY <1>7, <1>8, <1>10, <2>0, <2>2, <2>3, <2>4, <3>1
  <2>6. MinPoints * dw <= 100 * Gap(w, v)
    BY <1>1, <1>8, <1>16, <2>0, <2>5, TimesKeepsOrder
  <2>7. MinPoints * dw \in Nat
    BY <1>16, <2>0
  <2>8. QED
    BY <1>8, <2>6, <2>7, <2>9 DEF TooClose
<1>17. QED
  BY <1>14, <1>15, <1>16

-----------------------------------------------------------------------------
(* The averages of the rows.                                               *)

LEMMA SlotsAre ==
  /\ IsFiniteSet(Slots) /\ IsFiniteSet(PlantForemen)
  /\ \A s \in Slots : s = <<s[1], s[2]>> /\ s[1] \in PlantForemen /\ s[2] \in Nat
<1> DEFINE slot == [a \in Assignments |-> {a.foreman} \X (a.from .. a.to)]
           T == {slot[a] : a \in Assignments}
<1>1. Slots = UNION T
  BY DEF Slots
<1>2. \A a \in Assignments : a.foreman \in PlantForemen /\ a.from \in Nat /\ a.to \in Nat
  BY ShiftAssumption
<1>3. \A s \in Slots : s = <<s[1], s[2]>> /\ s[1] \in PlantForemen /\ s[2] \in Nat
  <2>1. ASSUME NEW a \in Assignments, NEW s \in slot[a]
        PROVE  s = <<s[1], s[2]>> /\ s[1] \in PlantForemen /\ s[2] \in Nat
    BY <1>2
  <2>2. QED
    BY <1>1, <2>1
<1>4. IsFiniteSet(T)
  <2>1. slot \in Surjection(Assignments, T)
    BY DEF Surjection
  <2>2. QED
    BY <2>1, ShiftAssumption, FS_Surjection
<1>5. \A X \in T : IsFiniteSet(X)
  <2>1. ASSUME NEW a \in Assignments PROVE IsFiniteSet(slot[a])
    <3>1. IsFiniteSet(a.from .. a.to)
      BY <1>2, FS_Interval
    <3>2. IsFiniteSet({a.foreman})
      BY FS_Singleton
    <3>3. QED
      BY <3>1, <3>2, FS_Product
  <2>2. QED
    BY <2>1
<1>6. IsFiniteSet(Slots)
  BY <1>1, <1>4, <1>5, FS_UNION
<1>7. IsFiniteSet(PlantForemen)
  BY ShiftAssumption, FS_Interval DEF PlantForemen
<1>8. QED
  BY <1>3, <1>6, <1>7

LEMMA AddedIs == \A col, S : Added(col, S) = Total(col, S)
  BY DEF Added, MapThenSumSet, MapThenFoldSet, Total, Adds, Chosen

LEMMA ColumnIs ==
  ASSUME rows \in [Slots -> PlantRecords], NEW k \in PageKpis
  PROVE  \A s \in Slots :
           /\ Column(k, "num")[s] \in Int /\ Column(k, "den")[s] \in Nat /\ Column(k, "days")[s] \in Nat
           /\ rows[s].vals[k].days > 0 => Column(k, "den")[s] > 0
           /\ rows[s].vals[k].days \in Nat
           /\ Column(k, "den")[s] = rows[s].vals[k].den
           /\ Column(k, "num")[s] = rows[s].vals[k].num
<1>1. ASSUME NEW s \in Slots
      PROVE  rows[s].vals[k] \in Sums
  <2>1. rows[s] \in PlantRecords
    OBVIOUS
  <2>2. CASE rows[s] = NoRows
    BY <2>2 DEF NoRows, Sums
  <2>3. CASE rows[s] \in [shift : Shifts, vals : [PageKpis -> Sums]]
    BY <2>3
  <2>4. QED
    BY <2>1, <2>2, <2>3 DEF PlantRecords
<1>2. QED
  BY <1>1 DEF Column, Sums

\* Integers add up to an integer, whichever is added last.
LEMMA TotalInt ==
  ASSUME NEW S, IsFiniteSet(S), NEW f, \A x \in S : f[x] \in Int
  PROVE  \A T \in SUBSET S : Total(f, T) \in Int
<1> DEFINE Bad == {T \in SUBSET S : ~(Total(f, T) \in Int)}
<1>1. SUFFICES ASSUME Bad # {} PROVE FALSE
  OBVIOUS
<1>2. PICK X \in Bad : \A Y \in Bad : Y \subseteq X => Y = X
  <2> HIDE DEF Bad
  <2>1. Bad \subseteq SUBSET S
    BY DEF Bad
  <2>2. QED
    BY <2>1, <1>1, SmallestSet
<1>3. IsFiniteSet(X)
  BY FS_Subset
<1>4. X # {}
  BY TotalEmpty
<1>5. Total(f, X) = f[Chosen(X)] + Total(f, X \ {Chosen(X)})
  BY <1>3, <1>4, TotalIs
<1>6. Chosen(X) \in X
  BY <1>4, ChosenIn
<1>7. Total(f, X \ {Chosen(X)}) \in Int
  BY <1>2, <1>6
<1>8. QED
  BY <1>5, <1>6, <1>7

LEMMA TotalAnyInt ==
  ASSUME NEW S, IsFiniteSet(S), NEW f, \A x \in S : f[x] \in Int
  PROVE  \A T \in SUBSET S : \A y \in T : Total(f, T) = f[y] + Total(f, T \ {y})
<1> DEFINE Bad == {T \in SUBSET S : ~(\A y \in T : Total(f, T) = f[y] + Total(f, T \ {y}))}
<1>1. SUFFICES ASSUME Bad # {} PROVE FALSE
  OBVIOUS
<1>2. PICK X \in Bad : \A Y \in Bad : Y \subseteq X => Y = X
  <2> HIDE DEF Bad
  <2>1. Bad \subseteq SUBSET S
    BY DEF Bad
  <2>2. QED
    BY <2>1, <1>1, SmallestSet
<1>3. PICK y \in X : Total(f, X) # f[y] + Total(f, X \ {y})
  OBVIOUS
<1>4. /\ IsFiniteSet(X) /\ IsFiniteSet(X \ {y})
      /\ Total(f, X) = f[Chosen(X)] + Total(f, X \ {Chosen(X)}) /\ Chosen(X) \in X
  <2>1. IsFiniteSet(X) /\ IsFiniteSet(X \ {y})
    BY FS_Subset
  <2>2. QED
    BY <2>1, <1>3, TotalIs, ChosenIn
<1>5. Chosen(X) # y
  BY <1>3, <1>4
<1> DEFINE c == Chosen(X)
           R == X \ {c, y}
<1>6. Total(f, X \ {c}) = f[y] + Total(f, R)
  <2>1. X \ {c} \in SUBSET S /\ X \ {c} # X /\ y \in X \ {c}
    BY <1>4, <1>5
  <2>2. X \ {c} \notin Bad
    BY <1>2, <2>1
  <2>3. Total(f, X \ {c}) = f[y] + Total(f, (X \ {c}) \ {y})
    BY <2>1, <2>2
  <2>4. (X \ {c}) \ {y} = R
    OBVIOUS
  <2>5. QED
    BY <2>3, <2>4
<1>7. Total(f, X \ {y}) = f[c] + Total(f, R)
  <2>1. X \ {y} \in SUBSET S /\ X \ {y} # X /\ c \in X \ {y}
    BY <1>4, <1>5
  <2>2. X \ {y} \notin Bad
    BY <1>2, <2>1
  <2>3. Total(f, X \ {y}) = f[c] + Total(f, (X \ {y}) \ {c})
    BY <2>1, <2>2
  <2>4. (X \ {y}) \ {c} = R
    OBVIOUS
  <2>5. QED
    BY <2>3, <2>4
<1>8. Total(f, R) \in Int /\ f[y] \in Int /\ f[c] \in Int
  <2>1. R \in SUBSET S /\ c \in S /\ y \in S
    BY <1>4
  <2> HIDE DEF R, c
  <2>2. QED
    BY <2>1, TotalInt
<1>9. Total(f, X) = f[c] + Total(f, X \ {c})
  BY <1>4
<1> HIDE DEF c, R, Bad
<1>10. QED
  BY <1>3, <1>6, <1>7, <1>8, <1>9

\* The sum of two parts is the sum of the whole.
LEMMA TotalUnion ==
  ASSUME NEW S, IsFiniteSet(S), NEW f, \A x \in S : f[x] \in Int, NEW A \in SUBSET S
  PROVE  \A T \in SUBSET S : T \cap A = {} => Total(f, T \cup A) = Total(f, T) + Total(f, A)
<1> DEFINE Bad == {T \in SUBSET S : ~(T \cap A = {} => Total(f, T \cup A) = Total(f, T) + Total(f, A))}
<1>1. SUFFICES ASSUME Bad # {} PROVE FALSE
  OBVIOUS
<1>2. PICK X \in Bad : \A Y \in Bad : Y \subseteq X => Y = X
  <2> HIDE DEF Bad
  <2>1. Bad \subseteq SUBSET S
    BY DEF Bad
  <2>2. QED
    BY <2>1, <1>1, SmallestSet
<1>3. X \cap A = {} /\ Total(f, X \cup A) # Total(f, X) + Total(f, A)
  OBVIOUS
<1>4. Total(f, A) \in Int
  BY TotalInt
<1>5. X # {}
  <2>1. {} \cup A = A /\ Total(f, {}) = 0
    BY TotalEmpty
  <2>2. QED
    BY <1>3, <1>4, <2>1
<1>6. PICK y \in X : TRUE
  BY <1>5
<1>7. /\ Total(f, X) = f[y] + Total(f, X \ {y})
      /\ Total(f, X \cup A) = f[y] + Total(f, (X \cup A) \ {y})
  <2>1. X \cup A \in SUBSET S /\ X \in SUBSET S /\ y \in X \cup A
    OBVIOUS
  <2> HIDE DEF Bad
  <2>2. QED
    BY <2>1, TotalAnyInt
<1>8. Total(f, (X \ {y}) \cup A) = Total(f, X \ {y}) + Total(f, A)
  <2>1. X \ {y} \in SUBSET S /\ X \ {y} # X /\ (X \ {y}) \cap A = {}
    BY <1>3
  <2>2. X \ {y} \notin Bad
    BY <1>2, <2>1
  <2>3. QED
    BY <2>1, <2>2
<1>9. (X \cup A) \ {y} = (X \ {y}) \cup A
  BY <1>3
<1>10. f[y] \in Int /\ Total(f, X \ {y}) \in Int
  <2>1. y \in S /\ X \ {y} \in SUBSET S
    OBVIOUS
  <2>2. QED
    BY <2>1, TotalInt
<1> HIDE DEF Bad
<1>11. Total(f, (X \cup A) \ {y}) = Total(f, X \ {y}) + Total(f, A)
  BY <1>8, <1>9
<1> DEFINE all  == Total(f, X \cup A)
           most == Total(f, (X \cup A) \ {y})
           one  == Total(f, X)
           less == Total(f, X \ {y})
           rest == Total(f, A)
<1>12. /\ all = f[y] + most /\ one = f[y] + less /\ most = less + rest
       /\ f[y] \in Int /\ less \in Int /\ rest \in Int
  BY <1>4, <1>7, <1>10, <1>11
<1>13. all # one + rest
  BY <1>3
<1> HIDE DEF all, most, one, less, rest
<1>14. QED
  BY <1>12, <1>13

\* A foreman, or a shift, has an average exactly if there are rows.
LEMMA StatIs ==
  ASSUME rows \in [Slots -> PlantRecords], NEW k \in PageKpis, NEW fs, NEW shs
  PROVE  LET S == _fetch_raw_rows(fs, shs, k)
             st == _foreman_stat(fs, shs, k)
         IN  /\ S \subseteq Slots
             /\ S = {} <=> st = None
             /\ S # {} => /\ st.num = Total(Column(k, "num"), S) /\ st.den = Total(Column(k, "den"), S)
                          /\ Fraction(st) /\ st.count \in Nat
<1> DEFINE S == _fetch_raw_rows(fs, shs, k)
           st == _foreman_stat(fs, shs, k)
           sum(c) == Total(Column(k, c), S)
<1>1. S \subseteq Slots /\ \A s \in S : rows[s].vals[k].days > 0
  BY DEF _fetch_raw_rows
<1>2. IsFiniteSet(S)
  BY <1>1, SlotsAre, FS_Subset
<1>3. /\ \A s \in S : Column(k, "num")[s] \in Int
      /\ \A s \in S : Column(k, "den")[s] \in Nat \ {0}
      /\ \A s \in S : Column(k, "days")[s] \in Nat
  BY <1>1, ColumnIs
<1>4. st = IF sum("den") = 0 THEN None
           ELSE [num |-> sum("num"), den |-> sum("den"), count |-> sum("days"),
                 weeks |-> {s[2] : s \in S}]
  <2>1. /\ Fields(S, k).num = sum("num") /\ Fields(S, k).den = sum("den")
        /\ Fields(S, k).days = sum("days")
    BY AddedIs DEF Fields
  <2> HIDE DEF S
  <2>2. QED
    BY <2>1 DEF _foreman_stat, S
<1> HIDE DEF S, st
<1>5. sum("num") \in Int /\ sum("days") \in Nat
  BY <1>2, <1>3, TotalInt, TotalNat
<1>6. CASE S = {}
  <2>1. sum("den") = 0
    BY <1>6, TotalEmpty
  <2>2. QED
    BY <1>1, <1>4, <1>6, <2>1 DEF S, st
<1>7. CASE S # {}
  <2>1. sum("den") \in Nat \ {0}
    BY <1>2, <1>3, <1>7, TotalPositive
  <2>2. st = [num |-> sum("num"), den |-> sum("den"), count |-> sum("days"), weeks |-> {s[2] : s \in S}]
    BY <1>4, <2>1
  <2>3. st # None
    <3>1. "num" \in DOMAIN st
      BY <2>2
    <3>2. "num" \notin DOMAIN None
      BY DEF None
    <3>3. QED
      BY <3>1, <3>2
  <2>4. /\ st.num = sum("num") /\ st.den = sum("den") /\ st.count = sum("days")
    BY <2>2
  <2>5. QED
    BY <1>1, <1>5, <1>7, <2>1, <2>3, <2>4 DEF Fraction, S, st
<1>8. QED
  BY <1>6, <1>7

-----------------------------------------------------------------------------
(* The two ends of a cell.                                                 *)

LEMMA EnoughIs ==
  ASSUME rows \in [Slots -> PlantRecords], NEW k \in PageKpis, NEW sh \in Shifts, NEW f \in PlantForemen,
         Enough(Stats(sh, k)[f])
  PROVE  Fraction(Stats(sh, k)[f])
<1>1. Stats(sh, k)[f] = _foreman_stat({f}, {sh}, k)
  BY DEF Stats
<1>2. Stats(sh, k)[f] # None
  BY DEF Enough
<1> DEFINE S == _fetch_raw_rows({f}, {sh}, k)
<1>3. S # {} => Fraction(Stats(sh, k)[f])
  BY <1>1, StatIs
<1>4. S = {} => Stats(sh, k)[f] = None
  BY <1>1, StatIs
<1>5. QED
  BY <1>2, <1>3, <1>4

\* Of finitely many averages one is the highest, and one the lowest.
LEMMA EndsExist ==
  ASSUME NEW Q, IsFiniteSet(Q), Q # {}, NEW st, \A f \in Q : Fraction(st[f])
  PROVE  /\ \E f \in Q : \A g \in Q : Cross(st[f], st[g]) >= 0
         /\ \E f \in Q : \A g \in Q : Cross(st[f], st[g]) <= 0
<1> DEFINE Bad == {T \in SUBSET Q : T # {} /\ ~(/\ \E f \in T : \A g \in T : Cross(st[f], st[g]) >= 0
                                                /\ \E f \in T : \A g \in T : Cross(st[f], st[g]) <= 0)}
<1>1. SUFFICES ASSUME Bad # {} PROVE FALSE
  OBVIOUS
<1>2. PICK X \in Bad : \A Y \in Bad : Y \subseteq X => Y = X
  <2> HIDE DEF Bad
  <2>1. Bad \subseteq SUBSET Q
    BY DEF Bad
  <2>2. QED
    BY <2>1, <1>1, SmallestSet
<1>3. PICK y \in X : TRUE
  OBVIOUS
<1>4. \A f, g \in X : /\ Cross(st[f], st[g]) \in Int /\ Cross(st[g], st[f]) = -Cross(st[f], st[g])
  BY CrossIs
<1>5. \A f, g, h \in X : Cross(st[f], st[g]) >= 0 /\ Cross(st[g], st[h]) >= 0 => Cross(st[f], st[h]) >= 0
  BY CrossOrder
<1>6. CASE X = {y}
  <2>1. Cross(st[y], st[y]) = 0
    BY <1>4
  <2>2. QED
    BY <1>6, <2>1
<1>7. CASE X # {y}
  <2>1. X \ {y} # {} /\ X \ {y} \in SUBSET Q /\ X \ {y} # X
    BY <1>7
  <2>2. X \ {y} \notin Bad
    BY <1>2, <2>1
  <2>3. PICK f \in X \ {y} : \A g \in X \ {y} : Cross(st[f], st[g]) >= 0
    BY <2>1, <2>2
  <2>4. PICK h \in X \ {y} : \A g \in X \ {y} : Cross(st[h], st[g]) <= 0
    BY <2>1, <2>2
  <2>5. X \in SUBSET Q /\ X # {}
    OBVIOUS
  <2>6. ~(/\ \E m \in X : \A g \in X : Cross(st[m], st[g]) >= 0
          /\ \E m \in X : \A g \in X : Cross(st[m], st[g]) <= 0)
    OBVIOUS
  <2> HIDE DEF Bad
  <2>7. \E m \in X : \A g \in X : Cross(st[m], st[g]) >= 0
    <3>1. CASE Cross(st[f], st[y]) >= 0
      BY <2>3, <3>1
    <3>2. CASE ~(Cross(st[f], st[y]) >= 0)
      <4>1. Cross(st[y], st[f]) >= 0
        BY <1>4, <3>2
      <4>2. ASSUME NEW g \in X PROVE Cross(st[y], st[g]) >= 0
        <5>1. CASE g = y
          BY <1>4, <5>1
        <5>2. CASE g # y
          BY <1>5, <2>3, <4>1, <5>2
        <5>3. QED
          BY <5>1, <5>2
      <4>3. QED
        BY <4>2
    <3>3. QED
      BY <3>1, <3>2
  <2>8. \E m \in X : \A g \in X : Cross(st[m], st[g]) <= 0
    <3>1. CASE Cross(st[h], st[y]) <= 0
      BY <2>4, <3>1
    <3>2. CASE ~(Cross(st[h], st[y]) <= 0)
      <4>1. Cross(st[h], st[y]) >= 0
        BY <1>4, <3>2
      <4>2. ASSUME NEW g \in X PROVE Cross(st[y], st[g]) <= 0
        <5>1. CASE g = y
          BY <1>4, <5>1
        <5>2. CASE g # y
          <6>1. Cross(st[g], st[h]) >= 0
            BY <1>4, <2>4, <5>2
          <6>2. Cross(st[g], st[y]) >= 0
            BY <1>5, <4>1, <6>1
          <6>3. QED
            BY <1>4, <6>2
        <5>3. QED
          BY <5>1, <5>2
      <4>3. QED
        BY <4>2
    <3>3. QED
      BY <3>1, <3>2
  <2>9. QED
    BY <2>6, <2>7, <2>8
<1>8. QED
  BY <1>6, <1>7

\* The severity of a pair does not depend on who is named first, and nobody
\* lies apart from himself.
LEMMA SeverityIs ==
  ASSUME NEW a, NEW b, Fraction(a), Fraction(b)
  PROVE  /\ Severity(a, b) \in {"none", "medium", "high"}
         /\ Severity(b, a) = Severity(a, b)
         /\ Cross(a, b) = 0 => Severity(a, b) = "none"
<1>1. TooClose(b, a) <=> TooClose(a, b)
  <2>1. MinPoints * a.den * b.den = MinPoints * b.den * a.den
    BY ShiftAssumption DEF Fraction
  <2>2. QED
    BY <2>1, CrossIs DEF TooClose
<1>2. \A p : PctReaches(b, a, p) <=> PctReaches(a, b, p)
  BY CrossIs DEF PctReaches
<1>3. Severity(b, a) = Severity(a, b)
  BY <1>1, <1>2, CrossIs DEF Severity
<1>4. ASSUME Cross(a, b) = 0 PROVE Severity(a, b) = "none"
  <2>1. Gap(a, b) = 0
    BY <1>4, SizeIs DEF Gap
  <2>2. Base(a, b) # 0 => /\ MediumPct * Base(a, b) > 0 /\ HighPct * Base(a, b) > 0
    <3>1. MediumPct \in Nat \ {0} /\ HighPct \in Nat \ {0} /\ Base(a, b) \in Nat
      BY ShiftAssumption, CrossIs
    <3>2. \A m, n \in Nat \ {0} : m * n > 0
      OBVIOUS
    <3>3. QED
      BY <3>1, <3>2
  <2>3. Base(a, b) # 0 => ~PctReaches(a, b, MediumPct) /\ ~PctReaches(a, b, HighPct)
    <3>1. 200 * Gap(a, b) = 0
      BY <2>1
    <3>2. MediumPct * Base(a, b) \in Int /\ HighPct * Base(a, b) \in Int
      <4>1. MediumPct \in Nat /\ HighPct \in Nat /\ Base(a, b) \in Nat
        BY ShiftAssumption, CrossIs
      <4>2. QED
        BY <4>1
    <3>3. QED
      BY <2>2, <3>1, <3>2 DEF PctReaches
  <2>4. QED
    BY <2>3 DEF Severity
<1>5. QED
  BY <1>3, <1>4 DEF Severity

\* Who lies further apart than a pair lies as severely apart.
LEMMA WiderIsAsSevere ==
  ASSUME NEW w, NEW a, NEW b, NEW v, Fraction(w), Fraction(a), Fraction(b), Fraction(v),
         Cross(w, a) >= 0, Cross(a, b) >= 0, Cross(b, v) >= 0
  PROVE  /\ Severity(a, b) # "none" => Severity(w, v) # "none"
         /\ Severity(a, b) = "high" => Severity(w, v) = "high"
<1>1. MinPoints \in Nat /\ MediumPct \in Nat /\ HighPct \in Nat
  BY ShiftAssumption
<1>2. ASSUME Severity(a, b) # "none"
      PROVE  /\ Base(a, b) # 0 /\ ~TooClose(a, b)
             /\ PctReaches(a, b, HighPct) \/ PctReaches(a, b, MediumPct)
  BY <1>2 DEF Severity
<1>3. Severity(a, b) = "high" => PctReaches(a, b, HighPct)
  BY DEF Severity
<1>4. ASSUME Severity(a, b) # "none"
      PROVE  /\ Base(w, v) # 0 /\ ~TooClose(w, v)
             /\ PctReaches(w, v, HighPct) \/ PctReaches(w, v, MediumPct)
             /\ PctReaches(a, b, HighPct) => PctReaches(w, v, HighPct)
  BY <1>1, <1>2, <1>4, Wider
<1>5. QED
  BY <1>3, <1>4 DEF Severity

\* The ends of a cell with at least two foremen, and their comparison.
LEMMA CellEnds ==
  ASSUME rows \in [Slots -> PlantRecords], NEW k \in PageKpis, NEW sh \in Shifts,
         Cardinality(_extreme_pair(Stats(sh, k))) >= 2
  PROVE  \E best, worst \in _extreme_pair(Stats(sh, k)) :
           /\ \A f \in _extreme_pair(Stats(sh, k)) :
                /\ Cross(Stats(sh, k)[best], Stats(sh, k)[f]) >= 0
                /\ Cross(Stats(sh, k)[f], Stats(sh, k)[worst]) >= 0
           /\ CellComparison(sh, k)
                = _compare_pair(best, Stats(sh, k)[best], worst, Stats(sh, k)[worst], k)
<1> DEFINE st    == Stats(sh, k)
           Q     == _extreme_pair(st)
           best  == CHOOSE f \in Q : \A g \in Q : Cross(st[f], st[g]) >= 0
           worst == CHOOSE f \in Q : \A g \in Q : Cross(st[f], st[g]) <= 0
<1>1. CellComparison(sh, k) = _compare_pair(best, st[best], worst, st[worst], k)
  <2>1. Cardinality(Q) \in Nat
    BY SlotsAre, FS_Subset, FS_CardinalityType DEF _extreme_pair
  <2>2. ~(Cardinality(Q) < 2)
    BY <2>1
  <2>3. QED
    BY <2>2 DEF CellComparison
<1>2. Q \subseteq PlantForemen /\ IsFiniteSet(Q) /\ \A f \in Q : Fraction(st[f])
  <2>1. Q \subseteq PlantForemen /\ \A f \in Q : Enough(st[f])
    BY DEF _extreme_pair
  <2> HIDE DEF Q
  <2>2. \A f \in Q : Fraction(st[f])
    BY <2>1, EnoughIs
  <2>3. QED
    BY <2>1, <2>2, SlotsAre, FS_Subset
<1>3. Q # {}
  BY FS_EmptySet
<1> HIDE DEF st, Q
<1>4. /\ best \in Q /\ \A g \in Q : Cross(st[best], st[g]) >= 0
      /\ worst \in Q /\ \A g \in Q : Cross(st[worst], st[g]) <= 0
  BY <1>2, <1>3, EndsExist
<1>5. \A g \in Q : Cross(st[g], st[worst]) >= 0
  <2>1. \A g \in Q : /\ Cross(st[worst], st[g]) \in Int
                     /\ Cross(st[g], st[worst]) = -Cross(st[worst], st[g])
    BY <1>2, <1>4, CrossIs
  <2>2. QED
    BY <1>4, <2>1
<1> HIDE DEF best, worst
<1>6. QED
  BY <1>1, <1>4, <1>5 DEF st, Q

LEMMA PairCardinality ==
  \A x, y : x # y => IsFiniteSet({x, y}) /\ Cardinality({x, y}) = 2
<1> SUFFICES ASSUME NEW x, NEW y, x # y PROVE IsFiniteSet({x, y}) /\ Cardinality({x, y}) = 2
  OBVIOUS
<1>1. IsFiniteSet({x}) /\ Cardinality({x}) = 1
  BY FS_Singleton
<1>2. {x} \cup {y} = {x, y} /\ y \notin {x}
  OBVIOUS
<1>3. QED
  BY <1>1, <1>2, FS_AddElement

-----------------------------------------------------------------------------
(* Cards.                                                                  *)

LEMMA NoComparison ==
  /\ \A b, w, s, t, v : [better |-> b, worse |-> w, bstat |-> s, wstat |-> t, severity |-> v] # None
  /\ \A s, k, b, w, v, x, y : [shift |-> s, kpi |-> k, card |-> b, signals |-> w, enough |-> v] # None
<1>1. DOMAIN None = {"none"}
  BY DEF None
<1>2. QED
  BY <1>1

\* A comparison names its two foremen, and tells which is the better one.
LEMMA ComparisonIs ==
  ASSUME NEW fa, NEW a, NEW fb, NEW b, NEW k
  PROVE  LET c == _compare_pair(fa, a, fb, b, k)
         IN  /\ c # None <=> Enough(a) /\ Enough(b) /\ Severity(a, b) # "none"
             /\ c # None => /\ c.severity = Severity(a, b)
                            /\ AtLeastAsGood(a, b, k) =>
                                  c.better = fa /\ c.worse = fb /\ c.bstat = a /\ c.wstat = b
                            /\ ~AtLeastAsGood(a, b, k) =>
                                  c.better = fb /\ c.worse = fa /\ c.bstat = b /\ c.wstat = a
BY NoComparison DEF _compare_pair

\* The card of a cell shows its ends.
LEMMA CardShowsEnds ==
  ASSUME rows \in [Slots -> PlantRecords], NEW k \in PageKpis, NEW sh \in Shifts,
         CellComparison(sh, k) # None
  PROVE  LET c  == CellComparison(sh, k)
             st == Stats(sh, k)
         IN  /\ c.better \in _extreme_pair(st) /\ c.worse \in _extreme_pair(st)
             /\ \A f \in _extreme_pair(st) :
                   ~Beats(st[f], st[c.better], k) /\ ~Beats(st[c.worse], st[f], k)
<1> DEFINE st == Stats(sh, k)
           Q  == _extreme_pair(st)
           c  == CellComparison(sh, k)
<1>1. Cardinality(Q) >= 2
  <2>1. Cardinality(Q) \in Nat
    BY SlotsAre, FS_Subset, FS_CardinalityType DEF _extreme_pair
  <2>2. ~(Cardinality(Q) < 2)
    BY DEF CellComparison
  <2>3. QED
    BY <2>1, <2>2
<1>2. PICK best, worst \in Q :
        /\ \A f \in Q : Cross(st[best], st[f]) >= 0 /\ Cross(st[f], st[worst]) >= 0
        /\ c = _compare_pair(best, st[best], worst, st[worst], k)
  BY <1>1, CellEnds
<1>3. \A f \in Q : Fraction(st[f])
  <2>1. Q \subseteq PlantForemen /\ \A f \in Q : Enough(st[f])
    BY DEF _extreme_pair
  <2> HIDE DEF Q
  <2>2. QED
    BY <2>1, EnoughIs
<1> HIDE DEF st, Q, c
<1>4. \A f, g \in Q : Cross(st[f], st[g]) \in Int /\ Cross(st[g], st[f]) = -Cross(st[f], st[g])
  BY <1>3, CrossIs
<1>5. c # None
  BY DEF c
<1>6. CASE k \in DirectionHigher
  <2>1. AtLeastAsGood(st[best], st[worst], k)
    BY <1>2, <1>6 DEF AtLeastAsGood
  <2>2. c.better = best /\ c.worse = worst
    BY <1>2, <1>5, <2>1, ComparisonIs
  <2>3. \A f \in Q : ~Beats(st[f], st[best], k) /\ ~Beats(st[worst], st[f], k)
    BY <1>2, <1>4, <1>6 DEF Beats
  <2>4. QED
    BY <2>2, <2>3 DEF c, st, Q
<1>7. CASE k \notin DirectionHigher
  <2>1. Cross(st[best], st[worst]) # 0
    BY <1>2, <1>3, <1>5, ComparisonIs, SeverityIs
  <2>2. ~AtLeastAsGood(st[best], st[worst], k)
    BY <1>2, <1>4, <1>7, <2>1 DEF AtLeastAsGood
  <2>3. c.better = worst /\ c.worse = best
    BY <1>2, <1>5, <2>2, ComparisonIs
  <2>4. \A f \in Q : ~Beats(st[f], st[worst], k) /\ ~Beats(st[best], st[f], k)
    BY <1>2, <1>4, <1>7 DEF Beats
  <2>5. QED
    BY <2>3, <2>4 DEF c, st, Q
<1>8. QED
  BY <1>6, <1>7

\* Any two foremen of a cell who lie apart bring it a card, as severe as they
\* are: its ends lie no closer.
LEMMA PairHasCard ==
  ASSUME rows \in [Slots -> PlantRecords], NEW k \in PageKpis, NEW sh \in Shifts,
         NEW f \in PlantForemen, NEW g \in PlantForemen,
         Enough(Stats(sh, k)[f]), Enough(Stats(sh, k)[g]),
         Severity(Stats(sh, k)[f], Stats(sh, k)[g]) # "none"
  PROVE  /\ CellComparison(sh, k) # None
         /\ Severity(Stats(sh, k)[f], Stats(sh, k)[g]) = "high" => CellComparison(sh, k).severity = "high"
<1> DEFINE st == Stats(sh, k)
           Q  == _extreme_pair(st)
           c  == CellComparison(sh, k)
<1>1. f \in Q /\ g \in Q /\ IsFiniteSet(Q) /\ Q \subseteq PlantForemen /\ \A h \in Q : Enough(st[h])
  BY SlotsAre, FS_Subset DEF _extreme_pair
<1>2. \A h \in Q : Fraction(st[h])
  <2> HIDE DEF Q
  <2>1. QED
    BY <1>1, EnoughIs
<1>3. f # g
  <2>1. Cross(st[f], st[f]) = 0
    BY <1>1, <1>2, CrossIs
  <2>2. QED
    BY <1>1, <1>2, <2>1, SeverityIs
<1>4. Cardinality(Q) >= 2
  <2>1. Cardinality({f, g}) = 2
    BY <1>3, PairCardinality
  <2>2. {f, g} \subseteq Q
    BY <1>1
  <2>3. Cardinality({f, g}) <= Cardinality(Q)
    BY <1>1, <2>2, FS_Subset
  <2>4. QED
    BY <1>1, <2>1, <2>3, FS_CardinalityType
<1>5. PICK best, worst \in Q :
        /\ \A h \in Q : Cross(st[best], st[h]) >= 0 /\ Cross(st[h], st[worst]) >= 0
        /\ c = _compare_pair(best, st[best], worst, st[worst], k)
  BY <1>4, CellEnds
<1>6. PICK x, y \in {f, g} : Cross(st[x], st[y]) >= 0 /\ Severity(st[x], st[y]) = Severity(st[f], st[g])
  <2>1. Cross(st[f], st[g]) \in Int /\ Cross(st[g], st[f]) = -Cross(st[f], st[g])
    BY <1>1, <1>2, CrossIs
  <2>2. Severity(st[g], st[f]) = Severity(st[f], st[g])
    BY <1>1, <1>2, SeverityIs
  <2>3. QED
    BY <2>1, <2>2
<1> HIDE DEF st, Q, c
<1>7. /\ Severity(st[x], st[y]) # "none" => Severity(st[best], st[worst]) # "none"
      /\ Severity(st[x], st[y]) = "high" => Severity(st[best], st[worst]) = "high"
  <2>1. /\ Fraction(st[best]) /\ Fraction(st[x]) /\ Fraction(st[y]) /\ Fraction(st[worst])
        /\ Cross(st[best], st[x]) >= 0 /\ Cross(st[y], st[worst]) >= 0
    BY <1>1, <1>2, <1>5, <1>6
  <2>2. QED
    BY <1>6, <2>1, WiderIsAsSevere
<1>8. c # None /\ c.severity = Severity(st[best], st[worst])
  <2>1. Severity(st[best], st[worst]) # "none" /\ Enough(st[best]) /\ Enough(st[worst])
    BY <1>1, <1>6, <1>7 DEF st
  <2>2. QED
    BY <1>5, <2>1, ComparisonIs
<1>9. QED
  BY <1>6, <1>7, <1>8 DEF st, c

LEMMA CardsAre ==
  \A x : x \in build_cards <=>
           \E sh \in Shifts, k \in PageKpis :
              CellComparison(sh, k) # None /\ x = Card(sh, k, CellComparison(sh, k))
<1> DEFINE here(sh, k) == IF CellComparison(sh, k) = None THEN {} ELSE {Card(sh, k, CellComparison(sh, k))}
<1>1. build_cards = UNION {here(sh, k) : sh \in Shifts, k \in PageKpis}
  BY DEF build_cards
<1>2. \A x, sh, k : x \in here(sh, k) <=>
        CellComparison(sh, k) # None /\ x = Card(sh, k, CellComparison(sh, k))
  OBVIOUS
<1> HIDE DEF here
<1>3. QED
  BY <1>1, <1>2

-----------------------------------------------------------------------------
(* What the shape of the pages says of the cards.                          *)

LEMMA CardsFollow == ShiftInv => CardOpens /\ NobodyBeyondTheCard /\ SignalHasItsCard
<1> SUFFICES ASSUME ShiftInv, changes = 0 PROVE CardOpens /\ NobodyBeyondTheCard /\ SignalHasItsCard
  BY DEF CardOpens, NobodyBeyondTheCard, SignalHasItsCard
<1>1. rows \in [Slots -> PlantRecords]
  BY DEF ShiftInv, ShiftTypeOK, PlantRecords
<1>2. CardOpens
  <2> SUFFICES ASSUME at \in WithDetail
               PROVE  {c \in cards : c.shift = detail.shift /\ c.kpi = detail.kpi}
                        = IF at = "missing" THEN {} ELSE {detail.card}
    BY DEF CardOpens, WithDetail
  <2>1. cards = build_cards
    BY DEF ShiftInv, ListShape
  <2>2. detail.shift \in Shifts /\ detail.kpi \in PageKpis
    BY DEF ShiftInv, PairShape
  <2> DEFINE c == CellComparison(detail.shift, detail.kpi)
  <2>3. /\ at = "missing" => c = None
        /\ at # "missing" => c # None /\ detail.card = Card(detail.shift, detail.kpi, c)
    BY DEF ShiftInv, PairShape
  <2>4. \A x : (x \in cards /\ x.shift = detail.shift /\ x.kpi = detail.kpi) <=>
                 (c # None /\ x = Card(detail.shift, detail.kpi, c))
    <3>1. \A sh, k, d : Card(sh, k, d).shift = sh /\ Card(sh, k, d).kpi = k
      BY DEF Card
    <3>2. QED
      BY <2>1, <2>2, <3>1, CardsAre
  <2> DEFINE C == {x \in cards : x.shift = detail.shift /\ x.kpi = detail.kpi}
             d == Card(detail.shift, detail.kpi, c)
  <2> HIDE DEF c
  <2>5. c = None => C = {}
    BY <2>4
  <2>6. c # None => C = {d}
    <3>1. \A x : x \in C <=> c # None /\ x = d
      BY <2>4
    <3> HIDE DEF C, d
    <3>2. QED
      BY <3>1
  <2>7. QED
    BY <2>3, <2>5, <2>6
<1>3. NobodyBeyondTheCard
  <2> SUFFICES ASSUME NEW x \in cards, NEW f \in PlantForemen, Enough(Stats(x.shift, x.kpi)[f])
               PROVE  LET st == Stats(x.shift, x.kpi)
                      IN  /\ ~Beats(st[f], st[x.better], x.kpi) /\ ~Beats(st[x.worse], st[f], x.kpi)
                          /\ st[x.better].count >= MinRecords /\ st[x.worse].count >= MinRecords
    BY DEF NobodyBeyondTheCard
  <2>1. x \in build_cards
    BY DEF ShiftInv, ListShape
  <2>2. PICK sh \in Shifts, k \in PageKpis :
          CellComparison(sh, k) # None /\ x = Card(sh, k, CellComparison(sh, k))
    BY <2>1, CardsAre
  <2> DEFINE c == CellComparison(sh, k)
  <2>3. x.shift = sh /\ x.kpi = k /\ x.better = c.better /\ x.worse = c.worse
    BY <2>2 DEF Card
  <2>4. f \in _extreme_pair(Stats(sh, k))
    BY <2>3 DEF _extreme_pair
  <2>5. /\ c.better \in _extreme_pair(Stats(sh, k)) /\ c.worse \in _extreme_pair(Stats(sh, k))
        /\ ~Beats(Stats(sh, k)[f], Stats(sh, k)[c.better], k)
        /\ ~Beats(Stats(sh, k)[c.worse], Stats(sh, k)[f], k)
    BY <1>1, <2>2, <2>4, CardShowsEnds
  <2>6. Stats(sh, k)[c.better].count >= MinRecords /\ Stats(sh, k)[c.worse].count >= MinRecords
    BY <2>5 DEF _extreme_pair, Enough
  <2> HIDE DEF c
  <2>7. QED
    BY <2>3, <2>5, <2>6
<1>4. SignalHasItsCard
  <2> SUFFICES ASSUME at \in {"pair", "weeks", "shown"}, NEW g \in detail.signals
               PROVE  \E x \in cards : /\ x.shift = detail.shift /\ x.kpi = g.kpi
                                       /\ g.severity = "high" => x.severity = "high"
    BY DEF SignalHasItsCard
  <2> DEFINE sh == detail.shift
             k  == detail.kpi
             c  == CellComparison(sh, k)
  <2>1. cards = build_cards
    BY DEF ShiftInv, ListShape, WithDetail
  <2>2. sh \in Shifts /\ k \in PageKpis /\ c # None /\ detail.signals = _cross_kpi_signals(sh, k, c)
    BY DEF ShiftInv, PairShape, WithDetail
  <2> HIDE DEF sh, k, c
  <2>3. PICK j \in PageKpis :
          LET p == _compare_pair(c.better, Stats(sh, j)[c.better], c.worse, Stats(sh, j)[c.worse], j)
          IN  p # None /\ g.kpi = j /\ g.severity = p.severity
    BY <2>2 DEF _cross_kpi_signals
  <2>4. c.better \in PlantForemen /\ c.worse \in PlantForemen
    BY <1>1, <2>2, CardShowsEnds DEF _extreme_pair, c
  <2>5. /\ Enough(Stats(sh, j)[c.better]) /\ Enough(Stats(sh, j)[c.worse])
        /\ Severity(Stats(sh, j)[c.better], Stats(sh, j)[c.worse]) # "none"
        /\ g.severity = Severity(Stats(sh, j)[c.better], Stats(sh, j)[c.worse])
    BY <2>3, ComparisonIs
  <2>6. /\ CellComparison(sh, j) # None
        /\ g.severity = "high" => CellComparison(sh, j).severity = "high"
    BY <1>1, <2>2, <2>4, <2>5, PairHasCard
  <2>7. Card(sh, j, CellComparison(sh, j)) \in cards
    BY <2>1, <2>2, <2>6, CardsAre
  <2>8. QED
    BY <2>3, <2>6, <2>7 DEF Card, sh
<1>5. QED
  BY <1>2, <1>3, <1>4

-----------------------------------------------------------------------------
(* One scale.                                                              *)

\* What reaches a threshold reaches the lower ones.
LEMMA LowerReached ==
  ASSUME NEW a, NEW b, Fraction(a), Fraction(b)
  PROVE  /\ PctReaches(a, b, CriticalPct) => PctReaches(a, b, HighPct)
         /\ PctReaches(a, b, HighPct) => PctReaches(a, b, MediumPct)
<1>1. Base(a, b) \in Nat /\ Gap(a, b) \in Nat
  BY CrossIs
<1>2. /\ MediumPct \in Nat /\ HighPct \in Nat /\ CriticalPct \in Nat
      /\ MediumPct <= HighPct /\ HighPct <= CriticalPct
  BY ShiftAssumption
<1>3. MediumPct * Base(a, b) <= HighPct * Base(a, b) /\ HighPct * Base(a, b) <= CriticalPct * Base(a, b)
  BY <1>1, <1>2, TimesKeepsOrder
<1>4. MediumPct * Base(a, b) \in Int /\ HighPct * Base(a, b) \in Int /\ CriticalPct * Base(a, b) \in Int
  BY <1>1, <1>2
<1>5. QED
  BY <1>1, <1>3, <1>4 DEF PctReaches

LEMMA ScaleFollows == ShiftTypeOK => SameScale
<1> SUFFICES ASSUME ShiftTypeOK, NEW k \in PageKpis, NEW sh \in Shifts, NEW th \in Shifts,
                    NEW f \in PlantForemen, NEW g \in PlantForemen,
                    Enough(Stats(sh, k)[f]), Enough(Stats(th, k)[g])
             PROVE  LET a == Stats(sh, k)[f]
                        b == Stats(th, k)[g]
                        c == _compare_pair(f, a, g, b, k)
                        l == classify_diff_level(a, b)
                        severity == IF c = None THEN "none" ELSE c.severity
                    IN  /\ l = _shift_diff_classification(a, b)
                        /\ severity = "high" <=> l \in {"significant", "critical"}
                        /\ severity = "medium" <=> l = "attention"
                        /\ severity = "none" <=> l = "normal"
  BY DEF SameScale
<1> DEFINE a == Stats(sh, k)[f]
           b == Stats(th, k)[g]
           c == _compare_pair(f, a, g, b, k)
<1>1. Fraction(a) /\ Fraction(b)
  BY EnoughIs DEF ShiftTypeOK, PlantRecords
<1>2. (IF c = None THEN "none" ELSE c.severity) = Severity(a, b)
  BY ComparisonIs
<1>3. Enough(a) /\ Enough(b)
  OBVIOUS
<1> HIDE DEF a, b, c
<1>4. /\ PctReaches(a, b, CriticalPct) => PctReaches(a, b, HighPct)
      /\ PctReaches(a, b, HighPct) => PctReaches(a, b, MediumPct)
  BY <1>1, LowerReached
<1>5. /\ classify_diff_level(a, b) = _shift_diff_classification(a, b)
      /\ Severity(a, b) = "high" <=> classify_diff_level(a, b) \in {"significant", "critical"}
      /\ Severity(a, b) = "medium" <=> classify_diff_level(a, b) = "attention"
      /\ Severity(a, b) = "none" <=> classify_diff_level(a, b) = "normal"
  BY <1>3, <1>4 DEF classify_diff_level, _shift_diff_classification, Severity
<1>6. QED
  BY <1>2, <1>5 DEF a, b, c

\* The rows of a shift are those of its foremen.
LEMMA RowsSplit ==
  ASSUME NEW k \in PageKpis, NEW sh \in Shifts, NEW T \in SUBSET PlantForemen, NEW f \in T
  PROVE  /\ _fetch_raw_rows(T, {sh}, k)
              = _fetch_raw_rows(T \ {f}, {sh}, k) \cup _fetch_raw_rows({f}, {sh}, k)
         /\ _fetch_raw_rows(T \ {f}, {sh}, k) \cap _fetch_raw_rows({f}, {sh}, k) = {}
BY DEF _fetch_raw_rows

\* If all foremen of a shift are on one side of a value, so is the shift.
LEMMA SameSide ==
  ASSUME rows \in [Slots -> PlantRecords], NEW k \in PageKpis, NEW sh \in Shifts,
         NEW n \in Int, NEW d \in Nat, NEW e \in {1, -1},
         \A f \in PlantForemen :
            LET S == _fetch_raw_rows({f}, {sh}, k)
            IN  S # {} => e * (Total(Column(k, "num"), S) * d - n * Total(Column(k, "den"), S)) < 0
  PROVE  LET S == _fetch_raw_rows(PlantForemen, {sh}, k)
         IN  S # {} => e * (Total(Column(k, "num"), S) * d - n * Total(Column(k, "den"), S)) < 0
<1> DEFINE R(T) == _fetch_raw_rows(T, {sh}, k)
           num(T) == Total(Column(k, "num"), R(T))
           den(T) == Total(Column(k, "den"), R(T))
           side(T) == e * (num(T) * d - n * den(T))
           Bad == {T \in SUBSET PlantForemen : R(T) # {} /\ ~(side(T) < 0)}
<1>0. \A f \in PlantForemen : R({f}) # {} => side({f}) < 0
  OBVIOUS
<1>1. /\ \A T : R(T) \in SUBSET Slots
      /\ IsFiniteSet(Slots)
      /\ \A s \in Slots : Column(k, "num")[s] \in Int /\ Column(k, "den")[s] \in Int
  BY SlotsAre, ColumnIs DEF _fetch_raw_rows
<1>2. \A T : num(T) \in Int /\ den(T) \in Int
  <2> HIDE DEF R
  <2>1. QED
    BY <1>1, TotalInt
<1>3. ASSUME NEW T \in SUBSET PlantForemen, NEW f \in T
      PROVE  num(T) = num(T \ {f}) + num({f}) /\ den(T) = den(T \ {f}) + den({f})
  <2>1. R(T) = R(T \ {f}) \cup R({f}) /\ R(T \ {f}) \cap R({f}) = {}
    BY RowsSplit
  <2> DEFINE A == R({f})
             B == R(T \ {f})
  <2>2. A \in SUBSET Slots /\ B \in SUBSET Slots /\ B \cap A = {} /\ R(T) = B \cup A
    BY <1>1, <2>1
  <2>3. /\ num(T) = Total(Column(k, "num"), R(T)) /\ den(T) = Total(Column(k, "den"), R(T))
        /\ num({f}) = Total(Column(k, "num"), A) /\ den({f}) = Total(Column(k, "den"), A)
        /\ num(T \ {f}) = Total(Column(k, "num"), B) /\ den(T \ {f}) = Total(Column(k, "den"), B)
    OBVIOUS
  <2> HIDE DEF A, B, R, num, den
  <2>4. \A c : (\A s \in Slots : Column(k, c)[s] \in Int) =>
          Total(Column(k, c), B \cup A) = Total(Column(k, c), B) + Total(Column(k, c), A)
    BY <1>1, <2>2, TotalUnion
  <2>5. QED
    BY <1>1, <2>2, <2>3, <2>4
<1>4. \A T : R(T) = {} => num(T) = 0 /\ den(T) = 0
  BY TotalEmpty
<1>5. ASSUME NEW T, R(T) # {} PROVE \E f \in T : R({f}) # {}
  BY <1>5 DEF _fetch_raw_rows
<1>9. R({}) = {}
  BY DEF _fetch_raw_rows
<1> HIDE DEF R, num, den
<1>6. ASSUME NEW T \in SUBSET PlantForemen, NEW f \in T
      PROVE  side(T) = side(T \ {f}) + side({f}) /\ side(T) \in Int /\ side(T \ {f}) \in Int /\ side({f}) \in Int
  <2> DEFINE n1 == num(T \ {f})
             n2 == num({f})
             d1 == den(T \ {f})
             d2 == den({f})
  <2>1. n1 \in Int /\ n2 \in Int /\ d1 \in Int /\ d2 \in Int
    BY <1>2
  <2>2. num(T) = n1 + n2 /\ den(T) = d1 + d2
    BY <1>3
  <2> HIDE DEF n1, n2, d1, d2
  <2>3. /\ (n1 + n2) * d = n1 * d + n2 * d /\ n * (d1 + d2) = n * d1 + n * d2
        /\ n1 * d \in Int /\ n2 * d \in Int /\ n * d1 \in Int /\ n * d2 \in Int
    BY <2>1
  <2>4. \A x, y \in Int : e * (x + y) = e * x + e * y /\ e * x \in Int
    OBVIOUS
  <2>5. (n1 + n2) * d - n * (d1 + d2) = (n1 * d - n * d1) + (n2 * d - n * d2)
    BY <2>3
  <2>6. side(T) = e * ((n1 * d - n * d1) + (n2 * d - n * d2))
    BY <2>2, <2>5
  <2>7. side(T \ {f}) = e * (n1 * d - n * d1) /\ side({f}) = e * (n2 * d - n * d2)
    BY DEF n1, n2, d1, d2
  <2>8. n1 * d - n * d1 \in Int /\ n2 * d - n * d2 \in Int
    BY <2>3
  <2> HIDE DEF side
  <2>9. QED
    BY <2>4, <2>6, <2>7, <2>8
<1>7. Bad = {}
  <2> SUFFICES ASSUME Bad # {} PROVE FALSE
    OBVIOUS
  <2>1. PICK X \in Bad : \A Y \in Bad : Y \subseteq X => Y = X
    <3> HIDE DEF Bad
    <3>1. Bad \subseteq SUBSET PlantForemen
      BY DEF Bad
    <3>2. QED
      BY <3>1, SlotsAre, SmallestSet
  <2>2. PICK f \in X : R({f}) # {}
    BY <1>5
  <2>3. side({f}) < 0 /\ side(X) = side(X \ {f}) + side({f}) /\ ~(side(X) < 0)
        /\ side(X \ {f}) \in Int /\ side({f}) \in Int
    BY <1>0, <1>6, <2>2
  <2>4. X \ {f} \in SUBSET PlantForemen /\ X \ {f} # X /\ X \ {f} \subseteq X
    BY <2>2
  <2>5. R(X \ {f}) # {} => side(X \ {f}) < 0
    BY <2>1, <2>4
  <2>6. R(X \ {f}) = {} => side(X \ {f}) = 0
    <3>1. ASSUME R(X \ {f}) = {} PROVE side(X \ {f}) = 0
      <4>1. num(X \ {f}) = 0 /\ den(X \ {f}) = 0
        BY <1>4, <3>1
      <4>2. num(X \ {f}) * d = 0 /\ n * den(X \ {f}) = 0
        BY <4>1
      <4>3. side(X \ {f}) = e * 0
        BY <4>2
      <4>4. QED
        BY <4>3
    <3>2. QED
      BY <3>1
  <2> DEFINE less == side(X \ {f})
             one  == side({f})
             all  == side(X)
  <2>7. /\ one < 0 /\ all = less + one /\ ~(all < 0) /\ less \in Int /\ one \in Int
        /\ (less < 0 \/ less = 0)
    BY <2>3, <2>5, <2>6
  <2> HIDE DEF less, one, all
  <2>8. QED
    BY <2>7
<1>8. QED
  BY <1>7 DEF R, num, den

\* Somebody does as well as his shift, and somebody no better.
LEMMA ShiftAmongForemen ==
  ASSUME rows \in [Slots -> PlantRecords], NEW k \in PageKpis, NEW sh \in Shifts,
         _foreman_stat(PlantForemen, {sh}, k) # None
  PROVE  LET v == _foreman_stat(PlantForemen, {sh}, k)
             F == {f \in PlantForemen : Stats(sh, k)[f] # None}
         IN  /\ \E f \in F : Cross(Stats(sh, k)[f], v) >= 0
             /\ \E f \in F : Cross(Stats(sh, k)[f], v) <= 0
<1> DEFINE v == _foreman_stat(PlantForemen, {sh}, k)
           F == {f \in PlantForemen : Stats(sh, k)[f] # None}
           R(T) == _fetch_raw_rows(T, {sh}, k)
           num(T) == Total(Column(k, "num"), R(T))
           den(T) == Total(Column(k, "den"), R(T))
<1>1. R(PlantForemen) # {} /\ v.num = num(PlantForemen) /\ v.den = den(PlantForemen) /\ Fraction(v)
  BY StatIs
<1>2. \A f \in PlantForemen :
        /\ R({f}) = {} <=> Stats(sh, k)[f] = None
        /\ R({f}) # {} => Stats(sh, k)[f].num = num({f}) /\ Stats(sh, k)[f].den = den({f})
                          /\ Fraction(Stats(sh, k)[f])
  <2>1. \A f \in PlantForemen : Stats(sh, k)[f] = _foreman_stat({f}, {sh}, k)
    BY DEF Stats
  <2>2. QED
    BY <2>1, StatIs
<1>3. v.num \in Int /\ v.den \in Nat
  BY <1>1 DEF Fraction
<1> HIDE DEF v
<1>4. \A f \in PlantForemen : R({f}) # {} =>
        Cross(Stats(sh, k)[f], v) = num({f}) * v.den - v.num * den({f}) /\ Cross(Stats(sh, k)[f], v) \in Int
  <2>1. \A f \in PlantForemen : R({f}) # {} => Cross(Stats(sh, k)[f], v) \in Int
    BY <1>1, <1>2, CrossIs
  <2>2. QED
    BY <1>2, <2>1 DEF Cross
<1>5. num(PlantForemen) * v.den - v.num * den(PlantForemen) = 0
  <2>1. v.num * v.den \in Int
    BY <1>3
  <2>2. QED
    BY <1>1, <2>1
<1>6. ASSUME NEW e \in {1, -1}, \A f \in F : e * Cross(Stats(sh, k)[f], v) < 0 PROVE FALSE
  <2>1. \A f \in PlantForemen : R({f}) # {} => e * (num({f}) * v.den - v.num * den({f})) < 0
    BY <1>2, <1>4, <1>6
  <2>2. e * (num(PlantForemen) * v.den - v.num * den(PlantForemen)) < 0
    BY <1>1, <1>3, <2>1, SameSide
  <2>3. e * 0 < 0
    BY <1>5, <2>2
  <2>4. QED
    BY <2>3
<1>7. \A f \in F : Cross(Stats(sh, k)[f], v) \in Int
  BY <1>2, <1>4
<1>8. \E f \in F : Cross(Stats(sh, k)[f], v) >= 0
  <2> SUFFICES ASSUME \A f \in F : Cross(Stats(sh, k)[f], v) < 0 PROVE FALSE
    BY <1>7
  <2>1. \A f \in F : 1 * Cross(Stats(sh, k)[f], v) < 0
    BY <1>7
  <2>2. QED
    BY <1>6, <2>1
<1>9. \E f \in F : Cross(Stats(sh, k)[f], v) <= 0
  <2> SUFFICES ASSUME \A f \in F : Cross(Stats(sh, k)[f], v) > 0 PROVE FALSE
    BY <1>7
  <2>1. \A f \in F : (-1) * Cross(Stats(sh, k)[f], v) < 0
    BY <1>7
  <2>2. QED
    BY <1>6, <2>1
<1>10. QED
  BY <1>8, <1>9 DEF v

LEMMA HeatFollows == ShiftInv => HeatWithinForemen
<1> SUFFICES ASSUME ShiftInv, at = "heatmap", NEW c \in heat, NEW sh \in {0, 1},
                    NEW v, v = IF sh = 0 THEN c.v1 ELSE c.v2, v # None
             PROVE  LET F == {f \in PlantForemen : Stats(sh, c.kpi)[f] # None}
                    IN  /\ \E f \in F : Cross(Stats(sh, c.kpi)[f], v) >= 0
                        /\ \E f \in F : Cross(Stats(sh, c.kpi)[f], v) <= 0
  BY DEF HeatWithinForemen
<1>1. rows \in [Slots -> PlantRecords]
  BY DEF ShiftInv, ShiftTypeOK, PlantRecords
<1>2. PICK k \in PageKpis : c = HeatmapCell(k)
  BY DEF ShiftInv, HeatShape, build_heatmap
<1>3. c.kpi = k /\ v = _foreman_stat(PlantForemen, {sh}, k)
  BY <1>2 DEF HeatmapCell
<1>4. sh \in Shifts
  BY ShiftAssumption DEF Shifts
<1>5. QED
  BY <1>1, <1>3, <1>4, ShiftAmongForemen

-----------------------------------------------------------------------------
(* The sentence under the matrix.                                          *)

LEMMA MinIs == \A S \in SUBSET Nat : S # {} => Min(S) \in S /\ \A x \in S : Min(S) <= x
<1> SUFFICES ASSUME NEW S \in SUBSET Nat, S # {} PROVE Min(S) \in S /\ \A x \in S : Min(S) <= x
  OBVIOUS
<1>1. \E m \in S : \A x \in S : m <= x
  BY SmallestNumber
<1>2. QED
  BY <1>1 DEF Min

LEMMA FirstTwoAre ==
  ASSUME NEW cells, NEW sh, FirstTwo(cells, sh) # {}
  PROVE  Cardinality(FirstTwo(cells, sh)) = 2
<1> DEFINE V == {f \in PlantForemen : cells[sh][f] # None}
           W == V \ {Min(V)}
<1>1. Cardinality(V) >= 2 /\ FirstTwo(cells, sh) = {Min(V), Min(W)}
  <2>1. Cardinality(V) \in Nat
    BY SlotsAre, FS_Subset, FS_CardinalityType
  <2>2. ~(Cardinality(V) < 2)
    BY DEF FirstTwo
  <2>3. FirstTwo(cells, sh) = IF Cardinality(V) < 2 THEN {} ELSE {Min(V), Min(W)}
    BY DEF FirstTwo
  <2> HIDE DEF V, W
  <2>4. QED
    BY <2>1, <2>2, <2>3
<1>2. V \in SUBSET Nat /\ W \in SUBSET Nat
  BY ShiftAssumption DEF PlantForemen
<1>3. V # {}
  BY <1>1, FS_EmptySet
<1>4. W # {}
  <2>1. ASSUME W = {} PROVE FALSE
    <3>1. V = {Min(V)}
      <4>1. Min(V) \in V
        BY <1>2, <1>3, MinIs
      <4> HIDE DEF V
      <4>2. QED
        BY <2>1, <4>1
    <3> HIDE DEF V
    <3>2. Cardinality(V) = 1
      BY <3>1, FS_Singleton
    <3>3. QED
      BY <1>1, <3>2
  <2>2. QED
    BY <2>1
<1>5. Min(W) \in W
  BY <1>2, <1>4, MinIs
<1> DEFINE x == Min(V)
           y == Min(W)
<1>6. x # y /\ FirstTwo(cells, sh) = {x, y}
  BY <1>1, <1>5
<1> HIDE DEF x, y
<1>7. QED
  BY <1>6, PairCardinality

LEMMA InsightFollows == MatrixShape => InsightMatchesMatrix
<1> SUFFICES ASSUME MatrixShape, at = "sentence" PROVE InsightMatchesMatrix
  BY DEF InsightMatchesMatrix
<1> DEFINE cells  == matrix.cells
           i      == matrix.insight
           effect == {f \in Shown(cells) : ShiftEffect(cells, f)}
           apart  == {sh \in Shifts : PairEffect(cells, sh)}
           m      == Min(apart)
<1>0. i = _build_matrix_insight(cells)
  BY DEF MatrixShape
<1> HIDE DEF cells, i
<1>1. i = IF Cardinality(Shown(cells)) < 2 THEN Sentence("nodata", {}, -1)
          ELSE IF effect = Shown(cells) THEN Sentence("shift", effect, -1)
          ELSE IF Cardinality(effect) = 1 THEN Sentence("foreman", effect, -1)
          ELSE IF apart # {} THEN Sentence("pair", FirstTwo(cells, m), m)
          ELSE Sentence("stable", {}, -1)
  BY <1>0 DEF _build_matrix_insight
<1>2. IsFiniteSet(Shown(cells)) /\ effect \subseteq Shown(cells)
  BY SlotsAre, FS_Subset DEF Shown
<1>3. apart # {} => m \in Shifts /\ PairEffect(cells, m)
  <2>1. apart \in SUBSET Nat
    <3>1. Shifts \subseteq Nat
      BY ShiftAssumption DEF Shifts
    <3>2. QED
      BY <3>1
  <2>2. apart # {} => m \in apart
    BY <2>1, MinIs
  <2> HIDE DEF m
  <2>3. QED
    BY <2>2
<1> HIDE DEF effect, apart, m
<1>4. \A kind, who, shift : /\ Sentence(kind, who, shift).kind = kind
                            /\ Sentence(kind, who, shift).who = who
                            /\ Sentence(kind, who, shift).shift = shift
  BY DEF Sentence
<1> DEFINE few   == Cardinality(Shown(cells)) < 2
           whole == effect = Shown(cells)
           lone  == Cardinality(effect) = 1
           some  == apart # {}
           two   == FirstTwo(cells, m)
<1>5. /\ few => i.kind = "nodata"
      /\ ~few /\ whole => i.kind = "shift" /\ i.who = effect
      /\ ~few /\ ~whole /\ lone => i.kind = "foreman" /\ i.who = effect
      /\ ~few /\ ~whole /\ ~lone /\ some => i.kind = "pair" /\ i.who = two /\ i.shift = m
      /\ ~few /\ ~whole /\ ~lone /\ ~some => i.kind = "stable"
  <2>1. /\ few => i = Sentence("nodata", {}, -1)
        /\ ~few /\ whole => i = Sentence("shift", effect, -1)
        /\ ~few /\ ~whole /\ lone => i = Sentence("foreman", effect, -1)
        /\ ~few /\ ~whole /\ ~lone /\ some => i = Sentence("pair", two, m)
        /\ ~few /\ ~whole /\ ~lone /\ ~some => i = Sentence("stable", {}, -1)
    BY <1>1
  <2>2. few => i.kind = "nodata"
    BY <2>1, <1>4
  <2>3. ~few /\ whole => i.kind = "shift" /\ i.who = effect
    BY <2>1, <1>4
  <2>4. ~few /\ ~whole /\ lone => i.kind = "foreman" /\ i.who = effect
    BY <2>1, <1>4
  <2>5. ~few /\ ~whole /\ ~lone /\ some => i.kind = "pair" /\ i.who = two /\ i.shift = m
    BY <2>1, <1>4
  <2>6. ~few /\ ~whole /\ ~lone /\ ~some => i.kind = "stable"
    BY <2>1, <1>4
  <2> HIDE DEF few, whole, lone, some, two
  <2>7. QED
    BY <2>2, <2>3, <2>4, <2>5, <2>6
<1>6. /\ i.kind = "shift" => whole /\ i.who = effect
      /\ i.kind = "foreman" => effect = i.who
      /\ i.kind = "pair" => some /\ i.who = two /\ i.shift = m
      /\ i.kind = "stable" => ~few /\ ~whole /\ ~lone /\ ~some
  <2> HIDE DEF few, whole, lone, some, two
  <2>1. QED
    BY <1>5
<1>7. ASSUME i.kind = "pair"
      PROVE  /\ Cardinality(i.who) = 2
             /\ _shift_diff_classification(cells[i.shift][Min(i.who)], cells[i.shift][Max(i.who)]) # "normal"
  <2>1. i.who = two /\ i.shift = m /\ PairEffect(cells, m)
    BY <1>3, <1>6, <1>7
  <2>2. two # {} /\ _shift_diff_classification(cells[m][Min(two)], cells[m][Max(two)]) \in NON_NORMAL_LEVELS
    BY <2>1 DEF PairEffect
  <2>3. Cardinality(two) = 2
    BY <2>2, FirstTwoAre
  <2> HIDE DEF two
  <2>4. QED
    BY <2>1, <2>2, <2>3 DEF NON_NORMAL_LEVELS
<1>8. ASSUME i.kind = "stable", Cardinality(Shown(cells)) = 2
      PROVE  effect = {} /\ apart = {}
  <2>1. effect # Shown(cells) /\ Cardinality(effect) # 1 /\ apart = {}
    BY <1>6, <1>8
  <2>2. IsFiniteSet(effect) /\ Cardinality(effect) <= 2
    BY <1>2, <1>8, FS_Subset
  <2>3. Cardinality(effect) # 2
    BY <1>2, <1>8, <2>1, FS_Subset
  <2>4. Cardinality(effect) \in Nat
    BY <2>2, FS_CardinalityType
  <2>5. Cardinality(effect) = 0
    <3>1. \A n \in Nat : n <= 2 /\ n # 2 /\ n # 1 => n = 0
      OBVIOUS
    <3>2. QED
      BY <3>1, <2>1, <2>2, <2>3, <2>4
  <2>6. QED
    BY <2>1, <2>2, <2>5, FS_EmptySet
<1>9. QED
  BY <1>6, <1>7, <1>8 DEF InsightMatchesMatrix, cells, i, effect, apart

-----------------------------------------------------------------------------
(* Steps that leave the records alone leave what is computed from them.     *)

LEMMA RowsDecide ==
  ASSUME rows' = rows
  PROVE  /\ \A sh, k : Stats(sh, k)' = Stats(sh, k)
         /\ \A sh, k : CellComparison(sh, k)' = CellComparison(sh, k)
         /\ build_cards' = build_cards /\ build_heatmap' = build_heatmap
         /\ \A sh, k, c : _cross_kpi_signals(sh, k, c)' = _cross_kpi_signals(sh, k, c)
         /\ \A f : _fetch_assigned_week_indices(f)' = _fetch_assigned_week_indices(f)
<1>1. /\ \A k, c : Column(k, c)' = Column(k, c)
      /\ \A fs, shs, k : _fetch_raw_rows(fs, shs, k)' = _fetch_raw_rows(fs, shs, k)
      /\ \A f : _fetch_assigned_week_indices(f)' = _fetch_assigned_week_indices(f)
  BY DEF Column, _fetch_raw_rows, _fetch_assigned_week_indices
<1>2. \A fs, shs, k : _foreman_stat(fs, shs, k)' = _foreman_stat(fs, shs, k)
  BY <1>1 DEF _foreman_stat, Fields
<1>3. \A sh, k : Stats(sh, k)' = Stats(sh, k)
  BY <1>2 DEF Stats
<1>4. \A sh, k : CellComparison(sh, k)' = CellComparison(sh, k)
  <2> DEFINE Ends(st, k) ==
               LET Q == _extreme_pair(st)
               IN  IF Cardinality(Q) < 2 THEN None
                   ELSE LET best  == CHOOSE f \in Q : \A g \in Q : Cross(st[f], st[g]) >= 0
                            worst == CHOOSE f \in Q : \A g \in Q : Cross(st[f], st[g]) <= 0
                        IN  _compare_pair(best, st[best], worst, st[worst], k)
  <2>1. \A sh, k : CellComparison(sh, k) = Ends(Stats(sh, k), k)
    BY DEF CellComparison
  <2>2. \A sh, k : CellComparison(sh, k)' = Ends(Stats(sh, k)', k)
    BY DEF CellComparison
  <2> HIDE DEF Ends
  <2>3. QED
    BY <1>3, <2>1, <2>2
<1>5. build_cards' = build_cards /\ build_heatmap' = build_heatmap
  BY <1>2, <1>4 DEF build_cards, build_heatmap, HeatmapCell
<1>6. \A sh, k, c : _cross_kpi_signals(sh, k, c)' = _cross_kpi_signals(sh, k, c)
  BY <1>3 DEF _cross_kpi_signals
<1>7. QED
  BY <1>1, <1>3, <1>4, <1>5, <1>6

\* What ingestion stores is a record of the shift the source names.
LEMMA ShiftOf ==
  /\ \A s \in Slots : resolve_assignment(s[1], s[2]) \in Shifts
  /\ \A sh \in Shifts : (sh + 1) % NShifts \in Shifts /\ sh # -1
<1>1. NShifts \in Nat \ {0}
  BY ShiftAssumption
<1>2. \A n \in Nat : n % NShifts \in Shifts
  BY <1>1 DEF Shifts
<1>3. Shifts \subseteq Nat
  BY <1>1 DEF Shifts
<1>4. ASSUME NEW s \in Slots PROVE resolve_assignment(s[1], s[2]) \in Shifts
  <2> DEFINE mine(a) == a.foreman = s[1] /\ a.from <= s[2] /\ s[2] <= a.to
             a == CHOOSE a \in Assignments : mine(a)
  <2>1. PICK b \in Assignments : s \in {b.foreman} \X (b.from .. b.to)
    BY DEF Slots
  <2>2. b.foreman \in PlantForemen /\ b.from \in Nat /\ b.to \in Nat
    BY ShiftAssumption
  <2>3. mine(b) /\ s[2] \in Nat
    BY <2>1, <2>2
  <2>4. a \in Assignments
    <3> HIDE DEF mine
    <3>1. QED
      BY <2>3
  <2>5. a.shift \in Shifts
    BY <2>4, ShiftAssumption
  <2>6. resolve_assignment(s[1], s[2]) = (a.shift + s[2]) % NShifts
    BY DEF resolve_assignment, actual_shift_for_date
  <2> HIDE DEF a
  <2>7. a.shift + s[2] \in Nat
    <3>1. a.shift \in Nat
      BY <1>3, <2>5
    <3>2. s[2] \in Nat
      BY <2>3
    <3> HIDE DEF mine
    <3>3. QED
      BY <3>1, <3>2
  <2>8. QED
    BY <1>2, <2>6, <2>7
<1>5. QED
  BY <1>2, <1>3, <1>4

LEMMA StoredIs ==
  \A s \in Slots, sh \in Shifts, b \in Batches \cup Corrections \cup {NoRows.vals} :
     /\ Stored(s[1], s[2], sh, b) \in [shift : Shifts, vals : [PageKpis -> Sums]]
     /\ Stored(s[1], s[2], sh, b) # NoRows
<1> SUFFICES ASSUME NEW s \in Slots, NEW sh \in Shifts, NEW b \in Batches \cup Corrections \cup {NoRows.vals}
             PROVE  /\ Stored(s[1], s[2], sh, b) \in [shift : Shifts, vals : [PageKpis -> Sums]]
                    /\ Stored(s[1], s[2], sh, b) # NoRows
  OBVIOUS
<1>1. NoRows.vals \in [PageKpis -> Sums] /\ NoRows.shift = -1
  BY DEF NoRows, Sums
<1>2. b \in [PageKpis -> Sums]
  BY <1>1, ShiftAssumption
<1>3. Stored(s[1], s[2], sh, b).shift = sh
  BY DEF Stored
<1>4. Stored(s[1], s[2], sh, b) \in [shift : Shifts, vals : [PageKpis -> Sums]]
  BY <1>1, <1>2 DEF Stored
<1>5. sh # -1
  BY ShiftOf
<1>6. QED
  BY <1>1, <1>3, <1>4, <1>5

-----------------------------------------------------------------------------
(* The invariant.                                                          *)

LEMMA ShiftStart == ShiftInit => ShiftInv
<1> SUFFICES ASSUME ShiftInit PROVE ShiftInv
  OBVIOUS
<1> USE DEF ShiftInit
<1>1. rows \in [Slots -> PlantRecords]
  <2> DEFINE start(worked, elsewhere, b) ==
               [s \in Slots |->
                  IF s \notin worked THEN NoRows
                  ELSE LET sh == resolve_assignment(s[1], s[2])
                       IN  IF s \in elsewhere
                           THEN Stored(s[1], s[2], (sh + 1) % NShifts, NoRows.vals)
                           ELSE Stored(s[1], s[2], sh, b[s])]
  <2>1. PICK worked \in SUBSET Slots :
          \E elsewhere \in SUBSET worked : \E b \in [worked \ elsewhere -> Batches] :
             rows = start(worked, elsewhere, b)
    OBVIOUS
  <2>2. PICK elsewhere \in SUBSET worked :
          \E b \in [worked \ elsewhere -> Batches] : rows = start(worked, elsewhere, b)
    BY <2>1
  <2>3. PICK b : b \in [worked \ elsewhere -> Batches] /\ rows = start(worked, elsewhere, b)
    BY <2>2
  <2>4. ASSUME NEW s \in Slots
        PROVE  rows[s] \in PlantRecords
    <3> DEFINE sh == resolve_assignment(s[1], s[2])
    <3>1. sh \in Shifts /\ (sh + 1) % NShifts \in Shifts
      BY ShiftOf
    <3>2. rows[s] = IF s \notin worked THEN NoRows
                    ELSE IF s \in elsewhere THEN Stored(s[1], s[2], (sh + 1) % NShifts, NoRows.vals)
                    ELSE Stored(s[1], s[2], sh, b[s])
      BY <2>3
    <3> HIDE DEF sh
    <3>3. s \in worked /\ s \notin elsewhere => b[s] \in Batches
      BY <2>3
    <3>4. s \in worked /\ s \notin elsewhere => Stored(s[1], s[2], sh, b[s]) \in PlantRecords
      BY <3>1, <3>3, StoredIs DEF PlantRecords
    <3>5. Stored(s[1], s[2], (sh + 1) % NShifts, NoRows.vals) \in PlantRecords
      BY <3>1, StoredIs DEF PlantRecords
    <3>6. NoRows \in PlantRecords
      BY DEF PlantRecords
    <3>7. QED
      BY <3>2, <3>4, <3>5, <3>6
  <2>5. QED
    BY <2>3, <2>4
<1>2. ShiftTypeOK
  BY <1>1, ShiftAssumption DEF ShiftTypeOK, PlantRecords
<1>3. ListShape /\ HeatShape /\ MatrixShape /\ PairShape /\ WeeksShape
  BY DEF ListShape, HeatShape, MatrixShape, PairShape, WeeksShape, WithDetail
<1>4. ChartExplained
  BY DEF ChartExplained, PatternMatchesChart, EmptyWeekExplained
<1>5. QED
  BY <1>2, <1>3, <1>4 DEF ShiftInv

\* No page but the weekly chart is opened from the start.
LEMMA ListStep == ShiftInv /\ LoadCards => ShiftInv'
<1> SUFFICES ASSUME ShiftInv, LoadCards PROVE ShiftInv'
  OBVIOUS
<1> USE DEF ShiftInv, LoadCards
<1>1. rows' = rows
  OBVIOUS
<1>2. ShiftTypeOK'
  BY DEF ShiftTypeOK
<1>3. ListShape'
  BY RowsDecide DEF ListShape
<1>4. HeatShape' /\ MatrixShape' /\ PairShape' /\ WeeksShape'
  BY DEF HeatShape, MatrixShape, PairShape, WeeksShape, WithDetail
<1>5. ChartExplained'
  BY DEF ChartExplained, PatternMatchesChart, EmptyWeekExplained
<1>6. QED
  BY <1>2, <1>3, <1>4, <1>5

LEMMA HeatStep == ShiftInv /\ LoadHeatmap => ShiftInv'
<1> SUFFICES ASSUME ShiftInv, LoadHeatmap PROVE ShiftInv'
  OBVIOUS
<1> USE DEF ShiftInv, LoadHeatmap
<1>1. rows' = rows
  OBVIOUS
<1>2. ShiftTypeOK'
  <2>1. {c.kpi : c \in build_heatmap} = PageKpis
    <3>1. \A k : HeatmapCell(k).kpi = k
      BY DEF HeatmapCell
    <3>2. QED
      BY <3>1 DEF build_heatmap
  <2>2. QED
    BY <2>1 DEF ShiftTypeOK
<1>3. ListShape'
  BY DEF ListShape, WithDetail
<1>4. HeatShape'
  BY RowsDecide DEF HeatShape
<1>5. MatrixShape' /\ PairShape' /\ WeeksShape'
  BY DEF MatrixShape, PairShape, WeeksShape, WithDetail
<1>6. ChartExplained'
  BY DEF ChartExplained, PatternMatchesChart, EmptyWeekExplained
<1>7. QED
  BY <1>2, <1>3, <1>4, <1>5, <1>6

LEMMA OpenMatrixStep == \A k \in PageKpis : ShiftInv /\ OpenMatrix(k) => ShiftInv'
<1> SUFFICES ASSUME NEW k \in PageKpis, ShiftInv, OpenMatrix(k) PROVE ShiftInv'
  OBVIOUS
<1> USE DEF ShiftInv, OpenMatrix
<1>1. ShiftTypeOK'
  BY DEF ShiftTypeOK
<1>2. ListShape' /\ HeatShape' /\ PairShape' /\ WeeksShape'
  BY DEF ListShape, HeatShape, PairShape, WeeksShape, WithDetail
<1>3. MatrixShape'
  BY DEF MatrixShape
<1>4. ChartExplained'
  BY DEF ChartExplained, PatternMatchesChart, EmptyWeekExplained
<1>5. QED
  BY <1>1, <1>2, <1>3, <1>4

LEMMA MatrixStep == ShiftInv /\ build_foreman_shift_matrix => ShiftInv'
<1> SUFFICES ASSUME ShiftInv, build_foreman_shift_matrix PROVE ShiftInv'
  OBVIOUS
<1> USE DEF ShiftInv
<1>1. /\ at = "matrix" /\ at' \in {"matrix", "sentence"}
      /\ UNCHANGED <<rows, changes, cards, heat, detail>>
  BY DEF build_foreman_shift_matrix
<1>2. ShiftTypeOK'
  BY <1>1 DEF ShiftTypeOK
<1>3. ListShape' /\ HeatShape' /\ PairShape' /\ WeeksShape'
  BY <1>1 DEF ListShape, HeatShape, PairShape, WeeksShape, WithDetail
<1>4. MatrixShape'
  <2>1. DOMAIN matrix = {"kpi", "read", "cells", "insight"}
    BY <1>1 DEF MatrixShape
  <2>2. PICK n, cs, i : /\ matrix' = [matrix EXCEPT !.read = n, !.cells = cs, !.insight = i]
                        /\ at' = "sentence" => i = _build_matrix_insight(cs)
    BY DEF build_foreman_shift_matrix
  <2>3. DOMAIN matrix' = DOMAIN matrix /\ matrix'.cells = cs /\ matrix'.insight = i
    BY <2>1, <2>2
  <2>4. QED
    BY <2>1, <2>2, <2>3 DEF MatrixShape
<1>5. ChartExplained'
  BY <1>1 DEF ChartExplained, PatternMatchesChart, EmptyWeekExplained
<1>6. QED
  BY <1>2, <1>3, <1>4, <1>5

LEMMA DetailStep == \A sh \in Shifts, k \in PageKpis : ShiftInv /\ OpenDetail(sh, k) => ShiftInv'
<1> SUFFICES ASSUME NEW sh \in Shifts, NEW k \in PageKpis, ShiftInv, OpenDetail(sh, k) PROVE ShiftInv'
  OBVIOUS
<1>0. PICK c : c = CellComparison(sh, k)
  OBVIOUS
<1>1. /\ at = "cards" /\ at' \in {"missing", "pair"}
      /\ rows' = rows /\ changes' = changes /\ cards' = cards /\ heat' = heat /\ matrix' = matrix
      /\ detail'.shift = sh /\ detail'.kpi = k
      /\ at' = "missing" => c = None
      /\ at' = "pair" => /\ c # None /\ detail'.card = Card(sh, k, c)
                         /\ detail'.signals = _cross_kpi_signals(sh, k, c)
  BY <1>0 DEF OpenDetail, NotFound
<1>2. ShiftTypeOK'
  BY <1>1 DEF ShiftInv, ShiftTypeOK
<1>3. ListShape'
  BY <1>1, RowsDecide DEF ShiftInv, ListShape, WithDetail
<1>4. HeatShape' /\ MatrixShape' /\ WeeksShape'
  BY <1>1 DEF HeatShape, MatrixShape, WeeksShape
<1>5. PairShape'
  <2>1. /\ CellComparison(sh, k)' = c
        /\ _cross_kpi_signals(sh, k, c)' = _cross_kpi_signals(sh, k, c)
    BY <1>0, <1>1, RowsDecide
  <2>2. CellComparison(detail.shift, detail.kpi)' = c
    BY <1>1, <2>1
  <2>3. _cross_kpi_signals(detail.shift, detail.kpi, CellComparison(detail.shift, detail.kpi))'
          = _cross_kpi_signals(sh, k, c)
    BY <1>1, <2>1, <2>2
  <2>4. detail'.shift \in Shifts /\ detail'.kpi \in PageKpis
    BY <1>1
  <2>5. at' = "missing" => CellComparison(detail.shift, detail.kpi)' = None
    BY <1>1, <2>2
  <2>6. at' = "pair" =>
          /\ CellComparison(detail.shift, detail.kpi)' # None
          /\ detail'.card = Card(detail'.shift, detail'.kpi, CellComparison(detail.shift, detail.kpi)')
          /\ detail'.signals
               = _cross_kpi_signals(detail.shift, detail.kpi, CellComparison(detail.shift, detail.kpi))'
    BY <1>1, <2>2, <2>3
  <2>7. QED
    BY <1>1, <2>4, <2>5, <2>6 DEF PairShape, WithDetail
<1>6. ChartExplained'
  BY <1>1 DEF ChartExplained, PatternMatchesChart, EmptyWeekExplained
<1>7. QED
  BY <1>2, <1>3, <1>4, <1>5, <1>6 DEF ShiftInv

\* While the detail keeps its pair, PairShape stays.
LEMMA PairStays ==
  ASSUME ShiftInv, rows' = rows, changes' = changes,
         at \in WithDetail, at' \in WithDetail, at = "missing" <=> at' = "missing",
         detail'.shift = detail.shift, detail'.kpi = detail.kpi,
         at # "missing" => detail'.card = detail.card /\ detail'.signals = detail.signals
  PROVE  PairShape'
<1>1. PICK sh \in Shifts, k \in PageKpis : sh = detail.shift /\ k = detail.kpi
  BY DEF ShiftInv, PairShape, WithDetail
<1>2. PICK c : c = CellComparison(sh, k)
  OBVIOUS
<1>3. changes = 0 => IF at = "missing" THEN c = None
                     ELSE /\ c # None /\ detail.card = Card(sh, k, c)
                          /\ detail.signals = _cross_kpi_signals(sh, k, c)
  BY <1>1, <1>2 DEF ShiftInv, PairShape, WithDetail
<1>4. /\ CellComparison(sh, k)' = c
      /\ _cross_kpi_signals(sh, k, c)' = _cross_kpi_signals(sh, k, c)
  BY <1>2, RowsDecide
<1>5. detail'.shift = sh /\ detail'.kpi = k
  BY <1>1
<1>6. CellComparison(detail.shift, detail.kpi)' = c
  BY <1>4, <1>5
<1>7. _cross_kpi_signals(detail.shift, detail.kpi, CellComparison(detail.shift, detail.kpi))'
        = _cross_kpi_signals(sh, k, c)
  BY <1>4, <1>5, <1>6
<1>8. changes' = 0 =>
        IF at' = "missing" THEN CellComparison(detail.shift, detail.kpi)' = None
        ELSE /\ CellComparison(detail.shift, detail.kpi)' # None
             /\ detail'.card = Card(detail'.shift, detail'.kpi, CellComparison(detail.shift, detail.kpi)')
             /\ detail'.signals
                  = _cross_kpi_signals(detail.shift, detail.kpi, CellComparison(detail.shift, detail.kpi))'
  BY <1>3, <1>5, <1>6, <1>7
<1>9. QED
  BY <1>5, <1>8 DEF PairShape, WithDetail

\* A foreman with a value in a week has a record of it.
LEMMA ValuesAreRecords ==
  ASSUME NEW f, NEW k \in PageKpis
  PROVE  DOMAIN _foreman_week_values(f, k) \subseteq _fetch_assigned_week_indices(f)
<1> DEFINE V == {s \in Slots : s[1] = f /\ rows[s].vals[k].days > 0 /\ rows[s].vals[k].den # 0}
<1>1. DOMAIN _foreman_week_values(f, k) = {s[2] : s \in V}
  BY DEF _foreman_week_values
<1>2. NoRows.vals[k].days = 0
  BY DEF NoRows
<1>3. \A s \in V : s \in Slots /\ s[1] = f /\ rows[s] # NoRows
  BY <1>2
<1> HIDE DEF V
<1>4. QED
  BY <1>1, <1>3 DEF _fetch_assigned_week_indices

LEMMA WeeksStep == ShiftInv /\ ReadWeeks => ShiftInv'
<1> SUFFICES ASSUME ShiftInv, ReadWeeks PROVE ShiftInv'
  OBVIOUS
<1>1. PICK bv, wv :
        /\ bv = _foreman_week_values(detail.card.better, detail.kpi)
        /\ wv = _foreman_week_values(detail.card.worse, detail.kpi)
  OBVIOUS
<1>2. /\ at = "pair" /\ at' = "weeks" /\ UNCHANGED <<rows, changes, cards, heat, matrix>>
      /\ detail'.shift = detail.shift /\ detail'.kpi = detail.kpi
      /\ detail'.card = detail.card /\ detail'.signals = detail.signals
      /\ detail'.better = bv /\ detail'.worse = wv
      /\ detail'.recurring => _is_consistent_pattern(bv, wv, detail.kpi)
  BY <1>1 DEF ReadWeeks
<1>3. detail.shift \in Shifts /\ detail.kpi \in PageKpis
  BY <1>2 DEF ShiftInv, PairShape, WithDetail
<1>4. ShiftTypeOK'
  BY <1>2, <1>3 DEF ShiftInv, ShiftTypeOK
<1>5. ListShape'
  BY <1>2, RowsDecide DEF ShiftInv, ListShape, WithDetail
<1>6. HeatShape' /\ MatrixShape'
  BY <1>2 DEF HeatShape, MatrixShape
<1>7. PairShape'
  BY <1>2, PairStays DEF WithDetail
<1>8. WeeksShape'
  <2>1. /\ DOMAIN bv \subseteq _fetch_assigned_week_indices(detail.card.better)
        /\ DOMAIN wv \subseteq _fetch_assigned_week_indices(detail.card.worse)
    BY <1>1, <1>3, ValuesAreRecords
  <2>2. PICK b, w : b = detail.card.better /\ w = detail.card.worse
    OBVIOUS
  <2>3. \A f : _fetch_assigned_week_indices(f)' = _fetch_assigned_week_indices(f)
    BY <1>2, RowsDecide
  <2>4. /\ _fetch_assigned_week_indices(detail.card.better)' = _fetch_assigned_week_indices(b)
        /\ _fetch_assigned_week_indices(detail.card.worse)' = _fetch_assigned_week_indices(w)
    BY <1>2, <2>2, <2>3
  <2>5. /\ DOMAIN detail'.better \subseteq _fetch_assigned_week_indices(detail.card.better)'
        /\ DOMAIN detail'.worse \subseteq _fetch_assigned_week_indices(detail.card.worse)'
    BY <1>2, <2>1, <2>2, <2>4
  <2>6. detail'.recurring => _is_consistent_pattern(detail'.better, detail'.worse, detail'.kpi)
    BY <1>2
  <2>7. QED
    BY <2>5, <2>6 DEF WeeksShape
<1>9. ChartExplained'
  BY <1>2 DEF ChartExplained, PatternMatchesChart, EmptyWeekExplained
<1>10. QED
  BY <1>4, <1>5, <1>6, <1>7, <1>8, <1>9 DEF ShiftInv

\* What the chart says of a foreman's week.
LEMMA PointIs ==
  ASSUME rows \in [Slots -> PlantRecords], NEW f, NEW values,
         DOMAIN values \subseteq _fetch_assigned_week_indices(f)
  PROVE  LET assigned == _fetch_assigned_week_indices(f)
         IN  /\ DOMAIN values \subseteq Weeks
             /\ \A w : point_for(w, values, assigned) = "value" <=> w \in DOMAIN values
             /\ \A w : point_for(w, values, assigned) = "not_assigned" <=>
                         (<<f, w>> \notin Slots \/ rows[<<f, w>>] = NoRows)
<1> DEFINE assigned == _fetch_assigned_week_indices(f)
<1>1. \A w : w \in assigned <=> <<f, w>> \in Slots /\ rows[<<f, w>>] # NoRows
  <2>1. \A w : w \in assigned <=> \E s \in Slots : s[1] = f /\ rows[s] # NoRows /\ w = s[2]
    BY DEF _fetch_assigned_week_indices
  <2>2. \A s \in Slots : s = <<s[1], s[2]>>
    BY SlotsAre
  <2> HIDE DEF assigned
  <2>3. QED
    BY <2>1, <2>2
<1>2. assigned \subseteq Weeks
  BY DEF _fetch_assigned_week_indices, Weeks
<1> HIDE DEF assigned
<1>3. \A w : /\ point_for(w, values, assigned) = "value" <=> w \in DOMAIN values
             /\ point_for(w, values, assigned) = "not_assigned" <=> w \notin DOMAIN values /\ w \notin assigned
  BY DEF point_for
<1>4. DOMAIN values \subseteq assigned
  BY DEF assigned
<1>5. QED
  BY <1>1, <1>2, <1>3, <1>4 DEF assigned

LEMMA AssignedStep == ShiftInv /\ ReadAssigned => ShiftInv'
<1> SUFFICES ASSUME ShiftInv, ReadAssigned PROVE ShiftInv'
  OBVIOUS
<1>1. PICK b, w, bv, wv, chart :
        /\ b = detail.card.better /\ w = detail.card.worse
        /\ bv = detail.better /\ wv = detail.worse
        /\ chart = [i \in Weeks |-> [better |-> point_for(i, bv, _fetch_assigned_week_indices(b)),
                                     worse  |-> point_for(i, wv, _fetch_assigned_week_indices(w))]]
  OBVIOUS
<1>2. /\ at = "weeks" /\ at' = "shown" /\ UNCHANGED <<rows, changes, cards, heat, matrix>>
      /\ detail'.shift = detail.shift /\ detail'.kpi = detail.kpi
      /\ detail'.card = detail.card /\ detail'.signals = detail.signals
      /\ detail'.better = bv /\ detail'.worse = wv
      /\ detail'.recurring = detail.recurring /\ detail'.chart = chart
  BY <1>1 DEF ReadAssigned
<1>3. detail.shift \in Shifts /\ detail.kpi \in PageKpis /\ rows \in [Slots -> PlantRecords]
  BY <1>2 DEF ShiftInv, PairShape, WithDetail, ShiftTypeOK
<1>4. ShiftTypeOK'
  BY <1>2, <1>3 DEF ShiftInv, ShiftTypeOK
<1>5. ListShape'
  BY <1>2, RowsDecide DEF ShiftInv, ListShape, WithDetail
<1>6. HeatShape' /\ MatrixShape'
  BY <1>2 DEF HeatShape, MatrixShape
<1>7. PairShape'
  BY <1>2, PairStays DEF WithDetail
<1>8. detail.recurring => _is_consistent_pattern(bv, wv, detail.kpi)
  BY <1>1, <1>2 DEF ShiftInv, WeeksShape
<1>9. WeeksShape'
  <2>1. detail'.recurring => _is_consistent_pattern(detail'.better, detail'.worse, detail'.kpi)
    BY <1>2, <1>8
  <2>2. QED
    BY <1>2, <2>1 DEF WeeksShape
<1>10. /\ DOMAIN bv \subseteq _fetch_assigned_week_indices(b)
       /\ DOMAIN wv \subseteq _fetch_assigned_week_indices(w)
  BY <1>1, <1>2 DEF ShiftInv, WeeksShape
<1>11. /\ DOMAIN bv \subseteq Weeks /\ DOMAIN wv \subseteq Weeks
       /\ \A i \in Weeks :
             /\ chart[i].better = "value" <=> i \in DOMAIN bv
             /\ chart[i].worse = "value" <=> i \in DOMAIN wv
             /\ chart[i].better = "not_assigned" <=> (<<b, i>> \notin Slots \/ rows[<<b, i>>] = NoRows)
             /\ chart[i].worse = "not_assigned" <=> (<<w, i>> \notin Slots \/ rows[<<w, i>>] = NoRows)
  <2>1. \A i \in Weeks : /\ chart[i].better = point_for(i, bv, _fetch_assigned_week_indices(b))
                         /\ chart[i].worse = point_for(i, wv, _fetch_assigned_week_indices(w))
    BY <1>1
  <2>2. /\ DOMAIN bv \subseteq Weeks
        /\ \A i : point_for(i, bv, _fetch_assigned_week_indices(b)) = "value" <=> i \in DOMAIN bv
        /\ \A i : point_for(i, bv, _fetch_assigned_week_indices(b)) = "not_assigned" <=>
                    (<<b, i>> \notin Slots \/ rows[<<b, i>>] = NoRows)
    BY <1>3, <1>10, PointIs
  <2>3. /\ DOMAIN wv \subseteq Weeks
        /\ \A i : point_for(i, wv, _fetch_assigned_week_indices(w)) = "value" <=> i \in DOMAIN wv
        /\ \A i : point_for(i, wv, _fetch_assigned_week_indices(w)) = "not_assigned" <=>
                    (<<w, i>> \notin Slots \/ rows[<<w, i>>] = NoRows)
    BY <1>3, <1>10, PointIs
  <2>4. QED
    BY <2>1, <2>2, <2>3
<1>12. PatternMatchesChart'
  <2>1. ASSUME detail.recurring
        PROVE  /\ DOMAIN bv # {} /\ DOMAIN wv # {}
               /\ \A i \in DOMAIN bv, j \in DOMAIN wv : Beats(bv[i], wv[j], detail.kpi)
    BY <1>8, <2>1 DEF _is_consistent_pattern, Beats
  <2>2. detail.recurring =>
          /\ \E i \in Weeks : chart[i].better = "value"
          /\ \E i \in Weeks : chart[i].worse = "value"
          /\ \A i, j \in Weeks : chart[i].better = "value" /\ chart[j].worse = "value" =>
                                    Beats(bv[i], wv[j], detail.kpi)
    BY <1>11, <2>1
  <2>3. QED
    BY <1>2, <2>2 DEF PatternMatchesChart
<1>13. EmptyWeekExplained'
  <2>1. detail'.card.better = b /\ detail'.card.worse = w
    BY <1>1, <1>2
  <2>2. QED
    BY <1>2, <1>11, <2>1 DEF EmptyWeekExplained
<1>14. QED
  BY <1>4, <1>5, <1>6, <1>7, <1>9, <1>12, <1>13 DEF ShiftInv, ChartExplained

\* A commit between two SELECTs changes or adds a record, and takes none away.
LEMMA IngestStep == \A s \in Slots : ShiftInv /\ Ingest(s) => ShiftInv'
<1> SUFFICES ASSUME NEW s \in Slots, ShiftInv, Ingest(s) PROVE ShiftInv'
  OBVIOUS
<1>1. PICK e \in Entries(s, Corrections) : rows' = [rows EXCEPT ![s] = e]
  BY DEF Ingest
<1>2. /\ at \notin {"start", "missing", "shown", "sentence", "heatmap"}
      /\ changes < MaxChanges /\ changes' = changes + 1
      /\ UNCHANGED <<at, cards, heat, matrix, detail>>
  BY DEF Ingest
<1>3. rows \in [Slots -> PlantRecords] /\ changes \in 0 .. MaxChanges
  BY DEF ShiftInv, ShiftTypeOK
<1>4. e \in PlantRecords /\ e # NoRows
  <2>1. PICK sh \in Shifts, b \in Corrections : e = Stored(s[1], s[2], sh, b)
    BY DEF Entries
  <2>2. QED
    BY <2>1, StoredIs DEF PlantRecords
<1>5. changes' # 0 /\ changes' \in 0 .. MaxChanges
  BY <1>2, <1>3, ShiftAssumption
<1>6. ShiftTypeOK'
  <2>1. rows' \in [Slots -> PlantRecords]
    BY <1>1, <1>3, <1>4
  <2>2. QED
    BY <1>2, <1>5, <2>1 DEF ShiftInv, ShiftTypeOK
<1>7. ListShape' /\ HeatShape' /\ MatrixShape'
  BY <1>2, <1>5 DEF ShiftInv, ListShape, HeatShape, MatrixShape
<1>8. PairShape'
  BY <1>2, <1>5 DEF ShiftInv, PairShape
<1>9. WeeksShape'
  <2>1. \A f : _fetch_assigned_week_indices(f) \subseteq _fetch_assigned_week_indices(f)'
    <3>1. \A t \in Slots : rows[t] # NoRows => rows'[t] # NoRows
      BY <1>1, <1>3, <1>4
    <3>2. QED
      BY <3>1 DEF _fetch_assigned_week_indices
  <2>2. PICK b, w : b = detail.card.better /\ w = detail.card.worse
    OBVIOUS
  <2>3. /\ _fetch_assigned_week_indices(detail.card.better)' = _fetch_assigned_week_indices(b)'
        /\ _fetch_assigned_week_indices(detail.card.worse)' = _fetch_assigned_week_indices(w)'
    BY <1>2, <2>2
  <2>4. at' = "weeks" =>
          /\ DOMAIN detail'.better \subseteq _fetch_assigned_week_indices(detail.card.better)'
          /\ DOMAIN detail'.worse \subseteq _fetch_assigned_week_indices(detail.card.worse)'
    <3>1. at = "weeks" =>
            /\ DOMAIN detail.better \subseteq _fetch_assigned_week_indices(b)
            /\ DOMAIN detail.worse \subseteq _fetch_assigned_week_indices(w)
      BY <2>2 DEF ShiftInv, WeeksShape
    <3>2. QED
      BY <1>2, <2>1, <2>3, <3>1
  <2>5. at' \in {"weeks", "shown"} /\ detail'.recurring =>
          _is_consistent_pattern(detail'.better, detail'.worse, detail'.kpi)
    BY <1>2 DEF ShiftInv, WeeksShape
  <2>6. QED
    BY <2>4, <2>5 DEF WeeksShape
<1>10. ChartExplained'
  BY <1>2 DEF ChartExplained, PatternMatchesChart, EmptyWeekExplained
<1>11. QED
  BY <1>6, <1>7, <1>8, <1>9, <1>10 DEF ShiftInv

LEMMA IdleStep == ShiftInv /\ UNCHANGED shiftVars => ShiftInv'
<1> SUFFICES ASSUME ShiftInv, UNCHANGED shiftVars PROVE ShiftInv'
  OBVIOUS
<1> USE DEF shiftVars
<1>1. ShiftTypeOK'
  BY DEF ShiftInv, ShiftTypeOK
<1>2. ListShape' /\ HeatShape' /\ MatrixShape'
  BY RowsDecide DEF ShiftInv, ListShape, HeatShape, MatrixShape
<1>3. PairShape'
  <2>1. CASE at \in WithDetail
    BY <2>1, PairStays
  <2>2. CASE at \notin WithDetail
    BY <2>2 DEF PairShape
  <2>3. QED
    BY <2>1, <2>2
<1>4. WeeksShape' /\ ChartExplained'
  BY DEF ShiftInv, WeeksShape, ChartExplained, PatternMatchesChart, EmptyWeekExplained,
         _fetch_assigned_week_indices
<1>5. QED
  BY <1>1, <1>2, <1>3, <1>4 DEF ShiftInv

LEMMA ShiftStep == ShiftInv /\ [ShiftNext]_shiftVars => ShiftInv'
<1> SUFFICES ASSUME ShiftInv, [ShiftNext]_shiftVars PROVE ShiftInv'
  OBVIOUS
<1>1. CASE LoadCards
  BY <1>1, ListStep
<1>2. CASE LoadHeatmap
  BY <1>2, HeatStep
<1>3. CASE \E k \in PageKpis : OpenMatrix(k)
  BY <1>3, OpenMatrixStep
<1>4. CASE build_foreman_shift_matrix
  BY <1>4, MatrixStep
<1>5. CASE \E sh \in Shifts, k \in PageKpis : OpenDetail(sh, k)
  BY <1>5, DetailStep
<1>6. CASE ReadWeeks
  BY <1>6, WeeksStep
<1>7. CASE ReadAssigned
  BY <1>7, AssignedStep
<1>8. CASE \E s \in Slots : Ingest(s)
  BY <1>8, IngestStep
<1>9. CASE Finished \/ UNCHANGED shiftVars
  BY <1>9, IdleStep DEF Finished
<1>10. QED
  BY <1>1, <1>2, <1>3, <1>4, <1>5, <1>6, <1>7, <1>8, <1>9 DEF ShiftNext

\* The shape of the pages is kept, whatever ingestion commits while one is
\* built (services/shift_analysis.py).
THEOREM ShiftInvariantCorrect == ShiftSpec => []ShiftInv
BY ShiftStart, ShiftStep, PTL DEF ShiftSpec

\* A card, its detail and the signals beside it tell one story: the card opens,
\* shows the two ends of its cell, and a signal of another KPI has its own card.
THEOREM CardsTellOneStoryCorrect == ShiftSpec => []CardsTellOneStory
<1>1. ShiftInv => CardsTellOneStory
  BY CardsFollow DEF CardsTellOneStory, ShiftInv
<1>2. QED
  BY <1>1, ShiftInvariantCorrect, PTL

\* "The difference repeats all month" and "not assigned" are true of the chart
\* beside them, although the chart is read by three SELECTs.
THEOREM ChartExplainedCorrect == ShiftSpec => []ChartExplained
<1>1. ShiftInv => ChartExplained
  BY DEF ShiftInv
<1>2. QED
  BY <1>1, ShiftInvariantCorrect, PTL

\* The sentence under the matrix is borne out by its cells, although the shifts
\* are read one by one.
THEOREM InsightMatchesMatrixCorrect == ShiftSpec => []InsightMatchesMatrix
<1>1. ShiftInv => InsightMatchesMatrix
  BY InsightFollows DEF ShiftInv
<1>2. QED
  BY <1>1, ShiftInvariantCorrect, PTL

\* Cards, heatmap and matrix measure with one scale, and the number of a shift
\* lies among those of its foremen.
THEOREM OneScaleCorrect == ShiftSpec => []OneScale
<1>1. ShiftInv => OneScale
  BY ScaleFollows, HeatFollows DEF OneScale, ShiftInv
<1>2. QED
  BY <1>1, ShiftInvariantCorrect, PTL
=============================================================================
