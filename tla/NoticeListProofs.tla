--------------------------- MODULE NoticeListProofs ---------------------------
(***************************************************************************)
(* The list of notices, for any number of notices, readers' queries and    *)
(* days.  Both orders of the list, within a group and over the pages, end  *)
(* with the id, so they are strict and total; a finite group then has one  *)
(* first row, and a row of the list one place.  A walk loses an entry only *)
(* if its place falls behind the page reached: no new notice does that.    *)
(***************************************************************************)
EXTENDS NoticeList, FiniteSetTheorems, WellFoundedInduction, TLAPS

----------------------------------------------------------------------------
(* Strict total orders, as sets of pairs *)

Orders(R, S) ==
    /\ \A x \in S : <<x, x>> \notin R
    /\ \A x, y, z \in S : <<x, y>> \in R /\ <<y, z>> \in R => <<x, z>> \in R
    /\ \A x, y \in S : x = y \/ <<x, y>> \in R \/ <<y, x>> \in R

Before(x, R, T) == {y \in T : <<y, x>> \in R}

\* Who comes later has more before it.
LEMMA LaterHasMore ==
  ASSUME NEW R, NEW S, Orders(R, S), NEW T \in SUBSET S, IsFiniteSet(T),
         NEW x \in T, NEW y \in T, <<x, y>> \in R
  PROVE  /\ Cardinality(Before(x, R, T)) \in Nat /\ Cardinality(Before(y, R, T)) \in Nat
         /\ Cardinality(Before(x, R, T)) < Cardinality(Before(y, R, T))
  <1>1. Before(x, R, T) \subseteq Before(y, R, T)
    BY DEF Before, Orders
  <1>2. x \in Before(y, R, T) /\ x \notin Before(x, R, T)
    BY DEF Before, Orders
  <1>3. IsFiniteSet(Before(y, R, T))
    BY FS_Subset DEF Before
  <1>4. /\ IsFiniteSet(Before(x, R, T))
        /\ Cardinality(Before(x, R, T)) <= Cardinality(Before(y, R, T))
        /\ Cardinality(Before(x, R, T)) # Cardinality(Before(y, R, T))
    BY <1>1, <1>2, <1>3, FS_Subset
  <1> QED
    BY <1>3, <1>4, FS_CardinalityType

\* Who is in the set has fewer before it than the set has members.
LEMMA PlaceInside ==
  ASSUME NEW R, NEW S, Orders(R, S), NEW T \in SUBSET S, IsFiniteSet(T), NEW x \in T
  PROVE  /\ IsFiniteSet(Before(x, R, T)) /\ Cardinality(Before(x, R, T)) \in Nat
         /\ Cardinality(T) \in Nat /\ Cardinality(Before(x, R, T)) < Cardinality(T)
  <1>1. Before(x, R, T) \subseteq T /\ x \notin Before(x, R, T)
    BY DEF Before, Orders
  <1>2. /\ IsFiniteSet(Before(x, R, T))
        /\ Cardinality(Before(x, R, T)) <= Cardinality(T)
        /\ Cardinality(Before(x, R, T)) # Cardinality(T)
    BY <1>1, FS_Subset
  <1> QED
    BY <1>2, FS_CardinalityType

\* The first of a finite set: whoever has the fewest before it.
LEMMA FirstOf ==
  ASSUME NEW R, NEW S, Orders(R, S), NEW T \in SUBSET S, IsFiniteSet(T), T # {}
  PROVE  \E x \in T : \A y \in T : <<y, x>> \notin R
  <1> DEFINE K == {k \in Nat : \E x \in T : k = Cardinality(Before(x, R, T))}
  <1>1. K \subseteq Nat /\ K # {}
    <2>1. PICK x \in T : TRUE
      OBVIOUS
    <2>2. Cardinality(Before(x, R, T)) \in K
      BY <2>1, PlaceInside
    <2> QED
      BY <2>2
  <1>2. PICK k \in K : \A l \in K : <<l, k>> \notin OpToRel(<, Nat)
    <2> HIDE DEF K
    <2> QED
      BY <1>1, NatLessThanWellFounded, WFMin
  <1>3. PICK x \in T : k = Cardinality(Before(x, R, T))
    BY <1>2
  <1>4. ASSUME NEW y \in T, <<y, x>> \in R PROVE FALSE
    <2>1. /\ Cardinality(Before(y, R, T)) \in Nat /\ k \in Nat
          /\ Cardinality(Before(y, R, T)) < k
      BY <1>3, <1>4, LaterHasMore
    <2>2. Cardinality(Before(y, R, T)) \in K
      BY <2>1
    <2> QED
      BY <1>2, <2>1, <2>2 DEF OpToRel
  <1> QED
    BY <1>3, <1>4

----------------------------------------------------------------------------
(* The orders of the list *)

\* Rows in the order of three or four columns, the last of which is their id.
LEMMA ByThreeColumns ==
  ASSUME NEW S \in SUBSET Nat, NEW f \in [S -> Int], NEW g \in [S -> Int], NEW R,
         \A m, n \in S : <<m, n>> \in R <=> Less(<<f[m], g[m], -m>>, <<f[n], g[n], -n>>)
  PROVE  Orders(R, S)
  <1>1. ASSUME NEW m \in S, NEW n \in S
        PROVE  <<m, n>> \in R <=> f[m] < f[n] \/ (f[m] = f[n] /\ (g[m] < g[n] \/ (g[m] = g[n] /\ n < m)))
    <2>1. PICK a \in Int, b \in Int, c \in Int : a = f[m] /\ b = g[m] /\ c = -m
      OBVIOUS
    <2>2. PICK x \in Int, y \in Int, z \in Int : x = f[n] /\ y = g[n] /\ z = -n
      OBVIOUS
    <2>3. <<m, n>> \in R <=> Less(<<a, b, c>>, <<x, y, z>>)
      BY <2>1, <2>2
    <2>4. c < z <=> n < m
      BY <2>1, <2>2
    <2>5. Less(<<a, b, c>>, <<x, y, z>>) <=> a < x \/ (a = x /\ (b < y \/ (b = y /\ c < z)))
      BY DEF Less
    <2> QED
      BY <2>1, <2>2, <2>3, <2>4, <2>5
  <1>2. \A m \in S : m \in Int /\ f[m] \in Int /\ g[m] \in Int
    OBVIOUS
  <1>3. ASSUME NEW x \in S, NEW y \in S, NEW z \in S, <<x, y>> \in R, <<y, z>> \in R
        PROVE  <<x, z>> \in R
    BY <1>1, <1>2, <1>3
  <1>4. ASSUME NEW x \in S, NEW y \in S PROVE x = y \/ <<x, y>> \in R \/ <<y, x>> \in R
    BY <1>1, <1>2, <1>4
  <1>5. ASSUME NEW x \in S PROVE <<x, x>> \notin R
    BY <1>1, <1>2, <1>5
  <1> QED
    BY <1>3, <1>4, <1>5 DEF Orders

LEMMA ByFourColumns ==
  ASSUME NEW S \in SUBSET Nat,
         NEW f \in [S -> Int], NEW g \in [S -> Int], NEW h \in [S -> Int], NEW R,
         \A m, n \in S :
            <<m, n>> \in R <=> Less(<<f[m], g[m], h[m], -m>>, <<f[n], g[n], h[n], -n>>)
  PROVE  Orders(R, S)
  <1>1. ASSUME NEW m \in S, NEW n \in S
        PROVE  <<m, n>> \in R
                 <=> \/ f[m] < f[n]
                     \/ f[m] = f[n] /\ \/ g[m] < g[n]
                                       \/ g[m] = g[n] /\ (h[m] < h[n] \/ (h[m] = h[n] /\ n < m))
    <2>1. PICK a \in Int, b \in Int, c \in Int, d \in Int :
             a = f[m] /\ b = g[m] /\ c = h[m] /\ d = -m
      OBVIOUS
    <2>2. PICK x \in Int, y \in Int, z \in Int, w \in Int :
             x = f[n] /\ y = g[n] /\ z = h[n] /\ w = -n
      OBVIOUS
    <2>3. <<m, n>> \in R <=> Less(<<a, b, c, d>>, <<x, y, z, w>>)
      BY <2>1, <2>2
    <2>4. d < w <=> n < m
      BY <2>1, <2>2
    <2>5. Less(<<a, b, c, d>>, <<x, y, z, w>>)
            <=> a < x \/ (a = x /\ (b < y \/ (b = y /\ (c < z \/ (c = z /\ d < w)))))
      BY DEF Less
    <2>6. <<m, n>> \in R
            <=> a < x \/ (a = x /\ (b < y \/ (b = y /\ (c < z \/ (c = z /\ n < m)))))
      BY <2>3, <2>4, <2>5
    <2> QED
      BY <2>1, <2>2, <2>6, Zenon
  <1>2. \A m \in S : m \in Int /\ f[m] \in Int /\ g[m] \in Int /\ h[m] \in Int
    OBVIOUS
  <1>3. ASSUME NEW x \in S, NEW y \in S, NEW z \in S, <<x, y>> \in R, <<y, z>> \in R
        PROVE  <<x, z>> \in R
    BY <1>1, <1>2, <1>3
  <1>4. ASSUME NEW x \in S, NEW y \in S PROVE x = y \/ <<x, y>> \in R \/ <<y, x>> \in R
    BY <1>1, <1>2, <1>4
  <1>5. ASSUME NEW x \in S PROVE <<x, x>> \notin R
    BY <1>1, <1>2, <1>5
  <1> QED
    BY <1>3, <1>4, <1>5 DEF Orders

RankOrder == {p \in Rows \X Rows : Less(Rank(p[1]), Rank(p[2]))}
ListOrder(q) == {p \in Rows \X Rows : Less(OrderBy(p[1], q), OrderBy(p[2], q))}

LEMMA NullsLastParts ==
  ASSUME NEW v \in Day \cup {Nil}, NEW sign \in {1, -1}
  PROVE  NullsLast(v, sign)[1] \in Int /\ NullsLast(v, sign)[2] \in Int
  BY ListAssumption DEF NullsLast

LEMMA RowParts ==
  ASSUME ListTypeOK, NEW n \in Rows
  PROVE  /\ n \in Nat /\ notices[n].published \in Day \cup {Nil}
         /\ notices[n].deadline \in Day \cup {Nil}
  BY ListAssumption DEF ListTypeOK, Rows, Row

LEMMA RankOrders ==
  ASSUME ListTypeOK
  PROVE  Orders(RankOrder, Rows)
  <1> DEFINE f == [n \in Rows |-> -Flag(RecentNew(n))]
             g == [n \in Rows |-> NullsLast(notices[n].published, -1)[1]]
             h == [n \in Rows |-> NullsLast(notices[n].published, -1)[2]]
  <1>1. f \in [Rows -> Int] /\ g \in [Rows -> Int] /\ h \in [Rows -> Int]
    <2>1. \A n \in Rows : -Flag(RecentNew(n)) \in Int
      BY DEF Flag
    <2>2. \A n \in Rows : /\ NullsLast(notices[n].published, -1)[1] \in Int
                          /\ NullsLast(notices[n].published, -1)[2] \in Int
      BY RowParts, NullsLastParts
    <2> QED
      BY <2>1, <2>2
  <1>2. \A n \in Rows : Rank(n) = <<f[n], g[n], h[n], -n>>
    BY DEF Rank
  <1>3. Rows \in SUBSET Nat
    BY RowParts
  <1>4. \A m, n \in Rows :
           <<m, n>> \in RankOrder <=> Less(<<f[m], g[m], h[m], -m>>, <<f[n], g[n], h[n], -n>>)
    <2> HIDE DEF f, g, h
    <2> QED
      BY <1>2 DEF RankOrder
  <1> HIDE DEF f, g, h
  <1> QED
    BY <1>1, <1>3, <1>4, ByFourColumns

\* The default order is the one within a group.
IsDefault(q) == q.sort = "published_at" /\ q.order = "desc"

LEMMA DefaultOrder ==
  ASSUME NEW q, IsDefault(q)
  PROVE  ListOrder(q) = RankOrder /\ \A n \in Rows : OrderBy(n, q) = Rank(n)
  BY DEF IsDefault, ListOrder, RankOrder, OrderBy

LEMMA ListOrders ==
  ASSUME ListTypeOK, NEW q \in Query
  PROVE  Orders(ListOrder(q), Rows)
  <1>1. CASE IsDefault(q)
    BY <1>1, DefaultOrder, RankOrders
  <1>2. CASE ~IsDefault(q)
    <2>1. PICK sign \in {1, -1} : sign = IF q.order = "asc" THEN 1 ELSE -1
      OBVIOUS
    <2> DEFINE f == [n \in Rows |-> NullsLast(Column(n, q.sort), sign)[1]]
               g == [n \in Rows |-> NullsLast(Column(n, q.sort), sign)[2]]
    <2>2. f \in [Rows -> Int] /\ g \in [Rows -> Int]
      <3>1. \A n \in Rows : Column(n, q.sort) \in Day \cup {Nil}
        BY RowParts DEF Column
      <3>2. \A n \in Rows : /\ NullsLast(Column(n, q.sort), sign)[1] \in Int
                            /\ NullsLast(Column(n, q.sort), sign)[2] \in Int
        BY <3>1, NullsLastParts
      <3> QED
        BY <3>2
    <2>3. \A n \in Rows : OrderBy(n, q) = <<f[n], g[n], -n>>
      BY <1>2, <2>1 DEF OrderBy, IsDefault
    <2>4. \A m, n \in Rows :
             <<m, n>> \in ListOrder(q) <=> Less(<<f[m], g[m], -m>>, <<f[n], g[n], -n>>)
      <3> HIDE DEF f, g
      <3> QED
        BY <2>3 DEF ListOrder
    <2>5. Rows \in SUBSET Nat
      BY RowParts
    <2> HIDE DEF f, g
    <2> QED
      BY <2>2, <2>4, <2>5, ByThreeColumns
  <1> QED
    BY <1>1, <1>2

----------------------------------------------------------------------------
(* Types *)

LEMMA NewRow ==
  ASSUME NEW t \in Nat, NEW a \in Announced, NEW r,
         r = [c \in Columns \cup {"created", "revised"} |-> IF c \in Columns THEN a[c] ELSE t]
  PROVE  r \in Row(t) /\ r.created = t /\ r.revised = t
  <1>1. /\ t \in 0 .. t /\ a.published \in Day \cup {Nil} /\ a.deadline \in Day \cup {Nil}
        /\ \A c \in Columns : a[c] \in Values(c)
    BY ListAssumption DEF Values
  <1>2. r = [created |-> t, revised |-> t, dedup_key |-> a.dedup_key,
             source_duplicate_key |-> a.source_duplicate_key, dedup_hash |-> a.dedup_hash,
             text |-> a.text, source |-> a.source, kind |-> a.kind,
             published |-> a.published, deadline |-> a.deadline]
    BY DEF Columns
  <1> QED
    BY <1>1, <1>2 DEF Row, Columns

\* The row a revision leaves.
Revised(r, a, versioned) ==
    LET kept == [c \in DOMAIN r |-> IF c \in Columns /\ a[c] # Nil THEN a[c] ELSE r[c]]
        key == IF a.dedup_key = Nil THEN a.source_duplicate_key ELSE a.dedup_key
    IN  [kept EXCEPT !.dedup_key = IF key = Nil THEN r.dedup_key ELSE key,
                     !.revised = IF versioned THEN now ELSE @]

LEMMA RevisedRow ==
  ASSUME now \in Nat, NEW a \in Announced, NEW r \in Row(now), NEW versioned \in BOOLEAN,
         r.created <= r.revised
  PROVE  /\ Revised(r, a, versioned) \in Row(now)
         /\ Revised(r, a, versioned).created <= Revised(r, a, versioned).revised
  <1>1. \A c \in Columns : a[c] \in Values(c)
    BY ListAssumption DEF Values
  <1>2. a.published \in Day \cup {Nil} /\ a.deadline \in Day \cup {Nil}
    BY ListAssumption
  <1> DEFINE kept == [c \in DOMAIN r |-> IF c \in Columns /\ a[c] # Nil THEN a[c] ELSE r[c]]
  <1>3. kept \in Row(now) /\ kept.created = r.created /\ kept.revised = r.revised
    <2>1. DOMAIN r = {"created", "revised"} \cup Columns
      BY DEF Row, Columns
    <2>2. kept = [created |-> r.created, revised |-> r.revised,
                  dedup_key |-> kept.dedup_key, source_duplicate_key |-> kept.source_duplicate_key,
                  dedup_hash |-> kept.dedup_hash, text |-> kept.text, source |-> kept.source,
                  kind |-> kept.kind, published |-> kept.published, deadline |-> kept.deadline]
      BY <2>1 DEF Columns
    <2>3. /\ kept.dedup_key \in Values("dedup_key") \cup Values("source_duplicate_key")
          /\ kept.source_duplicate_key \in Values("source_duplicate_key")
          /\ kept.dedup_hash \in Values("dedup_hash") /\ kept.text \in Values("text")
          /\ kept.source \in Values("source") /\ kept.kind \in Values("kind")
      BY <1>1, <2>1 DEF Row, Columns
    <2>4. kept.published \in Day \cup {Nil} /\ kept.deadline \in Day \cup {Nil}
      BY <1>2, <2>1 DEF Row, Columns
    <2> HIDE DEF kept
    <2> QED
      BY <2>2, <2>3, <2>4 DEF Row
  <1>4. PICK k \in Values("dedup_key") \cup Values("source_duplicate_key"), v \in 0 .. now :
           /\ Revised(r, a, versioned) = [kept EXCEPT !.dedup_key = k, !.revised = v]
           /\ v \in {r.revised, now}
    <2> DEFINE key == IF a.dedup_key = Nil THEN a.source_duplicate_key ELSE a.dedup_key
               k == IF key = Nil THEN r.dedup_key ELSE key
               v == IF versioned THEN now ELSE kept.revised
    <2>1. k \in Values("dedup_key") \cup Values("source_duplicate_key")
      BY <1>1 DEF Row, Columns
    <2>2. v \in 0 .. now /\ v \in {r.revised, now}
      <3> HIDE DEF kept
      <3> QED
        BY <1>3 DEF Row
    <2>3. Revised(r, a, versioned) = [kept EXCEPT !.dedup_key = k, !.revised = v]
      BY DEF Revised
    <2> HIDE DEF kept, k, v
    <2> QED
      BY <2>1, <2>2, <2>3
  <1> HIDE DEF kept
  <1>5. [kept EXCEPT !.dedup_key = k, !.revised = v] \in Row(now)
    BY <1>3 DEF Row
  <1>6. /\ [kept EXCEPT !.dedup_key = k, !.revised = v].created = r.created
        /\ [kept EXCEPT !.dedup_key = k, !.revised = v].revised = v
    BY <1>3 DEF Row
  <1>7. r.created <= v
    BY <1>4 DEF Row
  <1> QED
    BY <1>4, <1>5, <1>6, <1>7

LEMMA RowGrows ==
  ASSUME NEW t \in Nat, NEW u \in Nat, t <= u
  PROVE  Row(t) \subseteq Row(u)
  <1>1. 0 .. t \subseteq 0 .. u
    OBVIOUS
  <1> QED
    BY <1>1 DEF Row

\* What a walk is, whatever it has shown.
WalkForm == walk = [at |-> walk.at, q |-> walk.q, offset |-> walk.offset, total |-> walk.total,
                    shown |-> walk.shown, had |-> walk.had, disturbed |-> walk.disturbed]

ListInv == ListTypeOK /\ WalkForm /\ IsFiniteSet(Rows)

LEMMA ListInit == Init => ListInv
  <1> SUFFICES ASSUME Init PROVE ListInv
    OBVIOUS
  <1>1. ListTypeOK /\ WalkForm
    BY ListAssumption DEF Init, ListTypeOK, Rows, WalkForm, Closed
  <1>2. Rows = {}
    BY DEF Init, Rows
  <1> QED
    BY <1>1, <1>2, FS_EmptySet DEF ListInv

LEMMA RowsChange ==
  ASSUME ListInv, NEW n \in Notice, NEW r \in Row(now), notices' = [notices EXCEPT ![n] = r]
  PROVE  /\ Rows' = Rows \cup {n} /\ IsFiniteSet(Rows')
         /\ notices' \in [Notice -> Row(now) \cup {Nil}]
         /\ notices'[n] = r /\ \A m \in Rows \ {n} : notices'[m] = notices[m]
  <1>1. now \in Nat /\ now <= MaxNow /\ MaxNow \in Nat
    BY ListAssumption DEF ListInv, ListTypeOK
  <1>2. r # Nil
    BY <1>1, RowGrows, ListAssumption
  <1>3. Rows' = Rows \cup {n}
    BY <1>2 DEF Rows, ListInv, ListTypeOK
  <1> QED
    BY <1>3, FS_AddElement DEF Rows, ListInv, ListTypeOK

\* Writers and time leave the walk what it is, but for disturbed.
LEMMA DisturbKeeps ==
  ASSUME ListInv, NEW b \in BOOLEAN, Disturb(b)
  PROVE  /\ WalkForm' /\ walk'.at = walk.at /\ walk'.q = walk.q /\ walk'.offset = walk.offset
         /\ walk'.total = walk.total /\ walk'.shown = walk.shown /\ walk'.had = walk.had
         /\ walk'.disturbed \in BOOLEAN
         /\ ~walk'.disturbed =>
               /\ ~walk.disturbed
               /\ walk.at = "closed" \/ (~b /\ walk.at # "counted")
  <1>1. CASE walk.at = "closed"
    BY <1>1 DEF ListInv, ListTypeOK, WalkForm, Disturb
  <1>2. CASE walk.at # "closed"
    <2>1. PICK d \in BOOLEAN : d = (walk.disturbed \/ b \/ walk.at = "counted")
      OBVIOUS
    <2>2. walk' = [walk EXCEPT !.disturbed = d]
      BY <1>2, <2>1 DEF Disturb
    <2>3. /\ WalkForm' /\ walk'.at = walk.at /\ walk'.q = walk.q /\ walk'.offset = walk.offset
          /\ walk'.total = walk.total /\ walk'.shown = walk.shown /\ walk'.had = walk.had
          /\ walk'.disturbed = d
      BY <2>2 DEF ListInv, WalkForm
    <2> QED
      BY <2>1, <2>3
  <1> QED
    BY <1>1, <1>2

LEMMA WalkTypes ==
  ASSUME ListInv, UNCHANGED <<notices, now, revisions>>, WalkForm',
         walk'.at \in {"closed", "asked", "counted", "shown"},
         walk'.q \in IF walk'.at = "closed" THEN {Nil} ELSE Queries,
         walk'.offset \in Nat, walk'.total \in Nat, walk'.disturbed \in BOOLEAN
  PROVE  ListInv'
  BY DEF ListInv, ListTypeOK, Rows

\* The rows a query lists are finitely many.
LEMMA ItemsAreRows ==
  ASSUME IsFiniteSet(Rows), NEW q
  PROVE  /\ Items(q) \subseteq Matching(q) /\ Matching(q) \subseteq Rows
         /\ IsFiniteSet(Items(q)) /\ IsFiniteSet(Matching(q)) /\ Total(q) \in Nat
  <1>1. Items(q) \subseteq Matching(q) /\ Matching(q) \subseteq Rows
    BY DEF Items, Matching
  <1> QED
    BY <1>1, FS_Subset, FS_CardinalityType DEF Total

LEMMA WriterKeeps ==
  ASSUME ListInv, NEW n \in Notice, NEW r \in Row(now), r.created <= r.revised,
         notices' = [notices EXCEPT ![n] = r], now' = now,
         revisions' \in 0 .. MaxRevisions, NEW b \in BOOLEAN, Disturb(b)
  PROVE  ListInv'
  <1>1. /\ Rows' = Rows \cup {n} /\ IsFiniteSet(Rows')
        /\ notices' \in [Notice -> Row(now) \cup {Nil}]
        /\ notices'[n] = r /\ \A m \in Rows \ {n} : notices'[m] = notices[m]
    BY RowsChange
  <1>2. \A m \in Rows' : notices'[m].created <= notices'[m].revised
    BY <1>1 DEF ListInv, ListTypeOK
  <1>3. /\ WalkForm' /\ walk'.at = walk.at /\ walk'.q = walk.q /\ walk'.offset = walk.offset
        /\ walk'.total = walk.total /\ walk'.disturbed \in BOOLEAN
    BY DisturbKeeps
  <1>4. ListTypeOK'
    <2>1. /\ notices' \in [Notice -> Row(now') \cup {Nil}]
          /\ now' \in 0 .. MaxNow
      BY <1>1 DEF ListInv, ListTypeOK
    <2>2. /\ walk'.at \in {"closed", "asked", "counted", "shown"}
          /\ walk'.q \in IF walk'.at = "closed" THEN {Nil} ELSE Queries
          /\ walk'.offset \in Nat /\ walk'.total \in Nat /\ walk'.disturbed \in BOOLEAN
      BY <1>3 DEF ListInv, ListTypeOK
    <2> QED
      BY <1>2, <2>1, <2>2 DEF ListTypeOK
  <1> QED
    BY <1>1, <1>3, <1>4 DEF ListInv

LEMMA ListStep == ListInv /\ [Next]_vars => ListInv'
  <1> SUFFICES ASSUME ListInv, [Next]_vars PROVE ListInv'
    OBVIOUS
  <1>0. /\ now \in Nat /\ now <= MaxNow /\ MaxNow \in Nat /\ MaxRevisions \in Nat
        /\ revisions \in 0 .. MaxRevisions /\ Limit \in Nat \ {0} /\ walk.offset \in Nat
    BY ListAssumption DEF ListInv, ListTypeOK
  <1>1. ASSUME NEW n \in Notice, NEW a \in Announced, Publish(n, a) PROVE ListInv'
    <2>1. PICK r : r = [c \in Columns \cup {"created", "revised"} |->
                          IF c \in Columns THEN a[c] ELSE now]
      OBVIOUS
    <2>2. r \in Row(now) /\ r.created = now /\ r.revised = now
      BY <1>0, <2>1, NewRow
    <2>3. PICK b \in BOOLEAN :
            b = (walk.q # Nil /\ walk.q.dedup /\ DedupKeyExpr(n)' \in walk.had)
      OBVIOUS
    <2>4. /\ notices' = [notices EXCEPT ![n] = r] /\ now' = now /\ Disturb(b)
          /\ revisions' \in 0 .. MaxRevisions
      BY <1>0, <1>1, <2>1, <2>3 DEF Publish, Disturb
    <2>5. r.created <= r.revised
      BY <1>0, <2>2
    <2> QED
      BY <2>2, <2>4, <2>5, WriterKeeps
  <1>2. ASSUME NEW n \in Notice, NEW a \in Announced, NEW versioned \in BOOLEAN,
               Revise(n, a, versioned)
        PROVE  ListInv'
    <2>1. n \in Rows /\ notices[n] \in Row(now) /\ notices[n].created <= notices[n].revised
      BY <1>2 DEF Revise, ListInv, ListTypeOK, Rows
    <2>2. PICK r : r = Revised(notices[n], a, versioned)
      OBVIOUS
    <2>3. r \in Row(now) /\ r.created <= r.revised
      BY <1>0, <2>1, <2>2, RevisedRow
    <2>4. PICK b \in BOOLEAN : b = (notices' # notices)
      OBVIOUS
    <2>5. /\ notices' = [notices EXCEPT ![n] = r] /\ now' = now
          /\ revisions < MaxRevisions /\ revisions' = revisions + 1
      BY <1>2, <2>2 DEF Revise, Revised
    <2>6. Disturb(b)
      BY <1>2, <2>4 DEF Revise, Disturb
    <2>7. revisions' \in 0 .. MaxRevisions
      BY <1>0, <2>5
    <2> QED
      BY <2>3, <2>5, <2>6, <2>7, WriterKeeps
  <1>3. ASSUME Tick PROVE ListInv'
    <2>1. /\ now < MaxNow /\ now' = now + 1 /\ notices' = notices /\ revisions' = revisions
          /\ Disturb(TRUE)
      BY <1>3 DEF Tick
    <2>2. now' \in 0 .. MaxNow /\ Row(now) \subseteq Row(now')
      BY <1>0, <2>1, RowGrows
    <2>3. /\ WalkForm' /\ walk'.at = walk.at /\ walk'.q = walk.q /\ walk'.offset = walk.offset
          /\ walk'.total = walk.total /\ walk'.disturbed \in BOOLEAN
      BY <2>1, DisturbKeeps
    <2>4. Rows' = Rows /\ notices' \in [Notice -> Row(now') \cup {Nil}]
      BY <2>1, <2>2 DEF Rows, ListInv, ListTypeOK
    <2>5. \A m \in Rows' : notices'[m].created <= notices'[m].revised
      BY <2>1, <2>4 DEF ListInv, ListTypeOK
    <2>6. /\ walk'.at \in {"closed", "asked", "counted", "shown"}
          /\ walk'.q \in IF walk'.at = "closed" THEN {Nil} ELSE Queries
          /\ walk'.offset \in Nat /\ walk'.total \in Nat /\ walk'.disturbed \in BOOLEAN
      BY <2>3 DEF ListInv, ListTypeOK
    <2>7. ListTypeOK'
      BY <1>0, <2>1, <2>2, <2>4, <2>5, <2>6 DEF ListTypeOK
    <2> QED
      BY <2>3, <2>4, <2>7 DEF ListInv
  <1>4. ASSUME NEW q \in Queries, Open(q) PROVE ListInv'
    BY <1>4, WalkTypes DEF Open, Closed, WalkForm, ListInv, ListTypeOK
  <1>5. ASSUME Count PROVE ListInv'
    <2>1. Total(walk.q) \in Nat
      BY ItemsAreRows DEF ListInv
    <2>2. PICK t \in Nat : t = Total(walk.q)
      BY <2>1
    <2>3. walk.at = "asked" /\ walk' = [walk EXCEPT !.at = "counted", !.total = t]
          /\ UNCHANGED <<notices, now, revisions>>
      BY <1>5, <2>2 DEF Count
    <2>4. WalkForm' /\ walk'.at = "counted" /\ walk'.q = walk.q /\ walk'.offset = walk.offset
          /\ walk'.total = t /\ walk'.disturbed = walk.disturbed
      BY <2>3 DEF WalkForm, ListInv
    <2> QED
      BY <2>3, <2>4, WalkTypes DEF ListInv, ListTypeOK
  <1>6. ASSUME Show PROVE ListInv'
    <2>1. PICK s : s = walk.shown \cup {Entry(n, walk.q) : n \in Page(walk.q, walk.offset)}
      OBVIOUS
    <2>2. walk.at = "counted" /\ walk' = [walk EXCEPT !.at = "shown", !.shown = s]
          /\ UNCHANGED <<notices, now, revisions>>
      BY <1>6, <2>1 DEF Show
    <2>3. WalkForm' /\ walk'.at = "shown" /\ walk'.q = walk.q /\ walk'.offset = walk.offset
          /\ walk'.total = walk.total /\ walk'.disturbed = walk.disturbed
      BY <2>2 DEF WalkForm, ListInv
    <2> QED
      BY <2>2, <2>3, WalkTypes DEF ListInv, ListTypeOK
  <1>7. ASSUME NextPage PROVE ListInv'
    <2>1. PICK k \in Nat : k = walk.offset + Limit
      BY <1>0
    <2>2. walk.at = "shown" /\ walk' = [walk EXCEPT !.at = "asked", !.offset = k]
          /\ UNCHANGED <<notices, now, revisions>>
      BY <1>7, <2>1 DEF NextPage
    <2>3. WalkForm' /\ walk'.at = "asked" /\ walk'.q = walk.q /\ walk'.offset = k
          /\ walk'.total = walk.total /\ walk'.disturbed = walk.disturbed
      BY <2>2 DEF WalkForm, ListInv
    <2> QED
      BY <2>2, <2>3, WalkTypes DEF ListInv, ListTypeOK
  <1>8. ASSUME Close PROVE ListInv'
    BY <1>8, WalkTypes DEF Close, Closed, WalkForm, ListInv, ListTypeOK
  <1>9. ASSUME UNCHANGED vars PROVE ListInv'
    BY <1>9, WalkTypes DEF vars, WalkForm, ListInv, ListTypeOK
  <1> QED
    BY <1>1, <1>2, <1>3, <1>4, <1>5, <1>6, <1>7, <1>8, <1>9 DEF Next

LEMMA ListIndInv == Spec => []ListInv
  BY ListInit, ListStep, PTL DEF Spec

\* Rows have the columns of the items they were stored and revised from, whichever
\* items in whichever order, and no row is older than its last version
\* (models/tender_notice.py:23-92, sqlalchemy_writer.py:660-708).
THEOREM ListTyped == Spec => []ListTypeOK
  BY ListIndInv, PTL DEF ListInv

----------------------------------------------------------------------------
(* One row of a group *)

LEMMA NewComesFirst ==
  ASSUME NEW m \in Rows, NEW n \in Rows, RecentNew(n), ~RecentNew(m)
  PROVE  <<n, m>> \in RankOrder
  <1>1. PICK i, j : i = Flag(RecentNew(n)) /\ j = Flag(RecentNew(m))
    OBVIOUS
  <1>2. i = 1 /\ j = 0
    BY <1>1, Zenon DEF Flag
  <1>3. PICK a, b, c : Rank(n) = <<-i, a, b, c>>
    BY <1>1, Zenon DEF Rank
  <1>4. PICK x, y, z : Rank(m) = <<-j, x, y, z>>
    BY <1>1, Zenon DEF Rank
  <1>5. Less(<<-i, a, b, c>>, <<-j, x, y, z>>)
    BY <1>2 DEF Less
  <1> QED
    BY <1>3, <1>4, <1>5 DEF RankOrder

\* Of the group of a matching notice the list has the first row, and no other.
LEMMA GroupItem ==
  ASSUME ListInv, NEW q, q.dedup, NEW n \in Matching(q)
  PROVE  \E m \in Items(q) : /\ Items(q) \cap Group(n, q) = {m}
                             /\ RecentNew(n) => RecentNew(m)
  <1>0. Orders(RankOrder, Rows) /\ Matching(q) \subseteq Rows /\ n \in Rows
    BY RankOrders DEF ListInv, Matching
  <1>1. Group(n, q) \in SUBSET Rows /\ IsFiniteSet(Group(n, q)) /\ n \in Group(n, q)
    <2>1. Group(n, q) \subseteq Rows /\ n \in Group(n, q)
      BY <1>0 DEF Group
    <2> QED
      BY <2>1, FS_Subset DEF ListInv
  <1>2. PICK m \in Group(n, q) : \A y \in Group(n, q) : <<y, m>> \notin RankOrder
    BY <1>0, <1>1, FirstOf
  <1>3. ASSUME NEW x \in Group(n, q) PROVE Group(x, q) = Group(n, q)
    BY <1>3 DEF Group
  <1>4. ASSUME NEW x \in Group(n, q)
        PROVE  x \in Items(q) <=> \A y \in Group(n, q) : <<y, x>> \notin RankOrder
    <2>1. x \in Items(q) <=> \A y \in Group(n, q) : ~Less(Rank(y), Rank(x))
      BY <1>3 DEF Items, Group
    <2> QED
      BY <1>1, <2>1 DEF RankOrder
  <1>5. Items(q) \cap Group(n, q) = {m}
    <2>1. m \in Items(q)
      BY <1>2, <1>4
    <2>2. ASSUME NEW x \in Items(q) \cap Group(n, q) PROVE x = m
      BY <1>0, <1>1, <1>2, <1>4, <2>2 DEF Orders
    <2> QED
      BY <1>2, <2>1, <2>2
  <1>6. RecentNew(n) => RecentNew(m)
    BY <1>0, <1>1, <1>2, NewComesFirst
  <1> QED
    BY <1>5, <1>6

LEMMA GroupHasOneRowInv == ListInv => GroupHasOneRow
  <1> SUFFICES ASSUME ListInv, walk.at = "asked" PROVE GroupHasOneRow
    BY DEF GroupHasOneRow
  <1>1. PICK q : q = [walk.q EXCEPT !.dedup = TRUE]
    OBVIOUS
  <1>2. q.dedup = TRUE
    BY <1>1, ListAssumption DEF ListInv, ListTypeOK, Query
  <1>3. \A n \in Matching(q) :
           \E m \in Items(q) : /\ Items(q) \cap Group(n, q) = {m}
                               /\ RecentNew(n) => RecentNew(m)
    BY <1>2, GroupItem
  <1> QED
    BY <1>1, <1>3 DEF GroupHasOneRow

\* For every query a reader may make, each group of matching notices has exactly
\* one row in the list, and that row is new when any notice of the group is: the
\* order within a group ends with the id, so a finite group has one first row, and
\* begins with newness (notice_repository.py:387-410).
THEOREM GroupsHaveOneRow == Spec => []GroupHasOneRow
  BY ListIndInv, GroupHasOneRowInv, PTL

----------------------------------------------------------------------------
(* The sizes of the groups *)

\* What can be numbered through by the elements of a finite set is as large.
LEMMA Renumbered ==
  ASSUME NEW S, IsFiniteSet(S), NEW T, NEW f \in [T -> S],
         \A x, y \in T : f[x] = f[y] => x = y, \A s \in S : \E x \in T : f[x] = s
  PROVE  Cardinality(T) = Cardinality(S)
  <1> DEFINE g == [s \in S |-> CHOOSE x \in T : f[x] = s]
  <1>1. \A s \in S : g[s] \in T /\ f[g[s]] = s
    OBVIOUS
  <1>2. g \in [S -> T]
    BY <1>1
  <1>3. DOMAIN g = S
    OBVIOUS
  <1> HIDE DEF g
  <1>4. g \in Injection(S, T)
    BY <1>1, <1>2, <1>3 DEF Injection, IsInjective
  <1>5. g \in Surjection(S, T)
    <2>1. ASSUME NEW x \in T PROVE \E s \in S : g[s] = x
      <3>1. f[x] \in S
        OBVIOUS
      <3> QED
        BY <1>1, <3>1
    <2> QED
      BY <1>2, <2>1 DEF Surjection
  <1> QED
    BY <1>4, <1>5, FS_Bijection DEF Bijection, ExistsBijection

LEMMA GroupsAddUp ==
  ASSUME ListInv, NEW q, q.dedup
  PROVE  Cardinality(Counted(q)) = Cardinality(Matching(q))
  <1> DEFINE c(n) == Cardinality(Group(n, q))
             b(n) == CHOOSE f : f \in Bijection(1 .. c(n), Group(n, q))
             T == Counted(q)
             M == Matching(q)
             F == [x \in T |-> b(x[1])[x[2]]]
  <1>1. Items(q) \subseteq M /\ IsFiniteSet(M)
    BY ItemsAreRows DEF ListInv
  <1>2. ASSUME NEW n \in M
        PROVE  c(n) \in Nat /\ b(n) \in Bijection(1 .. c(n), Group(n, q))
    <2>1. Group(n, q) \in SUBSET M
      BY DEF Group
    <2>2. IsFiniteSet(Group(n, q))
      BY <1>1, <2>1, FS_Subset
    <2>3. c(n) \in Nat /\ ExistsBijection(1 .. c(n), Group(n, q))
      BY <2>2, FS_CardinalityType
    <2> QED
      BY <2>3, Zenon DEF ExistsBijection
  <1> HIDE DEF b
  <1>3. ASSUME NEW n \in M
        PROVE  /\ \A k \in 1 .. c(n) : b(n)[k] \in Group(n, q)
               /\ \A k, l \in 1 .. c(n) : b(n)[k] = b(n)[l] => k = l
               /\ \A m \in Group(n, q) : \E k \in 1 .. c(n) : b(n)[k] = m
    <2>1. PICK f : f = b(n)
      OBVIOUS
    <2>2. f \in [1 .. c(n) -> Group(n, q)] /\ f \in Bijection(1 .. c(n), Group(n, q))
      BY <1>2, <2>1 DEF Bijection, Injection
    <2>3. \A k, l \in 1 .. c(n) : f[k] = f[l] => k = l
      BY <2>2 DEF Bijection, Injection, IsInjective
    <2>4. \A m \in Group(n, q) : \E k \in 1 .. c(n) : f[k] = m
      BY <2>2 DEF Bijection, Surjection
    <2> QED
      BY <2>1, <2>2, <2>3, <2>4
  <1> HIDE DEF c
  <1>4. \A x : x \in T <=> \E n \in Items(q) : \E k \in 1 .. c(n) : x = <<n, k>>
    <2>1. \A n : DuplicateCount(n, q) = c(n)
      BY Zenon DEF DuplicateCount, c
    <2> QED
      BY <2>1 DEF Counted
  <1> HIDE DEF T
  <1>5. \A n \in Items(q) : \A k \in 1 .. c(n) : <<n, k>> \in T /\ F[<<n, k>>] = b(n)[k]
    BY <1>4
  <1>6. F \in [T -> M]
    <2>1. ASSUME NEW x \in T PROVE b(x[1])[x[2]] \in M
      <3>1. PICK n \in Items(q) : \E k \in 1 .. c(n) : x = <<n, k>>
        BY <1>4
      <3>2. PICK k \in 1 .. c(n) : x = <<n, k>>
        BY <3>1
      <3>3. b(n)[k] \in Group(n, q)
        BY <1>1, <1>3
      <3> QED
        BY <3>2, <3>3 DEF Group
    <2> QED
      BY <2>1
  <1> HIDE DEF F
  <1>7. ASSUME NEW x \in T, NEW y \in T, F[x] = F[y]
        PROVE  x = y
    <2>1. PICK n \in Items(q) : \E k \in 1 .. c(n) : x = <<n, k>>
      BY <1>4
    <2>2. PICK k \in 1 .. c(n) : x = <<n, k>>
      BY <2>1
    <2>3. PICK m \in Items(q) : \E l \in 1 .. c(m) : y = <<m, l>>
      BY <1>4
    <2>4. PICK l \in 1 .. c(m) : y = <<m, l>>
      BY <2>3
    <2>5. b(n)[k] = b(m)[l] /\ b(n)[k] \in Group(n, q) /\ b(m)[l] \in Group(m, q)
      BY <1>1, <1>3, <1>5, <1>7, <2>2, <2>4
    <2>6. n \in M /\ m \in M /\ DedupKeyExpr(n) = DedupKeyExpr(m)
      BY <1>1, <2>5 DEF Group
    <2>7. n \in Items(q) \cap Group(n, q) /\ m \in Items(q) \cap Group(n, q)
      BY <2>6 DEF Group
    <2>8. n = m
      BY <2>6, <2>7, GroupItem
    <2> QED
      BY <1>3, <2>2, <2>4, <2>5, <2>6, <2>8
  <1>8. ASSUME NEW n \in M
        PROVE  \E x \in T : F[x] = n
    <2>1. PICK m \in Items(q) : m \in Group(n, q)
      BY GroupItem
    <2>2. n \in Group(m, q) /\ m \in M
      BY <1>1, <2>1 DEF Group
    <2>3. PICK k \in 1 .. c(m) : b(m)[k] = n
      BY <1>3, <2>2
    <2> QED
      BY <1>5, <2>1, <2>3
  <1> QED
    BY <1>1, <1>6, <1>7, <1>8, Renumbered DEF T

LEMMA DuplicatesAddUpInv == ListInv => DuplicatesAddUp
  <1> SUFFICES ASSUME ListInv, walk.at = "asked"
               PROVE  DuplicatesAddUp
    BY DEF DuplicatesAddUp
  <1>1. PICK q, u : q = [walk.q EXCEPT !.dedup = TRUE] /\ u = [q EXCEPT !.dedup = FALSE]
    OBVIOUS
  <1>2. walk.q \in Query
    BY ListAssumption DEF ListInv, ListTypeOK
  <1>3. /\ q.dedup = TRUE /\ u.dedup = FALSE /\ u.kind = q.kind /\ u.recent = q.recent
        /\ u.from = q.from /\ u.to = q.to
    BY <1>1, <1>2 DEF Query
  <1>4. Matching(u) = Matching(q)
    BY <1>3, Zenon DEF Matching, Matches
  <1>5. Items(u) = Matching(u)
    BY <1>3 DEF Items
  <1>6. Cardinality(Counted(q)) = Cardinality(Matching(q))
    BY <1>3, GroupsAddUp
  <1> QED
    BY <1>1, <1>4, <1>5, <1>6, Zenon DEF DuplicatesAddUp, Total

\* For any notices and keys and every query, the counts shown beside the rows of a
\* deduplicated list add up to the rows of the list without deduplication: each
\* matching notice is counted beside one row, that of its group
\* (NoticeList.DuplicatesAddUp).
THEOREM CountsAddUp == Spec => []DuplicatesAddUp
  BY ListIndInv, DuplicatesAddUpInv, PTL

----------------------------------------------------------------------------
(* A walk of the default order *)

\* How many rows of the list come before n.
Place(n, q) == Cardinality(Before(n, RankOrder, Items(q)))

\* The places the pages shown have covered.
Reached == IF walk.at = "shown" THEN walk.offset + Limit ELSE walk.offset

\* A place never falls when a row is put into an order, and when the row put in
\* takes the place of a later one.
LEMMA PlaceHolds ==
  ASSUME NEW S, NEW R, NEW Q, NEW I \in SUBSET S, NEW J, NEW n, n \notin S,
         IsFiniteSet(I), IsFiniteSet(J), NEW x \in I,
         \A y \in S : <<y, x>> \in R => <<y, x>> \in Q,
         \/ I \subseteq J
         \/ \E y \in I : I \ {y} \subseteq J /\ n \in J /\ (<<y, x>> \in Q => <<n, x>> \in Q)
  PROVE  /\ Cardinality(Before(x, R, I)) \in Nat /\ Cardinality(Before(x, Q, J)) \in Nat
         /\ Cardinality(Before(x, R, I)) <= Cardinality(Before(x, Q, J))
  <1>1. IsFiniteSet(Before(x, R, I)) /\ IsFiniteSet(Before(x, Q, J))
    <2>1. Before(x, R, I) \subseteq I /\ Before(x, Q, J) \subseteq J
      BY DEF Before
    <2> QED
      BY <2>1, FS_Subset
  <1>2. Cardinality(Before(x, R, I)) \in Nat /\ Cardinality(Before(x, Q, J)) \in Nat
    BY <1>1, FS_CardinalityType
  <1>3. CASE Before(x, R, I) \subseteq Before(x, Q, J)
    BY <1>1, <1>2, <1>3, FS_Subset
  <1>4. CASE ~(Before(x, R, I) \subseteq Before(x, Q, J))
    <2>1. ~(I \subseteq J)
      BY <1>4 DEF Before
    <2>2. PICK y \in I : I \ {y} \subseteq J /\ n \in J /\ (<<y, x>> \in Q => <<n, x>> \in Q)
      BY <2>1
    <2>3. y \in Before(x, R, I) /\ n \in Before(x, Q, J)
      BY <1>4, <2>2 DEF Before
    <2>4. PICK B : B = Before(x, R, I) \ {y}
      OBVIOUS
    <2>5. IsFiniteSet(B) /\ Cardinality(B) = Cardinality(Before(x, R, I)) - 1
      BY <1>1, <2>3, <2>4, FS_RemoveElement
    <2>6. n \notin B /\ B \cup {n} \subseteq Before(x, Q, J)
      BY <2>2, <2>3, <2>4 DEF Before
    <2>7. IsFiniteSet(B \cup {n}) /\ Cardinality(B \cup {n}) = Cardinality(B) + 1
      BY <2>5, <2>6, FS_AddElement
    <2>8. Cardinality(B \cup {n}) <= Cardinality(Before(x, Q, J))
      BY <1>1, <2>6, FS_Subset
    <2> QED
      BY <1>2, <2>5, <2>7, <2>8
  <1> QED
    BY <1>3, <1>4

\* A notice that was there is what it was: the same matches, key and rank.
LEMMA OldRowsKeep ==
  ASSUME NEW m \in Rows, NEW q, now' = now, notices'[m] = notices[m]
  PROVE  /\ Matches(m, q)' <=> Matches(m, q)
         /\ Rank(m)' = Rank(m) /\ DedupKeyExpr(m)' = DedupKeyExpr(m)
  <1>1. Within(m, now)' <=> Within(m, now)
    BY DEF Within
  <1>2. q.recent # Nil => (Within(m, now - q.recent)' <=> Within(m, now - q.recent))
    BY DEF Within
  <1>3. Matches(m, q)' <=> Matches(m, q)
    BY <1>2 DEF Matches
  <1>4. RecentNew(m)' <=> RecentNew(m)
    BY <1>1 DEF RecentNew, Within
  <1>5. Flag(RecentNew(m))' = Flag(RecentNew(m))
    BY <1>4, Zenon DEF Flag
  <1>6. Rank(m)' = Rank(m)
    BY <1>5, Zenon DEF Rank, NullsLast
  <1>7. DedupKeyExpr(m)' = DedupKeyExpr(m)
    BY Zenon DEF DedupKeyExpr, Fallback
  <1> QED
    BY <1>3, <1>6, <1>7

LEMMA RankOrdersAll == ListInv => Orders(RankOrder, Rows)
  BY RankOrders DEF ListInv

LEMMA RankOrdersNext == ListInv' => Orders(RankOrder, Rows)'
  BY RankOrdersAll, PTL

\* A new notice that is no duplicate of the entry x stands for leaves x in the list,
\* behind as many rows as before or one more.
LEMMA NewNoticeKeepsPlaces ==
  ASSUME ListInv, ListInv', NEW n, n \notin Rows, Rows' = Rows \cup {n}, now' = now,
         \A m \in Rows : notices'[m] = notices[m],
         NEW q, NEW x, x \in Items(q), q.dedup => DedupKeyExpr(n)' # DedupKeyExpr(x)
  PROVE  /\ x \in Items(q)' /\ Entry(x, q)' = Entry(x, q)
         /\ Place(x, q) \in Nat /\ Place(x, q)' \in Nat /\ Place(x, q) <= Place(x, q)'
  <1>1. Orders(RankOrder, Rows) /\ Orders(RankOrder', Rows')
    BY RankOrdersAll, RankOrdersNext
  <1>2. /\ \A m \in Rows : DedupKeyExpr(m)' = DedupKeyExpr(m)
        /\ \A m \in Rows : Rank(m)' = Rank(m)
        /\ \A m \in Rows : Matches(m, q)' <=> Matches(m, q)
    BY OldRowsKeep
  <1>3. /\ Matching(q) \subseteq Rows /\ Matching(q)' \subseteq Rows \cup {n}
        /\ Matching(q) \subseteq Matching(q)'
        /\ \A m \in Rows : m \in Matching(q)' <=> m \in Matching(q)
    BY <1>2 DEF Matching
  <1>4. \A y, z \in Rows : <<y, z>> \in RankOrder' <=> <<y, z>> \in RankOrder
    BY <1>2 DEF RankOrder
  <1>5. ASSUME NEW m \in Rows
        PROVE  /\ \A z : z \in Group(m, q)' => z = n \/ z \in Group(m, q)
               /\ n \in Group(m, q)' => n \in Matching(q)' /\ DedupKeyExpr(n)' = DedupKeyExpr(m)
    BY <1>2, <1>3, <1>5 DEF Group
  <1>6. /\ Items(q) \subseteq Matching(q) /\ Items(q)' \subseteq Matching(q)'
        /\ IsFiniteSet(Items(q)) /\ IsFiniteSet(Items(q)')
    <2>1. Items(q) \subseteq Matching(q) /\ Items(q)' \subseteq Matching(q)'
      BY DEF Items
    <2>2. IsFiniteSet(Rows) /\ IsFiniteSet(Rows')
      BY DEF ListInv
    <2> QED
      BY <1>3, <2>1, <2>2, FS_Subset
  <1>7. /\ x \in Items(q)'
        /\ \/ Items(q) \subseteq Items(q)'
           \/ \E y \in Items(q) : /\ Items(q) \ {y} \subseteq Items(q)' /\ n \in Items(q)'
                                  /\ <<n, y>> \in RankOrder'
    <2>1. CASE ~q.dedup
      BY <1>3, <2>1 DEF Items
    <2>2. CASE q.dedup
      <3>1. \A m : m \in Items(q) <=>
                      m \in Matching(q) /\ \A z \in Group(m, q) : <<z, m>> \notin RankOrder
        BY <1>3, <2>2 DEF Items, Group, RankOrder
      <3>2. \A m : m \in Items(q)' <=>
                      m \in Matching(q)' /\ \A z \in Group(m, q)' : <<z, m>> \notin RankOrder'
        <4>1. \A m : m \in Items(q)' <=>
                        m \in Matching(q)' /\ \A z \in Group(m, q)' : ~Less(Rank(z)', Rank(m)')
          BY <2>2 DEF Items
        <4>2. \A m : Group(m, q)' \subseteq Rows'
          BY DEF Group, Matching
        <4>3. Matching(q)' \subseteq Rows'
          BY DEF Matching
        <4> QED
          BY <4>1, <4>2, <4>3 DEF RankOrder
      <3>3. ASSUME NEW m \in Items(q), m \notin Items(q)'
            PROVE  /\ n \in Matching(q)' /\ DedupKeyExpr(n)' = DedupKeyExpr(m)
                   /\ <<n, m>> \in RankOrder'
        <4>1. m \in Matching(q) /\ m \in Rows /\ m \in Matching(q)'
          BY <1>3, <1>6, <3>3
        <4>2. PICK z \in Group(m, q)' : <<z, m>> \in RankOrder'
          BY <3>2, <3>3, <4>1
        <4>3. ~(z \in Group(m, q))
          <5>1. Group(m, q) \subseteq Rows
            BY <1>3 DEF Group
          <5> QED
            BY <1>4, <3>1, <3>3, <4>1, <4>2, <5>1
        <4>4. z = n
          BY <1>5, <4>1, <4>2, <4>3
        <4> QED
          BY <1>5, <4>1, <4>2, <4>4
      <3>4. x \in Items(q)'
        BY <2>2, <3>3
      <3>5. ASSUME NEW y \in Items(q), y \notin Items(q)'
            PROVE  Items(q) \ {y} \subseteq Items(q)' /\ n \in Items(q)'
        <4>1. /\ n \in Matching(q)' /\ DedupKeyExpr(n)' = DedupKeyExpr(y)
              /\ <<n, y>> \in RankOrder' /\ y \in Rows /\ y \in Matching(q)
          BY <1>3, <1>6, <3>3, <3>5
        <4>2. ASSUME NEW z \in Group(y, q) PROVE <<z, n>> \notin RankOrder'
          <5>1. z \in Rows /\ <<z, y>> \notin RankOrder
            BY <1>3, <3>1, <4>2 DEF Group
          <5> QED
            BY <1>1, <1>4, <4>1, <5>1 DEF Orders
        <4>3. \A z \in Group(n, q)' : z = n \/ z \in Group(y, q)
          BY <1>2, <1>3, <4>1 DEF Group
        <4>4. n \in Items(q)'
          BY <1>1, <3>2, <4>1, <4>2, <4>3 DEF Orders
        <4>5. ASSUME NEW z \in Items(q), z # y PROVE z \in Items(q)'
          <5>1. SUFFICES ASSUME z \notin Items(q)' PROVE FALSE
            OBVIOUS
          <5>2. DedupKeyExpr(z) = DedupKeyExpr(y) /\ z \in Rows /\ z \in Matching(q)
            BY <1>3, <1>6, <3>3, <4>1, <4>5, <5>1
          <5>3. z \in Group(y, q) /\ y \in Group(z, q)
            BY <4>1, <5>2 DEF Group
          <5>4. <<z, y>> \notin RankOrder /\ <<y, z>> \notin RankOrder
            BY <3>1, <4>5, <5>3
          <5> QED
            BY <1>1, <4>1, <4>5, <5>2, <5>4 DEF Orders
        <4> QED
          BY <4>4, <4>5
      <3> QED
        BY <3>3, <3>4, <3>5
    <2> QED
      BY <2>1, <2>2
  <1>8. x \in Rows /\ Entry(x, q)' = Entry(x, q)
    BY <1>2, <1>3, <1>6 DEF Entry
  <1>9. \/ Items(q) \subseteq Items(q)'
        \/ \E y \in Items(q) : /\ Items(q) \ {y} \subseteq Items(q)' /\ n \in Items(q)'
                               /\ <<y, x>> \in RankOrder' => <<n, x>> \in RankOrder'
    BY <1>1, <1>3, <1>6, <1>7, <1>8 DEF Orders
  <1>10. /\ \A y \in Rows : <<y, x>> \in RankOrder => <<y, x>> \in RankOrder'
         /\ Items(q) \in SUBSET Rows
    BY <1>3, <1>4, <1>6, <1>8
  <1>11. /\ Cardinality(Before(x, RankOrder, Items(q))) \in Nat
         /\ Cardinality(Before(x, RankOrder', Items(q)')) \in Nat
         /\ Cardinality(Before(x, RankOrder, Items(q)))
               <= Cardinality(Before(x, RankOrder', Items(q)'))
    <2>1. PICK I, J, R, Q, S : /\ I = Items(q) /\ J = Items(q)' /\ S = Rows
                               /\ R = RankOrder /\ Q = RankOrder'
      OBVIOUS
    <2>2. /\ I \in SUBSET S /\ n \notin S /\ IsFiniteSet(I) /\ IsFiniteSet(J) /\ x \in I
          /\ \A y \in S : <<y, x>> \in R => <<y, x>> \in Q
      BY <1>6, <1>10, <2>1
    <2>3. \/ I \subseteq J
          \/ \E y \in I : I \ {y} \subseteq J /\ n \in J /\ (<<y, x>> \in Q => <<n, x>> \in Q)
      BY <1>9, <2>1
    <2>4. /\ Cardinality(Before(x, R, I)) \in Nat /\ Cardinality(Before(x, Q, J)) \in Nat
          /\ Cardinality(Before(x, R, I)) <= Cardinality(Before(x, Q, J))
      BY <2>2, <2>3, PlaceHolds
    <2> QED
      BY <2>1, <2>4
  <1> QED
    BY <1>7, <1>8, <1>11 DEF Place

LEMMA NothingMoves ==
  ASSUME now' = now, notices' = notices, NEW q
  PROVE  /\ Items(q)' = Items(q) /\ Total(q)' = Total(q)
         /\ \A n : Entry(n, q)' = Entry(n, q) /\ Place(n, q)' = Place(n, q)
  <1>1. Rows' = Rows
    BY DEF Rows
  <1>2. \A n : DedupKeyExpr(n)' = DedupKeyExpr(n)
    BY Zenon DEF DedupKeyExpr, Fallback
  <1>3. /\ \A n \in Rows : Rank(n)' = Rank(n)
        /\ \A n \in Rows : Matches(n, q)' <=> Matches(n, q)
    BY OldRowsKeep
  <1>4. Matching(q)' = Matching(q) /\ Matching(q) \subseteq Rows
    BY <1>1, <1>3 DEF Matching
  <1>5. \A n : Group(n, q)' = Group(n, q)
    BY <1>2, <1>4 DEF Group
  <1>6. RankOrder' = RankOrder
    BY <1>1, <1>3 DEF RankOrder
  <1>7. Items(q)' = Items(q)
    <2>1. \A n \in Rows : Rank(n)' = Rank(n)
      BY <1>3
    <2>2. \A n : Group(n, q) \subseteq Rows
      BY <1>4 DEF Group
    <2> QED
      BY <1>4, <1>5, <2>1, <2>2 DEF Items
  <1>8. \A n : Place(n, q)' = Place(n, q)
    BY <1>6, <1>7, Zenon DEF Place
  <1>9. \A n : Entry(n, q)' = Entry(n, q)
    BY <1>2, Zenon DEF Entry
  <1> QED
    BY <1>7, <1>8, <1>9, Zenon DEF Total

\* Each entry of the list has a row.
LEMMA EntryHasItem ==
  ASSUME ListInv, NEW q, q.dedup \in BOOLEAN, NEW e \in Entries(q)
  PROVE  \E n \in Items(q) : Entry(n, q) = e /\ Place(n, q) \in Nat
  <1>1. PICK m \in Matching(q) : e = Entry(m, q)
    BY DEF Entries
  <1>2. PICK n \in Items(q) : Entry(n, q) = e
    <2>1. CASE q.dedup
      <3>1. PICK n \in Items(q) : Items(q) \cap Group(m, q) = {n}
        BY <2>1, GroupItem
      <3>2. n \in Group(m, q)
        BY <3>1
      <3> QED
        BY <1>1, <2>1, <3>2 DEF Entry, Group
    <2>2. CASE ~q.dedup
      BY <1>1, <2>2 DEF Items
    <2> QED
      BY <2>1, <2>2
  <1>3. Items(q) \in SUBSET Rows /\ IsFiniteSet(Items(q)) /\ Orders(RankOrder, Rows)
    BY ItemsAreRows, RankOrders DEF ListInv
  <1>4. Place(n, q) \in Nat
    BY <1>3, PlaceInside DEF Place
  <1> QED
    BY <1>2, <1>4

\* The row of an entry the reader has yet to reach.
Ahead(e, q, place) == \E n \in Items(q) :
    Entry(n, q) = e /\ Place(n, q) \in Nat /\ Place(n, q) >= place

LEMMA NothingMovesAhead ==
  ASSUME now' = now, notices' = notices, NEW q, NEW e, NEW k, Ahead(e, q, k)
  PROVE  Ahead(e, q, k)'
  <1>1. PICK n \in Items(q) : Entry(n, q) = e /\ Place(n, q) \in Nat /\ Place(n, q) >= k
    BY DEF Ahead
  <1>2. n \in Items(q)' /\ Entry(n, q)' = Entry(n, q) /\ Place(n, q)' = Place(n, q)
    BY NothingMoves
  <1> QED
    BY <1>1, <1>2 DEF Ahead

\* After Show the entries not shown are behind the page.
LEMMA ShownPage ==
  ASSUME ListInv, NEW q, IsDefault(q), NEW k \in Nat, NEW e, Ahead(e, q, k),
         e \notin {Entry(n, q) : n \in Page(q, k)}
  PROVE  Ahead(e, q, k + Limit) /\ k + Limit < Total(q)
  <1>1. PICK n \in Items(q) : Entry(n, q) = e /\ Place(n, q) \in Nat /\ Place(n, q) >= k
    BY DEF Ahead
  <1>2. Items(q) \in SUBSET Rows /\ IsFiniteSet(Items(q)) /\ Orders(RankOrder, Rows)
    BY ItemsAreRows, RankOrders DEF ListInv
  <1>3. Place(n, q) < Total(q) /\ Total(q) \in Nat /\ Limit \in Nat
    BY <1>2, PlaceInside, ListAssumption DEF Place, Total
  <1>4. {m \in Items(q) : Less(OrderBy(m, q), OrderBy(n, q))} = Before(n, RankOrder, Items(q))
    <2>1. \A m \in Rows : OrderBy(m, q) = Rank(m)
      BY DefaultOrder
    <2> QED
      BY <1>2, <2>1 DEF Before, RankOrder
  <1>5. n \in Page(q, k) <=> Place(n, q) \in k .. k + Limit - 1
    BY <1>4 DEF Page, Place
  <1>6. Place(n, q) >= k + Limit
    BY <1>1, <1>3, <1>5
  <1> QED
    BY <1>1, <1>3, <1>6 DEF Ahead

\* The same, clause by clause, for a walk that nothing disturbed.
Watched == walk.at # "closed" /\ ~walk.disturbed /\ IsDefault(walk.q)
WalkParts ==
    /\ \A e \in walk.had \ walk.shown : Ahead(e, walk.q, Reached)
    /\ walk.at = "counted" => walk.total = Total(walk.q)
    /\ walk.at = "shown" /\ ~HasNext => walk.had \subseteq walk.shown

\* What the reader does, from one request to the next.
LEMMA ReaderStep ==
  ASSUME ListInv, Watched => WalkParts, Watched',
         (\E q \in Queries : Open(q)) \/ Count \/ Show \/ NextPage \/ Close
  PROVE  WalkParts'
  <1>0. /\ notices' = notices /\ now' = now
        /\ walk.offset \in Nat /\ Limit \in Nat /\ walk.total \in Nat
    BY ListAssumption DEF ListInv, ListTypeOK, Open, Count, Show, NextPage, Close
  <1>1. ASSUME NEW q \in Queries, Open(q) PROVE WalkParts'
    <2>1. /\ walk'.at = "asked" /\ walk'.q = q /\ walk'.had = Entries(q) /\ walk'.shown = {}
          /\ walk'.offset = 0
      BY <1>1 DEF Open, Closed
    <2>2. q.dedup \in BOOLEAN
      BY ListAssumption DEF Query
    <2>3. ASSUME NEW e \in Entries(q) PROVE Ahead(e, q, 0)
      BY <2>2, <2>3, EntryHasItem DEF Ahead
    <2>4. \A e \in Entries(q) : Ahead(e, q, 0)'
      BY <1>0, <2>3, NothingMovesAhead
    <2> QED
      BY <2>1, <2>4 DEF WalkParts, Reached
  <1>2. ASSUME Count PROVE WalkParts'
    <2>1. PICK q, k : q = walk.q /\ k = walk.offset
      OBVIOUS
    <2>2. /\ walk.at = "asked" /\ walk'.at = "counted" /\ walk'.q = q /\ walk'.offset = k
          /\ walk'.total = Total(q) /\ walk'.had = walk.had /\ walk'.shown = walk.shown
          /\ walk'.disturbed = walk.disturbed
      BY <1>2, <2>1 DEF Count, ListInv, WalkForm
    <2>3. \A e \in walk.had \ walk.shown : Ahead(e, q, k)
      BY <2>1, <2>2 DEF Watched, WalkParts, Reached
    <2>4. \A e \in walk.had \ walk.shown : Ahead(e, q, k)'
      BY <1>0, <2>3, NothingMovesAhead
    <2>5. Total(q)' = Total(q)
      BY <1>0, NothingMoves
    <2> QED
      BY <2>2, <2>4, <2>5 DEF WalkParts, Reached
  <1>3. ASSUME Show PROVE WalkParts'
    <2>1. PICK q, k : q = walk.q /\ k = walk.offset
      OBVIOUS
    <2>2. PICK s : s = walk.shown \cup {Entry(n, q) : n \in Page(q, k)}
      OBVIOUS
    <2>3. walk.at = "counted" /\ walk' = [walk EXCEPT !.at = "shown", !.shown = s]
      BY <1>3, <2>1, <2>2 DEF Show
    <2>4. /\ walk'.at = "shown" /\ walk'.q = q /\ walk'.offset = k
          /\ walk'.total = walk.total /\ walk'.had = walk.had /\ walk'.shown = s
          /\ walk'.disturbed = walk.disturbed
      BY <2>1, <2>3 DEF ListInv, WalkForm
    <2>5. IsDefault(q) /\ WalkParts /\ k \in Nat
      BY <1>0, <2>1, <2>3, <2>4 DEF Watched, IsDefault
    <2>6. walk.total = Total(q) /\ \A e \in walk.had \ walk.shown : Ahead(e, q, k)
      BY <2>1, <2>3, <2>5 DEF WalkParts, Reached
    <2>7. ASSUME NEW e \in walk.had \ s PROVE Ahead(e, q, k + Limit) /\ k + Limit < Total(q)
      BY <2>2, <2>5, <2>6, <2>7, ShownPage
    <2>8. \A e \in walk.had \ s : Ahead(e, q, k + Limit)'
      BY <1>0, <2>7, NothingMovesAhead
    <2>9. ~HasNext' => walk'.had \subseteq walk'.shown
      BY <2>4, <2>6, <2>7 DEF HasNext
    <2> QED
      BY <2>4, <2>8, <2>9 DEF WalkParts, Reached
  <1>4. ASSUME NextPage PROVE WalkParts'
    <2>1. PICK q, k : q = walk.q /\ k = walk.offset + Limit
      OBVIOUS
    <2>2. walk.at = "shown" /\ walk' = [walk EXCEPT !.at = "asked", !.offset = k]
      BY <1>4, <2>1 DEF NextPage
    <2>3. /\ walk'.at = "asked" /\ walk'.q = q /\ walk'.offset = k
          /\ walk'.had = walk.had /\ walk'.shown = walk.shown /\ walk'.disturbed = walk.disturbed
      BY <2>1, <2>2 DEF ListInv, WalkForm
    <2>4. \A e \in walk.had \ walk.shown : Ahead(e, q, k)
      BY <2>1, <2>2, <2>3 DEF Watched, WalkParts, Reached
    <2>5. \A e \in walk.had \ walk.shown : Ahead(e, q, k)'
      BY <1>0, <2>4, NothingMovesAhead
    <2> QED
      BY <2>3, <2>5 DEF WalkParts, Reached
  <1>5. ASSUME Close PROVE WalkParts'
    BY <1>5 DEF Close, Closed, Watched
  <1> QED
    BY <1>1, <1>2, <1>3, <1>4, <1>5

WalkInv == Watched => WalkParts

\* What happens to the list while the reader reads.
LEMMA WriterStep ==
  ASSUME ListInv, WalkInv, Watched', NEW b \in BOOLEAN, Disturb(b),
         NEW q, NEW k, q = walk.q, k = Reached,
         Watched /\ ~b =>
            \A e \in walk.had \ walk.shown : Ahead(e, q, k) => Ahead(e, q, k)'
  PROVE  WalkParts'
  <1>1. /\ walk'.at = walk.at /\ walk'.q = walk.q /\ walk'.offset = walk.offset
        /\ walk'.total = walk.total /\ walk'.shown = walk.shown /\ walk'.had = walk.had
        /\ ~walk'.disturbed =>
              /\ ~walk.disturbed
              /\ walk.at = "closed" \/ (~b /\ walk.at # "counted")
    BY DisturbKeeps
  <1>2. Watched /\ ~b /\ walk'.at # "counted"
    BY <1>1 DEF Watched, IsDefault
  <1>3. \A e \in walk.had \ walk.shown : Ahead(e, q, k)
    BY <1>2 DEF WalkInv, WalkParts
  <1>4. \A e \in walk'.had \ walk'.shown : Ahead(e, q, k)'
    BY <1>1, <1>2, <1>3
  <1>5. walk'.q = q /\ Reached' = k
    BY <1>1 DEF Reached
  <1>6. walk'.at = "shown" /\ ~HasNext' => walk'.had \subseteq walk'.shown
    BY <1>1, <1>2 DEF WalkInv, WalkParts, HasNext
  <1> QED
    BY <1>2, <1>4, <1>5, <1>6 DEF WalkParts

LEMMA WalkStep == ListInv /\ ListInv' /\ WalkInv /\ [Next]_vars => WalkInv'
  <1> SUFFICES ASSUME ListInv, ListInv', WalkInv, [Next]_vars, Watched' PROVE WalkParts'
    BY DEF WalkInv
  <1>0. PICK q, k : q = walk.q /\ k = Reached
    OBVIOUS
  <1>1. ASSUME NEW n \in Notice, NEW a \in Announced, Publish(n, a) PROVE WalkParts'
    <2>1. PICK r : r = [c \in Columns \cup {"created", "revised"} |->
                          IF c \in Columns THEN a[c] ELSE now]
      OBVIOUS
    <2>2. now \in Nat /\ r \in Row(now)
      <3>1. now \in Nat
        BY ListAssumption DEF ListInv, ListTypeOK
      <3> QED
        BY <2>1, <3>1, NewRow
    <2>3. PICK b \in BOOLEAN :
            b = (walk.q # Nil /\ walk.q.dedup /\ DedupKeyExpr(n)' \in walk.had)
      OBVIOUS
    <2>4. /\ notices' = [notices EXCEPT ![n] = r] /\ now' = now /\ Disturb(b)
          /\ notices[n] = Nil
      BY <1>1, <2>1, <2>3 DEF Publish, Disturb
    <2>5. n \notin Rows /\ Rows' = Rows \cup {n} /\ \A m \in Rows : notices'[m] = notices[m]
      <3>1. n \notin Rows
        BY <2>4 DEF Rows
      <3> QED
        BY <2>2, <2>4, <3>1, RowsChange
    <2>6. ASSUME Watched, ~b, NEW e \in walk.had \ walk.shown, Ahead(e, q, k)
          PROVE  Ahead(e, q, k)'
      <3>1. q \in Query /\ q # Nil
        <4>1. q \in Queries
          BY <1>0, <2>6 DEF Watched, ListInv, ListTypeOK
        <4> QED
          BY <4>1, ListAssumption
      <3>2. PICK x \in Items(q) : Entry(x, q) = e /\ Place(x, q) \in Nat /\ Place(x, q) >= k
        BY <2>6 DEF Ahead
      <3>3. q.dedup => DedupKeyExpr(n)' # DedupKeyExpr(x)
        BY <1>0, <2>3, <2>6, <3>1, <3>2, Zenon DEF Entry
      <3>4. /\ x \in Items(q)' /\ Entry(x, q)' = Entry(x, q)
            /\ Place(x, q) \in Nat /\ Place(x, q)' \in Nat /\ Place(x, q) <= Place(x, q)'
        BY <2>4, <2>5, <3>2, <3>3, NewNoticeKeepsPlaces
      <3>5. k \in Nat
        BY <1>0, ListAssumption DEF Reached, ListInv, ListTypeOK
      <3>6. Place(x, q)' >= k
        BY <3>2, <3>4, <3>5
      <3> QED
        BY <3>2, <3>4, <3>6 DEF Ahead
    <2> QED
      BY <1>0, <2>4, <2>6, WriterStep
  <1>2. ASSUME NEW n \in Notice, NEW a \in Announced, NEW versioned \in BOOLEAN,
               Revise(n, a, versioned)
        PROVE  WalkParts'
    <2>1. PICK b \in BOOLEAN : b = (notices' # notices)
      OBVIOUS
    <2>2. now' = now /\ Disturb(b)
      BY <1>2, <2>1 DEF Revise, Disturb
    <2>3. ASSUME ~b, NEW e, Ahead(e, q, k) PROVE Ahead(e, q, k)'
      BY <2>1, <2>2, <2>3, NothingMovesAhead
    <2> QED
      BY <1>0, <2>2, <2>3, WriterStep
  <1>3. ASSUME Tick PROVE WalkParts'
    BY <1>0, <1>3, WriterStep DEF Tick
  <1>4. ASSUME (\E p \in Queries : Open(p)) \/ Count \/ Show \/ NextPage \/ Close
        PROVE  WalkParts'
    BY <1>4, ReaderStep DEF WalkInv
  <1>5. ASSUME UNCHANGED vars PROVE WalkParts'
    <2>1. walk' = walk /\ now' = now /\ notices' = notices
      BY <1>5 DEF vars
    <2>2. Watched /\ WalkParts
      BY <2>1 DEF WalkInv, Watched, IsDefault
    <2>3. \A e \in walk.had \ walk.shown : Ahead(e, q, k)'
      BY <1>0, <2>1, <2>2, NothingMovesAhead DEF WalkParts
    <2>4. Total(q)' = Total(q)
      BY <2>1, NothingMoves
    <2> QED
      BY <1>0, <2>1, <2>2, <2>3, <2>4 DEF WalkParts, Reached, HasNext
  <1> QED
    BY <1>1, <1>2, <1>3, <1>4, <1>5 DEF Next

LEMMA WalkInit == Init => WalkInv
  BY DEF Init, Closed, WalkInv, Watched

\* A reader who walks the default order to its end has been shown every entry that
\* was there when the walk began, however many announcements are stored meanwhile,
\* for any page size: an entry not yet shown stays at or behind the place the reader
\* has reached, because a new notice takes a place of its own or that of the row it
\* supersedes in its group, ahead of it (notice_repository.py:164-172).
THEOREM WalksMissNothing == Spec => []WalkMissesNothing
  <1>1. WalkInv => WalkMissesNothing
    BY DEF WalkInv, WalkMissesNothing, Watched, WalkParts, IsDefault
  <1> QED
    BY <1>1, ListIndInv, WalkInit, WalkStep, PTL DEF Spec

----------------------------------------------------------------------------
(* The pages and the export *)

Position(n, q) == Cardinality({m \in Items(q) : Less(OrderBy(m, q), OrderBy(n, q))})

\* Each row of a list has a place of its own, below the total, in the order of the list.
LEMMA PlacesOfRows ==
  ASSUME ListInv, NEW q \in Queries
  PROVE  /\ \A n \in Items(q) : Position(n, q) \in 0 .. Total(q) - 1
         /\ \A m, n \in Items(q) : Position(m, q) = Position(n, q) => m = n
         /\ \A m, n \in Items(q) : <<m, n>> \in ListOrder(q) => Position(m, q) < Position(n, q)
  <1>1. Orders(ListOrder(q), Rows) /\ Items(q) \in SUBSET Rows /\ IsFiniteSet(Items(q))
    BY ListOrders, ItemsAreRows, ListAssumption DEF ListInv
  <1>2. ASSUME NEW n \in Items(q)
        PROVE  /\ Position(n, q) = Cardinality(Before(n, ListOrder(q), Items(q)))
               /\ Position(n, q) \in Nat /\ Total(q) \in Nat /\ Position(n, q) < Total(q)
    <2>1. {m \in Items(q) : Less(OrderBy(m, q), OrderBy(n, q))}
             = Before(n, ListOrder(q), Items(q))
      BY <1>1, <1>2 DEF Before, ListOrder
    <2>2. Position(n, q) = Cardinality(Before(n, ListOrder(q), Items(q)))
      BY <2>1, Zenon DEF Position
    <2> QED
      BY <1>1, <1>2, <2>2, PlaceInside DEF Total
  <1>3. ASSUME NEW m \in Items(q), NEW n \in Items(q), <<m, n>> \in ListOrder(q)
        PROVE  Position(m, q) < Position(n, q)
    BY <1>1, <1>2, <1>3, LaterHasMore
  <1>4. ASSUME NEW m \in Items(q), NEW n \in Items(q), Position(m, q) = Position(n, q)
        PROVE  m = n
    <2>1. Position(m, q) \in Nat /\ Position(n, q) \in Nat
      BY <1>2
    <2>2. <<m, n>> \notin ListOrder(q) /\ <<n, m>> \notin ListOrder(q)
      BY <1>3, <1>4, <2>1
    <2>3. m \in Rows /\ n \in Rows
      BY <1>1
    <2> QED
      BY <1>1, <2>2, <2>3 DEF Orders
  <1>5. \A n \in Items(q) : Position(n, q) \in 0 .. Total(q) - 1
    BY <1>2
  <1> QED
    BY <1>3, <1>4, <1>5

Sorted(s, q) ==
    \A i, j \in DOMAIN s : i < j => ~Less(OrderBy(s[j], q), OrderBy(s[i], q))

\* Sequences of all elements of a finite set are its bijections.
LEMMA SeqsOfSet ==
  ASSUME NEW S, IsFiniteSet(S), NEW s \in SetToSeqs(S)
  PROVE  /\ Cardinality(S) \in Nat /\ s \in Bijection(1 .. Cardinality(S), S)
         /\ DOMAIN s = 1 .. Cardinality(S) /\ Len(s) = Cardinality(S)
  <1>1. Cardinality(S) \in Nat
    BY FS_CardinalityType
  <1>2. s \in [1 .. Cardinality(S) -> S]
        /\ \A i, j \in 1 .. Cardinality(S) : i # j => s[i] # s[j]
    BY DEF SetToSeqs
  <1>3. s \in Injection(1 .. Cardinality(S), S)
    BY <1>2 DEF Injection, IsInjective
  <1>4. IsFiniteSet(1 .. Cardinality(S)) /\ Cardinality(1 .. Cardinality(S)) = Cardinality(S)
    BY <1>1, FS_Interval
  <1>5. s \in Surjection(1 .. Cardinality(S), S)
    BY <1>3, <1>4, FS_Injection
  <1> QED
    BY <1>1, <1>2, <1>3, <1>5 DEF Bijection

\* The first elements of a sorted list are those before the next one.
LEMMA SortedPlaces ==
  ASSUME ListInv, NEW q \in Queries, NEW s \in SetToSeqs(Items(q)), Sorted(s, q),
         NEW i \in 1 .. Total(q)
  PROVE  Position(s[i], q) = i - 1
  <1>1. Orders(ListOrder(q), Rows) /\ Items(q) \in SUBSET Rows /\ IsFiniteSet(Items(q))
    BY ListOrders, ItemsAreRows, ListAssumption DEF ListInv
  <1>2. /\ Total(q) \in Nat /\ s \in Bijection(1 .. Total(q), Items(q))
        /\ DOMAIN s = 1 .. Total(q)
    BY <1>1, SeqsOfSet DEF Total
  <1>3. /\ s \in [1 .. Total(q) -> Items(q)]
        /\ \A j, k \in 1 .. Total(q) : s[j] = s[k] => j = k
        /\ \A n \in Items(q) : \E j \in 1 .. Total(q) : s[j] = n
    BY <1>2 DEF Bijection, Injection, Surjection, IsInjective
  <1> DEFINE ahead == {m \in Items(q) : Less(OrderBy(m, q), OrderBy(s[i], q))}
             first == [j \in 1 .. i - 1 |-> s[j]]
  <1>4. ASSUME NEW j \in 1 .. Total(q), NEW k \in 1 .. Total(q), j < k
        PROVE  /\ Less(OrderBy(s[j], q), OrderBy(s[k], q))
               /\ ~Less(OrderBy(s[k], q), OrderBy(s[j], q))
    <2>1. ~Less(OrderBy(s[k], q), OrderBy(s[j], q))
      BY <1>2, <1>4 DEF Sorted
    <2>2. s[j] # s[k] /\ s[j] \in Rows /\ s[k] \in Rows
      BY <1>1, <1>3, <1>4
    <2>3. <<s[k], s[j]>> \notin ListOrder(q)
      BY <2>1 DEF ListOrder
    <2>4. <<s[j], s[k]>> \in ListOrder(q)
      BY <1>1, <2>2, <2>3 DEF Orders
    <2> QED
      BY <2>1, <2>4 DEF ListOrder
  <1>5. ~Less(OrderBy(s[i], q), OrderBy(s[i], q))
    BY <1>1, <1>3 DEF Orders, ListOrder
  <1>6. \A j \in 1 .. Total(q) : s[j] \in ahead <=> j \in 1 .. i - 1
    <2> SUFFICES ASSUME NEW j \in 1 .. Total(q)
                 PROVE  s[j] \in ahead <=> j \in 1 .. i - 1
      OBVIOUS
    <2>1. CASE j < i
      BY <1>3, <1>4, <2>1
    <2>2. CASE j = i
      BY <1>5, <2>2
    <2>3. CASE i < j
      BY <1>4, <2>3
    <2> QED
      BY <2>1, <2>2, <2>3
  <1>7. first \in Bijection(1 .. i - 1, ahead)
    <2>1. \A j \in 1 .. i - 1 : first[j] = s[j] /\ j \in 1 .. Total(q)
      BY <1>2
    <2>2. first \in [1 .. i - 1 -> ahead]
      BY <2>1, <1>6
    <2>3. \A j, k \in 1 .. i - 1 : first[j] = first[k] => j = k
      BY <2>1, <1>3
    <2>4. \A n \in ahead : \E j \in 1 .. i - 1 : first[j] = n
      BY <2>1, <1>3, <1>6
    <2> HIDE DEF first, ahead
    <2> QED
      BY <2>2, <2>3, <2>4 DEF Bijection, Injection, Surjection, IsInjective
  <1>8. IsFiniteSet(1 .. i - 1) /\ Cardinality(1 .. i - 1) = i - 1
    <2>1. 1 \in Int /\ i - 1 \in Int /\ 0 <= i - 1
      BY <1>2
    <2> QED
      BY <2>1, FS_Interval
  <1> HIDE DEF first, ahead
  <1>9. Cardinality(ahead) = i - 1
    BY <1>7, <1>8, FS_Bijection DEF ExistsBijection
  <1> QED
    BY <1>9, Zenon DEF Position, ahead

\* The items by their places are such a list, so there is one.
LEMMA SortedList ==
  ASSUME ListInv, NEW q \in Queries
  PROVE  Exported(q) \in SetToSeqs(Items(q)) /\ Sorted(Exported(q), q)
  <1>1. Orders(ListOrder(q), Rows) /\ Items(q) \in SUBSET Rows /\ IsFiniteSet(Items(q))
    BY ListOrders, ItemsAreRows, ListAssumption DEF ListInv
  <1>2. Total(q) \in Nat
    BY <1>1, FS_CardinalityType DEF Total
  <1>3. /\ \A n \in Items(q) : Position(n, q) \in 0 .. Total(q) - 1
        /\ \A m, n \in Items(q) : Position(m, q) = Position(n, q) => m = n
        /\ \A m, n \in Items(q) : <<m, n>> \in ListOrder(q) => Position(m, q) < Position(n, q)
    BY PlacesOfRows
  <1> DEFINE number == [n \in Items(q) |-> Position(n, q) + 1]
             inOrder == [k \in 1 .. Total(q) |-> CHOOSE n \in Items(q) : number[n] = k]
  <1>4. number \in Injection(Items(q), 1 .. Total(q))
    <2>1. \A n \in Items(q) : number[n] \in 1 .. Total(q)
      BY <1>2, <1>3
    <2>2. \A m, n \in Items(q) : number[m] = number[n] => m = n
      BY <1>2, <1>3
    <2>3. number \in [Items(q) -> 1 .. Total(q)]
      BY <2>1
    <2> QED
      BY <2>2, <2>3 DEF Injection, IsInjective
  <1>5. IsFiniteSet(1 .. Total(q)) /\ Cardinality(1 .. Total(q)) = Cardinality(Items(q))
    BY <1>2, FS_Interval DEF Total
  <1>6. \A k \in 1 .. Total(q) : \E n \in Items(q) : number[n] = k
    <2> HIDE DEF number
    <2>1. number \in Surjection(Items(q), 1 .. Total(q))
      BY <1>4, <1>5, FS_Injection
    <2> QED
      BY <2>1 DEF Surjection
  <1>7. \A k \in 1 .. Total(q) :
            /\ inOrder[k] \in Items(q)
            /\ number[inOrder[k]] = k /\ Position(inOrder[k], q) + 1 = k
    BY <1>6
  <1>8. inOrder \in SetToSeqs(Items(q))
    <2>1. inOrder \in [1 .. Cardinality(Items(q)) -> Items(q)]
      BY <1>7 DEF Total
    <2>2. \A j, k \in 1 .. Cardinality(Items(q)) : j # k => inOrder[j] # inOrder[k]
      BY <1>7 DEF Total
    <2> HIDE DEF inOrder
    <2> QED
      BY <2>1, <2>2 DEF SetToSeqs
  <1>9. Sorted(inOrder, q)
    <2> SUFFICES ASSUME NEW j \in 1 .. Total(q), NEW k \in 1 .. Total(q), j < k,
                        Less(OrderBy(inOrder[k], q), OrderBy(inOrder[j], q))
                 PROVE  FALSE
      BY DEF Sorted
    <2> HIDE DEF inOrder, number
    <2>1. <<inOrder[k], inOrder[j]>> \in ListOrder(q)
      BY <1>1, <1>7 DEF ListOrder
    <2>2. Position(inOrder[k], q) < Position(inOrder[j], q)
      BY <1>3, <1>7, <2>1
    <2>3. /\ Position(inOrder[k], q) \in Int /\ Position(inOrder[k], q) + 1 = k
          /\ Position(inOrder[j], q) \in Int /\ Position(inOrder[j], q) + 1 = j
      BY <1>2, <1>3, <1>7
    <2> QED
      BY <2>2, <2>3
  <1>10. \E s \in SetToSeqs(Items(q)) : Sorted(s, q)
    BY <1>8, <1>9
  <1>11. Exported(q) = CHOOSE s \in SetToSeqs(Items(q)) : Sorted(s, q)
    BY DEF Exported, Sorted
  <1> QED
    BY <1>10, <1>11

\* Every place is on the page its number says, and on no other.
LEMMA OnePage ==
  ASSUME NEW n \in Nat, NEW L \in Nat \ {0}, NEW x \in 0 .. n - 1
  PROVE  /\ x \div L \in 0 .. (n \div L)
         /\ \A k \in Nat : x \in k * L .. k * L + L - 1 <=> k = x \div L
  <1>1. \A y \in Nat : y \div L \in Nat /\ (y \div L) * L <= y /\ y < (y \div L) * L + L
    OBVIOUS
  <1>2. ASSUME NEW j \in Nat, NEW k \in Nat, NEW y \in Nat, NEW z \in Nat,
               j * L <= y, y <= z, z < k * L + L
        PROVE  j <= k
    <2>1. SUFFICES ASSUME k + 1 <= j
                   PROVE  FALSE
      BY <1>2
    <2>2. PICK d \in Nat : j = k + 1 + d
      BY <2>1
    <2>3. j * L = k * L + L + d * L /\ d * L >= 0
      BY <2>2
    <2> QED
      BY <1>2, <2>3
  <1>3. x \in Nat /\ x <= n
    OBVIOUS
  <1>4. x \div L \in 0 .. (n \div L)
    BY <1>1, <1>2, <1>3
  <1>5. ASSUME NEW k \in Nat
        PROVE  x \in k * L .. k * L + L - 1 <=> k = x \div L
    <2>1. ASSUME x \in k * L .. k * L + L - 1
          PROVE  k = x \div L
      <3>1. k * L <= x /\ x < k * L + L
        BY <2>1
      <3>2. k <= x \div L /\ x \div L <= k
        BY <1>1, <1>2, <1>3, <3>1
      <3> QED
        BY <1>1, <1>3, <3>2
    <2>2. ASSUME k = x \div L
          PROVE  x \in k * L .. k * L + L - 1
      BY <1>1, <1>3, <2>2
    <2> QED
      BY <2>1, <2>2
  <1> QED
    BY <1>4, <1>5

\* For any page size and any query, a row of the export is on the page its number
\* says and on no other, while nothing is stored in between: the rows before it in
\* the export are exactly those the page query counts before it, since no two rows
\* tie (notice_repository.py:147-194, 412-442).
THEOREM PagesPartition == Spec => []PagesPartitionTheList
  <1>1. ASSUME ListInv, walk.at = "asked"
        PROVE  PagesPartitionTheList
    <2> DEFINE q == walk.q
               s == Exported(q)
               pages == [k \in 0 .. (Len(s) \div Limit) |-> Page(q, k * Limit)]
    <2>1. q \in Queries /\ Limit \in Nat \ {0}
      BY <1>1, ListAssumption DEF ListInv, ListTypeOK
    <2>2. s \in SetToSeqs(Items(q)) /\ Sorted(s, q) /\ IsFiniteSet(Items(q))
      BY <1>1, <2>1, SortedList, ItemsAreRows DEF ListInv
    <2>3. /\ Total(q) \in Nat /\ Len(s) = Total(q) /\ DOMAIN s = 1 .. Total(q)
          /\ \A i \in 1 .. Total(q) : s[i] \in Items(q)
      BY <2>2, SeqsOfSet DEF Total, Bijection, Injection
    <2>4. ASSUME NEW i \in DOMAIN s
          PROVE  {k \in DOMAIN pages : s[i] \in pages[k]} = {(i - 1) \div Limit}
      <3>1. i \in 1 .. Total(q) /\ s[i] \in Items(q) /\ i - 1 \in 0 .. Total(q) - 1
        BY <2>3, <2>4
      <3>2. Position(s[i], q) = i - 1
        BY <1>1, <2>1, <2>2, <3>1, SortedPlaces
      <3>3. \A k : s[i] \in Page(q, k) <=> i - 1 \in k .. k + Limit - 1
        BY <3>1, <3>2 DEF Page, Position
      <3>4. /\ (i - 1) \div Limit \in 0 .. (Total(q) \div Limit)
            /\ \A k \in Nat : i - 1 \in k * Limit .. k * Limit + Limit - 1 <=> k = (i - 1) \div Limit
        BY <2>1, <2>3, <3>1, OnePage
      <3>5. \A k \in 0 .. (Total(q) \div Limit) :
                s[i] \in Page(q, k * Limit) <=> k = (i - 1) \div Limit
        BY <3>3, <3>4
      <3>6. /\ DOMAIN pages = 0 .. (Total(q) \div Limit)
            /\ \A k \in DOMAIN pages : pages[k] = Page(q, k * Limit)
        BY <2>3
      <3> HIDE DEF pages, s
      <3> QED
        BY <3>4, <3>5, <3>6
    <2> QED
      BY <2>4 DEF PagesPartitionTheList
  <1>2. ListInv => PagesPartitionTheList
    BY <1>1 DEF PagesPartitionTheList
  <1> QED
    BY <1>2, ListIndInv, PTL
===============================================================================
