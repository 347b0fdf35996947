--------------------------- MODULE ListingProofs ---------------------------
(***************************************************************************)
(* Proofs about Listing: a client's walk over the pages, for any queries   *)
(* and page sizes, next to everything that Admission can do.               *)
(***************************************************************************)
EXTENDS Listing, AdmissionProofs

\* What the walk knows are rows.
WalkOK ==
    /\ query \in Queries /\ cursor \in Nat
    /\ page \subseteq DOMAIN rows /\ earlier \subseteq DOMAIN rows
    /\ steady \subseteq DOMAIN rows

\* Every row shown is at or before the cursor; a page before another is not
\* empty, unless pages are.
ShownBehind ==
    cursor # 0 => /\ \A r \in earlier \cup page : rows[r].created + 1 >= cursor
                  /\ query.limit > 0 => page # {}

\* A row that has matched all along is still ahead, has its second shown or was
\* cut off by the fund filter on the last page.
SteadyAhead ==
    query.limit > 0 =>
        \A r \in steady : InFund(query, r) =>
            \/ cursor # 0 /\ rows[r].created + 1 < cursor
            \/ \E s \in earlier \cup page : rows[s].created = rows[r].created
            \/ cursor = 0 /\ CutOff(r)

\* A walk over one page shows everything.
OnePageIsAll ==
    earlier = {} /\ Cardinality(steady) <= query.limit =>
        page = {r \in steady : InFund(query, r)}

WalkInv == WalkOK /\ ShownBehind /\ WalkOrdered /\ SteadyAhead /\ OnePageIsAll

\* A step of the service leaves every row in its place, but for its status.
RowsStay ==
    /\ DOMAIN rows \subseteq DOMAIN rows'
    /\ \A r \in DOMAIN rows : SameColumns(rows'[r], rows[r])

\* A query is a query.
LEMMA QueryFacts ==
  ASSUME NEW q \in Queries
  PROVE  q.app \in Apps /\ q.limit \in Nat
BY ListingAssumption

\* Rows have a time and are finitely many.
LEMMA SelectedFacts ==
  ASSUME TablesOK, NEW q, NEW from
  PROVE  /\ \A r \in DOMAIN rows : rows[r].created \in Nat
         /\ Selected(q, from) \subseteq DOMAIN rows
         /\ IsFiniteSet(Selected(q, from))
         /\ Cardinality(Selected(q, from)) \in Nat
<1>1. rows \in Seq(Row)
  BY DEF TablesOK
<1>2. ASSUME NEW r \in DOMAIN rows PROVE rows[r].created \in Nat
  <2>1. rows[r] \in Row
    BY <1>1
  <2> QED
    BY <2>1 DEF Row, Times
<1>3. Len(rows) \in Nat /\ DOMAIN rows = 1..Len(rows)
  BY <1>1
<1>4. IsFiniteSet(1..Len(rows))
  <2>1. Len(rows) \in Int /\ 1 \in Int
    BY <1>3
  <2> QED
    BY <2>1, FS_Interval, Zenon
<1>5. Selected(q, from) \subseteq DOMAIN rows
  BY DEF Selected
<1>6. IsFiniteSet(Selected(q, from))
  BY <1>3, <1>4, <1>5, FS_Subset
<1> QED
  BY <1>2, <1>5, <1>6, FS_CardinalityType

\* LIMIT n takes everything when there is no more than that.
LEMMA NewestAll ==
  ASSUME NEW S, IsFiniteSet(S), NEW n \in Nat, NEW T \in Newest(S, n)
  PROVE  /\ T \subseteq S /\ IsFiniteSet(T) /\ Cardinality(T) \in Nat
         /\ Cardinality(T) < n \/ Cardinality(S) <= n => T = S
         /\ Cardinality(S) > n => Cardinality(T) = n
         /\ \A r \in T, s \in S \ T : rows[r].created >= rows[s].created
<1>1. /\ T \subseteq S
      /\ Cardinality(T) = IF Cardinality(S) < n THEN Cardinality(S) ELSE n
      /\ \A r \in T, s \in S \ T : rows[r].created >= rows[s].created
  BY DEF Newest
<1>2. /\ IsFiniteSet(T) /\ Cardinality(T) \in Nat /\ Cardinality(S) \in Nat
      /\ Cardinality(S) = Cardinality(T) => S = T
  BY <1>1, FS_Subset, FS_CardinalityType
<1> QED
  BY <1>1, <1>2

\* LIMIT n takes no more than n.
LEMMA NewestCount ==
  ASSUME NEW S, IsFiniteSet(S), NEW n \in Nat, NEW T \in Newest(S, n)
  PROVE  Cardinality(T) <= n
<1>1. Cardinality(T) = IF Cardinality(S) < n THEN Cardinality(S) ELSE n
  BY DEF Newest
<1>2. Cardinality(S) \in Nat
  BY FS_CardinalityType
<1> QED
  BY <1>1, <1>2

\* A page that ends a walk before r.
FilteredAway(q, from, r) ==
    /\ \A s \in page' : rows[r].created < rows[s].created
    /\ \E s \in Selected(q, from) : /\ ~InFund(q, s)
                                    /\ rows[s].created >= rows[r].created

\* One page.
LEMMA ServeFacts ==
  ASSUME TablesOK, NEW q \in Queries, NEW from \in Nat, Serve(q, from)
  PROVE  /\ page' \subseteq Selected(q, from) /\ cursor' \in Nat
         /\ \A s \in page' : InFund(q, s)
         /\ cursor' # 0 => \A s \in page' : rows[s].created + 1 >= cursor'
         /\ from # 0 => cursor' < from
         /\ q.limit > 0 =>
               \A r \in Selected(q, from) : InFund(q, r) =>
                  \/ cursor' # 0 /\ rows[r].created + 1 < cursor'
                  \/ \E s \in page' : rows[s].created = rows[r].created
                  \/ cursor' = 0 /\ FilteredAway(q, from, r)
         /\ cursor' # 0 /\ q.limit > 0 => page' # {}
         /\ q.limit = 0 => page' = {}
         /\ Cardinality(Selected(q, from)) <= q.limit =>
               page' = {r \in Selected(q, from) : InFund(q, r)}
<1> DEFINE S == Selected(q, from)
           n == q.limit
<1>1. n \in Nat
  BY QueryFacts
<1>2. /\ \A r \in DOMAIN rows : rows[r].created \in Nat
      /\ S \subseteq DOMAIN rows
      /\ IsFiniteSet(S) /\ Cardinality(S) \in Nat
  BY SelectedFacts
<1>3. \A r \in S : from # 0 => rows[r].created + 1 < from
  BY DEF Selected, Older
<1>4. PICK fetched \in Newest(S, n + 1) :
          LET listed == {r \in fetched : InFund(q, r)} IN
          \/ /\ Cardinality(listed) <= n
             /\ page' = listed
             /\ cursor' = 0
          \/ /\ Cardinality(listed) > n
             /\ page' \in Newest(listed, n)
             /\ \E r \in LastOf(IF n = 0 THEN listed ELSE page') :
                   cursor' = rows[r].created + 1
  BY DEF Serve, LookAhead
<1> DEFINE listed == {r \in fetched : InFund(q, r)}
<1>5. n + 1 \in Nat
  BY <1>1
<1> HIDE DEF S, n
<1>6. /\ fetched \subseteq S /\ IsFiniteSet(fetched)
      /\ Cardinality(fetched) \in Nat
      /\ Cardinality(fetched) < n + 1 \/ Cardinality(S) <= n + 1 => fetched = S
      /\ \A r \in fetched, s \in S \ fetched : rows[r].created >= rows[s].created
  BY <1>2, <1>4, <1>5, NewestAll
<1>7. /\ listed \subseteq fetched /\ IsFiniteSet(listed)
      /\ Cardinality(listed) <= Cardinality(fetched)
      /\ Cardinality(listed) \in Nat
      /\ Cardinality(listed) = Cardinality(fetched) => listed = fetched
  <2>1. listed \subseteq fetched
    OBVIOUS
  <2> QED
    BY <1>6, <2>1, FS_Subset, FS_CardinalityType
<1>8. \A r \in listed : InFund(q, r)
  OBVIOUS
<1>9. Cardinality(S) <= n => listed = {r \in S : InFund(q, r)}
  BY <1>1, <1>2, <1>6
<1>10. CASE /\ Cardinality(listed) <= n
            /\ page' = listed
            /\ cursor' = 0
  <2>1. ASSUME NEW x \in S, InFund(q, x), x \notin page'
        PROVE  /\ \A s \in page' : rows[x].created <= rows[s].created
               /\ \E s \in S : ~InFund(q, s) /\ rows[s].created >= rows[x].created
    <3>1. x \notin fetched
      BY <1>10, <2>1
    <3>2. Cardinality(fetched) = n + 1
      BY <1>1, <1>2, <1>6, <3>1, NewestAll
    <3>3. listed # fetched
      <4> HIDE DEF listed
      <4>1. Cardinality(listed) # n + 1
        BY <1>1, <1>7, <1>10
      <4> QED
        BY <3>2, <4>1
    <3>4. PICK s \in fetched : s \notin listed
      BY <1>7, <3>3
    <3>5. s \in S /\ ~InFund(q, s)
      BY <1>6, <3>4
    <3>6. \A t \in fetched : rows[t].created >= rows[x].created
      BY <1>6, <2>1, <3>1
    <3>7. \A t \in fetched : rows[t].created \in Nat /\ rows[x].created \in Nat
      BY <1>2, <1>6, <2>1
    <3> QED
      BY <1>7, <1>10, <3>4, <3>5, <3>6, <3>7
  <2>2. ASSUME NEW x \in S, InFund(q, x)
        PROVE  \/ \E s \in page' : rows[s].created = rows[x].created
               \/ FilteredAway(q, from, x)
    <3>1. CASE x \in page'
      BY <3>1
    <3>2. CASE x \notin page'
      <4>1. \A s \in page' : rows[s].created \in Nat /\ rows[x].created \in Nat
        BY <1>2, <1>6, <1>7, <1>10
      <4>2. CASE \E s \in page' : rows[s].created = rows[x].created
        BY <4>2
      <4>3. CASE ~ \E s \in page' : rows[s].created = rows[x].created
        <5>1. \A s \in page' : rows[x].created < rows[s].created
          BY <2>1, <2>2, <3>2, <4>1, <4>3
        <5> QED
          BY <2>1, <2>2, <3>2, <5>1 DEF FilteredAway, S
      <4> QED
        BY <4>2, <4>3
    <3> QED
      BY <3>1, <3>2
  <2>3. n = 0 => page' = {}
    BY <1>7, <1>10, FS_EmptySet
  <2> HIDE DEF listed
  <2> QED
    BY <1>6, <1>7, <1>8, <1>9, <1>10, <2>3, <2>2 DEF S, n
<1>11. CASE /\ Cardinality(listed) > n
            /\ page' \in Newest(listed, n)
            /\ \E r \in LastOf(IF n = 0 THEN listed ELSE page') :
                  cursor' = rows[r].created + 1
  <2> HIDE DEF listed
  <2>1. /\ page' \subseteq listed /\ IsFiniteSet(page')
        /\ Cardinality(page') = n
        /\ \A r \in page', s \in listed \ page' :
              rows[r].created >= rows[s].created
    BY <1>1, <1>7, <1>11, NewestAll
  <2>2. n = 0 <=> page' = {}
    BY <1>1, <2>1, FS_EmptySet
  <2>3. PICK r \in LastOf(IF n = 0 THEN listed ELSE page') :
               cursor' = rows[r].created + 1
    BY <1>11
  <2>4. /\ r \in listed /\ r \in S /\ r \in DOMAIN rows
        /\ n # 0 => r \in page' /\ \A s \in page' :
                                      rows[r].created <= rows[s].created
    BY <1>2, <1>6, <1>7, <2>1 DEF LastOf
  <2>5. cursor' \in Nat /\ cursor' # 0 /\ (from # 0 => cursor' < from)
    BY <1>2, <1>3, <2>3, <2>4
  <2>6. \A s \in page' : rows[s].created + 1 >= cursor'
    BY <1>2, <1>6, <1>7, <2>1, <2>2, <2>3, <2>4
  <2>7. listed = fetched
    <3>1. Cardinality(fetched) <= n + 1
      BY <1>2, <1>4, <1>5, <1>6, NewestCount
    <3> QED
      BY <1>1, <1>6, <1>7, <1>11, <3>1
  <2>8. ASSUME n > 0, NEW x \in S
        PROVE  \/ rows[x].created + 1 < cursor'
               \/ \E s \in page' : rows[s].created = rows[x].created
    <3>1. CASE x \in page'
      BY <3>1
    <3>2. CASE x \notin page'
      <4>1. rows[r].created >= rows[x].created
        BY <1>6, <2>1, <2>4, <2>8, <2>7, <3>2
      <4>2. rows[r].created \in Nat /\ rows[x].created \in Nat
        BY <1>2, <2>4
      <4> QED
        BY <2>3, <2>4, <2>8, <4>1, <4>2
    <3> QED
      BY <3>1, <3>2
  <2>9. ~(Cardinality(S) <= n)
    <3>1. Cardinality(fetched) <= Cardinality(S)
      BY <1>2, <1>6, FS_Subset
    <3> QED
      BY <1>1, <1>2, <1>6, <1>7, <1>11, <3>1
  <2> QED
    BY <1>1, <1>6, <1>7, <1>8, <2>1, <2>2, <2>5, <2>6, <2>8, <2>9 DEF S, n, listed
<1> QED
  BY <1>4, <1>10, <1>11

\* The first page of a walk.
LEMMA FirstPageOK ==
  ASSUME TablesOK, NEW q \in Queries, FirstPage(q)
  PROVE  WalkInv'
<1>1. /\ rows' = rows /\ query' = q /\ earlier' = {} /\ steady' = Selected(q, 0)
      /\ Serve(q, 0)
  BY DEF FirstPage, OnlyCounted
<1>2. /\ page' \subseteq Selected(q, 0) /\ cursor' \in Nat
      /\ \A s \in page' : InFund(q, s)
      /\ cursor' # 0 => \A s \in page' : rows[s].created + 1 >= cursor'
      /\ q.limit > 0 =>
            \A r \in Selected(q, 0) : InFund(q, r) =>
               \/ cursor' # 0 /\ rows[r].created + 1 < cursor'
               \/ \E s \in page' : rows[s].created = rows[r].created
               \/ cursor' = 0 /\ FilteredAway(q, 0, r)
      /\ cursor' # 0 /\ q.limit > 0 => page' # {}
      /\ Cardinality(Selected(q, 0)) <= q.limit =>
            page' = {r \in Selected(q, 0) : InFund(q, r)}
  BY <1>1, ServeFacts
<1>3. Selected(q, 0) \subseteq DOMAIN rows
  BY DEF Selected
<1>4. \A r : InFund(query, r)' <=> InFund(q, r)
  BY <1>1 DEF InFund
<1>5. WalkOK'
  BY <1>1, <1>2, <1>3 DEF WalkOK
<1>6. ShownBehind'
  BY <1>1, <1>2 DEF ShownBehind
<1>7. WalkOrdered'
  <2>1. \A r \in page' : rows[r].app = q.app
    BY <1>2 DEF Selected
  <2> QED
    BY <1>1, <1>2, <1>4, <2>1 DEF WalkOrdered
<1>8. SteadyAhead'
  <2>1. ASSUME NEW r \in Selected(q, 0), FilteredAway(q, 0, r)
        PROVE  CutOff(r)'
    <3>1. PICK s \in Selected(q, 0) : ~InFund(q, s) /\ rows[s].created >= rows[r].created
      BY <2>1 DEF FilteredAway
    <3>2. s \in DOMAIN rows /\ rows[s].app = q.app
      BY DEF Selected
    <3> QED
      BY <1>1, <1>4, <2>1, <3>1, <3>2 DEF CutOff, FilteredAway
  <2> QED
    BY <1>1, <1>2, <1>4, <2>1 DEF SteadyAhead
<1>9. OnePageIsAll'
  BY <1>1, <1>2, <1>4 DEF OnePageIsAll
<1> QED
  BY <1>5, <1>6, <1>7, <1>8, <1>9 DEF WalkInv

\* The page after another.
LEMMA NextPageOK ==
  ASSUME TablesOK, WalkInv, NextPage
  PROVE  WalkInv' /\ cursor' < cursor
<1> DEFINE S == Selected(query, cursor)
<1>1. /\ rows' = rows /\ query' = query /\ earlier' = earlier \cup page
      /\ steady' = steady \cap Selected(query, 0)
      /\ cursor # 0 /\ Serve(query, cursor)
  BY DEF NextPage, OnlyCounted
<1>2. /\ WalkOK /\ ShownBehind /\ WalkOrdered /\ SteadyAhead /\ OnePageIsAll
      /\ query \in Queries /\ cursor \in Nat
  BY DEF WalkInv, WalkOK
<1>3. /\ page' \subseteq S /\ cursor' \in Nat
      /\ \A s \in page' : InFund(query, s)
      /\ cursor' # 0 => \A s \in page' : rows[s].created + 1 >= cursor'
      /\ cursor' < cursor
      /\ query.limit > 0 =>
            \A r \in S : InFund(query, r) =>
               \/ cursor' # 0 /\ rows[r].created + 1 < cursor'
               \/ \E s \in page' : rows[s].created = rows[r].created
               \/ cursor' = 0 /\ FilteredAway(query, cursor, r)
      /\ cursor' # 0 /\ query.limit > 0 => page' # {}
      /\ query.limit = 0 => page' = {}
  BY <1>1, <1>2, ServeFacts
<1>4. /\ \A r \in DOMAIN rows : rows[r].created \in Nat
      /\ S \subseteq DOMAIN rows
  BY SelectedFacts
<1>5. \A r \in S : rows[r].created + 1 < cursor /\ rows[r].app = query.app
  BY <1>1 DEF Selected, Older
<1>6. \A r \in Selected(query, 0) : rows[r].created + 1 < cursor => r \in S
  BY DEF Selected, Older
<1> HIDE DEF S
<1>7. \A r : InFund(query, r)' <=> InFund(query, r)
  BY <1>1 DEF InFund
<1>8. WalkOK'
  BY <1>1, <1>2, <1>3, <1>4 DEF WalkOK
<1>9. \A r \in earlier \cup page : rows[r].created + 1 >= cursor
  BY <1>1, <1>2 DEF ShownBehind
<1>10. ShownBehind'
  <2>1. ASSUME NEW r \in earlier \cup page PROVE rows[r].created + 1 >= cursor'
    <3>1. rows[r].created \in Nat
      BY <1>2, <1>4 DEF WalkOK
    <3> QED
      BY <1>2, <1>3, <1>9, <3>1
  <2> QED
    BY <1>1, <1>3, <2>1 DEF ShownBehind
<1>11. WalkOrdered'
  <2>1. ASSUME NEW r \in earlier \cup page, NEW s \in page'
        PROVE  rows[s].created < rows[r].created
    <3>1. rows[r].created \in Nat /\ rows[s].created \in Nat
      BY <1>2, <1>3, <1>4 DEF WalkOK
    <3>2. rows[r].created + 1 >= cursor /\ rows[s].created + 1 < cursor
      BY <1>3, <1>5, <1>9
    <3> QED
      BY <1>2, <3>1, <3>2
  <2>2. \A r \in (earlier \cup page) \cup page' :
            rows[r].app = query.app /\ InFund(query, r)
    BY <1>2, <1>3, <1>5 DEF WalkOrdered
  <2> QED
    BY <1>1, <1>7, <2>1, <2>2 DEF WalkOrdered
<1>12. SteadyAhead'
  <2> SUFFICES ASSUME query.limit > 0,
                      NEW r \in steady, r \in Selected(query, 0), InFund(query, r)
               PROVE  \/ cursor' # 0 /\ rows[r].created + 1 < cursor'
                      \/ \E s \in (earlier \cup page) \cup page' :
                            rows[s].created = rows[r].created
                      \/ cursor' = 0 /\ CutOff(r)'
    BY <1>1, <1>7 DEF SteadyAhead
  <2>1. \/ rows[r].created + 1 < cursor
        \/ \E s \in earlier \cup page : rows[s].created = rows[r].created
    BY <1>1, <1>2 DEF SteadyAhead
  <2>2. ASSUME rows[r].created + 1 < cursor, FilteredAway(query, cursor, r)
        PROVE  CutOff(r)'
    <3>1. \A s \in earlier \cup page : rows[r].created < rows[s].created
      <4>1. \A s \in earlier \cup page : rows[s].created \in Nat
        BY <1>2, <1>4 DEF WalkOK
      <4>2. rows[r].created \in Nat /\ cursor \in Nat
        BY <1>2, <1>4 DEF WalkOK
      <4> QED
        BY <1>9, <2>2, <4>1, <4>2
    <3>2. \A s \in page' : rows[r].created < rows[s].created
      BY <2>2 DEF FilteredAway
    <3>3. PICK s \in S : ~InFund(query, s) /\ rows[s].created >= rows[r].created
      BY <2>2 DEF FilteredAway, S
    <3>4. s \in DOMAIN rows /\ rows[s].app = query.app
      BY <1>4, <1>5
    <3> QED
      BY <1>1, <1>7, <3>1, <3>2, <3>3, <3>4 DEF CutOff
  <2> QED
    BY <1>3, <1>6, <2>1, <2>2
<1>13. OnePageIsAll'
  <2> SUFFICES ASSUME earlier = {}, page = {},
                      Cardinality(steady') <= query.limit
               PROVE  page' = {r \in steady' : InFund(query, r)}
    BY <1>1, <1>7 DEF OnePageIsAll
  <2>1. query.limit = 0
    BY <1>1, <1>2, QueryFacts DEF ShownBehind
  <2>2. steady' \subseteq Selected(query, 0)
    BY <1>1
  <2>3. IsFiniteSet(steady')
    BY <2>2, SelectedFacts, FS_Subset
  <2>4. Cardinality(steady') = 0
    BY <2>1, <2>3, FS_CardinalityType
  <2>5. steady' = {}
    BY <2>3, <2>4, FS_EmptySet
  <2> QED
    BY <1>3, <2>1, <2>5
<1> QED
  BY <1>3, <1>8, <1>10, <1>11, <1>12, <1>13 DEF WalkInv

\* An UPDATE of the status moves no row.
LEMMA StatusChanged ==
  ASSUME TablesOK, NEW r \in DOMAIN rows,
         \E st \in {"ACTIVE", "LISTABLE", "CLOSED"} :
            rows' = [rows EXCEPT ![r].status = st]
  PROVE  RowsStay
<1>1. PICK st \in {"ACTIVE", "LISTABLE", "CLOSED"} :
         rows' = [rows EXCEPT ![r].status = st]
  OBVIOUS
<1>2. rows \in Seq(Row)
  BY DEF TablesOK
<1>3. /\ DOMAIN rows' = DOMAIN rows
      /\ \A i \in DOMAIN rows : SameColumns(rows'[i], rows[i])
  BY <1>1, <1>2, StatusSet
<1> QED
  BY <1>3 DEF RowsStay

\* Rows do not move under the walk.
LEMMA NextRows ==
  ASSUME TablesOK, [Next]_vars
  PROVE  RowsStay
<1>1. rows \in Seq(Row)
  BY DEF TablesOK
<1>2. CASE rows' = rows
  <2>1. \A r \in DOMAIN rows : SameColumns(rows[r], rows[r])
    BY DEF SameColumns
  <2> QED
    BY <1>2, <2>1 DEF RowsStay
<1>3. ASSUME NEW q \in Requests, Insert(q.app, q.key, q.body) PROVE RowsStay
  <2>1. q.app \in Apps /\ q.key \in Keys /\ q.body \in Bodies
    BY AdmissionAssumption
  <2>2. NewRow(q.app, q.key, q.body) \in Row
    BY <2>1, NewRowIsRow
  <2>3. rows' = Append(rows, NewRow(q.app, q.key, q.body))
    BY <1>3 DEF Insert
  <2>4. /\ DOMAIN rows' = DOMAIN rows \cup {Len(rows')}
        /\ \A i \in DOMAIN rows : rows'[i] = rows[i]
    BY <1>1, <2>2, <2>3, RowAdded
  <2> QED
    BY <2>4, ZenonT(30) DEF RowsStay, SameColumns
<1>4. ASSUME NEW r \in DOMAIN rows, Cancel(r) PROVE RowsStay
  <2>1. rows' = [rows EXCEPT ![r].status = "CLOSED"]
    BY <1>4 DEF Cancel
  <2>2. \E st \in {"ACTIVE", "LISTABLE", "CLOSED"} :
           rows' = [rows EXCEPT ![r].status = st]
    BY <2>1
  <2> QED
    BY <2>2, StatusChanged
<1>5. ASSUME NEW r \in pool, NEW outcome \in {"LISTABLE", "CLOSED"},
             Finish(r, outcome)
      PROVE  RowsStay
  <2>1. r \in DOMAIN rows
    BY DEF TablesOK
  <2>2. \E st \in {"ACTIVE", "LISTABLE", "CLOSED"} :
           rows' = [rows EXCEPT ![r].status = st]
    BY <1>5 DEF Finish
  <2> QED
    BY <2>1, <2>2, StatusChanged
<1>6. ASSUME NEW a, Throttle(a) \/ OnlyCounted(a) PROVE rows' = rows
  BY <1>6 DEF Throttle, OnlyCounted
<1>7. ASSUME NEW a, NEW k, NEW b, Replay(a, k, b) \/ Refuse(a, k, b)
      PROVE  rows' = rows
  BY <1>7 DEF Replay, Refuse
<1>8. ASSUME NEW r, NEW files, ListFiles(r, files) PROVE rows' = rows
  BY <1>8 DEF ListFiles
<1>9. ASSUME \/ RecordKey \/ KeyCollides \/ HandlerRaises \/ Enqueue
             \/ Tick \/ Crash \/ UNCHANGED vars
             \/ \E r \in pool : JobRaises(r)
      PROVE  rows' = rows
  BY <1>9 DEF RecordKey, KeyCollides, HandlerRaises, Abort, Enqueue, Tick, Crash,
              JobRaises, vars
<1> QED
  BY <1>2, <1>3, <1>4, <1>5, <1>6, <1>7, <1>8, <1>9 DEF Next

\* The service goes on between two pages.
LEMMA ServiceStep ==
  ASSUME TablesOK, WalkInv, RowsStay, UNCHANGED walkVars
  PROVE  WalkInv'
<1>1. /\ query' = query /\ cursor' = cursor /\ page' = page
      /\ earlier' = earlier /\ steady' = steady
  BY DEF walkVars
<1>2. /\ WalkOK /\ ShownBehind /\ WalkOrdered /\ SteadyAhead /\ OnePageIsAll
  BY DEF WalkInv
<1>3. \A r \in DOMAIN rows : /\ r \in DOMAIN rows'
                             /\ rows'[r].created = rows[r].created
                             /\ rows'[r].app = rows[r].app
                             /\ rows'[r].scope = rows[r].scope
  BY DEF RowsStay, SameColumns
<1>4. \A r \in DOMAIN rows : InFund(query, r)' <=> InFund(query, r)
  BY <1>1, <1>3 DEF InFund
<1>5. WalkOK'
  BY <1>1, <1>2, <1>3 DEF WalkOK
<1>6. ShownBehind'
  BY <1>1, <1>2, <1>3 DEF ShownBehind, WalkOK
<1>7. WalkOrdered'
  BY <1>1, <1>2, <1>3, <1>4 DEF WalkOrdered, WalkOK
<1>8. SteadyAhead'
  <2>1. ASSUME NEW r \in steady, CutOff(r) PROVE CutOff(r)'
    <3>1. PICK s \in DOMAIN rows : /\ rows[s].app = query.app /\ ~InFund(query, s)
                                   /\ rows[s].created >= rows[r].created
      BY <2>1 DEF CutOff
    <3>2. /\ s \in DOMAIN rows' /\ rows'[s].app = query.app /\ ~InFund(query, s)'
          /\ rows'[s].created >= rows'[r].created
      BY <1>2, <1>3, <1>4, <3>1 DEF WalkOK
    <3>3. \A t \in earlier \cup page : rows'[r].created < rows'[t].created
      BY <1>2, <1>3, <2>1 DEF CutOff, WalkOK
    <3> QED
      BY <1>1, <3>2, <3>3 DEF CutOff
  <2> QED
    BY <1>1, <1>2, <1>3, <1>4, <2>1 DEF SteadyAhead, WalkOK
<1>9. OnePageIsAll'
  BY <1>1, <1>2, <1>4 DEF OnePageIsAll, WalkOK
<1> QED
  BY <1>5, <1>6, <1>7, <1>8, <1>9 DEF WalkInv

\* Nothing is shown before the first walk.
LEMMA InitWalk == ListingInit => WalkInv
<1> SUFFICES ASSUME ListingInit PROVE WalkInv
  OBVIOUS
<1>1. WalkOK /\ ShownBehind /\ WalkOrdered /\ SteadyAhead /\ OnePageIsAll
  BY DEF ListingInit, WalkOK, ShownBehind, WalkOrdered, SteadyAhead, OnePageIsAll
<1> QED
  BY <1>1 DEF WalkInv

\* A page is a step of the service that only counts a request.
LEMMA ListingStep ==
  query \in Queries /\ [ListingNext]_listingVars => [Next]_vars
<1> SUFFICES ASSUME query \in Queries, [ListingNext]_listingVars
             PROVE  [Next]_vars
  OBVIOUS
<1>1. ASSUME NEW q \in Queries, FirstPage(q) PROVE Next
  BY <1>1, QueryFacts DEF FirstPage, Next
<1>2. CASE NextPage
  BY <1>2, QueryFacts DEF NextPage, Next
<1> QED
  BY <1>1, <1>2 DEF ListingNext, listingVars

\* Every step keeps the invariant.
LEMMA NextWalk ==
  TablesOK /\ WalkInv /\ [ListingNext]_listingVars => WalkInv'
<1> SUFFICES ASSUME TablesOK, WalkInv, [ListingNext]_listingVars PROVE WalkInv'
  OBVIOUS
<1>1. CASE UNCHANGED walkVars
  BY <1>1, ListingStep, NextRows, ServiceStep DEF WalkInv, WalkOK
<1>2. ASSUME NEW q \in Queries, FirstPage(q) PROVE WalkInv'
  BY <1>2, FirstPageOK
<1>3. CASE NextPage
  BY <1>3, NextPageOK
<1> QED
  BY <1>1, <1>2, <1>3 DEF ListingNext, listingVars

\* A client's walk only adds to what the service does: the theorems about
\* Admission hold with it, and the walk keeps its invariant.
LEMMA ListingInvariant == ListingSpec => Spec /\ []WalkInv
<1> DEFINE Inv == AdmissionInv /\ WalkInv
<1>1. Inv => TablesOK /\ query \in Queries
  BY DEF AdmissionInv, TableInv, WalkInv, WalkOK
<1>2. ListingInit => Init /\ Inv
  BY InitAdmission, InitWalk DEF ListingInit
<1>3. Inv /\ [ListingNext]_listingVars => [Next]_vars /\ Inv'
  BY <1>1, ListingStep, NextAdmission, NextWalk
<1> QED
  BY <1>2, <1>3, PTL DEF ListingSpec, Spec

\* The client's pages are requests like others: with walks going on, the service
\* behaves as Admission says, so that its limits and tables are kept.
THEOREM ListingImplementsAdmission == ListingSpec => Spec
BY ListingInvariant, PTL

\* A walk along next_cursor goes back in time and repeats nothing, although rows
\* are inserted and change between two pages.
THEOREM PagesInOrder == ListingSpec => []WalkOrdered
BY ListingInvariant, PTL DEF WalkInv

\* A finished walk has missed no row that matched all along, but for rows of a
\* second it has shown and rows cut off at its end by rows of other funds; one
\* page alone misses nothing.
THEOREM WalksMissLittle == ListingSpec => []WalkCovers
<1>1. WalkInv => WalkCovers
  BY DEF WalkInv, SteadyAhead, OnePageIsAll, WalkCovers
<1> QED
  BY <1>1, ListingInvariant, PTL

\* Each page lies before the cursor of the last, so that no stream of new extracts
\* keeps a client paging.
THEOREM WalksAdvance == ListingSpec => WalkAdvances
<1>1. /\ AdmissionInv /\ WalkInv /\ [ListingNext]_listingVars
      => [NextPage => cursor' < cursor]_listingVars
  BY NextPageOK DEF AdmissionInv, TableInv
<1> QED
  BY <1>1, ListingInvariant, AdmissionInvariant, PTL DEF ListingSpec, WalkAdvances
=============================================================================
