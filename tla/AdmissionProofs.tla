-------------------------- MODULE AdmissionProofs --------------------------
(***************************************************************************)
(* Proofs about Admission, for any applications, keys, requests, limits    *)
(* and lifetimes of keys, and any number of faults: first the tables and   *)
(* the create handler, then the sliding windows.                           *)
(***************************************************************************)
EXTENDS Admission, FiniteSetTheorems, TLAPS

\* The create handler works on a row of this moment that has no job yet.  Before
\* it stores the key, a record in its way is past its time to live; afterwards
\* the record is its own.
HandlerOK ==
    /\ stage # "idle" => /\ Len(rows) > 0
                         /\ Len(rows) \notin enqueued
                         /\ Handled.created = now
    /\ stage = "record" =>
          LET rec == idem[Handled.app][Handled.key] IN
          rec # NoRecord => /\ rec.row < Len(rows)
                            /\ rows[rec.row].created + KeyTtl < now
    /\ stage = "enqueue" =>
          LET rec == idem[Handled.app][Handled.key] IN
          rec # NoRecord /\ rec.row = Len(rows)

\* A record tells of its row what the row tells, and the row had a job unless
\* the handler has yet to enqueue it or a fault kept it from that.
RecordOK(rec) ==
    /\ rec.body = rows[rec.row].body
    /\ rec.created = rows[rec.row].created
    /\ \/ rec.row \in enqueued
       \/ stage = "enqueue" /\ rec.row = Len(rows)
       \/ crashes + raises > 0

RecordsOK == \A a \in Apps, k \in Keys : idem[a][k] # NoRecord =>
                                             RecordOK(idem[a][k])

\* Only the row that a key's record names ever had a job.
JobsOwnKeys ==
    \A r \in enqueued :
        LET rec == idem[rows[r].app][rows[r].key] IN
        rec # NoRecord /\ rec.row = r

TableInv == TablesOK /\ HandlerOK /\ RecordsOK /\ JobsOwnKeys

AdmissionInv ==
    TableInv /\ ReplayFaithful /\ OrphansExplained /\ ActiveCapHolds

\* The rows that ActiveCapHolds counts.
ActiveRows(a) ==
    {r \in DOMAIN rows : rows[r].app = a /\ rows[r].status = "ACTIVE"}

\* The columns that no UPDATE touches.
SameColumns(x, y) ==
    /\ x.app = y.app /\ x.key = y.key /\ x.body = y.body
    /\ x.scope = y.scope /\ x.created = y.created

\* The tables are empty.
LEMMA InitAdmission == Init => AdmissionInv
<1> SUFFICES ASSUME Init PROVE AdmissionInv
  OBVIOUS
<1>1. rows = <<>> /\ DOMAIN rows = {} /\ Len(rows) = 0 /\ rows \in Seq(Row)
  BY DEF Init
<1>2. TablesOK
  BY <1>1, AdmissionAssumption DEF Init, TablesOK, Times
<1>3. HandlerOK /\ JobsOwnKeys
  BY DEF Init, HandlerOK, JobsOwnKeys
<1>4. RecordsOK
  BY DEF Init, RecordsOK
<1>5. ReplayFaithful /\ OrphansExplained
  BY <1>1 DEF Init, OtherAnswer, ReplayFaithful, OrphansExplained
<1>6. ActiveCapHolds
  <2>1. ASSUME NEW a \in Apps PROVE Cardinality(ActiveRows(a)) <= ActiveLimit
    <3>1. ActiveRows(a) = {}
      BY <1>1 DEF ActiveRows
    <3>2. Cardinality(ActiveRows(a)) = 0
      BY <3>1, FS_EmptySet
    <3> QED
      BY <3>2, AdmissionAssumption
  <2> QED
    BY <2>1 DEF ActiveCapHolds, ActiveRows
<1> QED
  BY <1>2, <1>3, <1>4, <1>5, <1>6 DEF AdmissionInv, TableInv

\* An UPDATE of the status leaves every other column.
LEMMA StatusSet ==
  ASSUME NEW q \in Seq(Row), NEW r \in DOMAIN q, NEW p,
         NEW st \in {"ACTIVE", "LISTABLE", "CLOSED"},
         p = [q EXCEPT ![r].status = st]
  PROVE  /\ p \in Seq(Row) /\ Len(p) = Len(q) /\ DOMAIN p = DOMAIN q
         /\ \A i \in DOMAIN q : SameColumns(p[i], q[i])
         /\ p[r].status = st
         /\ \A i \in DOMAIN q \ {r} : p[i] = q[i]
<1> DEFINE u == [q[r] EXCEPT !.status = st]
<1>1. q[r] \in Row
  OBVIOUS
<1>2. u \in Row /\ SameColumns(u, q[r]) /\ u.status = st
  BY <1>1 DEF Row, SameColumns
<1>3. p = [q EXCEPT ![r] = u]
  OBVIOUS
<1> HIDE DEF u
<1>4. p \in Seq(Row) /\ Len(p) = Len(q) /\ DOMAIN p = DOMAIN q
  BY <1>2, <1>3
<1>5. p[r] = u /\ \A i \in DOMAIN q \ {r} : p[i] = q[i]
  BY <1>3
<1> QED
  BY <1>2, <1>4, <1>5 DEF SameColumns

\* An INSERT leaves every row.
LEMMA RowAdded ==
  ASSUME NEW q \in Seq(Row), NEW u \in Row, NEW p, p = Append(q, u)
  PROVE  /\ p \in Seq(Row) /\ Len(p) = Len(q) + 1
         /\ Len(q) \in Nat /\ DOMAIN q = 1..Len(q)
         /\ DOMAIN p = DOMAIN q \cup {Len(p)} /\ Len(p) \notin DOMAIN q
         /\ p[Len(p)] = u
         /\ \A i \in DOMAIN q : p[i] = q[i]
OBVIOUS

\* There are finitely many rows.
LEMMA RowsFinite ==
  ASSUME rows \in Seq(Row), NEW a
  PROVE  IsFiniteSet(ActiveRows(a)) /\ Cardinality(ActiveRows(a)) \in Nat
<1>1. Len(rows) \in Nat /\ DOMAIN rows = 1..Len(rows)
  OBVIOUS
<1>2. IsFiniteSet(1..Len(rows))
  <2>1. Len(rows) \in Int /\ 1 \in Int
    BY <1>1
  <2> QED
    BY <2>1, FS_Interval, Zenon
<1>3. ActiveRows(a) \subseteq 1..Len(rows)
  BY <1>1 DEF ActiveRows
<1>4. IsFiniteSet(ActiveRows(a))
  BY <1>2, <1>3, FS_Subset
<1> QED
  BY <1>4, FS_CardinalityType

\* Facts of the types that the steps need: a record names an earlier row.
LEMMA RecordFacts ==
  ASSUME TablesOK, NEW a \in Apps, NEW k \in Keys, idem[a][k] # NoRecord
  PROVE  /\ idem[a][k] \in Record
         /\ idem[a][k].row \in DOMAIN rows
         /\ rows[idem[a][k].row] \in Row
         /\ rows[idem[a][k].row].app = a /\ rows[idem[a][k].row].key = k
BY DEF TablesOK

\* The row in the handler's hands.
LEMMA HandledFacts ==
  ASSUME TablesOK, HandlerOK, stage # "idle"
  PROVE  /\ Len(rows) \in DOMAIN rows /\ Len(rows) \in 1..MaxRows
         /\ DOMAIN rows = 1..Len(rows)
         /\ Handled = rows[Len(rows)] /\ Handled \in Row
         /\ Handled.app \in Apps /\ Handled.key \in Keys
         /\ Handled.body \in Bodies /\ Handled.created \in Times
<1>1. rows \in Seq(Row) /\ Len(rows) > 0 /\ Len(rows) <= MaxRows
  BY DEF TablesOK, HandlerOK
<1>2. /\ Len(rows) \in DOMAIN rows /\ Len(rows) \in 1..MaxRows
      /\ DOMAIN rows = 1..Len(rows) /\ rows[Len(rows)] \in Row
  BY <1>1, AdmissionAssumption
<1> QED
  BY <1>2 DEF Handled, Row

\* Requests that change no table.
LEMMA CalmOK ==
  ASSUME AdmissionInv, ReplayFaithful',
         UNCHANGED <<now, rows, idem, pool, enqueued, stage, crashes, raises>>
  PROVE  AdmissionInv'
<1>0. TablesOK /\ JobsOwnKeys
  BY DEF AdmissionInv, TableInv
<1>1. TablesOK' /\ JobsOwnKeys'
  <2>1. TablesOK'
    BY <1>0 DEF TablesOK
  <2>2. JobsOwnKeys'
    BY <1>0, ZenonT(30) DEF JobsOwnKeys
  <2> QED
    BY <2>1, <2>2
<1>2. HandlerOK'
  BY DEF AdmissionInv, TableInv, HandlerOK, Handled
<1>3. RecordsOK'
  BY DEF AdmissionInv, TableInv, RecordsOK, RecordOK
<1>4. OrphansExplained' /\ ActiveCapHolds'
  BY DEF AdmissionInv, OrphansExplained, SameKey, ActiveCapHolds
<1> QED
  BY <1>1, <1>2, <1>3, <1>4 DEF AdmissionInv, TableInv

\* A replay answers with the row that the key's record names.
LEMMA ReplayOK ==
  ASSUME AdmissionInv, NEW a \in Apps, NEW k \in Keys, NEW b \in Bodies,
         Replay(a, k, b)
  PROVE  AdmissionInv'
<1>1. /\ stage = "idle"
      /\ UNCHANGED <<now, rows, idem, pool, enqueued, stage, crashes, raises>>
  BY DEF Replay, Pass
<1>2. /\ Lookup(a, k) = idem[a][k] /\ idem[a][k] # NoRecord
      /\ idem[a][k].body = b
      /\ answer' = Answer(200, a, k, b, idem[a][k].row)
  BY DEF Replay, Lookup
<1>3. RecordOK(idem[a][k])
  BY <1>2 DEF AdmissionInv, TableInv, RecordsOK
<1>4. rows[idem[a][k].row].app = a /\ rows[idem[a][k].row].key = k
  BY <1>2, RecordFacts DEF AdmissionInv, TableInv
<1>5. /\ answer'.app = a /\ answer'.key = k /\ answer'.body = b
      /\ answer'.row = idem[a][k].row
  BY <1>2 DEF Answer
<1>6. ReplayFaithful'
  <2> DEFINE r == idem[a][k].row
  <2>1. rows[r].app = a /\ rows[r].key = k
    BY <1>4
  <2>2. rows[r].body = b
    BY <1>2, <1>3 DEF RecordOK
  <2>3. r \in enqueued \/ crashes + raises > 0
    BY <1>1, <1>3 DEF RecordOK
  <2>4. answer'.app = a /\ answer'.key = k /\ answer'.body = b /\ answer'.row = r
    BY <1>5
  <2>5. rows' = rows /\ enqueued' = enqueued /\ crashes' = crashes /\ raises' = raises
    BY <1>1
  <2> HIDE DEF r
  <2> QED
    BY <2>1, <2>2, <2>3, <2>4, <2>5 DEF ReplayFaithful
<1> QED
  BY <1>1, <1>6, CalmOK

\* An answer that is no replay.
LEMMA OtherAnswers ==
  ASSUME \/ answer' = OtherAnswer
         \/ \E a, k, b, r : answer' = Answer(500, a, k, b, r)
  PROVE  ReplayFaithful'
BY DEF ReplayFaithful, OtherAnswer, Answer

\* What the handler inserts is a row.
LEMMA NewRowIsRow ==
  ASSUME TablesOK, NEW a \in Apps, NEW k \in Keys, NEW b \in Bodies
  PROVE  NewRow(a, k, b) \in Row
<1>1. ResolvedScope(a, b) \in SUBSET Funds
  BY AdmissionAssumption DEF ResolvedScope
<1>2. now \in Times
  BY DEF TablesOK
<1> QED
  BY <1>1, <1>2 DEF NewRow, Row

\* The INSERT: a key not found has no record, or one past its time to live; the
\* application was below its cap.
LEMMA InsertOK ==
  ASSUME AdmissionInv, NEW a \in Apps, NEW k \in Keys, NEW b \in Bodies,
         Insert(a, k, b)
  PROVE  AdmissionInv'
<1> DEFINE n == Len(rows')
           u == NewRow(a, k, b)
<1>1. TablesOK /\ HandlerOK /\ RecordsOK /\ JobsOwnKeys
  BY DEF AdmissionInv, TableInv
<1>2. /\ stage = "idle" /\ stage' = "record" /\ rows' = Append(rows, u)
      /\ Len(rows) < MaxRows /\ answer' = OtherAnswer
      /\ UNCHANGED <<now, idem, pool, enqueued, crashes, raises>>
  BY DEF Insert, Pass
<1>3. rows \in Seq(Row) /\ u \in Row
  BY <1>1, NewRowIsRow DEF TablesOK
<1>4. /\ rows' \in Seq(Row) /\ n = Len(rows) + 1
      /\ Len(rows) \in Nat /\ DOMAIN rows = 1..Len(rows)
      /\ DOMAIN rows' = DOMAIN rows \cup {n} /\ n \notin DOMAIN rows
      /\ rows'[n] = u
      /\ \A i \in DOMAIN rows : rows'[i] = rows[i]
  BY <1>2, <1>3, RowAdded
<1>5. u.app = a /\ u.key = k /\ u.created = now /\ u.status = "ACTIVE"
  BY DEF NewRow
<1> HIDE DEF u
<1>6. n <= MaxRows
  BY <1>2, <1>4, AdmissionAssumption
<1> HIDE DEF n
<1>7. TablesOK'
  <2>1. ASSUME NEW c \in Apps, NEW l \in Keys, idem'[c][l] # NoRecord
        PROVE  /\ idem'[c][l].row \in DOMAIN rows'
               /\ rows'[idem'[c][l].row].app = c
               /\ rows'[idem'[c][l].row].key = l
    BY <1>1, <1>2, <1>4, <2>1, RecordFacts
  <2>2. pool' \subseteq enqueued' /\ enqueued' \subseteq DOMAIN rows'
    BY <1>1, <1>2, <1>4 DEF TablesOK
  <2>3. Len(rows') <= MaxRows
    BY <1>6 DEF n
  <2> QED
    BY <1>1, <1>2, <1>4, <2>1, <2>2, <2>3 DEF TablesOK
<1>8. HandlerOK'
  <2>1. Handled' = u
    BY <1>4 DEF Handled, n
  <2>2. Len(rows') > 0 /\ Len(rows') \notin enqueued' /\ Handled'.created = now'
    BY <1>1, <1>2, <1>4, <1>5, <2>1 DEF n, TablesOK
  <2>3. ASSUME idem[a][k] # NoRecord
        PROVE  /\ idem[a][k].row < Len(rows')
               /\ rows'[idem[a][k].row].created + KeyTtl < now
    <3>1. ~(idem[a][k].created + KeyTtl >= now)
      BY <2>3 DEF Insert, Lookup
    <3>2. /\ idem[a][k].row \in DOMAIN rows
          /\ idem[a][k].created = rows[idem[a][k].row].created
      BY <1>1, <2>3, RecordFacts DEF RecordsOK, RecordOK
    <3>3. idem[a][k].created \in Nat /\ now \in Nat /\ KeyTtl \in Nat
      BY <1>1, <2>3, RecordFacts, AdmissionAssumption
         DEF Record, Times, TablesOK
    <3>4. idem[a][k].row < Len(rows')
      BY <1>4, <3>2 DEF n
    <3> QED
      BY <1>4, <3>1, <3>2, <3>3, <3>4, SMTT(30)
  <2> QED
    BY <1>2, <1>5, <2>1, <2>2, <2>3 DEF HandlerOK
<1>9. RecordsOK'
  <2> SUFFICES ASSUME NEW c \in Apps, NEW l \in Keys, idem[c][l] # NoRecord
               PROVE  RecordOK(idem[c][l])'
    BY <1>2 DEF RecordsOK
  <2>1. RecordOK(idem[c][l]) /\ idem[c][l].row \in DOMAIN rows
    BY <1>1, RecordFacts DEF RecordsOK
  <2> QED
    BY <1>2, <1>4, <2>1 DEF RecordOK
<1>10. JobsOwnKeys'
  BY <1>1, <1>2, <1>4 DEF JobsOwnKeys, TablesOK
<1>11. ReplayFaithful'
  BY <1>2, OtherAnswers
<1>12. OrphansExplained'
  <2> SUFFICES ASSUME NEW r \in DOMAIN rows', rows'[r].status = "ACTIVE",
                      r \notin pool'
               PROVE  \/ stage' # "idle" /\ r = Len(rows')
                      \/ crashes' + raises' > 0
                      \/ \E s \in 1..(r - 1) :
                            /\ SameKey(s, r)'
                            /\ rows'[s].created + KeyTtl < rows'[r].created
    BY DEF OrphansExplained
  <2>1. CASE r = n
    BY <1>2, <2>1 DEF n
  <2>2. CASE r \in DOMAIN rows
    <3>1. \/ crashes + raises > 0
          \/ \E s \in 1..(r - 1) :
                SameKey(s, r) /\ rows[s].created + KeyTtl < rows[r].created
      BY <1>2, <1>4, <2>2 DEF AdmissionInv, OrphansExplained
    <3>2. \A s \in 1..(r - 1) : rows'[s] = rows[s]
      BY <1>4, <2>2
    <3> QED
      BY <1>2, <1>4, <2>2, <3>1, <3>2 DEF SameKey
  <2> QED
    BY <1>4, <2>1, <2>2
<1>13. ActiveCapHolds'
  <2>1. ASSUME NEW c \in Apps PROVE Cardinality(ActiveRows(c)') <= ActiveLimit
    <3>1. Cardinality(ActiveRows(c)) <= ActiveLimit
      BY DEF AdmissionInv, ActiveCapHolds, ActiveRows
    <3>2. CASE c # a
      <4>1. ActiveRows(c)' = ActiveRows(c)
        BY <1>4, <1>5, <3>2 DEF ActiveRows
      <4> QED
        BY <3>1, <4>1
    <3>3. CASE c = a
      <4>1. ActiveRows(c)' = ActiveRows(c) \cup {n}
        BY <1>4, <1>5, <3>3 DEF ActiveRows
      <4>2. IsFiniteSet(ActiveRows(c)) /\ Cardinality(ActiveRows(c)) \in Nat
        BY <1>3, RowsFinite
      <4>3. n \notin ActiveRows(c)
        BY <1>4 DEF ActiveRows
      <4>4. Cardinality(ActiveRows(c)') = Cardinality(ActiveRows(c)) + 1
        BY <4>1, <4>2, <4>3, FS_AddElement
      <4>5. ~(Cardinality(ActiveRows(c)) >= ActiveLimit)
        BY <3>3 DEF Insert, AtCap, Active, ActiveRows
      <4> QED
        BY <4>2, <4>4, <4>5, AdmissionAssumption
    <3> QED
      BY <3>2, <3>3
  <2> QED
    BY <2>1 DEF ActiveCapHolds, ActiveRows
<1> QED
  BY <1>7, <1>8, <1>9, <1>10, <1>11, <1>12, <1>13 DEF AdmissionInv, TableInv

\* The status of a row whose job has ended or that is cancelled.
LEMMA StatusOK ==
  ASSUME AdmissionInv, NEW r \in DOMAIN rows, NEW st \in {"LISTABLE", "CLOSED"},
         stage = "idle", rows' = [rows EXCEPT ![r].status = st],
         pool' = pool \/ pool' = pool \ {r}, answer' = OtherAnswer,
         UNCHANGED <<now, idem, enqueued, stage, crashes, raises>>
  PROVE  AdmissionInv'
<1>1. TablesOK /\ HandlerOK /\ RecordsOK /\ JobsOwnKeys
  BY DEF AdmissionInv, TableInv
<1>2. rows \in Seq(Row)
  BY <1>1 DEF TablesOK
<1>3. /\ rows' \in Seq(Row) /\ Len(rows') = Len(rows)
      /\ DOMAIN rows' = DOMAIN rows
      /\ \A i \in DOMAIN rows : SameColumns(rows'[i], rows[i])
      /\ rows'[r].status = st
      /\ \A i \in DOMAIN rows \ {r} : rows'[i] = rows[i]
  BY <1>2, StatusSet
<1>4. \A i \in DOMAIN rows : /\ rows'[i].app = rows[i].app
                             /\ rows'[i].key = rows[i].key
                             /\ rows'[i].body = rows[i].body
                             /\ rows'[i].created = rows[i].created
  BY <1>3 DEF SameColumns
<1>5. TablesOK'
  <2>1. ASSUME NEW c \in Apps, NEW l \in Keys, idem'[c][l] # NoRecord
        PROVE  /\ idem'[c][l].row \in DOMAIN rows'
               /\ rows'[idem'[c][l].row].app = c
               /\ rows'[idem'[c][l].row].key = l
    BY <1>1, <1>3, <1>4, <2>1, RecordFacts
  <2>2. pool' \subseteq enqueued' /\ enqueued' \subseteq DOMAIN rows'
    BY <1>1, <1>3 DEF TablesOK
  <2> QED
    BY <1>1, <1>3, <2>1, <2>2 DEF TablesOK
<1>6. HandlerOK'
  BY DEF HandlerOK
<1>7. RecordsOK'
  <2> SUFFICES ASSUME NEW c \in Apps, NEW l \in Keys, idem[c][l] # NoRecord
               PROVE  RecordOK(idem[c][l])'
    BY DEF RecordsOK
  <2>1. RecordOK(idem[c][l]) /\ idem[c][l].row \in DOMAIN rows
    BY <1>1, RecordFacts DEF RecordsOK
  <2> QED
    BY <1>3, <1>4, <2>1 DEF RecordOK
<1>8. JobsOwnKeys'
  BY <1>1, <1>4 DEF JobsOwnKeys, TablesOK
<1>9. ReplayFaithful'
  BY OtherAnswers
<1>10. OrphansExplained'
  <2> SUFFICES ASSUME NEW i \in DOMAIN rows, rows'[i].status = "ACTIVE",
                      i \notin pool'
               PROVE  \/ crashes + raises > 0
                      \/ \E s \in 1..(i - 1) :
                            /\ SameKey(s, i)'
                            /\ rows'[s].created + KeyTtl < rows'[i].created
    BY <1>3 DEF OrphansExplained
  <2>1. i # r
    BY <1>3
  <2>2. rows[i].status = "ACTIVE" /\ i \notin pool
    BY <1>3, <2>1
  <2>3. \/ crashes + raises > 0
        \/ \E s \in 1..(i - 1) :
              SameKey(s, i) /\ rows[s].created + KeyTtl < rows[i].created
    BY <2>2 DEF AdmissionInv, OrphansExplained
  <2>4. \A s \in 1..(i - 1) : s \in DOMAIN rows
    BY <1>2
  <2> QED
    BY <1>4, <2>3, <2>4 DEF SameKey
<1>11. ActiveCapHolds'
  <2>1. ASSUME NEW c \in Apps PROVE Cardinality(ActiveRows(c)') <= ActiveLimit
    <3>1. Cardinality(ActiveRows(c)) <= ActiveLimit
      BY DEF AdmissionInv, ActiveCapHolds, ActiveRows
    <3>2. ActiveRows(c)' \subseteq ActiveRows(c)
      BY <1>3, <1>4 DEF ActiveRows
    <3>3. IsFiniteSet(ActiveRows(c)) /\ Cardinality(ActiveRows(c)) \in Nat
      BY <1>2, RowsFinite
    <3>4. /\ IsFiniteSet(ActiveRows(c)')
          /\ Cardinality(ActiveRows(c)') <= Cardinality(ActiveRows(c))
      BY <3>2, <3>3, FS_Subset
    <3>5. Cardinality(ActiveRows(c)') \in Nat
      BY <3>4, FS_CardinalityType
    <3> QED
      BY <3>1, <3>3, <3>4, <3>5, AdmissionAssumption
  <2> QED
    BY <2>1 DEF ActiveCapHolds, ActiveRows
<1> QED
  BY <1>5, <1>6, <1>7, <1>8, <1>9, <1>10, <1>11 DEF AdmissionInv, TableInv

\* The key is stored where no record was, so that no earlier row of the key has
\* a job.
LEMMA RecordKeyOK ==
  ASSUME AdmissionInv, RecordKey
  PROVE  AdmissionInv'
<1> DEFINE n == Len(rows)
           a == Handled.app
           k == Handled.key
<1>1. TablesOK /\ HandlerOK /\ RecordsOK /\ JobsOwnKeys
  BY DEF AdmissionInv, TableInv
<1>2. /\ stage = "record" /\ stage' = "enqueue" /\ idem[a][k] = NoRecord
      /\ idem' = [idem EXCEPT ![a][k] =
                     [row |-> n, body |-> Handled.body, created |-> now]]
      /\ answer' = OtherAnswer
      /\ UNCHANGED <<now, rows, hits, pool, enqueued, crashes, raises>>
  BY DEF RecordKey, StoreKey
<1>3. /\ n \in DOMAIN rows /\ n \in 1..MaxRows /\ Handled = rows[n]
      /\ a \in Apps /\ k \in Keys /\ Handled.body \in Bodies
      /\ Handled.created = now /\ n \notin enqueued
  BY <1>1, <1>2, HandledFacts DEF HandlerOK
<1>4. now \in Times /\ idem \in [Apps -> [Keys -> Record \cup {NoRecord}]]
  BY <1>1 DEF TablesOK
<1> DEFINE rec == [row |-> n, body |-> Handled.body, created |-> now]
<1>5. /\ rec \in Record /\ rec # NoRecord /\ rec.row = n
      /\ rec.body = Handled.body /\ rec.created = now
  BY <1>3, <1>4, NoRecordAssumption DEF Record
<1> HIDE DEF rec
<1>6. /\ idem' \in [Apps -> [Keys -> Record \cup {NoRecord}]]
      /\ idem'[a][k] = rec
      /\ \A c \in Apps, l \in Keys :
            c # a \/ l # k => idem'[c][l] = idem[c][l]
  <2>1. idem' = [idem EXCEPT ![a] = [idem[a] EXCEPT ![k] = rec]]
    BY <1>2 DEF rec
  <2> QED
    BY <1>3, <1>4, <1>5, <2>1
<1>7. Handled' = Handled
  BY <1>2 DEF Handled
<1> HIDE DEF n, a, k
<1>8. TablesOK'
  <2>1. ASSUME NEW c \in Apps, NEW l \in Keys, idem'[c][l] # NoRecord
        PROVE  /\ idem'[c][l].row \in DOMAIN rows'
               /\ rows'[idem'[c][l].row].app = c
               /\ rows'[idem'[c][l].row].key = l
    <3>1. CASE c = a /\ l = k
      BY <1>2, <1>3, <1>5, <1>6, <3>1 DEF a, k
    <3>2. CASE c # a \/ l # k
      BY <1>1, <1>2, <1>6, <2>1, <3>2, RecordFacts
    <3> QED
      BY <3>1, <3>2
  <2> QED
    BY <1>1, <1>2, <1>6, <2>1 DEF TablesOK
<1>9. HandlerOK'
  <2>1. Len(rows') > 0 /\ Len(rows') \notin enqueued' /\ Handled'.created = now'
    BY <1>2, <1>3, <1>7 DEF n
  <2>2. /\ idem'[Handled'.app][Handled'.key] # NoRecord
        /\ idem'[Handled'.app][Handled'.key].row = Len(rows')
    BY <1>2, <1>5, <1>6, <1>7 DEF n, a, k
  <2> QED
    BY <1>2, <2>1, <2>2 DEF HandlerOK
<1>10. RecordsOK'
  <2> SUFFICES ASSUME NEW c \in Apps, NEW l \in Keys, idem'[c][l] # NoRecord
               PROVE  RecordOK(idem[c][l])'
    BY DEF RecordsOK
  <2>1. CASE c = a /\ l = k
    BY <1>2, <1>3, <1>5, <1>6, <2>1 DEF RecordOK, n
  <2>2. CASE c # a \/ l # k
    <3>1. idem'[c][l] = idem[c][l] /\ RecordOK(idem[c][l])
      BY <1>1, <1>6, <2>2 DEF RecordsOK
    <3> QED
      BY <1>2, <3>1 DEF RecordOK
  <2> QED
    BY <2>1, <2>2
<1>11. JobsOwnKeys'
  <2> SUFFICES ASSUME NEW r \in enqueued
               PROVE  /\ idem'[rows[r].app][rows[r].key] # NoRecord
                      /\ idem'[rows[r].app][rows[r].key].row = r
    BY <1>2 DEF JobsOwnKeys
  <2>1. /\ idem[rows[r].app][rows[r].key] # NoRecord
        /\ idem[rows[r].app][rows[r].key].row = r
    BY <1>1 DEF JobsOwnKeys
  <2>2. rows[r].app # a \/ rows[r].key # k
    BY <1>2, <2>1
  <2>3. rows[r].app \in Apps /\ rows[r].key \in Keys
    <3>1. rows[r] \in Row
      BY <1>1 DEF TablesOK
    <3> QED
      BY <3>1 DEF Row
  <2> QED
    BY <1>6, <2>1, <2>2, <2>3
<1>12. ReplayFaithful'
  BY <1>2, OtherAnswers
<1>13. OrphansExplained'
  BY <1>2 DEF AdmissionInv, OrphansExplained, SameKey
<1>14. ActiveCapHolds'
  BY <1>2 DEF AdmissionInv, ActiveCapHolds
<1> QED
  BY <1>8, <1>9, <1>10, <1>11, <1>12, <1>13, <1>14 DEF AdmissionInv, TableInv

\* A handler that ends with a 500 leaves an orphan, and that goes back to a fault
\* or to a record past its time to live.
LEMMA AbortOK ==
  ASSUME AdmissionInv, KeyCollides \/ HandlerRaises
  PROVE  AdmissionInv'
<1>1. TablesOK /\ HandlerOK /\ RecordsOK /\ JobsOwnKeys
  BY DEF AdmissionInv, TableInv
<1>2. /\ stage # "idle" /\ stage' = "idle"
      /\ \E a, k, b, r : answer' = Answer(500, a, k, b, r)
      /\ UNCHANGED <<now, rows, idem, pool, enqueued, crashes>>
  BY DEF KeyCollides, HandlerRaises, Abort
<1>3. /\ crashes \in Nat /\ raises \in Nat /\ raises' \in Nat
      /\ raises' = raises \/ raises' = raises + 1
  BY <1>1 DEF TablesOK, KeyCollides, HandlerRaises
<1>4. raises' = raises + 1 => crashes' + raises' > 0
  BY <1>2, <1>3
<1>5. CASE HandlerRaises
  <2>1. crashes' + raises' > 0
    BY <1>4, <1>5 DEF HandlerRaises
  <2>2. TablesOK' /\ JobsOwnKeys'
    BY <1>1, <1>2, <1>3 DEF TablesOK, JobsOwnKeys
  <2>3. HandlerOK'
    BY <1>2 DEF HandlerOK
  <2>4. RecordsOK'
    BY <1>1, <1>2, <2>1 DEF RecordsOK, RecordOK
  <2>5. ReplayFaithful'
    BY <1>2, OtherAnswers
  <2>6. OrphansExplained'
    BY <2>1 DEF OrphansExplained
  <2>7. ActiveCapHolds'
    BY <1>2 DEF AdmissionInv, ActiveCapHolds
  <2> QED
    BY <2>2, <2>3, <2>4, <2>5, <2>6, <2>7 DEF AdmissionInv, TableInv
<1>6. CASE KeyCollides
  <2> DEFINE n == Len(rows)
             rec == idem[Handled.app][Handled.key]
  <2>1. stage = "record" /\ rec # NoRecord /\ raises' = raises
    BY <1>6 DEF KeyCollides
  <2>2. TablesOK' /\ JobsOwnKeys'
    BY <1>1, <1>2, <2>1 DEF TablesOK, JobsOwnKeys
  <2>3. HandlerOK'
    BY <1>2 DEF HandlerOK
  <2>4. RecordsOK'
    BY <1>1, <1>2, <2>1 DEF RecordsOK, RecordOK
  <2>5. ReplayFaithful'
    BY <1>2, OtherAnswers
  <2>6. /\ n \in DOMAIN rows /\ DOMAIN rows = 1..n /\ Handled = rows[n]
        /\ Handled.app \in Apps /\ Handled.key \in Keys
    BY <1>1, <1>2, HandledFacts
  <2>7. /\ rec.row \in DOMAIN rows
        /\ rows[rec.row].app = rows[n].app /\ rows[rec.row].key = rows[n].key
    <3> DEFINE a == Handled.app
               k == Handled.key
    <3>1. a \in Apps /\ k \in Keys /\ a = rows[n].app /\ k = rows[n].key
      BY <2>6
    <3>2. rec = idem[a][k] /\ idem[a][k] # NoRecord
      BY <2>1
    <3> HIDE DEF a, k, n, rec
    <3>3. /\ idem[a][k].row \in DOMAIN rows
          /\ rows[idem[a][k].row].app = a /\ rows[idem[a][k].row].key = k
      BY <1>1, <3>1, <3>2, RecordFacts, SMTT(30)
    <3> QED
      BY <3>1, <3>2, <3>3
  <2>8. rec.row < n /\ rows[rec.row].created + KeyTtl < rows[n].created
    BY <1>1, <1>2, <2>1, <2>6 DEF HandlerOK
  <2> HIDE DEF n, rec
  <2>9. rec.row \in 1..(n - 1)
    BY <2>6, <2>7, <2>8
  <2>10. OrphansExplained'
    <3> SUFFICES ASSUME NEW i \in DOMAIN rows, rows[i].status = "ACTIVE",
                        i \notin pool
                 PROVE  \/ crashes + raises > 0
                        \/ \E s \in 1..(i - 1) :
                              /\ SameKey(s, i)
                              /\ rows[s].created + KeyTtl < rows[i].created
      BY <1>2, <2>1 DEF OrphansExplained, SameKey
    <3>1. CASE i = n
      BY <2>7, <2>8, <2>9, <3>1 DEF SameKey
    <3>2. CASE i # n
      BY <3>2 DEF AdmissionInv, OrphansExplained, n
    <3> QED
      BY <3>1, <3>2
  <2>11. ActiveCapHolds'
    BY <1>2 DEF AdmissionInv, ActiveCapHolds
  <2> QED
    BY <2>2, <2>3, <2>4, <2>5, <2>10, <2>11 DEF AdmissionInv, TableInv
<1> QED
  BY <1>5, <1>6

\* The job of a row whose key is stored.
LEMMA EnqueueOK ==
  ASSUME AdmissionInv, Enqueue
  PROVE  AdmissionInv'
<1> DEFINE n == Len(rows)
<1>1. TablesOK /\ HandlerOK /\ RecordsOK /\ JobsOwnKeys
  BY DEF AdmissionInv, TableInv
<1>2. /\ stage = "enqueue" /\ stage' = "idle"
      /\ pool' = pool \cup {n} /\ enqueued' = enqueued \cup {n}
      /\ answer' = OtherAnswer
      /\ UNCHANGED <<now, rows, idem, hits, crashes, raises>>
  BY DEF Enqueue, HandOver
<1>3. n \in DOMAIN rows /\ Handled = rows[n]
  BY <1>1, <1>2, HandledFacts
<1>4. TablesOK'
  BY <1>1, <1>2, <1>3 DEF TablesOK
<1>5. HandlerOK'
  BY <1>2 DEF HandlerOK
<1>6. RecordsOK'
  BY <1>1, <1>2 DEF RecordsOK, RecordOK
<1>7. JobsOwnKeys'
  BY <1>1, <1>2, <1>3 DEF JobsOwnKeys, HandlerOK
<1>8. ReplayFaithful'
  BY <1>2, OtherAnswers
<1>9. OrphansExplained'
  BY <1>2 DEF AdmissionInv, OrphansExplained, SameKey
<1>10. ActiveCapHolds'
  BY <1>2 DEF AdmissionInv, ActiveCapHolds
<1> QED
  BY <1>4, <1>5, <1>6, <1>7, <1>8, <1>9, <1>10 DEF AdmissionInv, TableInv

\* Time passes between handlers; a crash and a job lost to an exception are
\* faults.
LEMMA WorldOK ==
  ASSUME AdmissionInv, Tick \/ Crash \/ \E r \in pool : JobRaises(r)
  PROVE  AdmissionInv'
<1>1. TablesOK /\ HandlerOK /\ RecordsOK /\ JobsOwnKeys
  BY DEF AdmissionInv, TableInv
<1>2. /\ stage' = "idle" /\ answer' = OtherAnswer
      /\ UNCHANGED <<rows, idem, enqueued>>
  BY DEF Tick, Crash, JobRaises
<1>3. TablesOK'
  <2>1. now' \in Times
    <3>1. now \in Times
      BY <1>1, Zenon DEF TablesOK
    <3>2. MaxTime \in Nat
      BY AdmissionAssumption
    <3>3. CASE Tick
      <4>1. now < MaxTime /\ now' = now + 1
        BY <3>3 DEF Tick
      <4> QED
        BY <3>1, <3>2, <4>1 DEF Times
    <3>4. CASE Crash \/ \E r \in pool : JobRaises(r)
      <4>1. now' = now
        BY <3>4 DEF Crash, JobRaises
      <4> QED
        BY <3>1, <4>1 DEF Times
    <3> QED
      BY <3>3, <3>4
  <2>2. crashes' \in Nat /\ raises' \in Nat /\ pool' \subseteq enqueued'
    BY <1>1 DEF Tick, Crash, JobRaises, TablesOK
  <2> QED
    BY <1>1, <1>2, <2>1, <2>2 DEF TablesOK
<1>4. HandlerOK' /\ ReplayFaithful'
  BY <1>2, OtherAnswers DEF HandlerOK
<1>5. JobsOwnKeys'
  BY <1>1, <1>2 DEF JobsOwnKeys
<1>6. ActiveCapHolds'
  BY <1>2 DEF AdmissionInv, ActiveCapHolds
<1>7. CASE Tick
  <2>1. stage = "idle" /\ UNCHANGED <<pool, crashes, raises>>
    BY <1>7 DEF Tick
  <2>2. RecordsOK'
    BY <1>1, <1>2, <2>1 DEF RecordsOK, RecordOK
  <2>3. OrphansExplained'
    BY <1>2, <2>1 DEF AdmissionInv, OrphansExplained, SameKey
  <2> QED
    BY <1>3, <1>4, <1>5, <1>6, <2>2, <2>3 DEF AdmissionInv, TableInv
<1>8. CASE Crash \/ \E r \in pool : JobRaises(r)
  <2>1. crashes' + raises' > 0
    BY <1>1, <1>8 DEF Crash, JobRaises, TablesOK
  <2>2. RecordsOK'
    BY <1>1, <1>2, <2>1 DEF RecordsOK, RecordOK
  <2>3. OrphansExplained'
    BY <2>1 DEF OrphansExplained
  <2> QED
    BY <1>3, <1>4, <1>5, <1>6, <2>2, <2>3 DEF AdmissionInv, TableInv
<1> QED
  BY <1>7, <1>8

\* Every step keeps the invariant.
LEMMA NextAdmission == AdmissionInv /\ [Next]_vars => AdmissionInv'
<1> SUFFICES ASSUME AdmissionInv, [Next]_vars PROVE AdmissionInv'
  OBVIOUS
<1>1. ASSUME NEW a \in Apps, Throttle(a) \/ OnlyCounted(a) PROVE AdmissionInv'
  BY <1>1, CalmOK, OtherAnswers DEF Throttle, OnlyCounted
<1>2. ASSUME NEW q \in Requests,
             \/ Replay(q.app, q.key, q.body) \/ Refuse(q.app, q.key, q.body)
             \/ Insert(q.app, q.key, q.body)
      PROVE  AdmissionInv'
  <2>1. q.app \in Apps /\ q.key \in Keys /\ q.body \in Bodies
    BY AdmissionAssumption
  <2>2. CASE Refuse(q.app, q.key, q.body)
    BY <2>2, CalmOK, OtherAnswers DEF Refuse
  <2> QED
    BY <1>2, <2>1, <2>2, ReplayOK, InsertOK
<1>3. ASSUME NEW r \in DOMAIN rows, NEW files, ListFiles(r, files)
      PROVE  AdmissionInv'
  BY <1>3, CalmOK, OtherAnswers DEF ListFiles
<1>4. ASSUME NEW r \in DOMAIN rows, Cancel(r) PROVE AdmissionInv'
  BY <1>4, StatusOK DEF Cancel, Pass
<1>5. ASSUME NEW r \in pool, NEW outcome \in {"LISTABLE", "CLOSED"},
             Finish(r, outcome)
      PROVE  AdmissionInv'
  <2>1. r \in DOMAIN rows
    BY DEF AdmissionInv, TableInv, TablesOK
  <2> QED
    BY <1>5, <2>1, StatusOK DEF Finish
<1>6. CASE UNCHANGED vars
  <2>1. ReplayFaithful'
    BY <1>6 DEF vars, AdmissionInv, ReplayFaithful
  <2> QED
    BY <1>6, <2>1, CalmOK DEF vars
<1> QED
  BY <1>1, <1>2, <1>3, <1>4, <1>5, <1>6, RecordKeyOK, AbortOK, EnqueueOK, WorldOK
     DEF Next

\* The invariant holds of every behaviour.
LEMMA AdmissionInvariant == Spec => []AdmissionInv
BY InitAdmission, NextAdmission, PTL DEF Spec

\* Within its time to live a key leads to one job.  (Since the primary key is
\* never released it leads to no second job later, either.)
THEOREM KeyHasOneJob == Spec => []OneJobPerKey
<1>1. AdmissionInv => OneJobPerKey
  <2> SUFFICES ASSUME AdmissionInv, NEW r \in enqueued, NEW s \in enqueued,
                      SameKey(r, s), r < s
               PROVE  FALSE
    BY DEF OneJobPerKey
  <2>1. r = s
    BY DEF AdmissionInv, TableInv, JobsOwnKeys, SameKey
  <2>2. r \in Nat
    BY DEF AdmissionInv, TableInv, TablesOK
  <2> QED
    BY <2>1, <2>2
<1> QED
  BY <1>1, AdmissionInvariant, PTL

\* A replay is answered with this application's extract for this key and body,
\* and without faults with one the pool has had.
THEOREM ReplaysAreFaithful == Spec => []ReplayFaithful
BY AdmissionInvariant, PTL DEF AdmissionInv

\* An extract that stays ACCEPTED with nobody working on it goes back to a fault
\* or to a key used again after its time to live.
THEOREM OrphansHaveCauses == Spec => []OrphansExplained
BY AdmissionInvariant, PTL DEF AdmissionInv

\* The cap on active extracts holds for every application, whatever faults leave
\* behind.
THEOREM CapIsKept == Spec => []ActiveCapHolds
BY AdmissionInvariant, PTL DEF AdmissionInv
-----------------------------------------------------------------------------
(***************************************************************************)
(* The sliding windows.                                                    *)
(***************************************************************************)

Limit(kind) == IF kind = "request" THEN RequestLimit ELSE PresignLimit

HitsOK == hits \in [Apps -> [Kinds -> [Times -> Nat]]]

\* There are no events of a time to come, and finitely many in all.
EventsOK ==
    \A a \in Apps, kind \in Kinds :
        /\ \A t \in Times : t > now => hits[a][kind][t] = 0
        /\ IsFiniteSet(EventRows(a, kind, 0, MaxTime))

RateInv == TablesOK /\ HitsOK /\ EventsOK /\ WindowsHold

\* The events that a request adds.
Added(a, kind, n) ==
    {now} \X ((hits[a][kind][now] + 1)..(hits[a][kind][now] + n))

\* A row is a moment and a number.
LEMMA EventRow ==
  ASSUME NEW a, NEW kind, NEW from, NEW to, NEW e
  PROVE  e \in EventRows(a, kind, from, to) <=>
            \E t \in Times \cap from..to : \E i \in 1..hits[a][kind][t] :
                e = <<t, i>>
BY DEF EventRows

\* A stretch of time that contains another has its events.
LEMMA LongerStretch ==
  ASSUME EventsOK, NEW a \in Apps, NEW kind \in Kinds,
         NEW from, NEW to, NEW from2, NEW to2,
         \A t \in Times \cap from..to :
            hits[a][kind][t] # 0 => t \in from2..to2,
         HitsOK
  PROVE  /\ EventRows(a, kind, from, to) \subseteq EventRows(a, kind, from2, to2)
         /\ Events(a, kind, from, to) \in Nat
         /\ Events(a, kind, from2, to2) \in Nat
         /\ IsFiniteSet(EventRows(a, kind, from2, to2))
         /\ Events(a, kind, from, to) <= Events(a, kind, from2, to2)
<1>1. EventRows(a, kind, from, to) \subseteq EventRows(a, kind, from2, to2)
  <2> SUFFICES ASSUME NEW t \in Times \cap from..to,
                      NEW i \in 1..hits[a][kind][t]
               PROVE  <<t, i>> \in EventRows(a, kind, from2, to2)
    BY EventRow
  <2>1. hits[a][kind][t] # 0
    BY DEF HitsOK
  <2> QED
    BY <2>1, EventRow
<1>2. EventRows(a, kind, from2, to2) \subseteq EventRows(a, kind, 0, MaxTime)
  BY EventRow DEF Times
<1>3. IsFiniteSet(EventRows(a, kind, from2, to2))
  BY <1>2, FS_Subset DEF EventsOK
<1> QED
  BY <1>1, <1>3, FS_Subset, FS_CardinalityType DEF Events

\* What a window holds when it is checked is within the limit.
LEMMA CountBound ==
  ASSUME RateInv, NEW a \in Apps, NEW kind \in Kinds
  PROVE  Count(a, kind) \in Nat /\ Count(a, kind) <= Limit(kind)
<1> DEFINE from == IF now >= Window THEN now - Window ELSE 0
<1>1. /\ now \in Nat /\ now <= MaxTime /\ Window \in Nat /\ MaxTime \in Nat
      /\ PresignLimit \in Nat /\ RequestLimit \in Nat
  BY AdmissionAssumption DEF RateInv, TablesOK, Times
<1>2. from \in Times
  BY <1>1 DEF Times
<1>3. \A t \in Times \cap (now - Window)..now : t \in from..(from + Window)
  BY <1>1 DEF Times
<1>4. /\ Count(a, kind) \in Nat
      /\ Events(a, kind, from, from + Window) \in Nat
      /\ Count(a, kind) <= Events(a, kind, from, from + Window)
  BY <1>3, LongerStretch DEF Count, RateInv
<1>5. Events(a, kind, from, from + Window) <= Limit(kind)
  BY <1>2 DEF RateInv, WindowsHold, Limit, Kinds
<1> HIDE DEF from
<1> QED
  BY <1>1, <1>4, <1>5 DEF Limit

\* There are as many added events as said.
LEMMA AddedCount ==
  ASSUME NEW a \in Apps, NEW kind \in Kinds, NEW n \in Nat, HitsOK,
         now \in Times
  PROVE  IsFiniteSet(Added(a, kind, n)) /\ Cardinality(Added(a, kind, n)) = n
<1> DEFINE c == hits[a][kind][now]
           S == (c + 1)..(c + n)
<1>1. c \in Nat
  BY DEF HitsOK
<1> HIDE DEF c
<1>2. c + 1 \in Int /\ c + n \in Int
  BY <1>1
<1>3. /\ IsFiniteSet(S)
      /\ Cardinality(S) = IF c + 1 > c + n THEN 0 ELSE (c + n) - (c + 1) + 1
  BY <1>2, FS_Interval, Zenon
<1>4. IsFiniteSet({now}) /\ Cardinality({now}) = 1
  BY FS_Singleton
<1>5. /\ IsFiniteSet({now} \X S)
      /\ Cardinality({now} \X S) = 1 * Cardinality(S)
  BY <1>3, <1>4, FS_Product, ZenonT(30)
<1>6. Cardinality(S) = n
  BY <1>1, <1>3
<1> QED
  BY <1>5, <1>6 DEF Added, S, c

\* RecordEvents adds its events and otherwise only prunes.
LEMMA RowsAfter ==
  ASSUME RateInv, NEW a \in Apps, NEW n \in [Kinds -> Nat], RecordEvents(a, n),
         NEW b \in Apps, NEW kind \in Kinds, NEW from, NEW to
  PROVE  /\ EventRows(b, kind, from, to)' \subseteq
               EventRows(b, kind, from, to) \cup Added(a, kind, n[kind])
         /\ a # b \/ now \notin from..to =>
               EventRows(b, kind, from, to)' \subseteq
                   EventRows(b, kind, from, to)
<1>1. \A t \in Times : hits[b][kind][t] \in Nat
  BY DEF RateInv, HitsOK
<1>2. ASSUME NEW t \in Times
      PROVE  \/ hits'[b][kind][t] = 0
             \/ /\ a = b /\ t = now
                /\ hits'[b][kind][t] = hits[b][kind][t] + n[kind]
             \/ hits'[b][kind][t] = hits[b][kind][t]
  BY DEF RecordEvents
<1>3. ASSUME NEW e \in EventRows(b, kind, from, to)'
      PROVE  \/ e \in EventRows(b, kind, from, to)
             \/ a = b /\ now \in from..to /\ e \in Added(a, kind, n[kind])
  <2>1. PICK t \in Times \cap from..to :
            \E i \in 1..hits'[b][kind][t] : e = <<t, i>>
    BY <1>3 DEF EventRows
  <2> PICK i \in 1..hits'[b][kind][t] : e = <<t, i>>
    BY <2>1
  <2>2. CASE i \in 1..hits[b][kind][t]
    BY <2>2, EventRow
  <2>3. CASE i \notin 1..hits[b][kind][t]
    <3>1. /\ a = b /\ t = now
          /\ hits'[b][kind][t] = hits[b][kind][t] + n[kind]
      BY <1>1, <1>2, <2>3
    <3>2. i \in (hits[b][kind][t] + 1)..(hits[b][kind][t] + n[kind])
      BY <1>1, <2>3, <3>1
    <3> QED
      BY <3>1, <3>2 DEF Added
  <2> QED
    BY <2>2, <2>3
<1> QED
  BY <1>3

\* A request that stays within the limits keeps every window within them.
LEMMA RecordedOK ==
  ASSUME RateInv, NEW a \in Apps, NEW n \in [Kinds -> Nat], RecordEvents(a, n),
         \A kind \in Kinds : Count(a, kind) + n[kind] <= Limit(kind),
         TablesOK', now' = now
  PROVE  RateInv'
<1>1. /\ now \in Nat /\ now <= MaxTime /\ Window \in Nat /\ MaxTime \in Nat
      /\ PresignLimit \in Nat /\ RequestLimit \in Nat /\ now \in Times
  BY AdmissionAssumption DEF RateInv, TablesOK, Times
<1>2. HitsOK /\ EventsOK
  BY DEF RateInv
<1>3. HitsOK'
  <2>1. ASSUME NEW b \in Apps, NEW kind \in Kinds, NEW t \in Times
        PROVE  (CASE t + Window + PruneSlack < now -> 0
                  [] t = now /\ a = b -> hits[b][kind][t] + n[kind]
                  [] OTHER -> hits[b][kind][t]) \in Nat
    BY <1>2 DEF HitsOK
  <2> QED
    BY <2>1 DEF HitsOK, RecordEvents
<1>4. EventsOK'
  <2> SUFFICES ASSUME NEW b \in Apps, NEW kind \in Kinds
               PROVE  /\ \A t \in Times : t > now => hits'[b][kind][t] = 0
                      /\ IsFiniteSet(EventRows(b, kind, 0, MaxTime)')
    BY DEF EventsOK
  <2>1. ASSUME NEW t \in Times, t > now PROVE hits'[b][kind][t] = 0
    <3>1. hits[b][kind][t] = 0 /\ t # now
      BY <1>1, <1>2, <2>1 DEF EventsOK
    <3> QED
      BY <3>1 DEF RecordEvents
  <2>2. IsFiniteSet(EventRows(b, kind, 0, MaxTime))
    BY <1>2 DEF EventsOK
  <2>3. IsFiniteSet(Added(a, kind, n[kind]))
    BY <1>1, <1>2, AddedCount
  <2>4. IsFiniteSet(EventRows(b, kind, 0, MaxTime) \cup Added(a, kind, n[kind]))
    BY <2>2, <2>3, FS_Union
  <2>5. EventRows(b, kind, 0, MaxTime)' \subseteq
            EventRows(b, kind, 0, MaxTime) \cup Added(a, kind, n[kind])
    BY RowsAfter
  <2>6. IsFiniteSet(EventRows(b, kind, 0, MaxTime)')
    BY <2>4, <2>5, FS_Subset
  <2> QED
    BY <2>1, <2>6
<1>5. ASSUME NEW b \in Apps, NEW kind \in Kinds, NEW t \in Times
      PROVE  Events(b, kind, t, t + Window)' <= Limit(kind)
  <2> DEFINE E == EventRows(b, kind, t, t + Window)
             C == EventRows(b, kind, now - Window, now)
             A == Added(a, kind, n[kind])
  <2>1. /\ IsFiniteSet(E) /\ Cardinality(E) \in Nat
        /\ IsFiniteSet(C) /\ Cardinality(C) \in Nat
    BY <1>2, LongerStretch DEF Events
  <2>2. Cardinality(E) <= Limit(kind)
    BY DEF RateInv, WindowsHold, Limit, Kinds, Events
  <2>3. Limit(kind) \in Nat
    BY <1>1 DEF Limit
  <2>4. CASE a # b \/ now \notin t..(t + Window)
    <3>1. E' \subseteq E
      BY <2>4, RowsAfter
    <3>2. IsFiniteSet(E') /\ Cardinality(E') <= Cardinality(E)
      BY <2>1, <3>1, FS_Subset
    <3>3. Cardinality(E') \in Nat
      BY <3>2, FS_CardinalityType
    <3>4. Cardinality(E') <= Limit(kind)
      BY <2>1, <2>2, <2>3, <3>2, <3>3
    <3> QED
      BY <3>4 DEF Events
  <2>5. CASE a = b /\ now \in t..(t + Window)
    <3>1. \A u \in Times \cap t..(t + Window) :
              hits[b][kind][u] # 0 => u \in (now - Window)..now
      BY <1>1, <1>2, <2>5 DEF EventsOK, Times
    <3>2. E \subseteq C
      BY <1>2, <3>1, LongerStretch
    <3>3. E' \subseteq C \cup A
      BY <3>2, RowsAfter
    <3>4. IsFiniteSet(A) /\ Cardinality(A) = n[kind]
      BY <1>1, <1>2, AddedCount
    <3>5. /\ IsFiniteSet(C \cup A)
          /\ Cardinality(C \cup A) =
                Cardinality(C) + Cardinality(A) - Cardinality(C \cap A)
      BY <2>1, <3>4, FS_Union
    <3>6. Cardinality(C \cap A) \in Nat
      BY <2>1, FS_Intersection, FS_CardinalityType
    <3>7. IsFiniteSet(E') /\ Cardinality(E') <= Cardinality(C \cup A)
      BY <3>3, <3>5, FS_Subset
    <3>8. Cardinality(E') \in Nat
      BY <3>7, FS_CardinalityType
    <3>9. Cardinality(C) + n[kind] <= Limit(kind)
      BY <2>5 DEF Count, Events
    <3>10. n[kind] \in Nat
      OBVIOUS
    <3> HIDE DEF E, C, A
    <3>11. Cardinality(E') <= Limit(kind)
      BY <2>1, <2>3, <3>4, <3>5, <3>6, <3>7, <3>8, <3>9, <3>10
    <3> QED
      BY <3>11 DEF Events, E
  <2> QED
    BY <2>4, <2>5
<1>6. WindowsHold'
  BY <1>5 DEF WindowsHold, Limit, Kinds
<1> QED
  BY <1>3, <1>4, <1>6 DEF RateInv

\* A step that records nothing.
LEMMA NothingRecorded ==
  ASSUME RateInv, TablesOK', hits' = hits, now' = now \/ now' = now + 1
  PROVE  RateInv'
<1>1. HitsOK'
  BY DEF RateInv, HitsOK
<1>2. WindowsHold'
  <2>1. ASSUME NEW a \in Apps, NEW kind \in Kinds, NEW from, NEW to
        PROVE  Events(a, kind, from, to)' = Events(a, kind, from, to)
    BY DEF Events, EventRows
  <2> QED
    BY <2>1 DEF RateInv, WindowsHold, Kinds
<1>3. EventsOK'
  <2> SUFFICES ASSUME NEW a \in Apps, NEW kind \in Kinds
               PROVE  /\ \A t \in Times : t > now' => hits[a][kind][t] = 0
                      /\ IsFiniteSet(EventRows(a, kind, 0, MaxTime)')
    BY DEF EventsOK
  <2>1. \A t \in Times : t > now' => t > now
    BY DEF RateInv, TablesOK, Times
  <2> QED
    BY <2>1 DEF RateInv, EventsOK, EventRows
<1> QED
  BY <1>1, <1>2, <1>3 DEF RateInv

\* check_request: one more request.
LEMMA PassOK ==
  ASSUME RateInv, TablesOK', now' = now, NEW a \in Apps, Pass(a)
  PROVE  RateInv'
<1> DEFINE n == [request |-> 1, presign |-> 0]
<1>1. n \in [Kinds -> Nat] /\ n["request"] = 1 /\ n["presign"] = 0
  BY DEF Kinds
<1>2. RecordEvents(a, n) /\ Count(a, "request") < RequestLimit
  BY DEF Pass
<1> HIDE DEF n
<1>3. Count(a, "presign") \in Nat /\ Count(a, "presign") <= PresignLimit
  BY CountBound DEF Kinds, Limit
<1>4. Count(a, "request") \in Nat /\ RequestLimit \in Nat
  BY CountBound, AdmissionAssumption DEF Kinds
<1>5. \A kind \in Kinds : Count(a, kind) + n[kind] <= Limit(kind)
  BY <1>1, <1>2, <1>3, <1>4 DEF Kinds, Limit
<1> QED
  BY <1>1, <1>2, <1>5, RecordedOK

\* 429: nothing more.
LEMMA ThrottleOK ==
  ASSUME RateInv, TablesOK', NEW a \in Apps, Throttle(a)
  PROVE  RateInv'
<1> DEFINE n == [request |-> 0, presign |-> 0]
<1>1. n \in [Kinds -> Nat] /\ \A kind \in Kinds : n[kind] = 0
  BY DEF Kinds
<1>2. RecordEvents(a, n) /\ now' = now
  BY DEF Throttle
<1> HIDE DEF n
<1>3. \A kind \in Kinds : Count(a, kind) + n[kind] <= Limit(kind)
  BY <1>1, CountBound
<1> QED
  BY <1>1, <1>2, <1>3, RecordedOK

\* A row has an application.
LEMMA RowFacts ==
  ASSUME TablesOK, NEW r \in DOMAIN rows
  PROVE  rows[r] \in Row /\ rows[r].app \in Apps
<1>1. rows[r] \in Row
  BY DEF TablesOK
<1> QED
  BY <1>1 DEF Row

\* Links are granted while the window has room.
LEMMA ListFilesOK ==
  ASSUME RateInv, TablesOK', NEW r \in DOMAIN rows,
         NEW files \in 1..Cardinality(ListedFunds(r)), ListFiles(r, files)
  PROVE  RateInv'
<1> DEFINE a == rows[r].app
           g == Granted(a, files + 1)
           n == [request |-> 1, presign |-> g]
<1>1. a \in Apps
  BY RowFacts DEF RateInv
<1>2. /\ RecordEvents(a, n) /\ Count(a, "request") < RequestLimit
      /\ now' = now
  BY DEF ListFiles
<1> HIDE DEF a
<1>3. /\ Count(a, "presign") \in Nat /\ Count(a, "presign") <= PresignLimit
      /\ Count(a, "request") \in Nat
  BY <1>1, CountBound DEF Kinds, Limit
<1>4. RequestLimit \in Nat /\ PresignLimit \in Nat
  BY AdmissionAssumption
<1>5. g \in Nat /\ Count(a, "presign") + g <= PresignLimit
  BY <1>3, <1>4 DEF Granted
<1> HIDE DEF g
<1>6. n \in [Kinds -> Nat] /\ n["request"] = 1 /\ n["presign"] = g
  BY <1>5 DEF Kinds
<1> HIDE DEF n
<1>7. \A kind \in Kinds : Count(a, kind) + n[kind] <= Limit(kind)
  BY <1>2, <1>3, <1>4, <1>5, <1>6 DEF Kinds, Limit
<1> QED
  BY <1>1, <1>2, <1>6, <1>7, RecordedOK

\* No events at first.
LEMMA InitRate == Init => RateInv
<1> SUFFICES ASSUME Init PROVE RateInv
  OBVIOUS
<1>1. TablesOK
  BY InitAdmission DEF AdmissionInv, TableInv
<1>2. HitsOK /\ \A a \in Apps, kind \in Kinds, t \in Times : hits[a][kind][t] = 0
  BY DEF Init, HitsOK
<1>3. ASSUME NEW a \in Apps, NEW kind \in Kinds, NEW from, NEW to
      PROVE  EventRows(a, kind, from, to) = {}
  BY <1>2, EventRow
<1>4. EventsOK
  BY <1>2, <1>3, FS_EmptySet DEF EventsOK
<1>5. ASSUME NEW a \in Apps, NEW kind \in Kinds, NEW from, NEW to
      PROVE  Events(a, kind, from, to) = 0
  BY <1>3, FS_EmptySet DEF Events
<1>6. WindowsHold
  BY <1>5, AdmissionAssumption DEF WindowsHold, Kinds
<1> QED
  BY <1>1, <1>2, <1>4, <1>6 DEF RateInv

\* Every step keeps the windows within the limits.
LEMMA NextRate == RateInv /\ TablesOK' /\ [Next]_vars => RateInv'
<1> SUFFICES ASSUME RateInv, TablesOK', [Next]_vars PROVE RateInv'
  OBVIOUS
<1>1. ASSUME NEW a \in Apps, Throttle(a) \/ OnlyCounted(a) PROVE RateInv'
  BY <1>1, ThrottleOK, PassOK DEF OnlyCounted
<1>2. ASSUME NEW q \in Requests,
             \/ Replay(q.app, q.key, q.body) \/ Refuse(q.app, q.key, q.body)
             \/ Insert(q.app, q.key, q.body)
      PROVE  RateInv'
  <2>1. q.app \in Apps
    BY AdmissionAssumption
  <2>2. Pass(q.app) /\ now' = now
    BY <1>2 DEF Replay, Refuse, Insert
  <2> QED
    BY <2>1, <2>2, PassOK
<1>3. ASSUME NEW r \in DOMAIN rows,
             NEW files \in 1..Cardinality(ListedFunds(r)), ListFiles(r, files)
      PROVE  RateInv'
  BY <1>3, ListFilesOK
<1>4. ASSUME NEW r \in DOMAIN rows, Cancel(r) PROVE RateInv'
  <2>1. rows[r].app \in Apps
    BY RowFacts DEF RateInv
  <2> QED
    BY <1>4, <2>1, PassOK DEF Cancel
<1>5. CASE RecordKey \/ KeyCollides \/ HandlerRaises \/ Enqueue
  BY <1>5, NothingRecorded
     DEF RecordKey, KeyCollides, HandlerRaises, Abort, Enqueue
<1>6. ASSUME NEW r \in pool, NEW outcome, Finish(r, outcome) PROVE RateInv'
  BY <1>6, NothingRecorded DEF Finish
<1>7. CASE Tick \/ Crash \/ \E r \in pool : JobRaises(r)
  BY <1>7, NothingRecorded DEF Tick, Crash, JobRaises
<1>8. CASE UNCHANGED vars
  BY <1>8, NothingRecorded DEF vars
<1> QED
  BY <1>1, <1>2, <1>3, <1>4, <1>5, <1>6, <1>7, <1>8 DEF Next

\* The invariant holds of every behaviour.
LEMMA RateInvariant == Spec => []RateInv
<1>1. AdmissionInv => TablesOK
  BY DEF AdmissionInv, TableInv
<1> QED
  BY <1>1, AdmissionInvariant, InitRate, NextRate, PTL DEF Spec

\* RateLimiter checks a window only when a request comes, and still no stretch of
\* time of that length ever holds more requests or links than the limits say,
\* whatever is pruned and however listings are cut short.
THEOREM WindowsAreKept == Spec => []WindowsHold
BY RateInvariant, PTL DEF RateInv

\* Every variable keeps its type: no record without a row of its key, no job
\* without a row, and never a negative number of links granted.
THEOREM AdmissionTypes == Spec => []AdmissionTypeOK
<1>1. RateInv => AdmissionTypeOK
  BY DEF RateInv, HitsOK, AdmissionTypeOK
<1> QED
  BY <1>1, RateInvariant, PTL
=============================================================================
