------------------------------ MODULE Listing ------------------------------
(***************************************************************************)
(* GET /extracts (main.list_extracts over storage.list_extracts) and a     *)
(* client that follows next_cursor from page to page while the service     *)
(* goes on: rows are inserted and change their status between two pages.   *)
(*                                                                         *)
(* created_at is a whole second, and rows of one second come in an order   *)
(* the query leaves open.  A page is the set of its rows, a cursor the     *)
(* created_at of the last row plus one, so that 0 can stand for none.      *)
(***************************************************************************)
EXTENDS Admission

CONSTANTS
    Queries,    \* what clients ask for
    AnyFund     \* no fund_id in the query

ASSUME ListingAssumption ==
    Queries \subseteq [app : Apps, statuses : SUBSET STRING,
                       fund : Funds \cup {AnyFund}, limit : Nat]

VARIABLES
    query,      \* of the present walk
    cursor,     \* next_cursor of the last page
    page,       \* rows of the last page
    earlier,    \* rows of the pages before
    steady      \* history: rows that matched the query at each page so far

walkVars == <<query, cursor, page, earlier, steady>>

listingVars == <<vars, walkVars>>

\* Mutant: created_at <= cursor
OlderOrEqual(r, from) == from = 0 \/ rows[r].created + 1 <= from

\* created_at < cursor
Older(r, from) == from = 0 \/ rows[r].created + 1 < from

\* The WHERE clauses: rows of the caller, in one of the statuses asked for (any,
\* if none is), older than the cursor.
Selected(q, from) ==
    {r \in DOMAIN rows : /\ rows[r].app = q.app
                         /\ q.statuses = {} \/ rows[r].status \in q.statuses
                         /\ Older(r, from)}

\* ORDER BY created_at DESC LIMIT n
Newest(S, n) ==
    {T \in SUBSET S :
        /\ Cardinality(T) = IF Cardinality(S) < n THEN Cardinality(S) ELSE n
        /\ \A r \in T, s \in S \ T : rows[r].created >= rows[s].created}

\* The fund filter.  (No row has an empty scope.)
InFund(q, r) == q.fund = AnyFund \/ q.fund \in rows[r].scope

\* Mutant: LIMIT without the extra row that tells of a next page.
LookAheadNone(limit) == limit

LookAhead(limit) == limit + 1

\* Mutant: the cursor is the first row of the page.
FirstOf(S) == {r \in S : \A s \in S : rows[r].created >= rows[s].created}

\* rows[limit - 1]
LastOf(S) == {r \in S : \A s \in S : rows[r].created <= rows[s].created}

\* One page: LIMIT, then the fund filter, then the cut.  With limit 0 Python's
\* rows[-1] is the one row fetched, and none is shown.
Serve(q, from) ==
    \E fetched \in Newest(Selected(q, from), LookAhead(q.limit)) :
        LET listed == {r \in fetched : InFund(q, r)} IN
        \/ /\ Cardinality(listed) <= q.limit
           /\ page' = listed
           /\ cursor' = 0
        \/ /\ Cardinality(listed) > q.limit
           /\ page' \in Newest(listed, q.limit)
           /\ \E r \in LastOf(IF q.limit = 0 THEN listed ELSE page') :
                 cursor' = rows[r].created + 1
-----------------------------------------------------------------------------
ListingInit ==
    /\ Init
    /\ query \in Queries
    /\ cursor = 0
    /\ page = {} /\ earlier = {} /\ steady = {}

\* A client begins a walk, whatever became of its last one.
FirstPage(q) ==
    /\ OnlyCounted(q.app)
    /\ Serve(q, 0)
    /\ query' = q
    /\ earlier' = {}
    /\ steady' = Selected(q, 0)

\* The same query with the cursor of the last page.
NextPage ==
    /\ cursor # 0
    /\ OnlyCounted(query.app)
    /\ Serve(query, cursor)
    /\ earlier' = earlier \cup page
    /\ steady' = steady \cap Selected(query, 0)
    /\ UNCHANGED query

ListingNext ==
    \/ Next /\ UNCHANGED walkVars
    \/ \E q \in Queries : FirstPage(q)
    \/ NextPage

ListingSpec == ListingInit /\ [][ListingNext]_listingVars
-----------------------------------------------------------------------------
\* A walk shows rows of the caller and the fund asked for, each once, and goes
\* back in time from page to page, whatever is inserted between two pages.
WalkOrdered ==
    /\ \A r \in earlier, s \in page : rows[s].created < rows[r].created
    /\ \A r \in earlier \cup page : rows[r].app = query.app /\ InFund(query, r)

\* The fund filter runs after LIMIT: rows of other funds fill the page that r
\* should have been on, and the walk ends before r.
CutOff(r) ==
    /\ \A s \in earlier \cup page : rows[r].created < rows[s].created
    /\ \E s \in DOMAIN rows : /\ rows[s].app = query.app /\ ~InFund(query, s)
                              /\ rows[s].created >= rows[r].created

\* A walk that has come to its end has shown every row that matched the query
\* all along, but for rows of the same second as one it has shown and, with a
\* fund filter, for rows older than all it has shown: the filter cuts a walk
\* off, it makes no hole.  A walk over one page shows all that match.
WalkCovers ==
    /\ cursor = 0 /\ query.limit > 0 =>
          \A r \in steady : InFund(query, r) =>
              \/ \E s \in earlier \cup page : rows[s].created = rows[r].created
              \/ CutOff(r)
    /\ earlier = {} /\ Cardinality(steady) <= query.limit =>
          page = {r \in steady : InFund(query, r)}

\* A walk comes to its end, however many rows are inserted while it lasts: each
\* page starts further back than the one before.
WalkAdvances == [][NextPage => cursor' < cursor]_listingVars
=============================================================================
