----------------------------- MODULE Admission -----------------------------
(***************************************************************************)
(* What stands between a request and a job: the sliding windows, the cap   *)
(* on active extracts and the entitlement check (extract_service/auth.py), *)
(* the idempotency records (storage.py) and the create handler that calls  *)
(* them (main.py).                                                         *)
(*                                                                         *)
(* A handler runs on the event loop and suspends nowhere on these paths,   *)
(* so handlers do not interleave.  Its writes are transactions of their    *)
(* own: an exception or a crash can fall between the INSERT of the row,    *)
(* the INSERT of the idempotency record and the enqueue.                   *)
(***************************************************************************)
EXTENDS Naturals, Sequences, FiniteSets

CONSTANTS
    Apps, Keys, Funds,
    Bodies,         \* requests, apart from their key
    Requests,       \* who sends what
    Requested,      \* the fund_scope of a body; {} when it has none
    Entitled,       \* the funds an application is entitled to
    RequestLimit,   \* settings.rate_limit_requests_per_minute
    PresignLimit,   \* settings.rate_limit_presign_per_minute
    ActiveLimit,    \* settings.rate_limit_concurrent_extracts
    Window,         \* the minute of the sliding windows
    PruneSlack,     \* how long events are kept after they left the window
    KeyTtl,         \* settings.idempotency_key_ttl_days
    MaxTime,        \* bound: the clock
    MaxRows,        \* bound: rows inserted
    MaxFaults,      \* bound: crashes and exceptions
    NoRecord        \* no idempotency record

ASSUME AdmissionAssumption ==
    /\ Requests \subseteq [app : Apps, key : Keys, body : Bodies]
    /\ Requested \in [Bodies -> SUBSET Funds]
    /\ Entitled \in [Apps -> SUBSET Funds]
    /\ {RequestLimit, PresignLimit, ActiveLimit} \subseteq Nat
    /\ {Window, PruneSlack, KeyTtl} \subseteq Nat
    /\ {MaxTime, MaxRows, MaxFaults} \subseteq Nat

VARIABLES
    now,        \* utcnow(), time.time()
    rows,       \* the extracts table, in the order of the INSERTs
    idem,       \* the idempotency table, by application and key
    hits,       \* rate_limit_events: how many per application, kind and time
    pool,       \* rows the worker pool has a job for
    enqueued,   \* history: rows it ever had a job for
    stage,      \* where the create handler is; it works on the last row
    answer,     \* what the last step answered a client
    crashes, raises

vars == <<now, rows, idem, hits, pool, enqueued, stage, answer, crashes,
          raises>>

Times == 0..MaxTime

Kinds == {"request", "presign"}

\* ACTIVE is ACCEPTED or RUNNING, LISTABLE is COMPLETED or PARTIAL, CLOSED is
\* FAILED or CANCELLED: nothing here tells the members of a class apart.
Row == [app : Apps, key : Keys, body : Bodies, scope : SUBSET Funds,
        created : Times, status : {"ACTIVE", "LISTABLE", "CLOSED"}]

Record == [row : 1..MaxRows, body : Bodies, created : Times]

ASSUME NoRecordAssumption == NoRecord \notin Record

\* An answer of POST /extracts that a property looks at, and any other.
Answer(code, a, k, b, r) ==
    [code |-> code, app |-> a, key |-> k, body |-> b, row |-> r]

OtherAnswer == [code |-> 0]

\* The tables and the handler have their types, and the idempotency record of a
\* key names a row that was inserted for that key.
TablesOK ==
    /\ now \in Times
    /\ rows \in Seq(Row) /\ Len(rows) <= MaxRows
    /\ idem \in [Apps -> [Keys -> Record \cup {NoRecord}]]
    /\ \A a \in Apps, k \in Keys : idem[a][k] # NoRecord =>
           /\ idem[a][k].row \in DOMAIN rows
           /\ rows[idem[a][k].row].app = a
           /\ rows[idem[a][k].row].key = k
    /\ pool \subseteq enqueued /\ enqueued \subseteq DOMAIN rows
    /\ stage \in {"idle", "record", "enqueue"}
    /\ crashes \in Nat /\ raises \in Nat

\* Every variable has its type, and each record its row.
AdmissionTypeOK == TablesOK /\ hits \in [Apps -> [Kinds -> [Times -> Nat]]]

Init ==
    /\ now = 0
    /\ rows = <<>>
    /\ idem = [a \in Apps |-> [k \in Keys |-> NoRecord]]
    /\ hits = [a \in Apps |-> [k \in Kinds |-> [t \in Times |-> 0]]]
    /\ pool = {}
    /\ enqueued = {}
    /\ stage = "idle"
    /\ answer = OtherAnswer
    /\ crashes = 0 /\ raises = 0
-----------------------------------------------------------------------------
(***************************************************************************)
(* RateLimiter.                                                            *)
(***************************************************************************)

\* The rows of rate_limit_events in a stretch of time, numbered per moment, and
\* COUNT(*) over them.
EventRows(a, kind, from, to) ==
    UNION {{t} \X (1..hits[a][kind][t]) : t \in Times \cap from..to}

Events(a, kind, from, to) == Cardinality(EventRows(a, kind, from, to))

\* Mutant: the oldest moment of the window does not count.
CountShort(a, kind) == Events(a, kind, now - Window + 1, now)

\* count_rl_events since now - 60
Count(a, kind) == Events(a, kind, now - Window, now)

\* prune_rl_events, called before every count, and events recorded now: n[kind]
\* for application a.
RecordEvents(a, n) ==
    hits' = [b \in Apps |-> [kind \in Kinds |-> [t \in Times |->
                CASE t + Window + PruneSlack < now -> 0
                  [] t = now /\ a = b -> hits[b][kind][t] + n[kind]
                  [] OTHER -> hits[b][kind][t]]]]

\* check_request lets the request pass and counts it.
Pass(a) ==
    /\ stage = "idle"
    /\ Count(a, "request") < RequestLimit
    /\ RecordEvents(a, [request |-> 1, presign |-> 0])

\* Mutant: only jobs in memory count as active.
ActiveInPool(a) == {r \in pool : rows[r].app = a /\ rows[r].status = "ACTIVE"}

\* count_active_extracts
Active(a) ==
    {r \in DOMAIN rows : rows[r].app = a /\ rows[r].status = "ACTIVE"}

\* check_concurrent
AtCap(a) == Cardinality(Active(a)) >= ActiveLimit

\* How many of the links a listing wants check_presign lets pass, one by one,
\* until the limit makes the request fail.
Granted(a, wanted) ==
    LET free == PresignLimit - Count(a, "presign")
    IN IF wanted <= free THEN wanted ELSE free
-----------------------------------------------------------------------------
(***************************************************************************)
(* check_entitlements and lookup_idempotency.                              *)
(***************************************************************************)

MayRequest(a, b) ==
    IF Requested[b] = {} THEN Entitled[a] # {}
    ELSE Requested[b] \subseteq Entitled[a]

ResolvedScope(a, b) == IF Requested[b] = {} THEN Entitled[a] ELSE Requested[b]

\* Mutant: the key is looked up without its application.
LookupAnyApp(a, k) ==
    LET found == {idem[b][k] : b \in Apps} \ {NoRecord}
    IN IF found = {} THEN NoRecord ELSE CHOOSE rec \in found : TRUE

\* A record past its time to live is not found, and stays in the table.
Lookup(a, k) ==
    IF idem[a][k] # NoRecord /\ idem[a][k].created + KeyTtl >= now
    THEN idem[a][k]
    ELSE NoRecord
-----------------------------------------------------------------------------
(***************************************************************************)
(* Handlers.                                                               *)
(***************************************************************************)

\* 429 from check_request: old events are pruned and nothing is recorded.
Throttle(a) ==
    /\ stage = "idle"
    /\ Count(a, "request") >= RequestLimit
    /\ RecordEvents(a, [request |-> 0, presign |-> 0])
    /\ answer' = OtherAnswer
    /\ UNCHANGED <<now, rows, idem, pool, enqueued, stage, crashes, raises>>

\* A request that is counted and changes nothing else: a GET, a cancel of a
\* finished extract, a request that fails validation.
OnlyCounted(a) ==
    /\ Pass(a)
    /\ answer' = OtherAnswer
    /\ UNCHANGED <<now, rows, idem, pool, enqueued, stage, crashes, raises>>

\* POST /extracts with a known key: the existing extract ...
Replay(a, k, b) ==
    /\ Pass(a)
    /\ Lookup(a, k) # NoRecord
    /\ Lookup(a, k).body = b
    /\ answer' = Answer(200, a, k, b, Lookup(a, k).row)
    /\ UNCHANGED <<now, rows, idem, pool, enqueued, stage, crashes, raises>>

\* ... or 409; with a new key and funds out of reach 403; at the cap 429.
Refuse(a, k, b) ==
    /\ Pass(a)
    /\ \/ Lookup(a, k) # NoRecord /\ Lookup(a, k).body # b
       \/ Lookup(a, k) = NoRecord /\ ~MayRequest(a, b)
       \/ /\ Lookup(a, k) = NoRecord
          /\ MayRequest(a, b)
          /\ AtCap(a)
    /\ answer' = OtherAnswer
    /\ UNCHANGED <<now, rows, idem, pool, enqueued, stage, crashes, raises>>

NewRow(a, k, b) ==
    [app |-> a, key |-> k, body |-> b, scope |-> ResolvedScope(a, b),
     created |-> now, status |-> "ACTIVE"]

\* ... and otherwise the INSERT of a row.
Insert(a, k, b) ==
    /\ Pass(a)
    /\ Lookup(a, k) = NoRecord
    /\ MayRequest(a, b)
    /\ ~AtCap(a)
    /\ Len(rows) < MaxRows
    /\ rows' = Append(rows, NewRow(a, k, b))
    /\ stage' = "record"
    /\ answer' = OtherAnswer
    /\ UNCHANGED <<now, idem, pool, enqueued, crashes, raises>>

Handled == rows[Len(rows)]

\* Mutant: the key is not stored.
StoreKeyNot(row) == UNCHANGED idem

StoreKey(row) ==
    idem' = [idem EXCEPT ![row.app][row.key] =
                [row |-> Len(rows), body |-> row.body, created |-> now]]

\* record_idempotency
RecordKey ==
    /\ stage = "record"
    /\ idem[Handled.app][Handled.key] = NoRecord
    /\ StoreKey(Handled)
    /\ stage' = "enqueue"
    /\ answer' = OtherAnswer
    /\ UNCHANGED <<now, rows, hits, pool, enqueued, crashes, raises>>

\* The handler ends with a 500 and the row stays as it is.
Abort ==
    /\ stage' = "idle"
    /\ answer' = Answer(500, Handled.app, Handled.key, Handled.body, Len(rows))
    /\ UNCHANGED <<now, rows, idem, hits, pool, enqueued, crashes>>

\* The primary key (key, app_id) is taken by a record past its time to live.
KeyCollides ==
    /\ stage = "record"
    /\ idem[Handled.app][Handled.key] # NoRecord
    /\ Abort
    /\ UNCHANGED raises

\* record_idempotency or audit raises.
HandlerRaises ==
    /\ stage # "idle"
    /\ crashes + raises < MaxFaults
    /\ raises' = raises + 1
    /\ Abort

\* Mutant: the job is not put on the queue.
HandOverNot(r) == pool

HandOver(r) == pool \cup {r}

Enqueue ==
    /\ stage = "enqueue"
    /\ pool' = HandOver(Len(rows))
    /\ enqueued' = enqueued \cup {Len(rows)}
    /\ stage' = "idle"
    /\ answer' = OtherAnswer
    /\ UNCHANGED <<now, rows, idem, hits, crashes, raises>>

\* The entitled funds of an extract.  A COMPLETED one has a file for each, a
\* PARTIAL one for some.
ListedFunds(r) == rows[r].scope \cap Entitled[rows[r].app]

\* GET /extracts/{id}/files: a link for each file and the manifest, each counted
\* on its own; what was counted before the limit stays counted.
ListFiles(r, files) ==
    LET a == rows[r].app
    IN /\ stage = "idle"
       /\ Count(a, "request") < RequestLimit
       /\ rows[r].status = "LISTABLE"
       /\ RecordEvents(a, [request |-> 1, presign |-> Granted(a, files + 1)])
       /\ answer' = OtherAnswer
       /\ UNCHANGED <<now, rows, idem, pool, enqueued, stage, crashes, raises>>

\* POST /extracts/{id}/cancel on an active extract.
Cancel(r) ==
    /\ Pass(rows[r].app)
    /\ rows[r].status = "ACTIVE"
    /\ rows' = [rows EXCEPT ![r].status = "CLOSED"]
    /\ answer' = OtherAnswer
    /\ UNCHANGED <<now, idem, pool, enqueued, stage, crashes, raises>>
-----------------------------------------------------------------------------
(***************************************************************************)
(* The rest of the world.                                                  *)
(***************************************************************************)

Tick ==
    /\ stage = "idle"
    /\ now < MaxTime
    /\ now' = now + 1
    /\ answer' = OtherAnswer
    /\ UNCHANGED <<rows, idem, hits, pool, enqueued, stage, crashes,
                   raises>>

\* The pool is through with a job.  A cancelled one is skipped, or runs to its
\* end and overwrites the status (module ExtractWorker).
Finish(r, outcome) ==
    /\ stage = "idle"
    /\ pool' = pool \ {r}
    /\ rows' = [rows EXCEPT ![r].status = outcome]
    /\ answer' = OtherAnswer
    /\ UNCHANGED <<now, idem, hits, enqueued, stage, crashes, raises>>

\* An exception reaches the loop of the pool, which logs it and goes on: the job
\* is gone and the row stays as it is.
JobRaises(r) ==
    /\ stage = "idle"
    /\ crashes + raises < MaxFaults
    /\ raises' = raises + 1
    /\ pool' = pool \ {r}
    /\ answer' = OtherAnswer
    /\ UNCHANGED <<now, rows, idem, hits, enqueued, stage, crashes>>

\* The process dies, and the queue with it.
Crash ==
    /\ crashes + raises < MaxFaults
    /\ crashes' = crashes + 1
    /\ pool' = {}
    /\ stage' = "idle"
    /\ answer' = OtherAnswer
    /\ UNCHANGED <<now, rows, idem, hits, enqueued, raises>>

Next ==
    \/ \E a \in Apps : Throttle(a) \/ OnlyCounted(a)
    \/ \E q \in Requests : \/ Replay(q.app, q.key, q.body)
                           \/ Refuse(q.app, q.key, q.body)
                           \/ Insert(q.app, q.key, q.body)
    \/ RecordKey \/ KeyCollides \/ HandlerRaises \/ Enqueue
    \/ \E r \in DOMAIN rows :
          \/ \E files \in 1..Cardinality(ListedFunds(r)) : ListFiles(r, files)
          \/ Cancel(r)
    \/ \E r \in pool, outcome \in {"LISTABLE", "CLOSED"} : Finish(r, outcome)
    \/ \E r \in pool : JobRaises(r)
    \/ Tick
    \/ Crash

Spec == Init /\ [][Next]_vars
-----------------------------------------------------------------------------
SameKey(r, s) == rows[r].app = rows[s].app /\ rows[r].key = rows[s].key

\* Within its time to live a key leads to one job, however often it is sent and
\* wherever a crash or an exception falls between row, record and enqueue.
OneJobPerKey ==
    \A r, s \in enqueued :
        r < s /\ SameKey(r, s) => rows[s].created > rows[r].created + KeyTtl

\* A replay is answered with the extract of this application, key and request,
\* and, unless a fault came between its record and its enqueue, with one that
\* the pool has worked on.
ReplayFaithful ==
    answer.code = 200 =>
        /\ rows[answer.row].app = answer.app
        /\ rows[answer.row].key = answer.key
        /\ rows[answer.row].body = answer.body
        /\ answer.row \in enqueued \/ crashes + raises > 0

\* Every extract that stays ACCEPTED with nobody working on it, and takes a
\* place under the cap, goes back to a fault or to a key that was used again
\* after its time to live.
OrphansExplained ==
    \A r \in DOMAIN rows :
        rows[r].status = "ACTIVE" /\ r \notin pool =>
            \/ stage # "idle" /\ r = Len(rows)
            \/ crashes + raises > 0
            \/ \E s \in 1..(r - 1) :
                  SameKey(s, r) /\ rows[s].created + KeyTtl < rows[r].created

\* Over any window, not only those a check happened to look at, an application
\* has no more requests and links than the limits say, listings that were cut
\* short included.
WindowsHold ==
    \A a \in Apps, t \in Times :
        /\ Events(a, "request", t, t + Window) <= RequestLimit
        /\ Events(a, "presign", t, t + Window) <= PresignLimit

\* No application has more active extracts than the cap, restarts and orphans
\* included.
ActiveCapHolds ==
    \A a \in Apps :
        Cardinality({r \in DOMAIN rows : /\ rows[r].app = a
                                         /\ rows[r].status = "ACTIVE"})
            <= ActiveLimit
=============================================================================
