--------------------------- MODULE ExtractWorker ---------------------------
(***************************************************************************)
(* The life of an extract: the create and cancel handlers of the REST API  *)
(* (extract_service/main.py), the rows they share with the worker pool     *)
(* (storage.py), the pool itself (worker.py) and the staging and published *)
(* prefixes of the object store (object_store.py).                         *)
(*                                                                         *)
(* Everything runs on one asyncio event loop.  A task keeps the loop until *)
(* it suspends, so a handler never sees another task half way between two  *)
(* suspension points; a process crash, however, can fall between any two   *)
(* of its steps.  The model therefore has one action per step and the      *)
(* guard LoopFree on every action that begins while another task might be  *)
(* holding the loop.                                                       *)
(***************************************************************************)
EXTENDS Naturals, Sequences, FiniteSets, Functions

CONSTANTS
    Extracts,               \* extract ids that may be minted
    Workers,                \* tasks of the worker pool
    Funds,                  \* fund ids (partition keys)
    Scopes,                 \* fund scopes a request may resolve to
    Modes,                  \* notification modes a request may ask for
    Priorities,             \* weights of PRIORITY_WEIGHT in use
    MaxAttemptsPerFund,     \* settings.worker_max_attempts_per_fund
    MaxAttemptsPerExtract,  \* settings.worker_max_attempts_per_extract
    Hooks,                  \* admin hooks in use: "pause", "outage", "bus"
    MaxCrashes,             \* bound: process crashes
    MaxRaises,              \* bound: exceptions that escape a handler or a job
    NoJob                   \* a worker with nothing in hand

ASSUME ConstantsAssumption ==
    /\ Scopes \subseteq Seq(Funds) \ {<<>>}
    /\ Modes \subseteq {"event", "webhook", "none"}
    /\ Priorities \subseteq {0, 1, 2}
    /\ MaxAttemptsPerFund \in Nat \ {0}
    /\ MaxAttemptsPerExtract \in Nat \ {0}
    /\ Hooks \subseteq {"pause", "outage", "bus"}
    /\ MaxCrashes \in Nat
    /\ MaxRaises \in Nat
    /\ NoJob \notin Extracts

VARIABLES
    (* columns of the extracts table *)
    status, scope, mode, prio,
    runId,          \* run_id is set
    cancelledAt,    \* cancelled_at is set
    state,          \* state_json
    (* object store, one directory per extract *)
    staging, published,
    (* the worker pool's memory *)
    queue,          \* jobs in the priority queue
    cancellations,  \* Worker._cancellations
    paused,         \* Worker._paused is cleared
    outage,         \* Worker._simulate_source_outage
    (* the event bus as its publishers see it *)
    busUp,          \* EventBus._bus_available
    woken,          \* publishers blocked in _cond.wait() that were notified
    (* the create handler that holds the loop, between INSERT and enqueue *)
    creating,
    (* local variables of the worker tasks *)
    pc, job, idx, attempts, total, completed, failed,
    (* what has been handed to the event bus or the webhook queue *)
    notices,
    (* bounds *)
    crashes, raises

rowVars == <<status, scope, mode, prio, runId, cancelledAt, state>>
storeVars == <<staging, published>>
poolVars == <<queue, cancellations, paused, outage, creating>>
busVars == <<busUp, woken>>
runVars == <<idx, attempts, total, completed, failed>>
localVars == <<pc, job, runVars>>
faultVars == <<crashes, raises>>
sharedVars == <<rowVars, storeVars, poolVars, busVars, notices, faultVars>>
vars == <<rowVars, storeVars, poolVars, busVars, localVars, notices, faultVars>>
-----------------------------------------------------------------------------
(***************************************************************************)
(* Types.                                                                  *)
(***************************************************************************)

\* ExtractStatus, and NONE for an id not yet minted.  EXPIRED, which only the
\* retention sweeper sets days after the outcome, is left out.
Status == {"NONE", "ACCEPTED", "RUNNING", "COMPLETED", "FAILED", "PARTIAL",
           "CANCELLED"}

TerminalStatuses == {"COMPLETED", "FAILED", "PARTIAL", "CANCELLED"}

\* The outcomes a finished run writes.
Outcomes == {"COMPLETED", "FAILED", "PARTIAL"}

\* A directory: data files and left-over .tmp files by fund, the funds that
\* manifest.json lists ({} when there is none), and the _SUCCESS marker.
Dir == [files : SUBSET Funds, tmp : SUBSET Funds, manifest : SUBSET Funds,
        success : BOOLEAN]

NoDir == [files |-> {}, tmp |-> {}, manifest |-> {}, success |-> FALSE]

ErrorCodes == {"SOURCE_TIMEOUT", "SOURCE_UNAVAILABLE", "PARTIAL_FAILURE"}

\* state_json: the positions of the fund scope listed under "files" and under
\* "funds_failed", the retries reported, and the error code.
InProgress == [files |-> {}, failed |-> {}, retries |-> 0, code |-> "none"]

StateJson == [files : SUBSET Nat, failed : SUBSET Nat, retries : Nat,
              code : ErrorCodes \cup {"none"}]

\* Suspended tasks: at the top of the loop while paused, in queue.get(), with
\* a job behind the pause gate, released from that gate, asleep in backoff,
\* blocked in event_bus.publish().
SuspendedPcs == {"pausedTop", "get", "pausedJob", "wake", "backoff", "publish"}

\* A task at one of these holds the event loop.
LoopPcs == {"process", "fund", "attempt", "rename", "discard", "finalize",
            "promote", "mark", "commit", "emit"}

RowsOK ==
    /\ status \in [Extracts -> Status]
    /\ scope \in [Extracts -> Seq(Funds)]
    /\ mode \in [Extracts -> {"event", "webhook", "none"}]
    /\ prio \in [Extracts -> {0, 1, 2}]
    /\ runId \in [Extracts -> BOOLEAN]
    /\ cancelledAt \in [Extracts -> BOOLEAN]
    /\ state \in [Extracts -> StateJson]

StoreOK ==
    /\ staging \in [Extracts -> Dir]
    /\ published \in [Extracts -> Dir]

PoolOK ==
    /\ queue \in SUBSET Extracts
    /\ cancellations \in SUBSET Extracts
    /\ creating \in SUBSET Extracts
    /\ woken \in SUBSET Workers
    /\ paused \in BOOLEAN
    /\ outage \in BOOLEAN
    /\ busUp \in BOOLEAN

TasksOK ==
    /\ pc \in [Workers -> SuspendedPcs \cup LoopPcs]
    /\ job \in [Workers -> Extracts \cup {NoJob}]
    /\ idx \in [Workers -> Nat]
    /\ attempts \in [Workers -> Nat]
    /\ total \in [Workers -> Nat]
    /\ completed \in [Workers -> SUBSET Nat]
    /\ failed \in [Workers -> SUBSET Nat]

\* Every variable has its type.
TypeOK ==
    /\ RowsOK
    /\ StoreOK
    /\ PoolOK
    /\ TasksOK
    /\ notices \in [Extracts -> Seq({"ready", "failed"})]
    /\ crashes \in Nat
    /\ raises \in Nat
-----------------------------------------------------------------------------
(***************************************************************************)
(* Init: an empty database, an empty object store, a pool just started.    *)
(***************************************************************************)

Init ==
    /\ status = [e \in Extracts |-> "NONE"]
    /\ scope = [e \in Extracts |-> <<>>]
    /\ mode = [e \in Extracts |-> "none"]
    /\ prio = [e \in Extracts |-> 1]
    /\ runId = [e \in Extracts |-> FALSE]
    /\ cancelledAt = [e \in Extracts |-> FALSE]
    /\ state = [e \in Extracts |-> InProgress]
    /\ staging = [e \in Extracts |-> NoDir]
    /\ published = [e \in Extracts |-> NoDir]
    /\ queue = {}
    /\ cancellations = {}
    /\ paused = FALSE
    /\ outage = FALSE
    /\ busUp = TRUE
    /\ woken = {}
    /\ creating = {}
    /\ pc = [w \in Workers |-> "get"]
    /\ job = [w \in Workers |-> NoJob]
    /\ idx = [w \in Workers |-> 0]
    /\ attempts = [w \in Workers |-> 0]
    /\ total = [w \in Workers |-> 0]
    /\ completed = [w \in Workers |-> {}]
    /\ failed = [w \in Workers |-> {}]
    /\ notices = [e \in Extracts |-> <<>>]
    /\ crashes = 0
    /\ raises = 0

\* No task is between two suspension points.
LoopFree == creating = {} /\ \A w \in Workers : pc[w] \notin LoopPcs
-----------------------------------------------------------------------------
(***************************************************************************)
(* The REST handlers.                                                      *)
(***************************************************************************)

\* POST /extracts for a request that passes authentication, validation, the
\* rate limits, the idempotency lookup and the entitlement check: the row is
\* inserted.  The handler still holds the loop.
CreateExtract(e, s, m, p) ==
    /\ LoopFree
    /\ status[e] = "NONE"
    /\ status' = [status EXCEPT ![e] = "ACCEPTED"]
    /\ scope' = [scope EXCEPT ![e] = s]
    /\ mode' = [mode EXCEPT ![e] = m]
    /\ prio' = [prio EXCEPT ![e] = p]
    /\ creating' = {e}
    /\ UNCHANGED <<runId, cancelledAt, state, storeVars, queue, cancellations,
                   paused, outage, busVars, localVars, notices, faultVars>>

\* ... and, once the idempotency record and the audit record are written, the
\* job is put on the priority queue.
Enqueue(e) ==
    /\ e \in creating
    /\ queue' = queue \cup {e}
    /\ creating' = {}
    /\ UNCHANGED <<rowVars, storeVars, cancellations, paused, outage, busVars,
                   localVars, notices, faultVars>>

\* record_idempotency or audit raised: the client gets a 500 and the row stays.
CreateAborts(e) ==
    /\ e \in creating
    /\ raises < MaxRaises
    /\ raises' = raises + 1
    /\ creating' = {}
    /\ UNCHANGED <<rowVars, storeVars, queue, cancellations, paused, outage,
                   busVars, localVars, notices, crashes>>

\* Mutant: the handler forgets that a terminal status is final.
CancellableAlways(e) == status[e] # "NONE"

\* Anything else is unknown or in TERMINAL_STATUSES.
Cancellable(e) == status[e] \in {"ACCEPTED", "RUNNING"}

\* POST /extracts/{id}/cancel.  On a terminal status it changes nothing.
CancelExtract(e) ==
    /\ LoopFree
    /\ Cancellable(e)
    /\ cancellations' = cancellations \cup {e}
    /\ status' = [status EXCEPT ![e] = "CANCELLED"]
    /\ cancelledAt' = [cancelledAt EXCEPT ![e] = TRUE]
    /\ UNCHANGED <<scope, mode, prio, runId, state, storeVars, queue, paused,
                   outage, creating, busVars, localVars, notices, faultVars>>

\* The same handler when update_extract raises: the worker has been told, the
\* row has not.
CancelAborts(e) ==
    /\ LoopFree
    /\ raises < MaxRaises
    /\ Cancellable(e)
    /\ cancellations' = cancellations \cup {e}
    /\ raises' = raises + 1
    /\ UNCHANGED <<rowVars, storeVars, queue, paused, outage, creating, busVars,
                   localVars, notices, crashes>>

\* GET /extracts/{id}/files: the funds it lists ...
Listed(e) == IF status[e] \in {"COMPLETED", "PARTIAL"}
             THEN {scope[e][i] : i \in state[e].files}
             ELSE {}

\* ... and the funds whose link leads to a file.
Downloadable(e) == published[e].files
-----------------------------------------------------------------------------
(***************************************************************************)
(* Admin hooks.                                                            *)
(***************************************************************************)

PauseProcessing ==
    /\ LoopFree
    /\ "pause" \in Hooks
    /\ ~paused
    /\ paused' = TRUE
    /\ UNCHANGED <<rowVars, storeVars, queue, cancellations, outage, creating,
                   busVars, localVars, notices, faultVars>>

\* Mutant: a worker released with a job in hand goes back for another one.
GateForgetsJob(w) == IF pc[w] \in {"pausedTop", "pausedJob"} THEN "get"
                                                             ELSE pc[w]

\* Mutant: only the waiters at the first of the two gates are released.
GateWakesTopOnly(w) == IF pc[w] = "pausedTop" THEN "get" ELSE pc[w]

\* asyncio.Event.set() releases every task now waiting, even if the event is
\* cleared again before they run.
GateOpens(w) == CASE pc[w] = "pausedTop" -> "get"
                  [] pc[w] = "pausedJob" -> "wake"
                  [] OTHER -> pc[w]

ResumeProcessing ==
    /\ LoopFree
    /\ paused
    /\ paused' = FALSE
    /\ pc' = [w \in Workers |-> GateOpens(w)]
    /\ UNCHANGED <<rowVars, storeVars, queue, cancellations, outage, creating,
                   busVars, job, runVars, notices, faultVars>>

SimulateSourceOutage(b) ==
    /\ LoopFree
    /\ "outage" \in Hooks
    /\ outage # b
    /\ outage' = b
    /\ UNCHANGED <<rowVars, storeVars, queue, cancellations, paused, creating,
                   busVars, localVars, notices, faultVars>>

\* EventBus.pause() and EventBus.resume(): a plain flag.  Nothing notifies the
\* publishers that wait for it.
SetBus(up) ==
    /\ LoopFree
    /\ "bus" \in Hooks
    /\ busUp # up
    /\ busUp' = up
    /\ UNCHANGED <<rowVars, storeVars, poolVars, woken, localVars, notices,
                   faultVars>>

Publishers == {w \in Workers : pc[w] = "publish"}

\* Some other task (the retention sweeper) publishes and notifies everyone.
OtherPublish ==
    /\ LoopFree
    /\ busUp
    /\ woken # Publishers
    /\ woken' = Publishers
    /\ UNCHANGED <<rowVars, storeVars, poolVars, busUp, localVars, notices,
                   faultVars>>
-----------------------------------------------------------------------------
(***************************************************************************)
(* The worker task: Worker._run and what it calls.                         *)
(***************************************************************************)

Goto(w, l) == pc' = [pc EXCEPT ![w] = l]

\* The next iteration of _run: the pause gate, then queue.get().
LoopTop(w) ==
    /\ Goto(w, IF paused THEN "pausedTop" ELSE "get")
    /\ job' = [job EXCEPT ![w] = NoJob]
    /\ idx' = [idx EXCEPT ![w] = 0]
    /\ attempts' = [attempts EXCEPT ![w] = 0]
    /\ total' = [total EXCEPT ![w] = 0]
    /\ completed' = [completed EXCEPT ![w] = {}]
    /\ failed' = [failed EXCEPT ![w] = {}]

\* Jobs compare by (priority, enqueued_at, extract_id); within a priority the
\* order is open: enqueued_at is a whole second and ids end in random digits.
Heads == {e \in queue : \A d \in queue : prio[e] <= prio[d]}

\* Mutant: the job is looked at and not taken off the queue.
QueuePeeked(e) == queue

QueueWithout(e) == queue \ {e}

Dequeue(w) ==
    /\ LoopFree
    /\ pc[w] = "get"
    /\ \E e \in Heads :
          /\ job' = [job EXCEPT ![w] = e]
          /\ queue' = QueueWithout(e)
    /\ Goto(w, IF paused THEN "pausedJob" ELSE "process")
    /\ UNCHANGED <<rowVars, storeVars, cancellations, paused, outage, creating,
                   busVars, runVars, notices, faultVars>>

\* A task let through the pause gate with a job in hand.
Released(w) ==
    /\ LoopFree
    /\ pc[w] = "wake"
    /\ Goto(w, "process")
    /\ UNCHANGED <<sharedVars, job, runVars>>

\* Mutant: the row's status is not read again after the pause gate.
StartableAlways(w) == TRUE

Startable(w) == status[job[w]] # "CANCELLED"

\* _process: a job cancelled while it was queued is dropped ...
SkipCancelled(w) ==
    /\ pc[w] = "process"
    /\ ~Startable(w)
    /\ LoopTop(w)
    /\ UNCHANGED sharedVars

\* ... any other starts a run.
StartRun(w) ==
    /\ pc[w] = "process"
    /\ Startable(w)
    /\ status' = [status EXCEPT ![job[w]] = "RUNNING"]
    /\ runId' = [runId EXCEPT ![job[w]] = TRUE]
    /\ state' = [state EXCEPT ![job[w]] = InProgress]
    /\ idx' = [idx EXCEPT ![w] = 1]
    /\ Goto(w, "fund")
    /\ UNCHANGED <<scope, mode, prio, cancelledAt, storeVars, poolVars, busVars,
                   job, attempts, total, completed, failed, notices, faultVars>>

\* The for statement over fund_scope, with the cancellation check at its head.
Remaining(w) == idx[w] <= Len(scope[job[w]])

CancelSeen(w) == job[w] \in cancellations

NextFund(w) ==
    /\ pc[w] = "fund"
    /\ Remaining(w)
    /\ ~CancelSeen(w)
    /\ attempts' = [attempts EXCEPT ![w] = 0]
    /\ Goto(w, "attempt")
    /\ UNCHANGED <<sharedVars, job, idx, total, completed, failed>>

\* Mutant: the staging prefix is forgotten.
CleanupForgotten(e) == UNCHANGED <<staging, raises>>

\* cleanup_staging: shutil.rmtree(ignore_errors=True), so a failure to remove
\* an entry goes unnoticed and leaves it behind.
CleanupStaging(e) ==
    \/ /\ staging' = [staging EXCEPT ![e] = NoDir]
       /\ UNCHANGED raises
    \/ /\ raises < MaxRaises
       /\ raises' = raises + 1
       /\ \E fs \in SUBSET staging[e].files, ts \in SUBSET staging[e].tmp :
             staging' = [staging EXCEPT ![e] = [@ EXCEPT !.files = fs, !.tmp = ts]]

\* _finalize_cancelled: the staging prefix goes first ...
CancelObserved(w) ==
    /\ pc[w] = "fund"
    /\ Remaining(w)
    /\ CancelSeen(w)
    /\ CleanupStaging(job[w])
    /\ Goto(w, "discard")
    /\ UNCHANGED <<rowVars, published, poolVars, busVars, job, runVars, notices,
                   crashes>>

\* ... then the row, then the cancellation mark.
FinalizeCancelled(w) ==
    /\ pc[w] = "discard"
    /\ status' = [status EXCEPT ![job[w]] = "CANCELLED"]
    /\ cancelledAt' = [cancelledAt EXCEPT ![job[w]] = TRUE]
    /\ cancellations' = cancellations \ {job[w]}
    /\ LoopTop(w)
    /\ UNCHANGED <<scope, mode, prio, runId, state, storeVars, queue, paused,
                   outage, creating, busVars, notices, faultVars>>
-----------------------------------------------------------------------------
(***************************************************************************)
(* _extract_fund: attempts, each followed by a backoff when it fails.      *)
(***************************************************************************)

Fund(w) == scope[job[w]][idx[w]]

\* The source query fails (always during an outage), or the write does before
\* the .tmp file exists.
SourceFails(w) ==
    /\ pc[w] = "attempt"
    /\ attempts' = [attempts EXCEPT ![w] = @ + 1]
    /\ Goto(w, "backoff")
    /\ UNCHANGED <<sharedVars, job, idx, total, completed, failed>>

\* write_partition: the rows go to <name>.tmp ...
WriteTmp(w) ==
    /\ pc[w] = "attempt"
    /\ ~outage
    /\ attempts' = [attempts EXCEPT ![w] = @ + 1]
    /\ staging' = [staging EXCEPT ![job[w]].tmp = @ \cup {Fund(w)}]
    /\ Goto(w, "rename")
    /\ UNCHANGED <<rowVars, published, poolVars, busVars, job, idx, total,
                   completed, failed, notices, faultVars>>

\* ... which os.replace() turns into the data file, and _process records it.
PartitionWritten(w) ==
    /\ pc[w] = "rename"
    /\ staging' = [staging EXCEPT ![job[w]].tmp = @ \ {Fund(w)},
                                  ![job[w]].files = @ \cup {Fund(w)}]
    /\ total' = [total EXCEPT ![w] = @ + attempts[w]]
    /\ completed' = [completed EXCEPT ![w] = @ \cup {idx[w]}]
    /\ idx' = [idx EXCEPT ![w] = @ + 1]
    /\ Goto(w, "fund")
    /\ UNCHANGED <<rowVars, published, poolVars, busVars, job, attempts, failed,
                   notices, faultVars>>

\* The write broke off or the replace failed: the .tmp file stays.
WriteFails(w) ==
    /\ pc[w] = "rename"
    /\ Goto(w, "backoff")
    /\ UNCHANGED <<sharedVars, job, runVars>>

\* The sleep ends with attempts left for this fund.
Retry(w) ==
    /\ LoopFree
    /\ pc[w] = "backoff"
    /\ attempts[w] < MaxAttemptsPerFund
    /\ Goto(w, "attempt")
    /\ UNCHANGED <<sharedVars, job, runVars>>

\* Mutant: the extract gives up one attempt early.
ExtractCapEarly(w) == total[w] + attempts[w] >= MaxAttemptsPerExtract - 1

\* Mutant: the cap is tested before the fund's attempts are added.
ExtractCapStale(w) == total[w] >= MaxAttemptsPerExtract

ExtractCapReached(w) == total[w] + attempts[w] >= MaxAttemptsPerExtract

\* Mutant: the failed fund is not recorded.
FundsFailedUnrecorded(w) == failed[w]

FundsFailed(w) == failed[w] \cup {idx[w]}

\* The attempts of this fund are spent; those of the extract may be too.
FundExhausted(w) ==
    /\ LoopFree
    /\ pc[w] = "backoff"
    /\ attempts[w] >= MaxAttemptsPerFund
    /\ total' = [total EXCEPT ![w] = @ + attempts[w]]
    /\ failed' = [failed EXCEPT ![w] = FundsFailed(w)]
    /\ IF ExtractCapReached(w)
       THEN Goto(w, "finalize") /\ UNCHANGED idx
       ELSE Goto(w, "fund") /\ idx' = [idx EXCEPT ![w] = @ + 1]
    /\ UNCHANGED <<sharedVars, job, attempts, completed>>
-----------------------------------------------------------------------------
(***************************************************************************)
(* Finalization: the outcome of the run is read off the two lists of funds.*)
(***************************************************************************)

ScopeDone(w) ==
    /\ pc[w] = "fund"
    /\ ~Remaining(w)
    /\ Goto(w, "finalize")
    /\ UNCHANGED <<sharedVars, job, runVars>>

\* _finalize_failed: the staging prefix is dropped.
DropStaging(w) ==
    /\ pc[w] = "finalize"
    /\ completed[w] = {}
    /\ CleanupStaging(job[w])
    /\ Goto(w, "commit")
    /\ UNCHANGED <<rowVars, published, poolVars, busVars, job, runVars, notices,
                   crashes>>

\* Mutant: the manifest lists the request, not the files.
ManifestOfRequest(w) == Range(scope[job[w]])

\* Mutant: the manifest lists indices where partition keys belong.
ManifestOfIndices(w) == completed[w]

\* _build_manifest lists the files written by this run.
ManifestFunds(w) == {scope[job[w]][i] : i \in completed[w]}

WriteManifest(w) ==
    /\ pc[w] = "finalize"
    /\ completed[w] # {}
    /\ staging' = [staging EXCEPT ![job[w]].manifest = ManifestFunds(w)]
    /\ Goto(w, "promote")
    /\ UNCHANGED <<rowVars, published, poolVars, busVars, job, runVars, notices,
                   faultVars>>

\* promote: one rename of the whole prefix ...
PromoteRename(w) ==
    /\ pc[w] = "promote"
    /\ published' = [published EXCEPT ![job[w]] = staging[job[w]]]
    /\ staging' = [staging EXCEPT ![job[w]] = NoDir]
    /\ Goto(w, "mark")
    /\ UNCHANGED <<rowVars, poolVars, busVars, job, runVars, notices, faultVars>>

\* ... then the _SUCCESS marker.
PromoteSuccess(w) ==
    /\ pc[w] = "mark"
    /\ published' = [published EXCEPT ![job[w]].success = TRUE]
    /\ Goto(w, "commit")
    /\ UNCHANGED <<rowVars, staging, poolVars, busVars, job, runVars, notices,
                   faultVars>>

\* Mutant: failed funds do not count once a file was written.
OutcomeIgnoresFailed(w) == IF completed[w] = {} THEN "FAILED" ELSE "COMPLETED"

\* Mutant: any failed fund makes the extract FAILED.
OutcomeFailedIfAny(w) == IF failed[w] # {} THEN "FAILED" ELSE "COMPLETED"

Outcome(w) == CASE completed[w] = {} -> "FAILED"
                [] completed[w] # {} /\ failed[w] # {} -> "PARTIAL"
                [] OTHER -> "COMPLETED"

FilesOfRun(w) == completed[w]

FinalState(w) ==
    [files |-> FilesOfRun(w),
     failed |-> failed[w],
     retries |-> IF Outcome(w) = "COMPLETED" THEN 0 ELSE total[w],
     code |-> CASE Outcome(w) = "COMPLETED" -> "none"
                [] Outcome(w) = "PARTIAL" -> "PARTIAL_FAILURE"
                [] OTHER -> IF outage THEN "SOURCE_TIMEOUT"
                                      ELSE "SOURCE_UNAVAILABLE"]

\* update_extract: status and state_json in one UPDATE.  The row's present
\* status is not looked at.
CommitOutcome(w) ==
    /\ pc[w] = "commit"
    /\ status' = [status EXCEPT ![job[w]] = Outcome(w)]
    /\ state' = [state EXCEPT ![job[w]] = FinalState(w)]
    /\ Goto(w, "emit")
    /\ UNCHANGED <<scope, mode, prio, runId, cancelledAt, storeVars, poolVars,
                   busVars, job, runVars, notices, faultVars>>

\* _finalize_completed calls _emit_ready, the other two _emit_failed.
NoticeOf(w) == IF Outcome(w) = "COMPLETED" THEN "ready" ELSE "failed"

\* Mutant: failures are not routed.
NotifyReadyOnly(w) ==
    notices' = IF NoticeOf(w) = "ready"
               THEN [notices EXCEPT ![job[w]] = Append(@, "ready")]
               ELSE notices

Notify(w) == notices' = [notices EXCEPT ![job[w]] = Append(@, NoticeOf(w))]

\* _route_notification, mode none: the client polls.
EmitNone(w) ==
    /\ pc[w] = "emit"
    /\ mode[job[w]] = "none"
    /\ LoopTop(w)
    /\ UNCHANGED sharedVars

\* Mode webhook: the delivery queue is unbounded, so schedule() never blocks.
EmitWebhook(w) ==
    /\ pc[w] = "emit"
    /\ mode[job[w]] = "webhook"
    /\ Notify(w)
    /\ LoopTop(w)
    /\ UNCHANGED <<rowVars, storeVars, poolVars, busVars, faultVars>>

\* Mode event: append to the topic and notify every task waiting on the bus ...
AppendToTopic(w) ==
    /\ busUp
    /\ Notify(w)
    /\ woken' = Publishers \ {w}
    /\ LoopTop(w)
    /\ UNCHANGED <<rowVars, storeVars, poolVars, busUp, faultVars>>

EmitEvent(w) ==
    /\ pc[w] = "emit"
    /\ mode[job[w]] = "event"
    /\ AppendToTopic(w)

\* Mutant: the event is stored before the wait and again after it.
StoreEarly(w) == Notify(w)

StoreLater(w) == UNCHANGED notices

\* ... or wait on the condition while the bus is paused, nothing stored yet.
EmitBlocks(w) ==
    /\ pc[w] = "emit"
    /\ mode[job[w]] = "event"
    /\ ~busUp
    /\ StoreLater(w)
    /\ Goto(w, "publish")
    /\ UNCHANGED <<rowVars, storeVars, poolVars, busVars, job, runVars,
                   faultVars>>

\* A notified publisher tests the flag again.
PublishWakes(w) ==
    /\ LoopFree
    /\ w \in woken
    /\ AppendToTopic(w)

PublishWaitsAgain(w) ==
    /\ LoopFree
    /\ w \in woken
    /\ ~busUp
    /\ woken' = woken \ {w}
    /\ UNCHANGED <<rowVars, storeVars, poolVars, busUp, localVars, notices,
                   faultVars>>
-----------------------------------------------------------------------------
(***************************************************************************)
(* Faults.                                                                 *)
(***************************************************************************)

\* Where an exception reaches the except clause of _run.  Those raised by an
\* attempt are caught in _extract_fund.
RaisingPcs == LoopPcs \ {"attempt", "rename"}

\* The exception is logged and the loop goes on; the extract is left as it is.
ProcessRaises(w) ==
    /\ pc[w] \in RaisingPcs
    /\ raises < MaxRaises
    /\ raises' = raises + 1
    /\ LoopTop(w)
    /\ UNCHANGED <<rowVars, storeVars, poolVars, busVars, notices, crashes>>

\* The process dies and is started again.  The database and the object store
\* survive; lifespan() starts an idle pool with an empty queue.  A shutdown by
\* Worker.stop is the same with tasks that stop one by one before it: each ends
\* after the job it has, or is cancelled at its suspension point after five
\* seconds, and what is left in the queue is lost.
Crash ==
    /\ crashes < MaxCrashes
    /\ crashes' = crashes + 1
    /\ queue' = {}
    /\ cancellations' = {}
    /\ paused' = FALSE
    /\ outage' = FALSE
    /\ busUp' = TRUE
    /\ woken' = {}
    /\ creating' = {}
    /\ pc' = [w \in Workers |-> "get"]
    /\ job' = [w \in Workers |-> NoJob]
    /\ idx' = [w \in Workers |-> 0]
    /\ attempts' = [w \in Workers |-> 0]
    /\ total' = [w \in Workers |-> 0]
    /\ completed' = [w \in Workers |-> {}]
    /\ failed' = [w \in Workers |-> {}]
    /\ UNCHANGED <<rowVars, storeVars, notices, raises>>
-----------------------------------------------------------------------------
(***************************************************************************)
(* The specification.                                                      *)
(***************************************************************************)

\* What a task does between two suspension points, and its wake-ups.
WorkerStep(w) ==
    \/ Dequeue(w) \/ Released(w) \/ SkipCancelled(w) \/ StartRun(w)
    \/ NextFund(w) \/ CancelObserved(w) \/ FinalizeCancelled(w)
    \/ SourceFails(w) \/ WriteTmp(w) \/ PartitionWritten(w) \/ WriteFails(w)
    \/ Retry(w) \/ FundExhausted(w) \/ ScopeDone(w)
    \/ DropStaging(w) \/ WriteManifest(w) \/ PromoteRename(w)
    \/ PromoteSuccess(w) \/ CommitOutcome(w)
    \/ EmitNone(w) \/ EmitWebhook(w) \/ EmitEvent(w) \/ EmitBlocks(w)
    \/ PublishWakes(w) \/ PublishWaitsAgain(w)

Handlers ==
    \E e \in Extracts :
        \/ \E s \in Scopes, m \in Modes, p \in Priorities :
              CreateExtract(e, s, m, p)
        \/ Enqueue(e)
        \/ CreateAborts(e)
        \/ CancelExtract(e)
        \/ CancelAborts(e)

AdminHooks ==
    \/ PauseProcessing \/ ResumeProcessing
    \/ \E b \in BOOLEAN : SimulateSourceOutage(b)
    \/ \E up \in BOOLEAN : SetBus(up)
    \/ OtherPublish

Next ==
    \/ Handlers
    \/ AdminHooks
    \/ \E w \in Workers : WorkerStep(w) \/ ProcessRaises(w)
    \/ Crash

Spec == Init /\ [][Next]_vars

\* The event loop runs every task that can run: a handler is not abandoned
\* half way, and a worker that holds the loop, was let go by the pause gate,
\* has a job to take, has slept out its backoff or was notified by the bus
\* goes on.  Nothing is assumed of clients or operators.
Fairness ==
    /\ \A e \in Extracts : WF_vars(Enqueue(e))
    /\ \A w \in Workers : WF_vars(WorkerStep(w))

FairSpec == Spec /\ Fairness
-----------------------------------------------------------------------------
(***************************************************************************)
(* Safety.                                                                 *)
(***************************************************************************)

Holders(e) == {w \in Workers : job[w] = e}

Owned(e) == e \in creating \/ e \in queue \/ Holders(e) # {}

\* An extract is in one pair of hands: its create handler, the queue or one
\* worker.  Two workers never write the same staging prefix, and no job is
\* taken twice.
SingleOwner ==
    /\ creating \cap queue = {}
    /\ \A w \in Workers : job[w] \notin creating \cup queue
    /\ \A v, w \in Workers : job[v] = job[w] /\ job[v] # NoJob => v = w

\* While the process lives and nothing raises, the pool forgets no job: a row
\* that says ACCEPTED or RUNNING has someone working towards its outcome.
NoOrphan ==
    crashes = 0 /\ raises = 0 =>
        \A e \in Extracts : status[e] \in {"ACCEPTED", "RUNNING"} => Owned(e)

\* ... and every staging prefix belongs to a job in progress: each way out of
\* _process renames or removes it.
StagingOwned ==
    crashes = 0 /\ raises = 0 =>
        \A e \in Extracts : staging[e] # NoDir => Holders(e) # {}

\* A published prefix appears whole, also to someone who looks after a crash or
\* an exception: it holds a manifest and exactly the files the manifest lists,
\* and what was renamed away is no longer in staging.
PublishIsAtomic ==
    \A e \in Extracts : published[e] # NoDir =>
        /\ published[e].files = published[e].manifest
        /\ published[e].files # {}
        /\ staging[e] = NoDir

\* COMPLETED promises every fund of the scope: published, listed in the
\* manifest, marked by _SUCCESS, with no left-over of a failed write.
CompletedIsWhole ==
    \A e \in Extracts : status[e] = "COMPLETED" =>
        /\ published[e] = [files |-> Range(scope[e]), tmp |-> {},
                           manifest |-> Range(scope[e]), success |-> TRUE]
        /\ Listed(e) = Range(scope[e])

\* PARTIAL accounts for what it delivers: the listed files are the published
\* ones, something was delivered and something failed, and a fund is in neither
\* list only if the extract's attempts were spent before its turn.
PartialAccounts ==
    \A e \in Extracts : status[e] = "PARTIAL" =>
        LET s == state[e] IN
        /\ Listed(e) = Downloadable(e)
        /\ published[e].success
        /\ s.files # {} /\ s.failed # {} /\ s.files \cap s.failed = {}
        /\ \/ s.files \cup s.failed = 1..Len(scope[e])
           \/ s.retries >= MaxAttemptsPerExtract

\* An extract that has not started, or that FAILED, shows no file.
NothingWithoutOutcome ==
    \A e \in Extracts :
        /\ status[e] \in {"NONE", "ACCEPTED", "FAILED"} => published[e] = NoDir
        /\ ~runId[e] => staging[e] = NoDir /\ published[e] = NoDir

\* A cancel that comes before a worker starts the run is final, also for a job
\* already in a worker's hands behind the pause gate: no later step of the pool
\* starts it, writes a file for it or notifies anyone.
CancelledEarlyIsFinal ==
    [][\A e \in Extracts : status[e] = "CANCELLED" /\ ~runId[e] =>
          /\ status'[e] = "CANCELLED" /\ ~runId'[e]
          /\ staging'[e] = NoDir /\ published'[e] = NoDir
          /\ notices'[e] = <<>>]_vars

\* A client hears at most once of an extract, only if it asked to, and only
\* what the row says: "ready" when every file it announces can be fetched.
NoticeMatchesOutcome ==
    \A e \in Extracts :
        \/ notices[e] = <<>>
        \/ /\ notices[e] = <<"ready">>
           /\ status[e] = "COMPLETED"
           /\ Range(scope[e]) \subseteq Downloadable(e)
           /\ mode[e] # "none"
        \/ /\ notices[e] = <<"failed">>
           /\ status[e] \in {"PARTIAL", "FAILED"}
           /\ mode[e] # "none"

\* What a finished run reports stays until its retention ends: no later cancel,
\* job or restart rewrites the row or the published prefix.
OutcomeStable ==
    [][\A e \in Extracts : status[e] \in Outcomes =>
          /\ status'[e] = status[e]
          /\ state'[e] = state[e]
          /\ published'[e] = published[e]]_vars

\* A run in which nothing succeeds stops early: it spends a full set of
\* attempts on every fund it tries, and tries no fund once the extract's
\* attempts are spent.
FailsFast ==
    \A e \in Extracts : status[e] = "FAILED" =>
        LET s == state[e] IN
        /\ s.retries = MaxAttemptsPerFund * Cardinality(s.failed)
        /\ s.retries < MaxAttemptsPerExtract + MaxAttemptsPerFund
        /\ Cardinality(s.failed) < Len(scope[e]) =>
               s.retries >= MaxAttemptsPerExtract
-----------------------------------------------------------------------------
(***************************************************************************)
(* Liveness, under FairSpec.                                               *)
(***************************************************************************)

\* Processing is not paused for good.
Unpaused == []<>(~paused)

\* Outages of the bus come to an end, and whoever waits on it is notified
\* again and again: some other task publishes, for resume() notifies no one.
BusRecovers == <>[]busUp /\ []<>(Publishers \subseteq woken)

\* Every accepted extract comes to an end, however often processing is paused
\* and however long a worker waits for the bus.  A job may be overtaken by every
\* job of a higher priority: the queue has no aging, so this rests on there being
\* finitely many of them, as Extracts is finite.
AcceptedFinishes ==
    Unpaused /\ BusRecovers => \A e \in Extracts :
        status[e] \in {"ACCEPTED", "RUNNING"} ~> status[e] \in TerminalStatuses

\* A cancelled extract is let go: its worker stops, its staging prefix goes.
CancelledReleases ==
    Unpaused /\ BusRecovers => \A e \in Extracts :
        status[e] = "CANCELLED" ~> ~Owned(e) /\ staging[e] = NoDir

\* A client that asked for a notification gets one once the run has ended, also
\* if the worker had to wait for the bus to hand it over.
FinishedNotifies ==
    Unpaused /\ BusRecovers => \A e \in Extracts :
        status[e] \in Outcomes /\ mode[e] # "none" ~> notices[e] # <<>>
-----------------------------------------------------------------------------
(***************************************************************************)
(* Refinement: what a client sees of the worker, the store and the rows.   *)
(***************************************************************************)

\* A file is visible when it is listed and its link leads somewhere.
Contract == INSTANCE ExtractContract WITH
    phase <- status,
    started <- runId,
    wanted <- [e \in Extracts |-> Range(scope[e])],
    visible <- [e \in Extracts |-> Listed(e) \cap Downloadable(e)],
    told <- notices

\* The service keeps the contract, through crashes and exceptions: a client
\* never sees a publication half done, an outcome that is taken back, or a
\* notification that comes before its files or comes twice.
ImplementsContract == Contract!Spec
=============================================================================
