-------------------------- MODULE WebhookDelivery --------------------------
(***************************************************************************)
(* Webhook callbacks (class WebhookDelivery, extract_service/webhooks.py): *)
(* an unbounded queue in memory, tasks that take jobs from it and POST     *)
(* until a 2xx answer or the end of the schedule, and a log of verdicts.   *)
(* A task suspends in queue.get(), in the POST and in the sleep between    *)
(* two attempts; an action is what it does from one of these to the next.  *)
(***************************************************************************)
EXTENDS Naturals, Sequences

CONSTANTS
    Jobs,           \* callbacks, each scheduled once by a worker of the pool
    Senders,        \* tasks started by start()
    MaxAttempts,    \* len(settings.webhook_backoff_schedule)
    MaxLosses,      \* bound: answers lost after the receiver accepted
    MaxRaises,      \* bound: exceptions of the database
    MaxCrashes,     \* bound: process crashes
    NoJob

ASSUME WebhookAssumption ==
    /\ MaxAttempts \in Nat \ {0}
    /\ MaxLosses \in Nat
    /\ MaxRaises \in Nat
    /\ MaxCrashes \in Nat
    /\ NoJob \notin Jobs

VARIABLES
    queue,      \* WebhookDelivery._queue
    pc, job,    \* of each task
    attempts,   \* WebhookJob.attempts
    log,        \* WebhookDelivery.deliveries, by job
    accepted,   \* history: how often the receiver took the callback
    scheduled,  \* history: jobs given to schedule()
    losses, raises, crashes

vars == <<queue, pc, job, attempts, log, accepted, scheduled, losses, raises,
          crashes>>

Verdicts == {"DELIVERED", "FAILED_DELIVERY"}

Held == {job[s] : s \in Senders} \ {NoJob}

Queued == {queue[i] : i \in DOMAIN queue}

\* Every variable has its type, and a job is in the queue once or in the hands
\* of one task.
WebhookTypeOK ==
    /\ queue \in Seq(Jobs)
    /\ pc \in [Senders -> {"get", "post", "sleep"}]
    /\ job \in [Senders -> Jobs \cup {NoJob}]
    /\ attempts \in [Jobs -> 0..MaxAttempts]
    /\ log \in [Jobs -> Seq(Verdicts)]
    /\ accepted \in [Jobs -> Nat]
    /\ scheduled \in SUBSET Jobs
    /\ losses \in Nat /\ raises \in Nat /\ crashes \in Nat
    /\ \A i, j \in DOMAIN queue : queue[i] = queue[j] => i = j
    /\ Queued \cap Held = {}
    /\ \A s, t \in Senders : job[s] = job[t] /\ job[s] # NoJob => s = t

Init ==
    /\ queue = <<>>
    /\ pc = [s \in Senders |-> "get"]
    /\ job = [s \in Senders |-> NoJob]
    /\ attempts = [j \in Jobs |-> 0]
    /\ log = [j \in Jobs |-> <<>>]
    /\ accepted = [j \in Jobs |-> 0]
    /\ scheduled = {}
    /\ losses = 0 /\ raises = 0 /\ crashes = 0
-----------------------------------------------------------------------------
\* schedule()
Schedule(j) ==
    /\ j \notin scheduled
    /\ scheduled' = scheduled \cup {j}
    /\ queue' = Append(queue, j)
    /\ UNCHANGED <<pc, job, attempts, log, accepted, losses, raises, crashes>>

\* Mutant: the job stays at the head of the queue.
Dequeued == queue

Rest == Tail(queue)

\* _run takes a job; _attempt signs it and makes the first attempt.
Take(s) ==
    /\ pc[s] = "get"
    /\ queue # <<>>
    /\ queue' = Rest
    /\ job' = [job EXCEPT ![s] = Head(queue)]
    /\ attempts' = [attempts EXCEPT ![Head(queue)] = 1]
    /\ pc' = [pc EXCEPT ![s] = "post"]
    /\ UNCHANGED <<log, accepted, scheduled, losses, raises, crashes>>

\* _get_secret raises before the first attempt: _run logs it and the callback
\* is never sent.
TakeRaises(s) ==
    /\ pc[s] = "get"
    /\ queue # <<>>
    /\ raises < MaxRaises
    /\ raises' = raises + 1
    /\ queue' = Rest
    /\ UNCHANGED <<pc, job, attempts, log, accepted, scheduled, losses,
                   crashes>>

\* The task is through with its job.
Done(s) ==
    /\ pc' = [pc EXCEPT ![s] = "get"]
    /\ job' = [job EXCEPT ![s] = NoJob]

\* Mutant: one attempt fewer before the verdict.
AttemptsLeftShort(j) == attempts[j] + 1 < MaxAttempts

AttemptsLeft(j) == attempts[j] < MaxAttempts

\* After an attempt that did not end well, l being the job's log: sleep, or
\* FAILED_DELIVERY.  An audit record that raises here changes nothing more.
NotDelivered(s, l) ==
    IF AttemptsLeft(job[s])
    THEN /\ pc' = [pc EXCEPT ![s] = "sleep"]
         /\ log' = [log EXCEPT ![job[s]] = l]
         /\ UNCHANGED job
    ELSE /\ log' = [log EXCEPT ![job[s]] = Append(l, "FAILED_DELIVERY")]
         /\ Done(s)

Accept(s) == accepted' = [accepted EXCEPT ![job[s]] = @ + 1]

\* Mutant: the loop goes on after DELIVERED.
DeliveredNoReturn(s) == NotDelivered(s, Append(log[job[s]], "DELIVERED"))

Delivered(s) ==
    /\ log' = [log EXCEPT ![job[s]] = Append(@, "DELIVERED")]
    /\ Done(s)

\* The receiver takes the callback and a 2xx answer arrives.
PostDelivered(s) ==
    /\ pc[s] = "post"
    /\ Accept(s)
    /\ Delivered(s)
    /\ UNCHANGED <<queue, attempts, scheduled, losses, raises, crashes>>

\* The same, but the audit record raises.  The except clause takes it for a
\* failed attempt.
PostAuditRaises(s) ==
    /\ pc[s] = "post"
    /\ raises < MaxRaises
    /\ raises' = raises + 1
    /\ Accept(s)
    /\ NotDelivered(s, Append(log[job[s]], "DELIVERED"))
    /\ UNCHANGED <<queue, attempts, scheduled, losses, crashes>>

\* The receiver takes the callback and the answer does not arrive in time.
PostAnswerLost(s) ==
    /\ pc[s] = "post"
    /\ losses < MaxLosses
    /\ losses' = losses + 1
    /\ Accept(s)
    /\ NotDelivered(s, log[job[s]])
    /\ UNCHANGED <<queue, attempts, scheduled, raises, crashes>>

\* No connection, a timeout or an answer that is not 2xx.
PostRefused(s) ==
    /\ pc[s] = "post"
    /\ NotDelivered(s, log[job[s]])
    /\ UNCHANGED <<queue, attempts, accepted, scheduled, losses, raises,
                   crashes>>

\* Mutant: the sleep is the end of it.
RetryNever(s) == FALSE

RetryDue(s) == pc[s] = "sleep"

Retry(s) ==
    /\ RetryDue(s)
    /\ pc' = [pc EXCEPT ![s] = "post"]
    /\ attempts' = [attempts EXCEPT ![job[s]] = @ + 1]
    /\ UNCHANGED <<queue, job, log, accepted, scheduled, losses, raises,
                   crashes>>

\* The process dies, or stop() ends it: the queue and the log are memory.  The
\* log is kept here as a history.
Crash ==
    /\ crashes < MaxCrashes
    /\ crashes' = crashes + 1
    /\ queue' = <<>>
    /\ pc' = [s \in Senders |-> "get"]
    /\ job' = [s \in Senders |-> NoJob]
    /\ UNCHANGED <<attempts, log, accepted, scheduled, losses, raises>>
-----------------------------------------------------------------------------
SenderStep(s) ==
    \/ Take(s) \/ TakeRaises(s) \/ Retry(s)
    \/ PostDelivered(s) \/ PostAuditRaises(s) \/ PostAnswerLost(s)
    \/ PostRefused(s)

Next ==
    \/ \E j \in Jobs : Schedule(j)
    \/ \E s \in Senders : SenderStep(s)
    \/ Crash

Spec == Init /\ [][Next]_vars

\* A POST ends, by its timeout at the latest, and a sleep ends.
FairSpec == Spec /\ \A s \in Senders : WF_vars(SenderStep(s))
-----------------------------------------------------------------------------
\* DELIVERED is logged only for a callback the receiver took, FAILED_DELIVERY
\* only when the whole schedule was used up, and a receiver that took it before
\* FAILED_DELIVERY did so without our knowing: its answer was lost or the audit
\* record raised.
VerdictSound ==
    \A j \in Jobs : \A i \in DOMAIN log[j] :
        /\ log[j][i] = "DELIVERED" => accepted[j] > 0
        /\ log[j][i] = "FAILED_DELIVERY" =>
               /\ attempts[j] = MaxAttempts
               /\ accepted[j] > 0 => losses + raises > 0

\* A callback reaches its receiver again only after a lost answer or an audit
\* record that raised, and gets a second verdict only after the latter.
RepeatsExplained ==
    \A j \in Jobs :
        /\ accepted[j] <= 1 + losses + raises
        /\ Len(log[j]) <= 1 + raises

\* Every scheduled callback gets a verdict, whatever the receiver does, as long
\* as the process lives and the database answers.
EveryJobEnds ==
    [](raises + crashes = 0) =>
        \A j \in Jobs : j \in scheduled ~> log[j] # <<>>
=============================================================================
