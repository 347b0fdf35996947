--------------------------- MODULE WebhookProofs ---------------------------
(***************************************************************************)
(* Proofs about WebhookDelivery, for any callbacks, tasks and length of    *)
(* the schedule, and any number of lost answers, exceptions and crashes.   *)
(***************************************************************************)
EXTENDS WebhookDelivery, TLAPS

Elems(q) == {q[i] : i \in DOMAIN q}

Distinct(q) == \A i, j \in DOMAIN q : q[i] = q[j] => i = j

\* A task has a job exactly while it is in _attempt, and sleeps only before an
\* attempt that the schedule has.
SendersOK ==
    \A s \in Senders :
        /\ pc[s] = "get" <=> job[s] = NoJob
        /\ pc[s] = "sleep" => attempts[job[s]] < MaxAttempts

\* What is waiting or being sent was scheduled.
InFlight == Queued \cup Held \subseteq scheduled

\* The callback may still be sent.
Pending(j) == j \notin scheduled \/ j \in Queued \cup Held

\* While a callback is pending each acceptance goes back to a fault, and each
\* verdict to an audit record that raised; the last ones come when it is through.
Counted(j) ==
    /\ accepted[j] <= 1 + losses + raises
    /\ Len(log[j]) <= 1 + raises
    /\ Pending(j) => accepted[j] <= losses + raises /\ Len(log[j]) <= raises

\* What a verdict v of callback j means; FAILED_DELIVERY is the end of it.
Meant(j, v) ==
    /\ v = "DELIVERED" => accepted[j] > 0
    /\ v = "FAILED_DELIVERY" =>
           /\ ~Pending(j)
           /\ attempts[j] = MaxAttempts
           /\ accepted[j] > 0 => losses + raises > 0

Entry(j) == Counted(j) /\ \A i \in DOMAIN log[j] : Meant(j, log[j][i])

Ledger == \A j \in Jobs : Entry(j)

HandsInv == WebhookTypeOK /\ SendersOK /\ InFlight

WebhookInv == HandsInv /\ Ledger

\* A job that is not in the queue may be put at its end.
LEMMA AppendDistinct ==
  ASSUME NEW q \in Seq(Jobs), Distinct(q), NEW j \in Jobs, j \notin Elems(q)
  PROVE  /\ Append(q, j) \in Seq(Jobs)
         /\ Distinct(Append(q, j))
         /\ Elems(Append(q, j)) = Elems(q) \cup {j}
<1> DEFINE p == Append(q, j)
<1>1. /\ p \in Seq(Jobs) /\ Len(p) = Len(q) + 1
      /\ DOMAIN p = 1..(Len(q) + 1) /\ DOMAIN q = 1..Len(q) /\ Len(q) \in Nat
      /\ \A i \in DOMAIN q : p[i] = q[i]
      /\ p[Len(q) + 1] = j
  OBVIOUS
<1> HIDE DEF p
<1>2. \A i \in DOMAIN p : i \in DOMAIN q \/ i = Len(q) + 1
  BY <1>1
<1>3. \A i \in DOMAIN q : q[i] # j
  BY DEF Elems
<1>4. Distinct(p)
  BY <1>1, <1>2, <1>3 DEF Distinct
<1>5. Elems(p) = Elems(q) \cup {j}
  BY <1>1, <1>2 DEF Elems
<1> QED
  BY <1>1, <1>4, <1>5 DEF p

\* The queue without its head has every other job.
LEMMA TailDistinct ==
  ASSUME NEW q \in Seq(Jobs), Distinct(q), q # <<>>
  PROVE  /\ Head(q) \in Jobs /\ Head(q) \in Elems(q)
         /\ Tail(q) \in Seq(Jobs)
         /\ Distinct(Tail(q))
         /\ Elems(Tail(q)) = Elems(q) \ {Head(q)}
<1> DEFINE p == Tail(q)
<1>1. /\ p \in Seq(Jobs) /\ Len(p) = Len(q) - 1
      /\ Len(q) \in Nat \ {0}
      /\ DOMAIN p = 1..(Len(q) - 1) /\ DOMAIN q = 1..Len(q)
      /\ \A i \in DOMAIN p : p[i] = q[i + 1]
      /\ Head(q) = q[1] /\ Head(q) \in Jobs
  OBVIOUS
<1> HIDE DEF p
<1>2. Distinct(p)
  BY <1>1, SMTT(30) DEF Distinct
<1>3. 1 \in DOMAIN q /\ \A i \in DOMAIN p : i + 1 \in DOMAIN q /\ i + 1 # 1
  BY <1>1
<1>4. \A i \in DOMAIN q : i # 1 => i - 1 \in DOMAIN p /\ p[i - 1] = q[i]
  BY <1>1
<1>5. Elems(p) \subseteq Elems(q) \ {Head(q)}
  BY <1>1, <1>3 DEF Elems, Distinct
<1>6. Elems(q) \ {Head(q)} \subseteq Elems(p)
  BY <1>1, <1>4 DEF Elems
<1>7. Head(q) \in Elems(q)
  BY <1>1, <1>3 DEF Elems
<1> QED
  BY <1>1, <1>2, <1>5, <1>6, <1>7 DEF p

\* Nothing is scheduled.
LEMMA InitWebhook == Init => WebhookInv
<1> SUFFICES ASSUME Init PROVE WebhookInv
  OBVIOUS
<1>1. Queued = {} /\ Held = {}
  BY DEF Init, Queued, Held
<1>2. WebhookTypeOK
  BY <1>1, WebhookAssumption DEF Init, WebhookTypeOK, Verdicts
<1>3. SendersOK /\ InFlight
  BY <1>1 DEF Init, SendersOK, InFlight
<1>4. Ledger
  <2>1. \A j \in Jobs : log[j] = <<>> /\ accepted[j] = 0
    BY DEF Init
  <2>2. Len(<<>>) = 0 /\ DOMAIN <<>> = {}
    OBVIOUS
  <2>3. losses = 0 /\ raises = 0
    BY DEF Init
  <2>4. ASSUME NEW j \in Jobs PROVE Counted(j)
    BY <2>1, <2>2, <2>3 DEF Counted
  <2> QED
    BY <2>1, <2>2, <2>4 DEF Ledger, Entry
<1> QED
  BY <1>2, <1>3, <1>4 DEF WebhookInv, HandsInv

\* A step that ends a POST: the task goes to sleep with its job, or lets go.
PostEnds(s) ==
    /\ pc[s] = "post"
    /\ \/ /\ AttemptsLeft(job[s])
          /\ pc' = [pc EXCEPT ![s] = "sleep"]
          /\ job' = job
       \/ Done(s)
    /\ UNCHANGED <<queue, attempts, scheduled>>

\* The four outcomes of a POST.
Posts(s) ==
    PostDelivered(s) \/ PostAuditRaises(s) \/ PostAnswerLost(s) \/ PostRefused(s)

\* That is what they have in common.
LEMMA PostsEnd == ASSUME NEW s \in Senders, Posts(s) PROVE PostEnds(s)
BY DEF Posts, PostDelivered, PostAuditRaises, PostAnswerLost, PostRefused,
       NotDelivered, Delivered, Done, PostEnds

\* A task in a POST or asleep has a job of its own.
LEMMA SenderHolds ==
  ASSUME HandsInv, NEW s \in Senders, pc[s] # "get"
  PROVE  /\ job[s] \in Jobs /\ job[s] \in Held /\ job[s] \notin Queued
         /\ job[s] \in scheduled
         /\ \A t \in Senders \ {s} : job[t] # job[s]
<1>1. job[s] \in Jobs
  BY DEF HandsInv, WebhookTypeOK, SendersOK
<1>2. job[s] \in Held
  BY <1>1, WebhookAssumption DEF Held
<1> QED
  BY <1>1, <1>2, WebhookAssumption
     DEF HandsInv, WebhookTypeOK, SendersOK, InFlight

\* Letting go of a job ends its being in flight, and no other's.
LEMMA DoneHeld ==
  ASSUME HandsInv, NEW s \in Senders, pc[s] # "get", Done(s)
  PROVE  Held' = Held \ {job[s]}
<1>1. /\ job' = [job EXCEPT ![s] = NoJob]
      /\ job \in [Senders -> Jobs \cup {NoJob}]
  BY DEF Done, HandsInv, WebhookTypeOK
<1>2. \A t \in Senders : job'[t] = IF t = s THEN NoJob ELSE job[t]
  BY <1>1
<1> QED
  BY <1>2, SenderHolds, WebhookAssumption DEF Held

\* A verdict belongs in a log.
LEMMA LogsTyped ==
  ASSUME HandsInv, NEW s \in Senders, Posts(s)
  PROVE  /\ log' \in [Jobs -> Seq(Verdicts)]
         /\ accepted' \in [Jobs -> Nat]
         /\ losses' \in Nat /\ raises' \in Nat /\ crashes' \in Nat
<1>1. job[s] \in Jobs /\ log[job[s]] \in Seq(Verdicts)
  BY SenderHolds, PostsEnd DEF PostEnds, HandsInv, WebhookTypeOK
<1>2. \A l \in Seq(Verdicts), v \in Verdicts : Append(l, v) \in Seq(Verdicts)
  OBVIOUS
<1>3. {"DELIVERED", "FAILED_DELIVERY"} \subseteq Verdicts
  BY DEF Verdicts
<1>4. \A l \in Seq(Verdicts) :
         [log EXCEPT ![job[s]] = l] \in [Jobs -> Seq(Verdicts)]
  BY DEF HandsInv, WebhookTypeOK
<1>5. ASSUME NEW l \in Seq(Verdicts), NotDelivered(s, l)
      PROVE  log' \in [Jobs -> Seq(Verdicts)]
  <2>1. Append(l, "FAILED_DELIVERY") \in Seq(Verdicts)
    BY <1>2, <1>3
  <2>2. \/ log' = [log EXCEPT ![job[s]] = l]
        \/ log' = [log EXCEPT ![job[s]] = Append(l, "FAILED_DELIVERY")]
    BY <1>5 DEF NotDelivered
  <2> QED
    BY <1>4, <2>1, <2>2
<1>6. log' \in [Jobs -> Seq(Verdicts)]
  BY <1>1, <1>2, <1>3, <1>4, <1>5
     DEF Posts, PostDelivered, PostAuditRaises, PostAnswerLost, PostRefused,
         Delivered
<1>7. accepted' \in [Jobs -> Nat]
  <2>1. accepted \in [Jobs -> Nat] /\ accepted[job[s]] + 1 \in Nat
    BY <1>1 DEF HandsInv, WebhookTypeOK
  <2> QED
    BY <1>1, <2>1 DEF Posts, PostDelivered, PostAuditRaises, PostAnswerLost,
                      PostRefused, Accept
<1>8. losses' \in Nat /\ raises' \in Nat /\ crashes' \in Nat
  BY DEF Posts, PostDelivered, PostAuditRaises, PostAnswerLost, PostRefused,
         HandsInv, WebhookTypeOK
<1> QED
  BY <1>6, <1>7, <1>8

\* schedule() adds a job that nobody has.
LEMMA ScheduleHands ==
  ASSUME HandsInv, NEW j \in Jobs, Schedule(j)
  PROVE  HandsInv' /\ Queued' = Queued \cup {j} /\ Held' = Held
<1>1. j \notin Queued /\ j \notin Held
  BY DEF Schedule, HandsInv, InFlight
<1>2. queue \in Seq(Jobs) /\ Distinct(queue) /\ Queued = Elems(queue)
  BY DEF HandsInv, WebhookTypeOK, Distinct, Queued, Elems
<1>3. /\ queue' \in Seq(Jobs) /\ Distinct(queue')
      /\ Elems(queue') = Elems(queue) \cup {j}
  BY <1>1, <1>2, AppendDistinct DEF Schedule
<1>4. Queued' = Queued \cup {j} /\ Held' = Held
  BY <1>2, <1>3 DEF Queued, Elems, Held, Schedule
<1>5. WebhookTypeOK'
  <2>1. /\ UNCHANGED <<pc, job, attempts, log, accepted, losses, raises, crashes>>
        /\ scheduled' \in SUBSET Jobs
    BY DEF Schedule, HandsInv, WebhookTypeOK
  <2>2. Queued' \cap Held' = {}
    BY <1>1, <1>4 DEF HandsInv, WebhookTypeOK
  <2>3. \A i, k \in DOMAIN queue' : queue'[i] = queue'[k] => i = k
    BY <1>3 DEF Distinct
  <2> QED
    BY <1>3, <2>1, <2>2, <2>3 DEF HandsInv, WebhookTypeOK
<1>6. SendersOK' /\ InFlight'
  BY <1>4 DEF Schedule, HandsInv, SendersOK, InFlight
<1> QED
  BY <1>4, <1>5, <1>6 DEF HandsInv

\* A job goes from the queue to one task, or nowhere.
LEMMA TakeHands ==
  ASSUME HandsInv, NEW s \in Senders, Take(s) \/ TakeRaises(s)
  PROVE  /\ HandsInv'
         /\ Head(queue) \in Jobs /\ Head(queue) \in Queued
         /\ Queued' = Queued \ {Head(queue)}
         /\ Held' \subseteq Held \cup {Head(queue)}
<1> DEFINE h == Head(queue)
<1>1. queue \in Seq(Jobs) /\ Distinct(queue) /\ Queued = Elems(queue)
  BY DEF HandsInv, WebhookTypeOK, Distinct, Queued, Elems
<1>2. queue # <<>> /\ queue' = Tail(queue)
  BY DEF Take, TakeRaises, Rest
<1>3. /\ h \in Jobs /\ h \in Queued
      /\ queue' \in Seq(Jobs) /\ Distinct(queue')
      /\ Elems(queue') = Elems(queue) \ {h}
  BY <1>1, <1>2, TailDistinct
<1>4. Queued' = Queued \ {h}
  BY <1>1, <1>3 DEF Queued, Elems
<1>5. h \notin Held /\ h \in scheduled
  BY <1>3 DEF HandsInv, WebhookTypeOK, InFlight
<1> HIDE DEF h
<1>6. CASE TakeRaises(s)
  <2>1. Held' = Held
    BY <1>6 DEF TakeRaises, Held
  <2>2. WebhookTypeOK'
    BY <1>3, <1>4, <1>6, <2>1, SMTT(30)
       DEF TakeRaises, HandsInv, WebhookTypeOK, Distinct
  <2>3. SendersOK' /\ InFlight'
    BY <1>4, <1>6, <2>1 DEF TakeRaises, HandsInv, SendersOK, InFlight
  <2> QED
    BY <1>3, <1>4, <2>1, <2>2, <2>3 DEF HandsInv, h
<1>7. CASE Take(s)
  <2>1. /\ pc[s] = "get" /\ job' = [job EXCEPT ![s] = h]
        /\ attempts' = [attempts EXCEPT ![h] = 1]
        /\ pc' = [pc EXCEPT ![s] = "post"]
        /\ UNCHANGED <<log, accepted, scheduled, losses, raises, crashes>>
    BY <1>7 DEF Take, h
  <2>2. \A t \in Senders : job'[t] = IF t = s THEN h ELSE job[t]
    BY <2>1 DEF HandsInv, WebhookTypeOK
  <2>3. Held' \subseteq Held \cup {h}
    BY <2>2 DEF Held
  <2>4. \A t \in Senders : job[t] # h
    BY <1>3, <1>5, WebhookAssumption DEF Held
  <2>5. attempts' \in [Jobs -> 0..MaxAttempts]
    <3>1. 1 \in 0..MaxAttempts
      BY WebhookAssumption
    <3> QED
      BY <1>3, <2>1, <3>1 DEF HandsInv, WebhookTypeOK
  <2>6. /\ job' \in [Senders -> Jobs \cup {NoJob}]
        /\ pc' \in [Senders -> {"get", "post", "sleep"}]
    BY <1>3, <2>1 DEF HandsInv, WebhookTypeOK
  <2>7. Queued' \cap Held' = {}
    BY <1>4, <2>3 DEF HandsInv, WebhookTypeOK
  <2>8. \A t, u \in Senders : job'[t] = job'[u] /\ job'[t] # NoJob => t = u
    BY <2>2, <2>4 DEF HandsInv, WebhookTypeOK
  <2>9. WebhookTypeOK'
    BY <1>3, <2>1, <2>5, <2>6, <2>7, <2>8
       DEF HandsInv, WebhookTypeOK, Distinct
  <2>10. SendersOK'
    <3>1. h # NoJob
      BY <1>3, WebhookAssumption
    <3>2. \A t \in Senders \ {s} : pc'[t] = pc[t] /\ job'[t] = job[t]
      BY <2>1 DEF HandsInv, WebhookTypeOK
    <3>3. pc'[s] = "post" /\ job'[s] = h
      BY <2>1 DEF HandsInv, WebhookTypeOK
    <3>4. \A t \in Senders \ {s} : attempts'[job[t]] = attempts[job[t]]
      BY <2>1, <2>4 DEF HandsInv, WebhookTypeOK
    <3> QED
      BY <3>1, <3>2, <3>3, <3>4 DEF HandsInv, SendersOK
  <2>11. InFlight'
    BY <1>4, <1>5, <2>1, <2>3 DEF HandsInv, InFlight
  <2> QED
    BY <1>3, <1>4, <2>3, <2>9, <2>10, <2>11 DEF HandsInv, h
<1> QED
  BY <1>6, <1>7

\* A POST ends in the task that made it.
LEMMA PostHands ==
  ASSUME HandsInv, NEW s \in Senders, Posts(s)
  PROVE  HandsInv' /\ Queued' = Queued /\ Held' \subseteq Held
<1>1. PostEnds(s)
  BY PostsEnd
<1>2. Queued' = Queued
  BY <1>1 DEF PostEnds, Queued
<1>3. CASE /\ AttemptsLeft(job[s])
           /\ pc' = [pc EXCEPT ![s] = "sleep"]
           /\ job' = job
  <2>1. Held' = Held
    BY <1>3 DEF Held
  <2>2. WebhookTypeOK'
    BY <1>1, <1>2, <1>3, <2>1, LogsTyped
       DEF PostEnds, HandsInv, WebhookTypeOK
  <2>3. SendersOK'
    BY <1>1, <1>3 DEF PostEnds, AttemptsLeft, HandsInv, WebhookTypeOK, SendersOK
  <2>4. InFlight'
    BY <1>1, <1>2, <2>1 DEF PostEnds, HandsInv, InFlight
  <2> QED
    BY <1>2, <2>1, <2>2, <2>3, <2>4 DEF HandsInv
<1>4. CASE Done(s)
  <2>1. Held' = Held \ {job[s]}
    BY <1>1, <1>4, DoneHeld DEF PostEnds
  <2>2. \A t \in Senders : /\ job'[t] = IF t = s THEN NoJob ELSE job[t]
                           /\ pc'[t] = IF t = s THEN "get" ELSE pc[t]
    BY <1>4 DEF Done, HandsInv, WebhookTypeOK
  <2>3. /\ job' \in [Senders -> Jobs \cup {NoJob}]
        /\ pc' \in [Senders -> {"get", "post", "sleep"}]
    BY <1>4 DEF Done, HandsInv, WebhookTypeOK
  <2>4. WebhookTypeOK'
    BY <1>1, <1>2, <2>1, <2>2, <2>3, LogsTyped
       DEF PostEnds, HandsInv, WebhookTypeOK
  <2>5. SendersOK'
    BY <1>1, <2>2 DEF PostEnds, HandsInv, SendersOK
  <2>6. InFlight'
    BY <1>1, <1>2, <2>1 DEF PostEnds, HandsInv, InFlight
  <2> QED
    BY <1>2, <2>1, <2>4, <2>5, <2>6 DEF HandsInv
<1> QED
  BY <1>1, <1>3, <1>4 DEF PostEnds

\* A retry is an attempt that the schedule has.
LEMMA RetryHands ==
  ASSUME HandsInv, NEW s \in Senders, Retry(s)
  PROVE  HandsInv' /\ Queued' = Queued /\ Held' = Held
<1>1. /\ pc[s] = "sleep" /\ pc' = [pc EXCEPT ![s] = "post"]
      /\ attempts' = [attempts EXCEPT ![job[s]] = @ + 1]
      /\ UNCHANGED <<queue, job, log, accepted, scheduled, losses, raises,
                     crashes>>
  BY DEF Retry, RetryDue
<1>2. Queued' = Queued /\ Held' = Held
  BY <1>1 DEF Queued, Held
<1>3. job[s] \in Jobs /\ \A t \in Senders \ {s} : job[t] # job[s]
  BY <1>1, SenderHolds
<1>4. attempts' \in [Jobs -> 0..MaxAttempts]
  <2>1. attempts[job[s]] + 1 \in 0..MaxAttempts
    BY <1>1, <1>3, WebhookAssumption DEF HandsInv, WebhookTypeOK, SendersOK
  <2> QED
    BY <1>1, <1>3, <2>1 DEF HandsInv, WebhookTypeOK
<1>5. WebhookTypeOK'
  BY <1>1, <1>2, <1>4 DEF HandsInv, WebhookTypeOK
<1>6. SendersOK'
  <2>1. \A t \in Senders \ {s} : /\ pc'[t] = pc[t]
                                 /\ attempts'[job[t]] = attempts[job[t]]
    BY <1>1, <1>3 DEF HandsInv, WebhookTypeOK
  <2>2. pc'[s] = "post"
    BY <1>1 DEF HandsInv, WebhookTypeOK
  <2> QED
    BY <1>1, <2>1, <2>2 DEF HandsInv, SendersOK
<1>7. InFlight'
  BY <1>1, <1>2 DEF HandsInv, InFlight
<1> QED
  BY <1>2, <1>5, <1>6, <1>7 DEF HandsInv

\* After a crash nothing is in flight.
LEMMA CrashHands ==
  ASSUME HandsInv, Crash
  PROVE  HandsInv' /\ Queued' = {} /\ Held' = {}
<1>1. Queued' = {} /\ Held' = {}
  BY DEF Crash, Queued, Held
<1>2. WebhookTypeOK'
  BY <1>1 DEF Crash, HandsInv, WebhookTypeOK
<1>3. SendersOK' /\ InFlight'
  BY <1>1 DEF Crash, SendersOK, InFlight
<1> QED
  BY <1>1, <1>2, <1>3 DEF HandsInv

\* Every step keeps jobs in single hands, and no callback becomes pending again.
LEMMA NextHands ==
  ASSUME HandsInv, Next
  PROVE  HandsInv' /\ \A j \in Jobs : Pending(j)' => Pending(j)
<1>1. ASSUME NEW j \in Jobs, Schedule(j)
      PROVE  HandsInv' /\ \A i \in Jobs : Pending(i)' => Pending(i)
  <2>1. scheduled' = scheduled \cup {j} /\ j \notin scheduled
    BY <1>1 DEF Schedule
  <2> QED
    BY <1>1, <2>1, ScheduleHands DEF Pending
<1>2. ASSUME NEW s \in Senders, Take(s) \/ TakeRaises(s)
      PROVE  HandsInv' /\ \A i \in Jobs : Pending(i)' => Pending(i)
  <2>1. scheduled' = scheduled
    BY <1>2 DEF Take, TakeRaises
  <2> QED
    BY <1>2, <2>1, TakeHands DEF Pending
<1>3. ASSUME NEW s \in Senders, Posts(s)
      PROVE  HandsInv' /\ \A i \in Jobs : Pending(i)' => Pending(i)
  <2>1. scheduled' = scheduled
    BY <1>3, PostsEnd DEF PostEnds
  <2> QED
    BY <1>3, <2>1, PostHands DEF Pending
<1>4. ASSUME NEW s \in Senders, Retry(s)
      PROVE  HandsInv' /\ \A i \in Jobs : Pending(i)' => Pending(i)
  <2>1. scheduled' = scheduled
    BY <1>4 DEF Retry
  <2> QED
    BY <1>4, <2>1, RetryHands DEF Pending
<1>5. CASE Crash
  <2>1. scheduled' = scheduled
    BY <1>5 DEF Crash
  <2> QED
    BY <1>5, <2>1, CrashHands DEF Pending
<1> QED
  BY <1>1, <1>2, <1>3, <1>4, <1>5 DEF Next, SenderStep, Posts

\* A fault is never forgotten.
LEMMA FaultsGrow ==
  ASSUME NEW l \in Nat, NEW r \in Nat, NEW m \in Nat, NEW q \in Nat,
         m >= l, q >= r
  PROVE  l + r > 0 => m + q > 0
OBVIOUS

\* The ledger of a callback stays in order through a step that neither sends nor
\* logs it, and takes no further attempt at it unless it is pending.
LEMMA EntryKept ==
  ASSUME HandsInv, HandsInv', NEW j \in Jobs, Entry(j),
         Pending(j)' => Pending(j),
         accepted'[j] = accepted[j], log'[j] = log[j],
         losses' >= losses, raises' >= raises,
         attempts'[j] = attempts[j] \/ Pending(j)
  PROVE  Entry(j)'
<1>1. /\ accepted[j] \in Nat /\ losses \in Nat /\ raises \in Nat
      /\ losses' \in Nat /\ raises' \in Nat /\ log[j] \in Seq(Verdicts)
      /\ Len(log[j]) \in Nat
  BY DEF HandsInv, WebhookTypeOK
<1>2. Counted(j)'
  BY <1>1, SMTT(30) DEF Entry, Counted
<1>3. ASSUME NEW i \in DOMAIN log[j] PROVE Meant(j, log[j][i])'
  <2>1. Meant(j, log[j][i]) /\ log'[j][i] = log[j][i]
    BY <1>3 DEF Entry
  <2>2. log[j][i] = "DELIVERED" => accepted'[j] > 0
    BY <2>1 DEF Meant
  <2>3. ASSUME log[j][i] = "FAILED_DELIVERY"
        PROVE  /\ ~Pending(j) /\ attempts[j] = MaxAttempts
               /\ accepted[j] > 0 => losses + raises > 0
    BY <2>1, <2>3 DEF Meant
  <2>4. losses + raises > 0 => losses' + raises' > 0
    BY <1>1, FaultsGrow
  <2>5. ASSUME log[j][i] = "FAILED_DELIVERY"
        PROVE  accepted'[j] > 0 => losses' + raises' > 0
    <3>1. accepted'[j] > 0 => losses + raises > 0
      BY <2>3, <2>5
    <3> QED
      BY <2>4, <3>1
  <2>6. ASSUME log[j][i] = "FAILED_DELIVERY"
        PROVE  ~Pending(j)' /\ attempts'[j] = MaxAttempts
    BY <2>3, <2>6
  <2> QED
    BY <2>1, <2>2, <2>5, <2>6 DEF Meant
<1> QED
  BY <1>2, <1>3 DEF Entry

\* The books of a callback whose POST did not end well: l is its log when there
\* are attempts left, and gets FAILED_DELIVERY when the schedule is used up.
LEMMA NotDeliveredEntry ==
  ASSUME HandsInv, HandsInv', NEW s \in Senders, pc[s] = "post", NEW j \in Jobs,
         j = job[s], Entry(j), UNCHANGED <<queue, scheduled, attempts>>,
         NEW l \in Seq(Verdicts), NotDelivered(s, l),
         accepted'[j] <= losses' + raises', Len(l) <= raises',
         losses' >= losses, raises' >= raises, accepted'[j] >= accepted[j],
         \A i \in DOMAIN l :
             \/ l[i] = "DELIVERED" /\ accepted'[j] > 0
             \/ \E k \in DOMAIN log[j] : l[i] = log[j][k]
  PROVE  Entry(j)'
<1>1. Pending(j)
  BY SenderHolds DEF Pending
<1>2. /\ accepted[j] \in Nat /\ losses \in Nat /\ raises \in Nat
      /\ accepted'[j] \in Nat /\ losses' \in Nat /\ raises' \in Nat
      /\ Len(l) \in Nat
  BY DEF HandsInv, WebhookTypeOK
<1>3. ASSUME NEW i \in DOMAIN l
      PROVE  l[i] # "FAILED_DELIVERY" /\ (l[i] = "DELIVERED" => accepted'[j] > 0)
  <2>1. CASE l[i] = "DELIVERED" /\ accepted'[j] > 0
    BY <2>1
  <2>2. ASSUME NEW k \in DOMAIN log[j], l[i] = log[j][k]
        PROVE  /\ l[i] # "FAILED_DELIVERY"
               /\ l[i] = "DELIVERED" => accepted'[j] > 0
    <3>1. Meant(j, l[i])
      BY <2>2 DEF Entry
    <3> QED
      BY <1>1, <1>2, <3>1 DEF Meant
  <2> QED
    BY <1>3, <2>1, <2>2
<1>4. log \in [Jobs -> Seq(Verdicts)]
  BY DEF HandsInv, WebhookTypeOK
<1>5. CASE AttemptsLeft(j)
  <2>1. log'[j] = l
    BY <1>4, <1>5 DEF NotDelivered
  <2>2. Counted(j)'
    BY <1>2, <2>1 DEF Counted
  <2>3. \A i \in DOMAIN l : Meant(j, l[i])'
    BY <1>3 DEF Meant
  <2> QED
    BY <2>1, <2>2, <2>3 DEF Entry
<1>6. CASE ~AttemptsLeft(j)
  <2> DEFINE m == Append(l, "FAILED_DELIVERY")
  <2>1. log'[j] = m /\ Done(s)
    BY <1>4, <1>6 DEF NotDelivered
  <2>2. /\ Len(m) = Len(l) + 1
        /\ \A i \in DOMAIN m : \/ i \in DOMAIN l /\ m[i] = l[i]
                               \/ m[i] = "FAILED_DELIVERY"
    OBVIOUS
  <2> HIDE DEF m
  <2>3. attempts'[j] = MaxAttempts
    <3>1. attempts[j] \in 0..MaxAttempts
      BY DEF HandsInv, WebhookTypeOK
    <3> QED
      BY <1>6, <3>1, WebhookAssumption DEF AttemptsLeft
  <2>4. ~Pending(j)'
    <3>1. Held' = Held \ {j} /\ Queued' = Queued
      BY <2>1, DoneHeld DEF Queued
    <3> QED
      BY <3>1, SenderHolds DEF Pending
  <2>5. accepted'[j] > 0 => losses' + raises' > 0
    BY <1>2
  <2>6. ASSUME NEW i \in DOMAIN m PROVE Meant(j, m[i])'
    <3>1. Meant(j, "FAILED_DELIVERY")'
      BY <2>3, <2>4, <2>5 DEF Meant
    <3>2. ASSUME i \in DOMAIN l, m[i] = l[i] PROVE Meant(j, m[i])'
      BY <1>3, <3>2 DEF Meant
    <3> QED
      BY <2>2, <2>6, <3>1, <3>2
  <2>7. Counted(j)'
    BY <1>2, <2>1, <2>2, <2>4, SMTT(30) DEF Counted
  <2> QED
    BY <2>1, <2>6, <2>7 DEF Entry
<1> QED
  BY <1>5, <1>6

\* DELIVERED is the end of a callback whose answer arrived.
LEMMA DeliveredEntry ==
  ASSUME HandsInv, HandsInv', NEW s \in Senders, PostDelivered(s),
         NEW j \in Jobs, j = job[s], Entry(j)
  PROVE  Entry(j)'
<1> DEFINE m == Append(log[j], "DELIVERED")
<1>1. /\ pc[s] = "post" /\ Done(s)
      /\ UNCHANGED <<queue, attempts, scheduled, losses, raises>>
      /\ log' = [log EXCEPT ![j] = m]
      /\ accepted' = [accepted EXCEPT ![j] = @ + 1]
  BY DEF PostDelivered, Delivered, Accept
<1>2. /\ accepted[j] \in Nat /\ losses \in Nat /\ raises \in Nat
      /\ log[j] \in Seq(Verdicts) /\ Len(log[j]) \in Nat
      /\ accepted'[j] = accepted[j] + 1 /\ log'[j] = m
  BY <1>1 DEF HandsInv, WebhookTypeOK
<1>3. /\ Len(m) = Len(log[j]) + 1
      /\ \A i \in DOMAIN m : \/ i \in DOMAIN log[j] /\ m[i] = log[j][i]
                             \/ m[i] = "DELIVERED"
  BY <1>2
<1> HIDE DEF m
<1>4. Pending(j)
  BY <1>1, SenderHolds DEF Pending
<1>5. ~Pending(j)'
  <2>1. Held' = Held \ {j} /\ Queued' = Queued
    BY <1>1, DoneHeld DEF Queued
  <2> QED
    BY <1>1, <2>1, SenderHolds DEF Pending
<1>6. Counted(j)'
  BY <1>1, <1>2, <1>3, <1>4, <1>5 DEF Entry, Counted
<1>7. accepted'[j] > 0
  BY <1>2
<1>8. ASSUME NEW i \in DOMAIN m PROVE m[i] # "FAILED_DELIVERY"
  <2>1. ASSUME i \in DOMAIN log[j], m[i] = log[j][i]
        PROVE  m[i] # "FAILED_DELIVERY"
    BY <1>4, <2>1 DEF Entry, Meant
  <2> QED
    BY <1>3, <1>8, <2>1
<1>9. ASSUME NEW i \in DOMAIN log'[j] PROVE Meant(j, log[j][i])'
  BY <1>2, <1>7, <1>8, <1>9 DEF Meant
<1> QED
  BY <1>6, <1>9 DEF Entry

\* A POST keeps the books of the callback it was for.
LEMMA PostsEntry ==
  ASSUME HandsInv, HandsInv', NEW s \in Senders, Posts(s),
         NEW j \in Jobs, j = job[s], Entry(j)
  PROVE  Entry(j)'
<1>1. pc[s] = "post" /\ UNCHANGED <<queue, scheduled, attempts>>
  BY PostsEnd DEF PostEnds
<1>2. Pending(j)
  BY <1>1, SenderHolds DEF Pending
<1>3. /\ accepted[j] \in Nat /\ losses \in Nat /\ raises \in Nat
      /\ log[j] \in Seq(Verdicts) /\ Len(log[j]) \in Nat
  BY DEF HandsInv, WebhookTypeOK
<1>4. accepted[j] <= losses + raises /\ Len(log[j]) <= raises
  BY <1>2 DEF Entry, Counted
<1>5. CASE PostDelivered(s)
  BY <1>5, DeliveredEntry
<1>6. CASE PostAuditRaises(s)
  <2> DEFINE m == Append(log[j], "DELIVERED")
  <2>1. /\ raises' = raises + 1 /\ losses' = losses
        /\ accepted' = [accepted EXCEPT ![j] = @ + 1]
        /\ NotDelivered(s, m)
    BY <1>6 DEF PostAuditRaises, Accept
  <2>2. accepted'[j] = accepted[j] + 1
    BY <2>1 DEF HandsInv, WebhookTypeOK
  <2>3. /\ m \in Seq(Verdicts) /\ Len(m) = Len(log[j]) + 1
        /\ \A i \in DOMAIN m : \/ i \in DOMAIN log[j] /\ m[i] = log[j][i]
                               \/ m[i] = "DELIVERED"
    BY <1>3 DEF Verdicts
  <2> HIDE DEF m
  <2>4. /\ accepted'[j] <= losses' + raises' /\ Len(m) <= raises'
        /\ losses' >= losses /\ raises' >= raises /\ accepted'[j] >= accepted[j]
        /\ accepted'[j] > 0
    BY <1>3, <1>4, <2>1, <2>2, <2>3
  <2>5. \A i \in DOMAIN m : \/ m[i] = "DELIVERED" /\ accepted'[j] > 0
                            \/ \E k \in DOMAIN log[j] : m[i] = log[j][k]
    BY <2>3, <2>4
  <2> QED
    BY <1>1, <2>1, <2>3, <2>4, <2>5, NotDeliveredEntry
<1>7. CASE PostAnswerLost(s)
  <2>1. /\ raises' = raises /\ losses' = losses + 1
        /\ accepted' = [accepted EXCEPT ![j] = @ + 1]
        /\ NotDelivered(s, log[j])
    BY <1>7 DEF PostAnswerLost, Accept
  <2>2. accepted'[j] = accepted[j] + 1
    BY <2>1 DEF HandsInv, WebhookTypeOK
  <2>3. /\ accepted'[j] <= losses' + raises' /\ Len(log[j]) <= raises'
        /\ losses' >= losses /\ raises' >= raises /\ accepted'[j] >= accepted[j]
    BY <1>3, <1>4, <2>1, <2>2
  <2> QED
    BY <1>1, <1>3, <2>1, <2>3, NotDeliveredEntry
<1>8. CASE PostRefused(s)
  <2>1. /\ raises' = raises /\ losses' = losses /\ accepted' = accepted
        /\ NotDelivered(s, log[j])
    BY <1>8 DEF PostRefused
  <2>2. /\ accepted'[j] <= losses' + raises' /\ Len(log[j]) <= raises'
        /\ losses' >= losses /\ raises' >= raises /\ accepted'[j] >= accepted[j]
    BY <1>3, <1>4, <2>1
  <2> QED
    BY <1>1, <1>3, <2>1, <2>2, NotDeliveredEntry
<1> QED
  BY <1>5, <1>6, <1>7, <1>8 DEF Posts

\* No step disturbs the ledger.
LEMMA NextLedger ==
  ASSUME WebhookInv, Next
  PROVE  Ledger'
<1> HandsInv /\ Ledger
  BY DEF WebhookInv
<1>1. HandsInv' /\ \A j \in Jobs : Pending(j)' => Pending(j)
  BY NextHands
<1>2. losses \in Nat /\ raises \in Nat
  BY DEF HandsInv, WebhookTypeOK
<1> SUFFICES ASSUME NEW j \in Jobs PROVE Entry(j)'
  BY DEF Ledger
<1>3. Entry(j)
  BY DEF Ledger
<1>4. ASSUME NEW i \in Jobs, Schedule(i) PROVE Entry(j)'
  BY <1>1, <1>2, <1>3, <1>4, EntryKept DEF Schedule
<1>5. CASE Crash
  BY <1>1, <1>2, <1>3, <1>5, EntryKept DEF Crash
<1>6. ASSUME NEW s \in Senders, Take(s) PROVE Entry(j)'
  <2>1. attempts'[j] = attempts[j] \/ Pending(j)
    <3>1. attempts' = [attempts EXCEPT ![Head(queue)] = 1]
      BY <1>6 DEF Take
    <3>2. Head(queue) \in Queued
      BY <1>6, TakeHands
    <3> QED
      BY <3>1, <3>2 DEF Pending, HandsInv, WebhookTypeOK
  <2>2. UNCHANGED <<accepted, log, losses, raises>>
    BY <1>6 DEF Take
  <2> QED
    BY <1>1, <1>2, <1>3, <2>1, <2>2, EntryKept
<1>7. ASSUME NEW s \in Senders, TakeRaises(s) PROVE Entry(j)'
  <2>1. UNCHANGED <<accepted, log, losses, attempts>> /\ raises' >= raises
    BY <1>2, <1>7 DEF TakeRaises
  <2> QED
    BY <1>1, <1>2, <1>3, <2>1, EntryKept
<1>8. ASSUME NEW s \in Senders, Retry(s) PROVE Entry(j)'
  <2>1. attempts'[j] = attempts[j] \/ Pending(j)
    <3>1. /\ attempts' = [attempts EXCEPT ![job[s]] = @ + 1]
          /\ pc[s] # "get"
      BY <1>8 DEF Retry, RetryDue
    <3>2. job[s] \in Held
      BY <3>1, SenderHolds
    <3> QED
      BY <3>1, <3>2 DEF Pending, HandsInv, WebhookTypeOK
  <2>2. UNCHANGED <<accepted, log, losses, raises>>
    BY <1>8 DEF Retry
  <2> QED
    BY <1>1, <1>2, <1>3, <2>1, <2>2, EntryKept
<1>9. ASSUME NEW s \in Senders, Posts(s) PROVE Entry(j)'
  <2>1. CASE j = job[s]
    BY <1>1, <1>3, <1>9, <2>1, PostsEntry
  <2>2. CASE j # job[s]
    <3>1. accepted'[j] = accepted[j]
      BY <1>9, <2>2 DEF Posts, PostDelivered, PostAuditRaises, PostAnswerLost,
                        PostRefused, Accept, HandsInv, WebhookTypeOK
    <3>2. log'[j] = log[j]
      BY <1>9, <2>2 DEF Posts, PostDelivered, PostAuditRaises, PostAnswerLost,
                        PostRefused, Delivered, NotDelivered, HandsInv,
                        WebhookTypeOK
    <3>3. losses' >= losses /\ raises' >= raises
      BY <1>2, <1>9 DEF Posts, PostDelivered, PostAuditRaises, PostAnswerLost,
                        PostRefused
    <3>4. attempts' = attempts
      BY <1>9, PostsEnd DEF PostEnds
    <3> QED
      BY <1>1, <1>3, <3>1, <3>2, <3>3, <3>4, EntryKept
  <2> QED
    BY <2>1, <2>2
<1> QED
  BY <1>4, <1>5, <1>6, <1>7, <1>8, <1>9 DEF Next, SenderStep, Posts

\* Every step keeps the whole invariant.
LEMMA NextWebhook == WebhookInv /\ [Next]_vars => WebhookInv'
<1> SUFFICES ASSUME WebhookInv, [Next]_vars PROVE WebhookInv'
  OBVIOUS
<1>1. CASE Next
  BY <1>1, NextHands, NextLedger DEF WebhookInv
<1>2. CASE UNCHANGED vars
  <2>1. Queued' = Queued /\ Held' = Held
    BY <1>2 DEF vars, Queued, Held
  <2>2. HandsInv'
    BY <1>2, <2>1 DEF vars, WebhookInv, HandsInv, WebhookTypeOK, SendersOK,
                      InFlight
  <2>3. Ledger'
    BY <1>2, <2>1 DEF vars, WebhookInv, Ledger, Entry, Counted, Meant, Pending
  <2> QED
    BY <2>2, <2>3 DEF WebhookInv
<1> QED
  BY <1>1, <1>2

\* The invariant holds of every behaviour.
LEMMA WebhookInvariant == Spec => []WebhookInv
BY InitWebhook, NextWebhook, PTL DEF Spec

\* A callback is in the queue once or in the hands of one task, and no task makes
\* more attempts than the schedule has, for any number of callbacks and tasks.
THEOREM OneSender == Spec => []WebhookTypeOK
<1>1. WebhookInv => WebhookTypeOK
  BY DEF WebhookInv, HandsInv
<1> QED
  BY <1>1, WebhookInvariant, PTL

\* The delivery log tells the truth: DELIVERED was received, FAILED_DELIVERY used
\* up the schedule, and was received only if a fault hid it.
THEOREM LogIsTrue == Spec => []VerdictSound
<1>1. WebhookInv => VerdictSound
  BY DEF WebhookInv, Ledger, Entry, Meant, VerdictSound
<1> QED
  BY <1>1, WebhookInvariant, PTL

\* A receiver sees a callback again, and a callback has a second verdict, at most
\* once per lost answer or exception of the database.
THEOREM RepeatsAreFaults == Spec => []RepeatsExplained
<1>1. WebhookInv => RepeatsExplained
  BY DEF WebhookInv, Ledger, Entry, Counted, RepeatsExplained
<1> QED
  BY <1>1, WebhookInvariant, PTL
=============================================================================
