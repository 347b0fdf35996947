----------------------------- MODULE BusProofs -----------------------------
(***************************************************************************)
(* Proofs about EventBus, for any events, subscribers, number of delivery  *)
(* attempts and amount of pruning, and about Consumer, for any consumers   *)
(* and wiring.                                                             *)
(***************************************************************************)
EXTENDS Consumer, FiniteSetTheorems, TLAPS

\* A subscription in its handler or in backoff has an event in hand.
InHand ==
    \A g \in Groups : sub[g] \in {"deliver", "backoff"} => current[g] \in Events

BusInv == BusTypeOK /\ InHand /\ NoLostWakeup

\* An empty bus satisfies the invariant.
LEMMA InitBus == Init => BusInv
BY BusAssumption
   DEF Init, BusInv, BusTypeOK, InHand, NoLostWakeup, PubStates, SubStates

\* The head of the delivery loop: the task waits only if there is nothing at
\* its offset, and otherwise takes an event.
LEMMA FetchOK ==
  ASSUME BusInv, NEW g \in Groups, NEW n \in Nat, Fetch(g, n), log' = log,
         offset' = [offset EXCEPT ![g] = n]
  PROVE  /\ sub' \in [Groups -> SubStates]
         /\ current' \in [Groups -> Events \cup {None}]
         /\ attempt' \in [Groups -> Nat]
         /\ offset' \in [Groups -> Nat]
         /\ InHand' /\ NoLostWakeup'
<1>1. /\ sub \in [Groups -> SubStates] /\ offset \in [Groups -> Nat]
      /\ current \in [Groups -> Events \cup {None}]
      /\ attempt \in [Groups -> Nat] /\ log \in Seq(Events)
      /\ InHand /\ NoLostWakeup
  BY DEF BusInv, BusTypeOK
<1>2. offset' \in [Groups -> Nat]
  BY <1>1
<1>3. CASE n >= Len(log)
  <2>1. /\ sub' = [sub EXCEPT ![g] = "waiting"]
        /\ current' = [current EXCEPT ![g] = None]
        /\ attempt' = [attempt EXCEPT ![g] = 0]
    BY <1>3 DEF Fetch
  <2>2. InHand'
    BY <1>1, <2>1 DEF InHand
  <2>3. NoLostWakeup'
    BY <1>1, <1>3, <2>1 DEF NoLostWakeup
  <2> QED
    BY <1>1, <1>2, <2>1, <2>2, <2>3 DEF SubStates
<1>4. CASE ~(n >= Len(log))
  <2>1. /\ sub' = [sub EXCEPT ![g] = "deliver"]
        /\ current' = [current EXCEPT ![g] = log[n + 1]]
        /\ attempt' = [attempt EXCEPT ![g] = 1]
    BY <1>4 DEF Fetch
  <2>2. log[n + 1] \in Events
    BY <1>1, <1>4
  <2>3. InHand'
    BY <1>1, <2>1, <2>2 DEF InHand
  <2>4. NoLostWakeup'
    BY <1>1, <2>1 DEF NoLostWakeup
  <2> QED
    BY <1>1, <1>2, <2>1, <2>2, <2>3, <2>4 DEF SubStates
<1> QED
  BY <1>3, <1>4

\* Leaving an event behind records its fate.
LEMMA LeaveOK ==
  ASSUME BusInv, NEW g \in Groups, NEW dead \in BOOLEAN, Leave(g, dead),
         sub[g] \in {"deliver", "backoff"}, log' = log
  PROVE  /\ sub' \in [Groups -> SubStates]
         /\ current' \in [Groups -> Events \cup {None}]
         /\ attempt' \in [Groups -> Nat]
         /\ offset' \in [Groups -> Nat]
         /\ fates' \in [Groups -> Seq(Fate)]
         /\ InHand' /\ NoLostWakeup'
<1>1. offset[g] + 1 \in Nat
  BY DEF BusInv, BusTypeOK
<1>2. [event |-> current[g], calls |-> attempt[g], dead |-> dead] \in Fate
  BY DEF BusInv, BusTypeOK, InHand, Fate
<1>3. fates' \in [Groups -> Seq(Fate)]
  BY <1>2 DEF BusInv, BusTypeOK, Leave
<1> QED
  BY <1>1, <1>3, FetchOK DEF Leave

\* Every step of publishers, subscriptions and retention keeps the invariant.
LEMMA NextBus == BusInv /\ [Next]_vars => BusInv'
<1> SUFFICES ASSUME BusInv, [Next]_vars PROVE BusInv'
  OBVIOUS
<1> USE DEF busVars, subVars
<1>1. ASSUME NEW up \in BOOLEAN, SetBus(up) PROVE BusInv'
  BY <1>1 DEF SetBus, BusInv, BusTypeOK, InHand, NoLostWakeup
<1>2. ASSUME NEW e \in Events, Publish(e) PROVE BusInv'
  <2>1. BusTypeOK'
    BY <1>2 DEF Publish, Notified, BusInv, BusTypeOK, PubStates, SubStates
  <2>2. InHand'
    BY <1>2 DEF Publish, Notified, BusInv, BusTypeOK, InHand
  <2>3. NoLostWakeup'
    BY <1>2 DEF Publish, Notified, BusInv, BusTypeOK, NoLostWakeup
  <2> QED
    BY <2>1, <2>2, <2>3 DEF BusInv
<1>3. ASSUME NEW e \in Events, PublishBlocks(e) PROVE BusInv'
  BY <1>3 DEF PublishBlocks, BusInv, BusTypeOK, PubStates, InHand, NoLostWakeup
<1>4. ASSUME NEW g \in Groups, Subscribe(g) \/ Unsubscribe(g) PROVE BusInv'
  <2>1. BusTypeOK'
    <3>1. CASE Subscribe(g)
      BY <3>1 DEF Subscribe, BusInv, BusTypeOK, SubStates
    <3>2. CASE Unsubscribe(g)
      BY <3>2 DEF Unsubscribe, BusInv, BusTypeOK, SubStates
    <3> QED
      BY <1>4, <3>1, <3>2
  <2>2. InHand' /\ NoLostWakeup'
    BY <1>4 DEF Subscribe, Unsubscribe, BusInv, BusTypeOK, InHand, NoLostWakeup
  <2> QED
    BY <2>1, <2>2 DEF BusInv
<1>5. ASSUME NEW g \in Groups, Wake(g) PROVE BusInv'
  <2>1. offset' = [offset EXCEPT ![g] = offset[g]] /\ offset[g] \in Nat
    BY <1>5 DEF Wake, BusInv, BusTypeOK
  <2> QED
    BY <1>5, <2>1, FetchOK DEF Wake, BusInv, BusTypeOK
<1>6. ASSUME NEW g \in Groups, HandlerReturns(g) PROVE BusInv'
  BY <1>6, LeaveOK DEF HandlerReturns, BusInv, BusTypeOK
<1>7. ASSUME NEW g \in Groups, HandlerRaises(g) \/ Redeliver(g) PROVE BusInv'
  <2>1. BusTypeOK'
    <3>1. CASE HandlerRaises(g)
      BY <3>1 DEF HandlerRaises, BusInv, BusTypeOK, SubStates
    <3>2. CASE Redeliver(g)
      BY <3>2 DEF Redeliver, BusInv, BusTypeOK, SubStates
    <3> QED
      BY <1>7, <3>1, <3>2
  <2>2. InHand' /\ NoLostWakeup'
    BY <1>7
       DEF HandlerRaises, Redeliver, BusInv, BusTypeOK, InHand, NoLostWakeup
  <2> QED
    BY <2>1, <2>2 DEF BusInv
<1>8. ASSUME NEW g \in Groups, DeadLetter(g) PROVE BusInv'
  <2>1. dlq' \in Seq(Events)
    BY <1>8 DEF DeadLetter, BusInv, BusTypeOK, InHand
  <2> QED
    BY <1>8, <2>1, LeaveOK DEF DeadLetter, BusInv, BusTypeOK
<1>9. CASE PruneExpired
  <2>1. PICK n \in 1..Len(log) : log' = SubSeq(log, n + 1, Len(log))
    BY <1>9 DEF PruneExpired
  <2>2. log' \in Seq(Events) /\ Len(log') <= Len(log)
    BY <2>1 DEF BusInv, BusTypeOK
  <2> QED
    BY <1>9, <2>2 DEF PruneExpired, BusInv, BusTypeOK, InHand, NoLostWakeup
<1>10. CASE UNCHANGED vars
  BY <1>10 DEF vars, BusInv, BusTypeOK, InHand, NoLostWakeup
<1> QED
  BY <1>1, <1>2, <1>3, <1>4, <1>5, <1>6, <1>7, <1>8, <1>9, <1>10
     DEF Next, SubscriptionStep

\* A subscription never sleeps on the condition while an event waits at its
\* offset: every publish() notifies it, and it looks at the topic again before
\* every wait.
THEOREM NoWakeupIsLost == Spec => [](BusTypeOK /\ NoLostWakeup)
<1>1. BusInv => BusTypeOK /\ NoLostWakeup
  BY DEF BusInv
<1> QED
  BY <1>1, InitBus, NextBus, PTL DEF Spec
-----------------------------------------------------------------------------
(***************************************************************************)
(* Every event once, in order.                                             *)
(***************************************************************************)

\* A subscription has an event in hand only between two looks at the topic, and
\* calls its handler for it MaxAttempts times at most.
Attempts ==
    \A g \in Groups :
        /\ sub[g] \in {"deliver", "backoff"} => attempt[g] \in 1..MaxAttempts
        /\ sub[g] \notin {"deliver", "backoff"} => current[g] = None

\* What became of one event.
FateOK(f) ==
    /\ f.calls \in 1..MaxAttempts
    /\ f.dead => f.calls = MaxAttempts

\* A subscription's offset counts the events it left behind, which are the first
\* ones of the topic, and points at the one in hand.
InOrder(g) ==
    /\ Len(fates[g]) = offset[g] /\ offset[g] <= Len(log)
    /\ \A i \in 1..offset[g] : fates[g][i].event = log[i] /\ FateOK(fates[g][i])
    /\ current[g] # None => offset[g] < Len(log) /\ current[g] = log[offset[g] + 1]

OrderInv ==
    /\ BusInv /\ Attempts
    /\ prunes = 0 => \A g \in Groups : sub[g] # "none" => InOrder(g)

\* The head of the loop takes the event at its offset, for the first time.
LEMMA FetchInOrder ==
  ASSUME BusInv, Attempts, NEW g \in Groups, NEW n \in Nat, Fetch(g, n)
  PROVE  /\ Attempts'
         /\ sub'[g] # "none"
         /\ n <= Len(log) /\ current'[g] # None =>
                n < Len(log) /\ current'[g] = log[n + 1]
         /\ \A h \in Groups \ {g} : sub'[h] = sub[h] /\ current'[h] = current[h]
<1>1. /\ sub \in [Groups -> SubStates] /\ current \in [Groups -> Events \cup {None}]
      /\ attempt \in [Groups -> Nat] /\ log \in Seq(Events)
  BY DEF BusInv, BusTypeOK
<1>2. CASE n >= Len(log)
  BY <1>1, <1>2 DEF Fetch, Attempts
<1>3. CASE ~(n >= Len(log))
  BY <1>1, <1>3, BusAssumption DEF Fetch, Attempts
<1> QED
  BY <1>2, <1>3

\* Leaving an event behind appends its fate to those of the events before it.
LEMMA LeaveInOrder ==
  ASSUME OrderInv, NEW g \in Groups, NEW dead \in BOOLEAN, Leave(g, dead),
         sub[g] \in {"deliver", "backoff"}, dead => attempt[g] >= MaxAttempts,
         UNCHANGED <<log, prunes>>
  PROVE  /\ Attempts'
         /\ prunes' = 0 => \A h \in Groups : sub'[h] # "none" => InOrder(h)'
<1> DEFINE rec == [event |-> current[g], calls |-> attempt[g], dead |-> dead]
<1>1. /\ fates \in [Groups -> Seq(Fate)] /\ offset \in [Groups -> Nat]
      /\ log \in Seq(Events) /\ current[g] \in Events /\ BusInv /\ Attempts
      /\ current[g] # None /\ attempt[g] \in 1..MaxAttempts
  BY BusAssumption DEF OrderInv, BusInv, BusTypeOK, InHand, Attempts
<1>2. /\ Attempts' /\ sub'[g] # "none"
      /\ offset[g] + 1 <= Len(log) /\ current'[g] # None =>
             offset[g] + 1 < Len(log) /\ current'[g] = log[offset[g] + 1 + 1]
      /\ \A h \in Groups \ {g} : sub'[h] = sub[h] /\ current'[h] = current[h]
  BY <1>1, FetchInOrder DEF Leave
<1>3. rec \in Fate /\ FateOK(rec)
  BY <1>1, BusAssumption DEF Fate, FateOK
<1>4. /\ offset'[g] = offset[g] + 1 /\ fates'[g] = Append(fates[g], rec)
      /\ \A h \in Groups \ {g} : offset'[h] = offset[h] /\ fates'[h] = fates[h]
  BY <1>1 DEF Leave
<1>5. ASSUME prunes' = 0, NEW h \in Groups, sub'[h] # "none"
      PROVE  InOrder(h)'
  <2>1. CASE h # g
    BY <1>2, <1>4, <1>5, <2>1 DEF OrderInv, InOrder
  <2>2. CASE h = g
    <3>1. InOrder(g)
      BY <1>5 DEF OrderInv
    <3>2. /\ Len(fates'[g]) = offset'[g] /\ offset'[g] <= Len(log)
          /\ rec.event = log[offset'[g]]
      BY <1>1, <1>3, <1>4, <3>1 DEF InOrder
    <3>3. \A i \in 1..offset[g] : fates'[g][i] = fates[g][i]
      BY <1>1, <1>3, <1>4, <3>1 DEF InOrder
    <3>4. fates'[g][offset'[g]] = rec
      BY <1>1, <1>3, <1>4, <3>1 DEF InOrder
    <3>5. ASSUME NEW i \in 1..offset'[g]
          PROVE  fates'[g][i].event = log[i] /\ FateOK(fates'[g][i])
      <4>1. CASE i \in 1..offset[g]
        BY <3>1, <3>3, <4>1 DEF InOrder
      <4>2. CASE i = offset'[g]
        BY <1>3, <3>2, <3>4, <4>2
      <4>3. offset[g] \in Nat /\ offset'[g] = offset[g] + 1
        BY <1>1, <1>4
      <4>4. i \in 1..offset[g] \/ i = offset'[g]
        BY <4>3
      <4> QED
        BY <4>1, <4>2, <4>4
    <3> QED
      BY <1>2, <1>4, <2>2, <3>2, <3>5 DEF InOrder, FateOK
  <2> QED
    BY <2>1, <2>2
<1> QED
  BY <1>2, <1>5

\* Every step keeps the order.
LEMMA NextOrder == OrderInv /\ [Next]_vars => OrderInv'
<1> SUFFICES ASSUME OrderInv, [Next]_vars
             PROVE  /\ Attempts'
                    /\ prunes' = 0 => \A h \in Groups : sub'[h] # "none" => InOrder(h)'
  BY NextBus DEF OrderInv
<1> USE DEF busVars, subVars
<1>a. /\ BusInv /\ Attempts
      /\ sub \in [Groups -> SubStates] /\ offset \in [Groups -> Nat]
      /\ current \in [Groups -> Events \cup {None}] /\ attempt \in [Groups -> Nat]
      /\ fates \in [Groups -> Seq(Fate)] /\ log \in Seq(Events) /\ prunes \in Nat
  BY DEF OrderInv, BusInv, BusTypeOK
<1>1. CASE \/ UNCHANGED vars \/ \E up \in BOOLEAN : SetBus(up)
           \/ \E e \in Events : PublishBlocks(e)
  <2>1. UNCHANGED <<log, subVars, prunes>>
    BY <1>1 DEF vars, SetBus, PublishBlocks
  <2> QED
    BY <2>1 DEF OrderInv, Attempts, InOrder, FateOK
<1>2. ASSUME NEW e \in Events, Publish(e)
      PROVE  /\ Attempts'
             /\ prunes' = 0 => \A h \in Groups : sub'[h] # "none" => InOrder(h)'
  <2>1. /\ log' = Append(log, e) /\ UNCHANGED <<offset, current, attempt, fates, prunes>>
        /\ \A h \in Groups : sub'[h] = Notified(h)
    BY <1>2 DEF Publish
  <2>2. \A h \in Groups : /\ sub'[h] # "none" => sub[h] # "none"
                          /\ sub'[h] \in {"deliver", "backoff"} <=>
                                sub[h] \in {"deliver", "backoff"}
    BY <2>1 DEF Notified
  <2>3. Attempts'
    BY <1>a, <2>1, <2>2 DEF Attempts
  <2>4. Len(log') = Len(log) + 1 /\ \A i \in 1..Len(log) : log'[i] = log[i]
    BY <1>a, <2>1
  <2>5. ASSUME prunes' = 0, NEW h \in Groups, sub'[h] # "none"
        PROVE  InOrder(h)'
    <3>1. InOrder(h) /\ offset[h] \in Nat /\ Len(log) \in Nat
      BY <1>a, <2>1, <2>2, <2>5 DEF OrderInv
    <3>2. /\ \A i \in 1..offset[h] : log'[i] = log[i]
          /\ offset[h] < Len(log) => log'[offset[h] + 1] = log[offset[h] + 1]
      BY <2>4, <3>1 DEF InOrder
    <3> QED
      BY <2>1, <2>4, <3>1, <3>2 DEF InOrder, FateOK
  <2> QED
    BY <2>3, <2>5
<1>3. ASSUME NEW g \in Groups, Subscribe(g)
      PROVE  /\ Attempts'
             /\ prunes' = 0 => \A h \in Groups : sub'[h] # "none" => InOrder(h)'
  <2>1. Attempts'
    BY <1>a, <1>3 DEF Subscribe, Attempts
  <2>2. ASSUME prunes' = 0, NEW h \in Groups, sub'[h] # "none"
        PROVE  InOrder(h)'
    <3>1. CASE h = g
      <4>1. /\ offset'[h] = 0 /\ fates'[h] = <<>> /\ log' = log
            /\ current'[h] = None
        BY <1>a, <1>3, <3>1 DEF Subscribe, Attempts
      <4> QED
        BY <1>a, <4>1 DEF InOrder
    <3>2. CASE h # g
      BY <1>a, <1>3, <2>2, <3>2 DEF Subscribe, OrderInv, InOrder, FateOK
    <3> QED
      BY <3>1, <3>2
  <2> QED
    BY <2>1, <2>2
<1>4. ASSUME NEW g \in Groups, Unsubscribe(g)
      PROVE  /\ Attempts'
             /\ prunes' = 0 => \A h \in Groups : sub'[h] # "none" => InOrder(h)'
  BY <1>a, <1>4 DEF Unsubscribe, OrderInv, Attempts, InOrder, FateOK
<1>5. ASSUME NEW g \in Groups, Wake(g)
      PROVE  /\ Attempts'
             /\ prunes' = 0 => \A h \in Groups : sub'[h] # "none" => InOrder(h)'
  <2>1. /\ Attempts'
        /\ offset[g] <= Len(log) /\ current'[g] # None =>
               offset[g] < Len(log) /\ current'[g] = log[offset[g] + 1]
        /\ \A h \in Groups \ {g} : sub'[h] = sub[h] /\ current'[h] = current[h]
    BY <1>a, <1>5, FetchInOrder DEF Wake
  <2>2. UNCHANGED <<log, offset, fates, prunes>> /\ sub[g] # "none"
    BY <1>5 DEF Wake
  <2> QED
    BY <2>1, <2>2 DEF OrderInv, InOrder, FateOK
<1>6. ASSUME NEW g \in Groups, HandlerReturns(g) \/ DeadLetter(g)
      PROVE  /\ Attempts'
             /\ prunes' = 0 => \A h \in Groups : sub'[h] # "none" => InOrder(h)'
  <2>1. CASE HandlerReturns(g)
    BY <2>1, LeaveInOrder DEF HandlerReturns
  <2>2. CASE DeadLetter(g)
    <3>1. attempt[g] >= MaxAttempts
      BY <1>a, <2>2, BusAssumption DEF DeadLetter, AttemptsLeft
    <3> QED
      BY <2>2, <3>1, LeaveInOrder DEF DeadLetter
  <2> QED
    BY <1>6, <2>1, <2>2
<1>7. ASSUME NEW g \in Groups, HandlerRaises(g) \/ Redeliver(g)
      PROVE  /\ Attempts'
             /\ prunes' = 0 => \A h \in Groups : sub'[h] # "none" => InOrder(h)'
  <2>1. Attempts'
    BY <1>a, <1>7, BusAssumption DEF HandlerRaises, Redeliver, AttemptsLeft, Attempts
  <2>2. UNCHANGED <<log, offset, current, fates, prunes>>
        /\ \A h \in Groups : sub'[h] # "none" => sub[h] # "none"
    BY <1>a, <1>7 DEF HandlerRaises, Redeliver
  <2> QED
    BY <2>1, <2>2 DEF OrderInv, InOrder, FateOK
<1>8. CASE PruneExpired
  BY <1>a, <1>8 DEF PruneExpired, Attempts
<1> QED
  BY <1>1, <1>2, <1>3, <1>4, <1>5, <1>6, <1>7, <1>8 DEF Next, SubscriptionStep

\* The events a subscription left behind are the beginning of the topic.
LEMMA FirstEvents ==
  ASSUME BusTypeOK, NEW g \in Groups, InOrder(g)
  PROVE  /\ DOMAIN fates[g] = 1..offset[g]
         /\ [i \in DOMAIN fates[g] |-> fates[g][i].event] = SubSeq(log, 1, offset[g])
<1>1. fates[g] \in Seq(Fate) /\ log \in Seq(Events) /\ offset[g] \in Nat
  BY DEF BusTypeOK
<1>2. DOMAIN fates[g] = 1..offset[g]
  BY <1>1 DEF InOrder
<1>3. SubSeq(log, 1, offset[g]) = [i \in 1..offset[g] |-> log[i]]
  BY <1>1 DEF InOrder
<1> QED
  BY <1>2, <1>3 DEF InOrder

\* A subscription goes through the topic in order and leaves every event behind
\* exactly once: whatever the other subscriptions, publishers and handlers do,
\* through redelivery, dead letters and a new subscription from the start.
THEOREM OnceInOrder == Spec => []EachEventOnceInOrder
<1>1. Init => OrderInv
  BY InitBus DEF Init, OrderInv, Attempts
<1>2. OrderInv => EachEventOnceInOrder
  <2> SUFFICES ASSUME OrderInv, prunes = 0, NEW g \in Groups, sub[g] # "none"
               PROVE  /\ [i \in DOMAIN fates[g] |-> fates[g][i].event]
                             = SubSeq(log, 1, offset[g])
                      /\ \A i \in DOMAIN fates[g] :
                             /\ fates[g][i].calls \in 1..MaxAttempts
                             /\ fates[g][i].dead => fates[g][i].calls = MaxAttempts
                      /\ current[g] # None => current[g] = log[offset[g] + 1]
    BY DEF EachEventOnceInOrder
  <2>1. BusTypeOK /\ InOrder(g)
    BY DEF OrderInv, BusInv
  <2> QED
    BY <2>1, FirstEvents DEF InOrder, FateOK
<1> QED
  BY <1>1, <1>2, NextOrder, PTL DEF Spec
-----------------------------------------------------------------------------
(***************************************************************************)
(* The consumer.  The bus keeps its invariant because every step of the    *)
(* composition is a step of EventBus or leaves the bus alone; on top of it *)
(* an id that is in seen_event_ids is that of an event which was processed *)
(* or not asked for.                                                       *)
(***************************************************************************)

\* The part of the type invariant that is not about the bus.
HandlersOK ==
    /\ eventId \in EventIds
    /\ of \in Handlers
    /\ fetching \in SUBSET Groups
    /\ \A g \in fetching : sub[g] = "deliver" /\ current[g] \in Ready
    /\ seen \in [Consumers -> SUBSET Ids]
    /\ processed \in [Consumers -> [Events -> Nat]]

\* What a subscription reads has been published.
Published ==
    /\ \A i \in 1..Len(log) : pub[log[i]] = "done"
    /\ \A g \in Groups : current[g] # None => pub[current[g]] = "done"

\* An id that is not looked at again is accounted for.
SeenMeansProcessed ==
    \A c \in Consumers : \A i \in seen[c] : Accounted(c, i)

ConsumerInv ==
    BusInv /\ Published /\ HandlersOK /\ SeenMeansProcessed /\ HandledMeansProcessed

\* An event is published once, and is in the topic only after that.
LEMMA NextPublished ==
  ASSUME BusInv, Published, [Next]_vars
  PROVE  /\ Published'
         /\ \A e \in Events : pub[e] = "done" => pub'[e] = "done"
<1> USE DEF busVars, subVars
<1>1. /\ sub \in [Groups -> SubStates] /\ pub \in [Events -> PubStates]
      /\ current \in [Groups -> Events \cup {None}] /\ log \in Seq(Events)
      /\ offset \in [Groups -> Nat]
      /\ \A i \in 1..Len(log) : log[i] \in Events
  BY DEF BusInv, BusTypeOK
<1>2. ASSUME UNCHANGED pub,
             \A i \in 1..Len(log') : \E j \in 1..Len(log) : log'[i] = log[j],
             \A g \in Groups : \/ current'[g] \in {current[g], None}
                               \/ \E i \in 1..Len(log) : current'[g] = log[i]
      PROVE  Published' /\ \A e \in Events : pub[e] = "done" => pub'[e] = "done"
  <2>1. \A i \in 1..Len(log') : pub[log'[i]] = "done"
    BY <1>2 DEF Published
  <2>2. \A g \in Groups : current'[g] # None => pub[current'[g]] = "done"
    BY <1>2 DEF Published
  <2> QED
    BY <1>2, <2>1, <2>2 DEF Published
<1>3. ASSUME NEW g \in Groups, NEW n \in Nat, Fetch(g, n)
      PROVE  \A h \in Groups : \/ current'[h] \in {current[h], None}
                               \/ \E i \in 1..Len(log) : current'[h] = log[i]
  <2>1. CASE n >= Len(log)
    BY <1>1, <1>3, <2>1 DEF Fetch
  <2>2. CASE ~(n >= Len(log))
    <3>1. n + 1 \in 1..Len(log)
      BY <1>1, <2>2
    <3>2. current' = [current EXCEPT ![g] = log[n + 1]]
      BY <1>3, <2>2 DEF Fetch
    <3> QED
      BY <1>1, <3>1, <3>2
  <2> QED
    BY <2>1, <2>2
<1>4. ASSUME UNCHANGED <<pub, log, current>>
      PROVE  Published' /\ \A e \in Events : pub[e] = "done" => pub'[e] = "done"
  BY <1>4 DEF Published
<1>5. ASSUME NEW e \in Events, Publish(e)
      PROVE  Published' /\ \A d \in Events : pub[d] = "done" => pub'[d] = "done"
  <2>1. /\ log' = Append(log, e) /\ UNCHANGED current /\ pub'[e] = "done"
        /\ \A d \in Events : pub[d] = "done" => pub'[d] = "done"
    BY <1>1, <1>5 DEF Publish
  <2>2. \A i \in 1..Len(log') : log'[i] = e \/ (i \in 1..Len(log) /\ log'[i] = log[i])
    BY <1>1, <2>1
  <2> QED
    BY <1>1, <2>1, <2>2 DEF Published
<1>6. ASSUME NEW e \in Events, PublishBlocks(e)
      PROVE  Published' /\ \A d \in Events : pub[d] = "done" => pub'[d] = "done"
  <2>1. /\ UNCHANGED <<log, current>>
        /\ \A d \in Events : pub[d] = "done" => pub'[d] = "done"
    BY <1>1, <1>6 DEF PublishBlocks
  <2> QED
    BY <1>1, <2>1 DEF Published
<1>7. ASSUME NEW g \in Groups, Unsubscribe(g)
      PROVE  Published' /\ \A e \in Events : pub[e] = "done" => pub'[e] = "done"
  <2>1. UNCHANGED <<pub, log>> /\ \A h \in Groups : current'[h] \in {current[h], None}
    BY <1>1, <1>7 DEF Unsubscribe
  <2> QED
    BY <1>2, <2>1
<1>8. ASSUME NEW g \in Groups, Wake(g) \/ HandlerReturns(g) \/ DeadLetter(g)
      PROVE  Published' /\ \A e \in Events : pub[e] = "done" => pub'[e] = "done"
  <2>1. UNCHANGED <<pub, log>> /\ \E n \in Nat : Fetch(g, n)
    <3>1. offset[g] \in Nat /\ offset[g] + 1 \in Nat
      BY <1>1
    <3> QED
      BY <1>8, <3>1 DEF Wake, HandlerReturns, DeadLetter, Leave
  <2> QED
    BY <1>2, <1>3, <2>1
<1>9. CASE PruneExpired
  <2>1. PICK n \in 1..Len(log) : log' = SubSeq(log, n + 1, Len(log))
    BY <1>9 DEF PruneExpired
  <2>2. \A i \in 1..Len(log') : i + n \in 1..Len(log) /\ log'[i] = log[i + n]
    BY <1>1, <2>1
  <2>3. UNCHANGED <<pub, current>>
    BY <1>9 DEF PruneExpired
  <2> QED
    BY <1>2, <2>2, <2>3
<1>10. ASSUME \/ UNCHANGED vars \/ \E up \in BOOLEAN : SetBus(up)
              \/ \E g \in Groups : Subscribe(g) \/ HandlerRaises(g) \/ Redeliver(g)
       PROVE  UNCHANGED <<pub, log, current>>
  BY <1>10 DEF vars, SetBus, Subscribe, HandlerRaises, Redeliver
<1> QED
  BY <1>4, <1>5, <1>6, <1>7, <1>8, <1>9, <1>10 DEF Next, SubscriptionStep

\* What is accounted for stays so.
LEMMA AccountedStays ==
  ASSUME ConsumerInv, [Next]_vars, eventId' = eventId,
         processed' \in [Consumers -> [Events -> Nat]],
         \A c \in Consumers, e \in Events : processed'[c][e] >= processed[c][e],
         NEW c \in Consumers, NEW i, Accounted(c, i)
  PROVE  Accounted(c, i)'
<1>1. PICK e \in Events :
         eventId[e] = i /\ pub[e] = "done" /\ (e \in Ready => processed[c][e] > 0)
  BY DEF Accounted
<1>2. pub'[e] = "done"
  BY <1>1, NextPublished DEF ConsumerInv
<1>3. /\ processed[c][e] \in Nat /\ processed'[c][e] \in Nat
      /\ processed'[c][e] >= processed[c][e]
  BY DEF ConsumerInv, HandlersOK
<1> QED
  BY <1>1, <1>2, <1>3 DEF Accounted

\* With this handler the bus does nothing that it could not do with some
\* handler.
LEMMA StepIsBusStep == [ConsumerNext]_<<vars, consumerVars>> => [Next]_vars
<1> SUFFICES ASSUME [ConsumerNext]_<<vars, consumerVars>> PROVE [Next]_vars
  OBVIOUS
<1>1. CASE BusStep
  BY <1>1 DEF BusStep, Next
<1>2. ASSUME NEW g \in Groups, Disconnect(g) PROVE Next
  BY <1>2 DEF Disconnect, Next
<1>3. ASSUME NEW g \in Groups, ConsumerStep(g) PROVE [Next]_vars
  BY <1>3 DEF ConsumerStep, SkipEvent, Fetch_files, Process, FetchFails, Next,
              SubscriptionStep
<1> QED
  BY <1>1, <1>2, <1>3 DEF ConsumerNext

\* Everything proved of the bus holds of the bus with this handler.
THEOREM ConsumerImplementsBus == ConsumerSpec => Spec
<1>1. ConsumerInit => Init
  BY DEF ConsumerInit
<1> QED
  BY <1>1, StepIsBusStep, PTL DEF ConsumerSpec, Spec

LEMMA InitConsumer == ConsumerInit => ConsumerInv
BY InitBus, ConsumerAssumption
   DEF ConsumerInit, Init, ConsumerInv, Published, HandlersOK, SeenMeansProcessed,
       HandledMeansProcessed

\* A subscription that goes on to the next event touches no other one.
LEMMA OnlyThis ==
  ASSUME BusInv, NEW g \in Groups, NEW n \in Nat, Fetch(g, n)
  PROVE  /\ sub'[g] # "none"
         /\ \A h \in Groups \ {g} : sub'[h] = sub[h] /\ current'[h] = current[h]
BY DEF Fetch, BusInv, BusTypeOK

\* Leaving an event behind keeps HandledMeansProcessed, if the event is dead or
\* was not for the consumer or has been processed.
LEMMA LeaveHandled ==
  ASSUME ConsumerInv, NEW g \in Groups, NEW dead \in BOOLEAN, Leave(g, dead),
         sub[g] \in {"deliver", "backoff"}, of' = of, eventId' = eventId, log' = log,
         \A c \in Consumers, i \in Ids : Accounted(c, i) => Accounted(c, i)',
         current[g] \in Ready /\ ~dead =>
            \E c \in Consumers, i \in Ids : c = of[g] /\ i = IdOf(g) /\ Accounted(c, i)'
  PROVE  HandledMeansProcessed'
<1> DEFINE rec == [event |-> current[g], calls |-> attempt[g], dead |-> dead]
<1>1. /\ of \in [Groups -> Consumers] /\ eventId \in [Events -> Ids]
      /\ fates \in [Groups -> Seq(Fate)] /\ offset[g] + 1 \in Nat
  BY ConsumerAssumption DEF ConsumerInv, HandlersOK, EventIds, BusInv, BusTypeOK
<1>2. rec \in Fate
  BY DEF ConsumerInv, BusInv, BusTypeOK, InHand, Fate
<1>3. /\ fates'[g] = Append(fates[g], rec)
      /\ \A h \in Groups \ {g} : fates'[h] = fates[h]
  BY <1>1 DEF Leave
<1>4. \A h \in Groups \ {g} : sub'[h] = sub[h]
  BY <1>1, OnlyThis DEF Leave, ConsumerInv
<1> SUFFICES ASSUME NEW h \in Groups, sub'[h] # "none",
                    NEW i \in DOMAIN fates'[h],
                    fates'[h][i].event \in Ready, ~fates'[h][i].dead
             PROVE  Accounted(of[h], eventId[fates[h][i].event])'
  BY DEF HandledMeansProcessed
<1>5. ASSUME i \in DOMAIN fates[h], fates'[h][i] = fates[h][i], sub[h] # "none"
      PROVE  Accounted(of[h], eventId[fates[h][i].event])'
  <2>1. Accounted(of[h], eventId[fates[h][i].event])
    BY <1>5 DEF ConsumerInv, HandledMeansProcessed
  <2>2. fates[h][i].event \in Events /\ of[h] \in Consumers
    <3>1. fates[h] \in Seq(Fate)
      BY <1>1
    <3>2. fates[h][i] \in Fate
      BY <1>5, <3>1
    <3> QED
      BY <1>1, <3>2 DEF Fate
  <2>3. eventId[fates[h][i].event] \in Ids
    BY <1>1, <2>2
  <2> QED
    BY <1>5, <2>1, <2>2, <2>3
<1>6. CASE h # g
  BY <1>3, <1>4, <1>5, <1>6
<1>7. CASE h = g
  <2>1. CASE i \in DOMAIN fates[g]
    <3>1. fates'[g][i] = fates[g][i] /\ sub[g] # "none"
      BY <1>1, <1>2, <1>3, <2>1
    <3> QED
      BY <1>5, <1>7, <2>1, <3>1
  <2>2. CASE i \notin DOMAIN fates[g]
    <3>1. fates'[g][i] = rec
      BY <1>1, <1>2, <1>3, <1>7, <2>2
    <3>2. current[g] \in Ready /\ ~dead
      BY <1>7, <3>1
    <3> QED
      BY <1>7, <3>1, <3>2 DEF IdOf
  <2> QED
    BY <2>1, <2>2
<1> QED
  BY <1>6, <1>7

\* What a step does that leaves the handlers alone: a subscription keeps the
\* events it left behind, or is new, and changes only outside of its handler.
Undisturbed ==
    /\ eventId' = eventId /\ of' = of /\ fetching' = fetching
    /\ seen' = seen /\ processed' = processed
    /\ \A h \in Groups :
          \/ sub'[h] = sub[h] /\ current'[h] = current[h] /\ fates'[h] = fates[h]
          \/ h \notin fetching /\ fates'[h] = fates[h] /\ sub[h] # "none"
          \/ h \notin fetching /\ fates'[h] = <<>>

\* Such a step keeps what is said of the handlers.
LEMMA Untouched ==
  ASSUME ConsumerInv, Undisturbed,
         \A c \in Consumers, i \in Ids : Accounted(c, i) => Accounted(c, i)'
  PROVE  HandlersOK' /\ SeenMeansProcessed' /\ HandledMeansProcessed'
<1> USE DEF Undisturbed
<1>1. HandlersOK'
  BY DEF ConsumerInv, HandlersOK
<1>2. SeenMeansProcessed'
  BY DEF ConsumerInv, HandlersOK, SeenMeansProcessed
<1>3. HandledMeansProcessed'
  <2> SUFFICES ASSUME NEW g \in Groups, sub'[g] # "none", NEW i \in DOMAIN fates'[g],
                      fates'[g][i].event \in Ready, ~fates'[g][i].dead
               PROVE  Accounted(of[g], eventId[fates[g][i].event])'
    BY DEF HandledMeansProcessed
  <2>1. fates'[g] = fates[g] /\ sub[g] # "none"
    OBVIOUS
  <2>2. Accounted(of[g], eventId[fates[g][i].event])
    BY <2>1 DEF ConsumerInv, HandledMeansProcessed
  <2>3. of[g] \in Consumers /\ eventId[fates[g][i].event] \in Ids
    <3>1. fates[g] \in Seq(Fate)
      BY DEF ConsumerInv, BusInv, BusTypeOK
    <3>2. fates[g][i] \in Fate
      BY <2>1, <3>1
    <3> QED
      BY <3>2, ConsumerAssumption DEF Fate, ConsumerInv, HandlersOK, EventIds
  <2> QED
    BY <2>1, <2>2, <2>3
<1> QED
  BY <1>1, <1>2, <1>3

\* Every step of the bus and of the handlers keeps the invariant.
LEMMA NextConsumer ==
  ConsumerInv /\ [ConsumerNext]_<<vars, consumerVars>> => ConsumerInv'
<1> SUFFICES ASSUME ConsumerInv, [ConsumerNext]_<<vars, consumerVars>>
             PROVE  ConsumerInv'
  OBVIOUS
<1> USE DEF busVars, subVars
<1>1. BusInv' /\ Published'
  BY StepIsBusStep, NextBus, NextPublished DEF ConsumerInv
<1>a. ASSUME UNCHANGED <<eventId, processed>>,
             NEW c \in Consumers, NEW i \in Ids, Accounted(c, i)
      PROVE  Accounted(c, i)'
  <2>1. /\ processed' \in [Consumers -> [Events -> Nat]]
        /\ \A b \in Consumers, e \in Events : processed'[b][e] >= processed[b][e]
    BY <1>a DEF ConsumerInv, HandlersOK
  <2> QED
    BY <1>a, <2>1, StepIsBusStep, AccountedStays
<1>2. /\ sub \in [Groups -> SubStates] /\ offset \in [Groups -> Nat]
      /\ current \in [Groups -> Events \cup {None}]
      /\ fates \in [Groups -> Seq(Fate)]
      /\ of \in Handlers /\ of \in [Groups -> Consumers]
      /\ eventId \in [Events -> Ids]
      /\ fetching \in SUBSET Groups
      /\ \A g \in fetching : sub[g] = "deliver" /\ current[g] \in Ready
      /\ seen \in [Consumers -> SUBSET Ids]
      /\ processed \in [Consumers -> [Events -> Nat]]
  BY ConsumerAssumption DEF ConsumerInv, BusInv, BusTypeOK, HandlersOK, EventIds
<1>b. ASSUME UNCHANGED <<eventId, of, seen, processed, fates>>,
             \A h \in Groups : sub'[h] # "none" => sub[h] # "none"
      PROVE  SeenMeansProcessed' /\ HandledMeansProcessed'
  <2>1. SeenMeansProcessed'
    BY <1>2, <1>a, <1>b DEF ConsumerInv, SeenMeansProcessed
  <2>2. ASSUME NEW h \in Groups, NEW i \in DOMAIN fates[h]
        PROVE  of[h] \in Consumers /\ eventId[fates[h][i].event] \in Ids
    <3>1. fates[h] \in Seq(Fate)
      BY <1>2
    <3>2. fates[h][i] \in Fate
      BY <3>1
    <3> QED
      BY <1>2, <3>2 DEF Fate
  <2>3. HandledMeansProcessed'
    BY <1>a, <1>b, <2>2 DEF ConsumerInv, HandledMeansProcessed
  <2> QED
    BY <2>1, <2>3
<1>3. ASSUME BusStep, UNCHANGED consumerVars PROVE ConsumerInv'
  <2>1. ASSUME NEW up \in BOOLEAN, SetBus(up) PROVE ConsumerInv'
    <3>1. Undisturbed
      BY <1>3, <2>1 DEF Undisturbed, SetBus, consumerVars
    <3> QED
      BY <1>1, <1>a, <3>1, Untouched DEF ConsumerInv, Undisturbed
  <2>2. ASSUME NEW e \in Events, Publish(e) PROVE ConsumerInv'
    <3>1. \A h \in Groups : /\ sub'[h] = Notified(h) /\ fates'[h] = fates[h]
                            /\ current'[h] = current[h]
      BY <2>2 DEF Publish
    <3>2. \A h \in Groups :
             sub'[h] = sub[h] \/ (h \notin fetching /\ sub[h] # "none")
      BY <1>2, <3>1 DEF Notified
    <3>3. Undisturbed
      BY <1>3, <3>1, <3>2 DEF Undisturbed, consumerVars
    <3> QED
      BY <1>1, <1>a, <3>3, Untouched DEF ConsumerInv, Undisturbed
  <2>3. ASSUME NEW e \in Events, PublishBlocks(e) PROVE ConsumerInv'
    <3>1. Undisturbed
      BY <1>3, <2>3 DEF Undisturbed, PublishBlocks, consumerVars
    <3> QED
      BY <1>1, <1>a, <3>1, Untouched DEF ConsumerInv, Undisturbed
  <2>4. ASSUME NEW g \in Groups, Subscribe(g) PROVE ConsumerInv'
    <3>1. Undisturbed
      BY <1>2, <1>3, <2>4 DEF Undisturbed, Subscribe, consumerVars
    <3> QED
      BY <1>1, <1>a, <3>1, Untouched DEF ConsumerInv, Undisturbed
  <2>5. CASE PruneExpired
    <3>1. Undisturbed
      BY <1>3, <2>5 DEF Undisturbed, PruneExpired, consumerVars
    <3> QED
      BY <1>1, <1>a, <3>1, Untouched DEF ConsumerInv, Undisturbed
  <2> QED
    BY <1>3, <2>1, <2>2, <2>3, <2>4, <2>5 DEF BusStep
<1>4. ASSUME NEW g \in Groups, Disconnect(g) PROVE ConsumerInv'
  <2>1. /\ sub' = [sub EXCEPT ![g] = "none"]
        /\ current' = [current EXCEPT ![g] = None] /\ fates' = fates
        /\ fetching' = fetching \ {g}
        /\ UNCHANGED <<eventId, of, seen, processed>>
    BY <1>4 DEF Disconnect, Unsubscribe, HandlerCancelled
  <2>2. HandlersOK'
    BY <1>2, <2>1 DEF ConsumerInv, HandlersOK
  <2>3. SeenMeansProcessed' /\ HandledMeansProcessed'
    BY <1>2, <2>1, <1>b
  <2> QED
    BY <1>1, <2>2, <2>3 DEF ConsumerInv
<1>5. ASSUME NEW g \in Groups, SkipEvent(g) PROVE ConsumerInv'
  <2>1. /\ g \notin fetching /\ sub[g] = "deliver"
        /\ IdOf(g) \in seen[of[g]] \/ current[g] \notin Ready
        /\ seen' = [seen EXCEPT ![of[g]] = @ \cup {IdOf(g)}]
        /\ Leave(g, FALSE) /\ log' = log
        /\ UNCHANGED <<eventId, of, fetching, processed>>
    BY <1>5 DEF SkipEvent, Called, HandlerReturns
  <2>2. current[g] \in Events /\ of[g] \in Consumers /\ IdOf(g) \in Ids
    BY <1>2, <2>1 DEF ConsumerInv, BusInv, InHand, IdOf
  <2>3. \A h \in Groups \ {g} : sub'[h] = sub[h] /\ current'[h] = current[h]
    BY <1>2, <2>1, OnlyThis DEF Leave, ConsumerInv
  <2>4. HandlersOK'
    BY <1>2, <2>1, <2>2, <2>3 DEF HandlersOK, EventIds
  <2>5. Accounted(of[g], IdOf(g))
    <3>1. CASE IdOf(g) \in seen[of[g]]
      BY <2>2, <3>1 DEF ConsumerInv, SeenMeansProcessed
    <3>2. CASE current[g] \notin Ready
      <4>1. pub[current[g]] = "done"
        BY <2>2, BusAssumption DEF ConsumerInv, Published
      <4> QED
        BY <2>2, <3>2, <4>1 DEF Accounted, IdOf
    <3> QED
      BY <2>1, <3>1, <3>2
  <2>6. \A c \in Consumers : \A i \in seen'[c] : Accounted(c, i)
    BY <1>2, <2>1, <2>2, <2>5 DEF ConsumerInv, SeenMeansProcessed
  <2>7. \A c \in Consumers, i \in Ids : Accounted(c, i) => Accounted(c, i)'
    BY <1>a, <2>1
  <2>8. SeenMeansProcessed'
    BY <1>2, <2>1, <2>2, <2>6, <2>7 DEF SeenMeansProcessed
  <2>9. HandledMeansProcessed'
    BY <1>2, <2>1, <2>2, <2>5, <2>7, LeaveHandled
  <2> QED
    BY <1>1, <2>4, <2>8, <2>9 DEF ConsumerInv
<1>6. ASSUME NEW g \in Groups, Fetch_files(g) PROVE ConsumerInv'
  <2>1. /\ sub[g] = "deliver" /\ current[g] \in Ready
        /\ fetching' = fetching \cup {g}
        /\ UNCHANGED <<sub, current, fates, eventId, of, seen, processed>>
    BY <1>6 DEF Fetch_files, Called, MarkLater, vars
  <2>2. HandlersOK' /\ SeenMeansProcessed' /\ HandledMeansProcessed'
    BY <1>2, <1>b, <2>1 DEF HandlersOK, EventIds
  <2> QED
    BY <1>1, <2>2 DEF ConsumerInv
<1>7. ASSUME NEW g \in Groups, Process(g) PROVE ConsumerInv'
  <2>1. /\ g \in fetching /\ sub[g] = "deliver"
        /\ seen' = [seen EXCEPT ![of[g]] = @ \cup {IdOf(g)}]
        /\ processed' = [processed EXCEPT ![of[g]][current[g]] = @ + 1]
        /\ fetching' = fetching \ {g}
        /\ Leave(g, FALSE) /\ log' = log /\ UNCHANGED <<eventId, of>>
    BY <1>7 DEF Process, Mark, HandlerReturns
  <2>2. current[g] \in Events /\ of[g] \in Consumers /\ IdOf(g) \in Ids
    BY <1>2, <2>1 DEF ConsumerInv, BusInv, InHand, IdOf
  <2>3. \A h \in Groups \ {g} : sub'[h] = sub[h] /\ current'[h] = current[h]
    BY <1>2, <2>1, OnlyThis DEF Leave, ConsumerInv
  <2>4. /\ processed' \in [Consumers -> [Events -> Nat]]
        /\ \A c \in Consumers, e \in Events : processed'[c][e] >= processed[c][e]
        /\ processed'[of[g]][current[g]] > 0
    BY <1>2, <2>1, <2>2
  <2>5. HandlersOK'
    BY <1>2, <2>1, <2>2, <2>3, <2>4 DEF HandlersOK, EventIds
  <2>6. \A c \in Consumers, i \in Ids : Accounted(c, i) => Accounted(c, i)'
    BY <2>1, <2>4, StepIsBusStep, AccountedStays
  <2>7. \A c \in Consumers, i \in Ids : c = of[g] /\ i = IdOf(g) => Accounted(c, i)'
    <3>1. pub[current[g]] = "done"
      BY <2>2, BusAssumption DEF ConsumerInv, Published
    <3>2. pub'[current[g]] = "done"
      BY <2>2, <3>1, StepIsBusStep, NextPublished DEF ConsumerInv
    <3> QED
      BY <2>1, <2>2, <2>4, <3>2 DEF Accounted, IdOf
  <2>8. SeenMeansProcessed'
    <3> SUFFICES ASSUME NEW c \in Consumers, NEW i \in seen'[c]
                 PROVE  Accounted(c, i)'
      BY DEF SeenMeansProcessed
    <3>1. i \in Ids
      BY <2>5 DEF HandlersOK
    <3>2. CASE i \in seen[c]
      BY <2>6, <3>1, <3>2 DEF ConsumerInv, SeenMeansProcessed
    <3>3. CASE i \notin seen[c]
      <4>1. c = of[g] /\ i = IdOf(g)
        BY <1>2, <2>1, <2>2, <3>3
      <4> QED
        BY <2>7, <3>1, <4>1
    <3> QED
      BY <3>2, <3>3
  <2>9. HandledMeansProcessed'
    BY <1>2, <2>1, <2>2, <2>6, <2>7, LeaveHandled
  <2> QED
    BY <1>1, <2>5, <2>8, <2>9 DEF ConsumerInv
<1>8. ASSUME NEW g \in Groups, FetchFails(g) PROVE ConsumerInv'
  <2>1. /\ g \in fetching /\ sub[g] = "deliver"
        /\ sub' = [sub EXCEPT ![g] = "backoff"] /\ fetching' = fetching \ {g}
        /\ UNCHANGED <<current, fates, eventId, of, seen, processed>>
    BY <1>8 DEF FetchFails, HandlerRaises
  <2>2. HandlersOK'
    BY <1>2, <2>1 DEF HandlersOK, EventIds
  <2>3. SeenMeansProcessed' /\ HandledMeansProcessed'
    BY <1>2, <1>b, <2>1
  <2> QED
    BY <1>1, <2>2, <2>3 DEF ConsumerInv
<1>9. ASSUME NEW g \in Groups, Wake(g) \/ Redeliver(g), UNCHANGED consumerVars
      PROVE  ConsumerInv'
  <2>1. \A h \in Groups :
           \/ sub'[h] = sub[h] /\ current'[h] = current[h]
           \/ h \notin fetching /\ sub[h] # "none"
    <3>1. CASE Wake(g)
      BY <1>2, <3>1, OnlyThis DEF Wake, ConsumerInv
    <3>2. CASE Redeliver(g)
      BY <1>2, <3>2 DEF Redeliver
    <3> QED
      BY <1>9, <3>1, <3>2
  <2>2. fates' = fates
    BY <1>9 DEF Wake, Redeliver
  <2>3. Undisturbed
    BY <1>9, <2>1, <2>2 DEF Undisturbed, consumerVars
  <2> QED
    BY <1>1, <1>a, <2>3, Untouched DEF ConsumerInv, Undisturbed
<1>10. ASSUME NEW g \in Groups, DeadLetter(g), UNCHANGED consumerVars
       PROVE  ConsumerInv'
  <2>1. /\ g \notin fetching /\ sub[g] = "backoff"
        /\ Leave(g, TRUE) /\ log' = log
        /\ UNCHANGED <<eventId, of, fetching, seen, processed>>
    BY <1>2, <1>10 DEF DeadLetter, consumerVars
  <2>2. \A h \in Groups \ {g} : sub'[h] = sub[h] /\ current'[h] = current[h]
    BY <1>2, <2>1, OnlyThis DEF Leave, ConsumerInv
  <2>3. HandlersOK'
    BY <1>2, <2>1, <2>2 DEF HandlersOK, EventIds
  <2>4. \A c \in Consumers, i \in Ids : Accounted(c, i) => Accounted(c, i)'
    BY <1>a, <2>1
  <2>5. SeenMeansProcessed'
    BY <1>2, <2>1, <2>4 DEF ConsumerInv, SeenMeansProcessed
  <2>6. HandledMeansProcessed'
    BY <1>2, <2>1, <2>4, LeaveHandled
  <2> QED
    BY <1>1, <2>3, <2>5, <2>6 DEF ConsumerInv
<1>11. CASE UNCHANGED <<vars, consumerVars>>
  <2>1. Undisturbed
    BY <1>11 DEF Undisturbed, vars, consumerVars
  <2> QED
    BY <1>1, <1>a, <2>1, Untouched DEF ConsumerInv, Undisturbed
<1> QED
  BY <1>3, <1>4, <1>5, <1>6, <1>7, <1>8, <1>9, <1>10, <1>11
     DEF ConsumerNext, ConsumerStep

\* What the bus counts as handled, the consumer has processed, if it was for it:
\* an id enters seen_event_ids only with the event processed or not asked for,
\* so that neither a failed download nor an unsubscribe in the middle of one is
\* later taken for a duplicate.
THEOREM HandledIsProcessed == ConsumerSpec => []HandledMeansProcessed
<1>1. ConsumerInv => HandledMeansProcessed
  BY DEF ConsumerInv
<1> QED
  BY <1>1, InitConsumer, NextConsumer, PTL DEF ConsumerSpec

\* Every variable of the bus and the consumers has its type, and a handler waits
\* only while its subscription delivers an event of the type it asked for.
THEOREM ConsumerTypes == ConsumerSpec => []ConsumerTypeOK
<1>1. ConsumerInv => ConsumerTypeOK
  BY DEF ConsumerInv, HandlersOK, BusInv, ConsumerTypeOK
<1> QED
  BY <1>1, InitConsumer, NextConsumer, PTL DEF ConsumerSpec
-----------------------------------------------------------------------------
(***************************************************************************)
(* Each event once for each subscription.                                  *)
(***************************************************************************)

\* The subscriptions of a consumer whose handler waits for the files of an
\* event.
Fetchers(c, e) == {g \in fetching : of[g] = c /\ current[g] = e}

\* An event is processed by the handlers that were under way when its id entered
\* seen_event_ids, each of them once.
Counted(c, e) ==
    /\ eventId[e] \notin seen[c] => processed[c][e] = 0
    /\ processed[c][e] + Cardinality(Fetchers(c, e)) <= Cardinality(Subscriptions(c))

CountInv == ConsumerInv /\ \A c \in Consumers, e \in Events : Counted(c, e)

\* The sets counted are finite.
LEMMA CountsFinite ==
  ASSUME HandlersOK, NEW c, NEW e
  PROVE  /\ IsFiniteSet(Subscriptions(c)) /\ Cardinality(Subscriptions(c)) \in Nat
         /\ IsFiniteSet(Fetchers(c, e)) /\ Cardinality(Fetchers(c, e)) \in Nat
         /\ Cardinality(Fetchers(c, e)) <= Cardinality(Subscriptions(c))
<1>1. Fetchers(c, e) \subseteq Subscriptions(c) /\ Subscriptions(c) \subseteq Groups
  BY DEF HandlersOK, Fetchers, Subscriptions
<1>2. IsFiniteSet(Subscriptions(c))
  BY <1>1, ConsumerAssumption, FS_Subset
<1> QED
  BY <1>1, <1>2, FS_Subset, FS_CardinalityType

\* No fewer handlers under way and nothing processed: the count stays.
LEMMA CountKept ==
  ASSUME HandlersOK, HandlersOK', of' = of,
         NEW c \in Consumers, NEW e \in Events, Counted(c, e),
         eventId' = eventId, processed'[c][e] = processed[c][e],
         seen[c] \subseteq seen'[c],
         Fetchers(c, e)' \subseteq Fetchers(c, e)
  PROVE  Counted(c, e)'
<1>1. Cardinality(Fetchers(c, e)') <= Cardinality(Fetchers(c, e))
  BY CountsFinite, FS_Subset
<1>2. Cardinality(Fetchers(c, e)') \in Nat
  BY CountsFinite, FS_Subset, FS_CardinalityType
<1>3. Subscriptions(c)' = Subscriptions(c)
  BY DEF Subscriptions
<1>4. /\ Cardinality(Fetchers(c, e)) \in Nat /\ Cardinality(Subscriptions(c)) \in Nat
      /\ processed[c][e] \in Nat
  BY CountsFinite DEF HandlersOK
<1> QED
  BY <1>1, <1>2, <1>3, <1>4 DEF Counted

\* Every step keeps the count.
LEMMA NextCount ==
  CountInv /\ [ConsumerNext]_<<vars, consumerVars>> => CountInv'
<1> SUFFICES ASSUME CountInv, [ConsumerNext]_<<vars, consumerVars>>,
                    NEW c \in Consumers, NEW e \in Events
             PROVE  Counted(c, e)'
  BY NextConsumer DEF CountInv
<1>a. /\ HandlersOK /\ HandlersOK' /\ Counted(c, e) /\ BusInv
      /\ of \in [Groups -> Consumers]
  BY NextConsumer, ConsumerAssumption DEF CountInv, ConsumerInv, HandlersOK
<1>b. /\ sub \in [Groups -> SubStates] /\ current \in [Groups -> Events \cup {None}]
      /\ fetching \in SUBSET Groups
      /\ \A h \in fetching : sub[h] = "deliver" /\ current[h] \in Ready
      /\ seen \in [Consumers -> SUBSET Ids] /\ eventId \in [Events -> Ids]
      /\ processed \in [Consumers -> [Events -> Nat]]
  BY <1>a DEF HandlersOK, EventIds, BusInv, BusTypeOK
<1>1. ASSUME UNCHANGED consumerVars,
             \A h \in Groups : h \in fetching => current'[h] = current[h]
      PROVE  Counted(c, e)'
  <2>1. Fetchers(c, e)' = Fetchers(c, e)
    BY <1>b, <1>1 DEF Fetchers, consumerVars
  <2> QED
    BY <1>a, <1>1, <2>1, CountKept DEF consumerVars
<1>2. CASE UNCHANGED <<vars, consumerVars>>
  BY <1>1, <1>2 DEF vars, subVars
<1>3. CASE BusStep /\ UNCHANGED consumerVars
  <2>1. current' = current
    BY <1>3 DEF BusStep, SetBus, Publish, PublishBlocks, Subscribe, PruneExpired,
                subVars
  <2> QED
    BY <1>1, <1>3, <2>1
<1>4. ASSUME NEW g \in Groups, Wake(g) \/ Redeliver(g) \/ DeadLetter(g),
             UNCHANGED consumerVars
      PROVE  Counted(c, e)'
  <2>1. g \notin fetching
    BY <1>b, <1>4 DEF Wake, Redeliver, DeadLetter
  <2>2. \A h \in Groups \ {g} : current'[h] = current[h]
    BY <1>b, <1>4 DEF Wake, Redeliver, DeadLetter, Leave, Fetch
  <2> QED
    BY <1>1, <1>4, <2>1, <2>2
<1>5. ASSUME NEW g \in Groups, Disconnect(g) \/ FetchFails(g)
      PROVE  Counted(c, e)'
  <2>1. /\ fetching' = fetching \ {g} /\ UNCHANGED <<eventId, of, seen, processed>>
        /\ \A h \in Groups \ {g} : current'[h] = current[h]
    BY <1>b, <1>5 DEF Disconnect, HandlerCancelled, Unsubscribe, FetchFails,
                      HandlerRaises
  <2>2. Fetchers(c, e)' \subseteq Fetchers(c, e)
    BY <1>b, <2>1 DEF Fetchers
  <2> QED
    BY <1>a, <2>1, <2>2, CountKept
<1>6. ASSUME NEW g \in Groups, SkipEvent(g)
      PROVE  Counted(c, e)'
  <2>1. /\ g \notin fetching /\ UNCHANGED <<eventId, of, fetching, processed>>
        /\ seen' = [seen EXCEPT ![of[g]] = @ \cup {IdOf(g)}]
        /\ \A h \in Groups \ {g} : current'[h] = current[h]
    BY <1>b, <1>6 DEF SkipEvent, Called, HandlerReturns, Leave, Fetch
  <2>2. Fetchers(c, e)' \subseteq Fetchers(c, e) /\ seen[c] \subseteq seen'[c]
    BY <1>a, <1>b, <2>1 DEF Fetchers
  <2> QED
    BY <1>a, <2>1, <2>2, CountKept
<1>7. ASSUME NEW g \in Groups, Fetch_files(g)
      PROVE  Counted(c, e)'
  <2>1. /\ eventId[current[g]] \notin seen[of[g]]
        /\ fetching' = fetching \cup {g}
        /\ UNCHANGED <<current, eventId, of, seen, processed>>
    BY <1>7 DEF Fetch_files, MarkLater, IdOf, vars, subVars
  <2>2. CASE c = of[g] /\ e = current[g]
    <3>1. processed'[c][e] = 0
      BY <2>1, <2>2, <1>a DEF Counted
    <3>2. /\ Cardinality(Fetchers(c, e)') <= Cardinality(Subscriptions(c)')
          /\ Cardinality(Fetchers(c, e)') \in Nat
      <4>1. Fetchers(c, e)' \subseteq Subscriptions(c) /\ Subscriptions(c)' = Subscriptions(c)
        BY <1>a, <1>b, <2>1 DEF Fetchers, Subscriptions
      <4> QED
        BY <1>a, <4>1, CountsFinite, FS_Subset, FS_CardinalityType
    <3> QED
      BY <3>1, <3>2 DEF Counted
  <2>3. CASE ~(c = of[g] /\ e = current[g])
    <3>1. Fetchers(c, e)' \subseteq Fetchers(c, e)
      BY <1>b, <2>1, <2>3 DEF Fetchers
    <3> QED
      BY <1>a, <2>1, <3>1, CountKept
  <2> QED
    BY <2>2, <2>3
<1>8. ASSUME NEW g \in Groups, Process(g)
      PROVE  Counted(c, e)'
  <2>1. /\ g \in fetching /\ fetching' = fetching \ {g} /\ UNCHANGED <<eventId, of>>
        /\ seen' = [seen EXCEPT ![of[g]] = @ \cup {IdOf(g)}]
        /\ processed' = [processed EXCEPT ![of[g]][current[g]] = @ + 1]
        /\ \A h \in Groups \ {g} : current'[h] = current[h]
    BY <1>b, <1>8 DEF Process, Mark, HandlerReturns, Leave, Fetch
  <2>2. of[g] \in Consumers /\ current[g] \in Events
    BY <1>a, <1>b, <2>1, ConsumerAssumption
  <2>3. Fetchers(c, e)' = Fetchers(c, e) \ {g} /\ Subscriptions(c)' = Subscriptions(c)
    BY <1>b, <2>1 DEF Fetchers, Subscriptions
  <2>4. CASE c = of[g] /\ e = current[g]
    <3>1. processed'[c][e] = processed[c][e] + 1 /\ eventId'[e] \in seen'[c]
      BY <1>b, <2>1, <2>2, <2>4 DEF IdOf
    <3>2. g \in Fetchers(c, e)
      BY <2>1, <2>4 DEF Fetchers
    <3>3. Cardinality(Fetchers(c, e)') = Cardinality(Fetchers(c, e)) - 1
      BY <1>a, <2>3, <3>2, CountsFinite, FS_RemoveElement, ZenonT(30)
    <3>4. /\ Cardinality(Fetchers(c, e)) \in Nat /\ Cardinality(Subscriptions(c)) \in Nat
          /\ processed[c][e] \in Nat
      BY <1>a, <1>b, CountsFinite
    <3> QED
      BY <1>a, <2>3, <3>1, <3>3, <3>4 DEF Counted
  <2>5. CASE ~(c = of[g] /\ e = current[g])
    <3>1. processed'[c][e] = processed[c][e] /\ seen[c] \subseteq seen'[c]
      BY <1>b, <2>1, <2>2, <2>5
    <3> QED
      BY <1>a, <2>1, <2>3, <3>1, CountKept
  <2> QED
    BY <2>4, <2>5
<1> QED
  BY <1>2, <1>3, <1>4, <1>5, <1>6, <1>7, <1>8 DEF ConsumerNext, ConsumerStep

\* A consumer processes an event at most once for each subscription that calls
\* its handler, and so once if there is one: through failed downloads,
\* redelivery, and a new subscription that reads the topic from its start.
THEOREM OncePerSubscription == ConsumerSpec => []ProcessedOnce
<1>1. ConsumerInit => CountInv
  <2> SUFFICES ASSUME ConsumerInit, NEW c \in Consumers, NEW e \in Events
               PROVE  Counted(c, e)
    BY InitConsumer DEF CountInv
  <2>1. processed[c][e] = 0 /\ HandlersOK
    BY InitConsumer DEF ConsumerInit, ConsumerInv
  <2> QED
    BY <2>1, CountsFinite DEF Counted
<1>2. CountInv => ProcessedOnce
  <2> SUFFICES ASSUME CountInv, NEW c \in Consumers, NEW e \in Events
               PROVE  processed[c][e] <= Cardinality(Subscriptions(c))
    BY DEF ProcessedOnce
  <2>1. Counted(c, e) /\ HandlersOK /\ processed[c][e] \in Nat
    BY DEF CountInv, ConsumerInv, HandlersOK
  <2> QED
    BY <2>1, CountsFinite DEF Counted
<1> QED
  BY <1>1, <1>2, NextCount, PTL DEF ConsumerSpec
=============================================================================
