------------------------------ MODULE EventBus ------------------------------
(***************************************************************************)
(* One topic of the in-process event bus (extract_service/event_bus.py):   *)
(* publishers, subscriptions, redelivery, the dead-letter queue and        *)
(* retention.  All tasks share one asyncio.Condition.  Its lock is never   *)
(* held across a suspension other than wait() itself, so each action below *)
(* is everything a task does between two suspension points.                *)
(***************************************************************************)
EXTENDS Naturals, Sequences, Functions

CONSTANTS
    Events,         \* events, each published by one call of publish()
    Groups,         \* subscribers
    MaxAttempts,    \* EventBus.MAX_DELIVERY_ATTEMPTS
    MaxPrunes,      \* bound: retention runs that remove something
    MaxLeaves,      \* bound: calls of unsubscribe()
    None            \* no event in hand

ASSUME BusAssumption ==
    /\ MaxAttempts \in Nat \ {0}
    /\ MaxPrunes \in Nat
    /\ MaxLeaves \in Nat
    /\ None \notin Events

VARIABLES
    log,        \* _topics[topic]
    dlq,        \* _dlq[topic.dlq]
    busUp,      \* _bus_available
    pub,        \* where each publish() call is
    sub,        \* where each subscription's task is
    offset,     \* Subscription.offset
    current,    \* the event a subscription is delivering
    attempt,    \* ... and how often its handler was called for it
    fates,      \* what became of each event the subscription has left behind
    prunes, leaves

busVars == <<log, dlq, busUp, pub>>
subVars == <<sub, offset, current, attempt, fates>>
vars == <<busVars, subVars, prunes, leaves>>

\* A publish() call: not made, blocked on the condition, notified, returned.
PubStates == {"idle", "blocked", "ready", "done"}

\* A subscription's task: absent, runnable before its check of the log, waiting
\* on the condition, in its handler, asleep after the handler raised.
SubStates == {"none", "ready", "waiting", "deliver", "backoff"}

Fate == [event : Events, calls : Nat, dead : BOOLEAN]

BusTypeOK ==
    /\ log \in Seq(Events)
    /\ dlq \in Seq(Events)
    /\ busUp \in BOOLEAN
    /\ pub \in [Events -> PubStates]
    /\ sub \in [Groups -> SubStates]
    /\ offset \in [Groups -> Nat]
    /\ current \in [Groups -> Events \cup {None}]
    /\ attempt \in [Groups -> Nat]
    /\ fates \in [Groups -> Seq(Fate)]
    /\ prunes \in Nat
    /\ leaves \in Nat

Init ==
    /\ log = <<>>
    /\ dlq = <<>>
    /\ busUp = TRUE
    /\ pub = [e \in Events |-> "idle"]
    /\ sub = [g \in Groups |-> "none"]
    /\ offset = [g \in Groups |-> 0]
    /\ current = [g \in Groups |-> None]
    /\ attempt = [g \in Groups |-> 0]
    /\ fates = [g \in Groups |-> <<>>]
    /\ prunes = 0
    /\ leaves = 0
-----------------------------------------------------------------------------
\* pause() and resume().
SetBus(up) ==
    /\ busUp # up
    /\ busUp' = up
    /\ UNCHANGED <<log, dlq, pub, subVars, prunes, leaves>>

\* Mutant: notify() wakes publishers and no subscription.
NotifyNoSubs(g) == sub[g]

\* notify_all(): whoever waits on the condition becomes runnable.
Notified(g) == IF sub[g] = "waiting" THEN "ready" ELSE sub[g]

\* publish(), called or woken up, with the bus available.
Publish(e) ==
    /\ pub[e] \in {"idle", "ready"}
    /\ busUp
    /\ log' = Append(log, e)
    /\ pub' = [d \in Events |-> CASE d = e -> "done"
                                  [] pub[d] = "blocked" -> "ready"
                                  [] OTHER -> pub[d]]
    /\ sub' = [g \in Groups |-> Notified(g)]
    /\ UNCHANGED <<dlq, busUp, offset, current, attempt, fates, prunes, leaves>>

\* ... and without.
PublishBlocks(e) ==
    /\ pub[e] \in {"idle", "ready"}
    /\ ~busUp
    /\ pub' = [pub EXCEPT ![e] = "blocked"]
    /\ UNCHANGED <<log, dlq, busUp, subVars, prunes, leaves>>

\* subscribe(): a new subscription reads the topic from index 0.
Subscribe(g) ==
    /\ sub[g] = "none"
    /\ sub' = [sub EXCEPT ![g] = "ready"]
    /\ offset' = [offset EXCEPT ![g] = 0]
    /\ fates' = [fates EXCEPT ![g] = <<>>]
    /\ UNCHANGED <<busVars, current, attempt, prunes, leaves>>

\* unsubscribe(): cancels the task at whatever it awaits, the handler included.
Unsubscribe(g) ==
    /\ sub[g] # "none"
    /\ leaves < MaxLeaves
    /\ leaves' = leaves + 1
    /\ sub' = [sub EXCEPT ![g] = "none"]
    /\ current' = [current EXCEPT ![g] = None]
    /\ attempt' = [attempt EXCEPT ![g] = 0]
    /\ UNCHANGED <<busVars, offset, fates, prunes>>

\* The head of the loop in _run_subscription, for a task whose offset is n:
\* wait, or take the event at that index and call the handler.
Fetch(g, n) ==
    IF n >= Len(log)
    THEN /\ sub' = [sub EXCEPT ![g] = "waiting"]
         /\ current' = [current EXCEPT ![g] = None]
         /\ attempt' = [attempt EXCEPT ![g] = 0]
    ELSE /\ sub' = [sub EXCEPT ![g] = "deliver"]
         /\ current' = [current EXCEPT ![g] = log[n + 1]]
         /\ attempt' = [attempt EXCEPT ![g] = 1]

Wake(g) ==
    /\ sub[g] = "ready"
    /\ Fetch(g, offset[g])
    /\ UNCHANGED <<busVars, offset, fates, prunes, leaves>>

\* _deliver is over for this event; the loop goes on with the next.
Leave(g, dead) ==
    /\ fates' = [fates EXCEPT ![g] = Append(@, [event |-> current[g],
                                                calls |-> attempt[g],
                                                dead |-> dead])]
    /\ offset' = [offset EXCEPT ![g] = @ + 1]
    /\ Fetch(g, offset[g] + 1)

HandlerReturns(g) ==
    /\ sub[g] = "deliver"
    /\ Leave(g, FALSE)
    /\ UNCHANGED <<busVars, prunes, leaves>>

HandlerRaises(g) ==
    /\ sub[g] = "deliver"
    /\ sub' = [sub EXCEPT ![g] = "backoff"]
    /\ UNCHANGED <<busVars, offset, current, attempt, fates, prunes, leaves>>

\* Mutant: one delivery attempt fewer.
AttemptsLeftShort(g) == attempt[g] + 1 < MaxAttempts

AttemptsLeft(g) == attempt[g] < MaxAttempts

Redeliver(g) ==
    /\ sub[g] = "backoff"
    /\ AttemptsLeft(g)
    /\ sub' = [sub EXCEPT ![g] = "deliver"]
    /\ attempt' = [attempt EXCEPT ![g] = @ + 1]
    /\ UNCHANGED <<busVars, offset, current, fates, prunes, leaves>>

\* The sleep after the last attempt ends, too, before the event is dead.
DeadLetter(g) ==
    /\ sub[g] = "backoff"
    /\ ~AttemptsLeft(g)
    /\ dlq' = Append(dlq, current[g])
    /\ Leave(g, TRUE)
    /\ UNCHANGED <<log, busUp, pub, prunes, leaves>>

\* prune_expired(), called by the retention sweeper: the oldest events leave
\* the list.  Offsets of subscriptions are indices into it and stay.
PruneExpired ==
    /\ prunes < MaxPrunes
    /\ prunes' = prunes + 1
    /\ \E n \in 1..Len(log) : log' = SubSeq(log, n + 1, Len(log))
    /\ UNCHANGED <<dlq, busUp, pub, subVars, leaves>>
-----------------------------------------------------------------------------
SubscriptionStep(g) ==
    Wake(g) \/ HandlerReturns(g) \/ HandlerRaises(g) \/ Redeliver(g)
        \/ DeadLetter(g)

Next ==
    \/ \E up \in BOOLEAN : SetBus(up)
    \/ \E e \in Events : Publish(e) \/ PublishBlocks(e)
    \/ \E g \in Groups : Subscribe(g) \/ Unsubscribe(g) \/ SubscriptionStep(g)
    \/ PruneExpired

Spec == Init /\ [][Next]_vars

\* The loop runs a subscription that is runnable, a handler comes back in the
\* end, one way or the other, and a sleep ends.
FairSpec == Spec /\ \A g \in Groups : WF_vars(SubscriptionStep(g))
-----------------------------------------------------------------------------
\* Without retention, a subscription goes through the topic in order and leaves
\* every event behind exactly once: handled, or dead after MaxAttempts calls of
\* its handler.
EachEventOnceInOrder ==
    prunes = 0 => \A g \in Groups :
        sub[g] # "none" =>
            /\ [i \in DOMAIN fates[g] |-> fates[g][i].event]
                  = SubSeq(log, 1, offset[g])
            /\ \A i \in DOMAIN fates[g] :
                  /\ fates[g][i].calls \in 1..MaxAttempts
                  /\ fates[g][i].dead => fates[g][i].calls = MaxAttempts
            /\ current[g] # None => current[g] = log[offset[g] + 1]

\* No wake-up is lost: a subscription sleeps on the condition only when it has
\* nothing left to read.
NoLostWakeup ==
    \A g \in Groups : sub[g] = "waiting" => offset[g] >= Len(log)

\* An event in the topic is handled by a subscription or dead-lettered in the
\* end, unless the subscription leaves or the event is removed.
Reaches(g, e) ==
    sub[g] # "none" /\ e \in Range(log)
        ~> \/ sub[g] = "none"
           \/ \E i \in DOMAIN fates[g] : fates[g][i].event = e
           \/ e \notin Range(log)

\* As long as retention removes nothing, every event in the topic reaches every
\* subscription that stays, whatever handlers, publishers and the other
\* subscriptions do.
EveryEventDelivered ==
    [](prunes = 0) => \A g \in Groups, e \in Events : Reaches(g, e)
=============================================================================
