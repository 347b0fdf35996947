------------------------------ MODULE Consumer ------------------------------
(***************************************************************************)
(* The example consumer (consumer_example/consumer.py) as the handler of   *)
(* the bus's subscriptions.  The bus is module EventBus, in which a        *)
(* handler returns or raises; here it also looks the event up among the    *)
(* ids seen, waits for the API while it lists and downloads the files, and *)
(* records the event.                                                      *)
(***************************************************************************)
EXTENDS EventBus, FiniteSets

CONSTANTS
    Consumers,      \* ExampleConsumer objects
    Handlers,       \* which object's handle each subscription may be given
    Ready,          \* events of type extract.ready
    Ids             \* values of event_id

ASSUME ConsumerAssumption ==
    /\ IsFiniteSet(Groups)
    /\ Handlers \subseteq [Groups -> Consumers]
    /\ Ready \subseteq Events

\* An event_id is a second and the last four characters of the extract's id,
\* which are random: two events of a topic may have the same.
EventIds == [Events -> Ids]

VARIABLES
    eventId,    \* event_id of each event
    of,         \* whose handle() a subscription calls
    fetching,   \* subscriptions whose handler waits for the API
    seen,       \* seen_event_ids
    processed   \* how often each event is in processed_extracts

consumerVars == <<eventId, of, fetching, seen, processed>>

\* Every variable has its type, and a handler waits only while its subscription
\* delivers an event of the type it asked for.
ConsumerTypeOK ==
    /\ BusTypeOK
    /\ eventId \in EventIds
    /\ of \in Handlers
    /\ fetching \in SUBSET Groups
    /\ \A g \in fetching : sub[g] = "deliver" /\ current[g] \in Ready
    /\ seen \in [Consumers -> SUBSET Ids]
    /\ processed \in [Consumers -> [Events -> Nat]]

ConsumerInit ==
    /\ Init
    /\ eventId \in EventIds
    /\ of \in Handlers
    /\ fetching = {}
    /\ seen = [c \in Consumers |-> {}]
    /\ processed = [c \in Consumers |-> [e \in Events |-> 0]]
-----------------------------------------------------------------------------
Called(g) == sub[g] = "deliver" /\ g \notin fetching

\* The id of the event a subscription hands over.
IdOf(g) == eventId[current[g]]

\* The id is in seen_event_ids, or the event is not for this consumer and the id
\* goes there.
SkipEvent(g) ==
    /\ Called(g)
    /\ IdOf(g) \in seen[of[g]] \/ current[g] \notin Ready
    /\ seen' = [seen EXCEPT ![of[g]] = @ \cup {IdOf(g)}]
    /\ HandlerReturns(g)
    /\ UNCHANGED <<eventId, of, fetching, processed>>

\* Mutant: the id is recorded before the files are there.
MarkFirst(g) == seen' = [seen EXCEPT ![of[g]] = @ \cup {IdOf(g)}]

MarkLater(g) == UNCHANGED seen

\* The first request to the API; others can run until the last one is answered.
Fetch_files(g) ==
    /\ Called(g)
    /\ current[g] \in Ready
    /\ IdOf(g) \notin seen[of[g]]
    /\ MarkLater(g)
    /\ fetching' = fetching \cup {g}
    /\ UNCHANGED <<vars, eventId, of, processed>>

\* Mutant: the id is not recorded.
MarkNever(g) == UNCHANGED seen

Mark(g) == seen' = [seen EXCEPT ![of[g]] = @ \cup {IdOf(g)}]

\* Every file has arrived and its checksum is right.
Process(g) ==
    /\ g \in fetching
    /\ Mark(g)
    /\ processed' = [processed EXCEPT ![of[g]][current[g]] = @ + 1]
    /\ fetching' = fetching \ {g}
    /\ HandlerReturns(g)
    /\ UNCHANGED <<eventId, of>>

\* The API refuses, a download fails or a checksum is wrong.
FetchFails(g) ==
    /\ g \in fetching
    /\ fetching' = fetching \ {g}
    /\ HandlerRaises(g)
    /\ UNCHANGED <<eventId, of, seen, processed>>

\* Mutant: the handler of a cancelled subscription runs on.
HandlerSurvives(g) == UNCHANGED fetching

\* unsubscribe() cancels the handler at its request.
HandlerCancelled(g) == fetching' = fetching \ {g}

Disconnect(g) ==
    /\ Unsubscribe(g)
    /\ HandlerCancelled(g)
    /\ UNCHANGED <<eventId, of, seen, processed>>
-----------------------------------------------------------------------------
ConsumerStep(g) ==
    \/ SkipEvent(g) \/ Fetch_files(g) \/ Process(g) \/ FetchFails(g)
    \/ (Wake(g) \/ Redeliver(g) \/ DeadLetter(g)) /\ UNCHANGED consumerVars

BusStep ==
    \/ \E up \in BOOLEAN : SetBus(up)
    \/ \E e \in Events : Publish(e) \/ PublishBlocks(e)
    \/ \E g \in Groups : Subscribe(g)
    \/ PruneExpired

ConsumerNext ==
    \/ BusStep /\ UNCHANGED consumerVars
    \/ \E g \in Groups : Disconnect(g) \/ ConsumerStep(g)

ConsumerSpec == ConsumerInit /\ [][ConsumerNext]_<<vars, consumerVars>>

\* As in EventBus: a runnable task runs, a request is answered or times out, a
\* sleep ends.
ConsumerFairSpec ==
    /\ ConsumerSpec
    /\ \A g \in Groups : WF_<<vars, consumerVars>>(ConsumerStep(g))
-----------------------------------------------------------------------------
Subscriptions(c) == {g \in Groups : of[g] = c}

\* A consumer with one subscription processes an event once, through failed
\* downloads, redelivery, and a new subscription that reads the topic from its
\* start; one that shares its handler between subscriptions processes it at
\* most once for each.
ProcessedOnce ==
    \A c \in Consumers, e \in Events :
        processed[c][e] <= Cardinality(Subscriptions(c))

\* What an id in seen_event_ids stands for: an event of that id was in the topic,
\* and the consumer has processed it if it was for it.
Accounted(c, i) ==
    \E e \in Events :
        /\ eventId[e] = i
        /\ pub[e] = "done"
        /\ e \in Ready => processed[c][e] > 0

\* An event the bus counts as handled was processed by that consumer, if it was
\* for it: a failed download is never taken for a duplicate.  The one exception
\* is an event that got the id of another: it may be taken for that one.
HandledMeansProcessed ==
    \A g \in Groups : sub[g] # "none" =>
        \A i \in DOMAIN fates[g] :
            fates[g][i].event \in Ready /\ ~fates[g][i].dead =>
                Accounted(of[g], eventId[fates[g][i].event])
=============================================================================
