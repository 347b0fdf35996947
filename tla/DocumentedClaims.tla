-------------------------- MODULE DocumentedClaims --------------------------
(***************************************************************************)
(* Statements of the requirements about the life of an extract that the    *)
(* code does not keep.  Each is checked by a run of its own, which ends in *)
(* a counterexample.                                                       *)
(***************************************************************************)
EXTENDS ExtractWorker

\* "No event is published for cancelled runs."  A cancel that arrives while the
\* last fund is in backoff is acknowledged, but the cancellation check is only
\* made before a fund, so the run finalizes and notifies.
CancelledRunsAreSilent ==
    \A e \in Extracts : cancelledAt[e] => notices[e] = <<>>

\* "Buffered events are published when the bus recovers."  EventBus.resume()
\* sets the flag and wakes no one.
BufferedEventsPublished ==
    <>[]busUp => \A w \in Workers : pc[w] = "publish" ~> pc[w] # "publish"
=============================================================================
