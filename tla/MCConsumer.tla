----------------------------- MODULE MCConsumer -----------------------------
(***************************************************************************)
(* Instances of Consumer, and so of EventBus, for TLC, and a statement of  *)
(* the requirements that the bus does not keep.                            *)
(***************************************************************************)
EXTENDS Consumer, TLC

CONSTANTS v1, v2, g1, g2, c1, c2, i1, i2

\* One consumer behind both subscriptions, or one behind each.
Wirings == {g1 :> c1 @@ g2 :> c1, g1 :> c1 @@ g2 :> c2}

\* A single subscription.
OneWiring == {g1 :> c1}

\* "Delivery: At least once."  A subscription that has read the topic and sees
\* it pruned skips as many later events as were removed: its offset is an index
\* into a list that got shorter.
AtLeastOnce == \A g \in Groups, e \in Events : Reaches(g, e)
=============================================================================
