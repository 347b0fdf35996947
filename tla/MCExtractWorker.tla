-------------------------- MODULE MCExtractWorker --------------------------
(***************************************************************************)
(* Instances of ExtractWorker for TLC.                                     *)
(***************************************************************************)
EXTENDS DocumentedClaims, TLC

CONSTANTS e1, e2, e3, w1, w2, fA, fB, fC

\* Three funds, and a fund listed twice (nothing rejects that).
DeepScopes == {<<fA, fB, fC>>, <<fA, fA>>}

OneFund == {<<fA>>}

TwoFunds == {<<fA, fB>>}

\* Extracts and workers are interchangeable: within a priority the queue has
\* no fixed order.
Symmetry == Permutations({e1, e2}) \cup Permutations({w1, w2})

\* Two urgent extracts and one that is not, which may have to wait for both.
Urgency == e1 :> 0 @@ e2 :> 0 @@ e3 :> 1

AsUrgent == \A e \in Extracts : status[e] # "NONE" => prio[e] = Urgency[e]

LiveSpec == Init /\ [][Next /\ AsUrgent']_vars /\ Fairness
=============================================================================
