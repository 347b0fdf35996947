---------------------------- MODULE MCAdmission ----------------------------
(***************************************************************************)
(* Instances of Admission for TLC, and a requirement it does not keep.     *)
(***************************************************************************)
EXTENDS Admission, TLC

CONSTANTS a1, a2, k1, k2, bBoth, bAll, fA, fB

\* a1 may see both funds, a2 one of them; one body names both, the other leaves
\* the scope open.
EntitledFunds == a1 :> {fA, fB} @@ a2 :> {fA}

RequestedFunds == bBoth :> {fA, fB} @@ bAll :> {}

Sent(a, k, b) == [app |-> a, key |-> k, body |-> b]

\* Both applications use k1, a2 with two bodies; a1 has a second key.
SentRequests == {Sent(a1, k1, bBoth), Sent(a1, k2, bAll),
                 Sent(a2, k1, bBoth), Sent(a2, k1, bAll)}

\* One application that sends one request again and again.
OneKey == {Sent(a1, k1, bBoth)}

EntitledOne == a1 :> {fA, fB}

\* "Idempotency keys expire after 30 days."  A key sent again after that time is
\* not found, but its record still holds the primary key: the request ends with
\* a 500 and a row that no worker ever sees.
ExpiredKeyIsNew == raises = 0 => answer.code # 500
=============================================================================
