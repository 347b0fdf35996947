----------------------------- MODULE MCListing -----------------------------
(***************************************************************************)
(* An instance of Listing for TLC.                                         *)
(***************************************************************************)
EXTENDS Listing, TLC

CONSTANTS a1, k1, k2, k3, bA, bB, fA, fB

EntitledFunds == a1 :> {fA, fB}

RequestedFunds == bA :> {fA} @@ bB :> {fB}

Sent(k, b) == [app |-> a1, key |-> k, body |-> b]

\* Three extracts in two funds.
SentRequests == {Sent(k1, bA), Sent(k2, bB), Sent(k3, bA)}

Ask(statuses, fund, limit) ==
    [app |-> a1, statuses |-> statuses, fund |-> fund, limit |-> limit]

\* Without a filter, by status, and by fund.
SentQueries == {Ask({}, AnyFund, 0), Ask({}, AnyFund, 1), Ask({}, AnyFund, 2),
                Ask({"ACTIVE"}, AnyFund, 1), Ask({}, fA, 1)}
=============================================================================
