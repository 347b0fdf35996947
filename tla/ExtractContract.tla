-------------------------- MODULE ExtractContract --------------------------
(***************************************************************************)
(* What the service promises a client about one set of extracts, without   *)
(* queues, workers, staging prefixes or steps of a publication: an extract *)
(* is accepted, may start, may be cancelled, and finishes in one step that *)
(* fixes its outcome and makes its files visible together.  The client is  *)
(* told afterwards, at most once.                                          *)
(*                                                                         *)
(* As in the code, a cancel that comes too late is overruled by the run it *)
(* meant to stop, and it leaves an extract that never started alone.       *)
(***************************************************************************)
EXTENDS Naturals, Sequences

CONSTANTS Extracts, Funds

VARIABLES
    phase,      \* the status the API reports
    started,    \* a worker has taken the extract
    wanted,     \* the funds asked for
    visible,    \* the funds a client can list and fetch
    told        \* the notifications handed over

vars == <<phase, started, wanted, visible, told>>

Phases == {"NONE", "ACCEPTED", "RUNNING", "COMPLETED", "FAILED", "PARTIAL",
           "CANCELLED"}

Init ==
    /\ phase = [e \in Extracts |-> "NONE"]
    /\ started = [e \in Extracts |-> FALSE]
    /\ wanted = [e \in Extracts |-> {}]
    /\ visible = [e \in Extracts |-> {}]
    /\ told = [e \in Extracts |-> <<>>]

\* A request is accepted for some non-empty set of funds.
Accept(e) ==
    /\ phase[e] = "NONE"
    /\ phase' = [phase EXCEPT ![e] = "ACCEPTED"]
    /\ \E fs \in (SUBSET Funds) \ {{}} : wanted' = [wanted EXCEPT ![e] = fs]
    /\ UNCHANGED <<started, visible, told>>

Start(e) ==
    /\ phase[e] = "ACCEPTED"
    /\ phase' = [phase EXCEPT ![e] = "RUNNING"]
    /\ started' = [started EXCEPT ![e] = TRUE]
    /\ UNCHANGED <<wanted, visible, told>>

Cancel(e) ==
    /\ phase[e] \in {"ACCEPTED", "RUNNING"}
    /\ phase' = [phase EXCEPT ![e] = "CANCELLED"]
    /\ UNCHANGED <<started, wanted, visible, told>>

\* The outcome and the files that go with it.
Delivers(e, outcome, fs) ==
    CASE outcome = "COMPLETED" -> fs = wanted[e]
      [] outcome = "PARTIAL"   -> fs # {} /\ fs \subseteq wanted[e]
      [] outcome = "FAILED"    -> fs = {}

Finish(e) ==
    /\ started[e]
    /\ phase[e] \in {"RUNNING", "CANCELLED"}
    /\ \E outcome \in {"COMPLETED", "PARTIAL", "FAILED"}, fs \in SUBSET Funds :
          /\ Delivers(e, outcome, fs)
          /\ phase' = [phase EXCEPT ![e] = outcome]
          /\ visible' = [visible EXCEPT ![e] = fs]
    /\ UNCHANGED <<started, wanted, told>>

Tell(e) ==
    /\ phase[e] \in {"COMPLETED", "PARTIAL", "FAILED"}
    /\ told[e] = <<>>
    /\ told' = [told EXCEPT ![e] =
                   <<IF phase[e] = "COMPLETED" THEN "ready" ELSE "failed">>]
    /\ UNCHANGED <<phase, started, wanted, visible>>

Next == \E e \in Extracts :
            Accept(e) \/ Start(e) \/ Cancel(e) \/ Finish(e) \/ Tell(e)

Spec == Init /\ [][Next]_vars
=============================================================================
