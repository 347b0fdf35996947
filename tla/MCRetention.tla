---------------------------- MODULE MCRetention ----------------------------
(***************************************************************************)
(* Instances of Retention for TLC.                                         *)
(***************************************************************************)
EXTENDS Retention

CONSTANTS e1, e2, fA

\* One extract is kept for longer than the warning window, one is not.
DaysByExtract == [e \in {e1, e2} |-> IF e = e1 THEN 3 ELSE 1]
=============================================================================
