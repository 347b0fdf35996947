----------------------------- MODULE MCWebhook -----------------------------
(***************************************************************************)
(* Instances of WebhookDelivery for TLC.                                   *)
(***************************************************************************)
EXTENDS WebhookDelivery

CONSTANTS j1, j2, j3, s1, s2
=============================================================================
