-------------------------- MODULE MCExecutionRetry --------------------------
(* Instances of ExecutionRetry for TLC. *)
EXTENDS ExecutionRetry

(* A rule with one action of each kind, and one that calls a webhook.      *)
AllKinds == <<"update", "create", "webhook", "email">>
OneWebhook == <<"webhook">>
=============================================================================
