-------------------------- MODULE MCApprovalBridge --------------------------
(* Instances of ApprovalBridge for TLC. *)
EXTENDS ApprovalBridge, TLC

CONSTANTS x1, x2, x3, d1, d2, d3

Retries == Permutations(Execs \ {First})
Deliveries == Permutations(Workers)
=============================================================================
