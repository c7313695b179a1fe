--------------------------- MODULE MCRuleDelivery ---------------------------
(* Instances of RuleDelivery for TLC. *)
EXTENDS RuleDelivery

CONSTANTS w1, w2, e1, k1

OneRoute == [e \in Events |-> {k1}]
BothKnow == [w \in Workers |-> {k1}]
SameClocks == [w \in Workers |-> 0]
=============================================================================
