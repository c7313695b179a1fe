-------------------------- MODULE MCOutboxDispatch --------------------------
(* Instances of OutboxDispatch for TLC. *)
EXTENDS OutboxDispatch

CONSTANTS w1, w2, e1, k1, k2, k3

(* One row, two workers with clocks one unit apart.                        *)
OneRoute == [e \in Events |-> {k1}]
BothKnow == [w \in Workers |-> {k1}]
SkewedClocks == [w \in Workers |-> IF w = w1 THEN 0 ELSE 1]

(* A rolling deploy: w1 is the newer build, nobody serves k3 yet.          *)
AllRoutes == [e \in Events |-> Keys]
RollingDeploy == [w \in Workers |-> IF w = w1 THEN {k1, k2} ELSE {k1}]
SameClocks == [w \in Workers |-> 0]
=============================================================================
