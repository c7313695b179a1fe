-------------------------- MODULE MCSchedulerLeader --------------------------
(* Instances of SchedulerLeader for TLC. *)
EXTENDS SchedulerLeader, TLC

CONSTANTS r1, r2, r3

Replicas == Permutations(Replica)

(* Two edits, or beside a fault one that leaves the rule enabled. *)
Bounded == /\ now.version + faults <= 2
           /\ now.version = 1 /\ faults = 1 => now.rule = "on"
=============================================================================
