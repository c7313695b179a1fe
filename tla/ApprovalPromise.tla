--------------------------- MODULE ApprovalPromise ---------------------------
(***************************************************************************)
(* What the approval bridge promises the author of a rule whose action     *)
(* start_approval is followed by other actions (its tail), independently   *)
(* of bridge rows, leases, jobs and workers.                               *)
(*                                                                         *)
(* The tail of an execution runs only if the approval that this very       *)
(* execution started was approved; its actions run in order; none of them  *)
(* runs twice.  ApprovalBridge implements this specification.              *)
(***************************************************************************)
EXTENDS Naturals

CONSTANTS
  Execs,        (* executions of the rule                                  *)
  Tail          (* number of actions after start_approval                  *)

VARIABLES
  approval,     (* approval[e]: none, open, approved or rejected           *)
  runs          (* runs[e][i]: how often tail action i of e was executed   *)

vars == <<approval, runs>>

Init ==
  /\ approval = [e \in Execs |-> "none"]
  /\ runs = [e \in Execs |-> [i \in 1 .. Tail |-> 0]]

Start(e, state) ==
  /\ approval[e] = "none"
  /\ approval' = [approval EXCEPT ![e] = state]
  /\ UNCHANGED runs

Decide(e, verdict) ==
  /\ approval[e] = "open"
  /\ approval' = [approval EXCEPT ![e] = verdict]
  /\ UNCHANGED runs

RunAction(e, i) ==
  /\ approval[e] = "approved"
  /\ runs[e][i] = 0
  /\ \A j \in 1 .. i - 1 : runs[e][j] = 1
  /\ runs' = [runs EXCEPT ![e][i] = 1]
  /\ UNCHANGED approval

Next ==
  \E e \in Execs :
    \/ \E state \in {"open", "approved"} : Start(e, state)
    \/ \E verdict \in {"approved", "rejected"} : Decide(e, verdict)
    \/ \E i \in 1 .. Tail : RunAction(e, i)

Spec == Init /\ [][Next]_vars
==============================================================================
