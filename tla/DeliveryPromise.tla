--------------------------- MODULE DeliveryPromise ---------------------------
(***************************************************************************)
(* What durable delivery promises the producer of an event, independently  *)
(* of leases, fences, clocks and workers.                                  *)
(*                                                                         *)
(* Every (event, consumer) row that is owed is tried at most MaxAttempts   *)
(* times and ends either delivered or dropped; it is never settled without *)
(* having been tried, never settled twice, and never owed again.           *)
(* OutboxDispatch implements this specification.                           *)
(***************************************************************************)
EXTENDS Naturals

CONSTANTS
  Row,          (* the (event, consumer) pairs that may be owed            *)
  MaxAttempts   (* attempt ceiling of automation-durable-dispatcher.ts     *)

VARIABLES
  outcome,      (* outcome[r]: absent, owed, delivered or dropped          *)
  tries         (* tries[r]: attempts spent on r so far                    *)

vars == <<outcome, tries>>

Outcome == {"absent", "owed", "delivered", "dropped"}

Init ==
  /\ outcome = [r \in Row |-> "absent"]
  /\ tries = [r \in Row |-> 0]

(* One source transaction makes all the rows of its event owed at once.    *)
Owe(rs) ==
  /\ \A r \in rs : outcome[r] = "absent"
  /\ outcome' = [r \in Row |-> IF r \in rs THEN "owed" ELSE outcome[r]]
  /\ UNCHANGED tries

Try(r) ==
  /\ outcome[r] = "owed"
  /\ tries[r] < MaxAttempts
  /\ tries' = [tries EXCEPT ![r] = @ + 1]
  /\ UNCHANGED outcome

Settle(r, verdict) ==
  /\ outcome[r] = "owed"
  /\ tries[r] > 0
  /\ outcome' = [outcome EXCEPT ![r] = verdict]
  /\ UNCHANGED tries

Next ==
  \/ \E rs \in SUBSET Row : Owe(rs)
  \/ \E r \in Row : Try(r)
  \/ \E r \in Row, verdict \in {"delivered", "dropped"} : Settle(r, verdict)

Spec == Init /\ [][Next]_vars
==============================================================================
