-------------------------- MODULE MCWebhookDelivery --------------------------
(* Instances of WebhookDelivery for TLC. *)
EXTENDS WebhookDelivery, TLC

CONSTANTS d1, d2, w1, w2

(* Two replicas whose ticks meet at one row; a first attempt beside a tick *)
(* with a batch; a batch whose tick fails; an admin who edits the webhook  *)
(* under way; and a webhook that is never to be retried.                   *)
TwoTicks == [come |-> {}, left |-> {d1}, replicas |-> {w1, w2}, limit |-> 2, edits |-> 0, faults |-> 2]
TwoRows == [come |-> {d1}, left |-> {d2}, replicas |-> {w1}, limit |-> 2, edits |-> 0, faults |-> 0]
LeftRows == [come |-> {}, left |-> {d1, d2}, replicas |-> {w1}, limit |-> 2, edits |-> 0, faults |-> 2]
Edited == [come |-> {d1}, left |-> {}, replicas |-> {w1}, limit |-> 2, edits |-> 1, faults |-> 1]
NoRetry == [come |-> {d1}, left |-> {d2}, replicas |-> {w1}, limit |-> 0, edits |-> 0, faults |-> 1]
AllSetups == {TwoTicks, TwoRows, LeftRows, Edited, NoRetry}
=============================================================================
