---------------------------- MODULE WebhookDelivery ----------------------------
(***************************************************************************)
(* The deliveries of one webhook: first attempts, which nobody awaits, and *)
(* the retry ticks of several replicas.                                    *)
(*                                                                         *)
(*   webhook-service.ts        deliverEvent, executeDelivery,              *)
(*                             retryFailedDeliveries, handleDeliveryFailure*)
(*   WebhookRetryScheduler.ts  one tick at a time in a replica; without    *)
(*                             the optional lock every replica has ticks   *)
(*                                                                         *)
(* Every statement is a step.  No clock is kept: the abort timer is off    *)
(* before the body is read and a batch is delivered one by one, so an      *)
(* attempt may outlast the lease, the grace period and any backoff.  A     *)
(* second event with the same id inserts nothing and is not an action.     *)
(***************************************************************************)
EXTENDS Naturals, Sequences, FiniteSets

CONSTANTS
  Delivery,     (* rows of multitable_webhook_deliveries                   *)
  Replica,
  Setups,       (* bounds: the rows to come, the rows a dead process left  *)
                (* before their first attempt, the replicas that run, the  *)
                (* first max_retries, how often an admin edits the webhook,*)
                (* and the crashes and failed statements                   *)
  MaxRetries,   (* WEBHOOK_MAX_MAX_RETRIES; the least max_retries is 0     *)
  MaxFailures   (* maxConsecutiveFailures()                                *)

ASSUME NamesAssumption == Delivery \cap Replica = {} /\ IsFiniteSet(Delivery)
ASSUME SetupsAssumption ==
  \A s \in Setups : /\ s.come \subseteq Delivery /\ s.left \subseteq Delivery
                    /\ s.replicas \subseteq Replica /\ s.limit \in 0 .. MaxRetries
                    /\ s.edits \in Nat /\ s.faults \in Nat
ASSUME LimitsAssumption == MaxRetries \in Nat \ {0} /\ MaxFailures \in Nat \ {0}

VARIABLES
  setup,      (* the member of Setups that is played                       *)
  row,        (* row[d]: status, attempt_count and where next_retry_at is  *)
  hook,       (* active, failure_count and max_retries of the webhook      *)
  run,        (* the first attempt of d, and the tick of a replica         *)
  batch,      (* batch[r]: the claimed rows the tick has left              *)
  edits,
  faults,
  (* History, read by no action; counts stop where they no longer matter:  *)
  sends,      (* sends[d]: requests made                                   *)
  accepted,   (* accepted[d]: requests the endpoint answered with success  *)
  streak,     (* failed attempts recorded since the last recorded success  *)
  blamed,     (* failed attempts recorded in all                           *)
  disturbed,  (* an attempt at d outlived its deadline or left no record   *)
  miscounted, (* a failure count was written from a reading since outdated *)
  stopped,    (* the webhook has been inactive                             *)
  limits      (* the values max_retries has had                            *)

vars == <<setup, row, hook, run, batch, edits, faults,
          sends, accepted, streak, blamed, disturbed, miscounted, stopped, limits>>
History == <<sends, accepted, streak, blamed, disturbed, miscounted, stopped, limits>>

Runner == Delivery \cup Replica
Steps == {"check", "drop", "read", "send", "store", "credit", "blame", "fail", "park"}

(* The step d's attempt is at, with what it has read: the attempts of the  *)
(* row, the failures and the limit of the webhook; guarded inside the try  *)
(* block, told once its failure is in the count of the webhook.            *)
Idle == [pc |-> "idle"]
At(pc, r, d, count) ==
  [pc |-> pc, at |-> r, d |-> d, count |-> count, seen |-> 0, limit |-> 0, guarded |-> FALSE, told |-> FALSE]
NoRow == [status |-> "none", attempts |-> 0, due |-> "young"]
PendingRow == [NoRow EXCEPT !.status = "pending"]

Init ==
  /\ setup \in Setups
  /\ row = [d \in Delivery |-> IF d \in setup.left THEN PendingRow ELSE NoRow]
  /\ hook = [active |-> TRUE, failures |-> 0, limit |-> setup.limit]
  /\ run = [p \in Runner |-> Idle]
  /\ batch = [r \in Replica |-> <<>>]
  /\ edits = 0 /\ faults = 0
  /\ sends = [d \in Delivery |-> 0]
  /\ accepted = [d \in Delivery |-> 0]
  /\ streak = 0 /\ blamed = 0
  /\ disturbed = [d \in Delivery |-> FALSE]
  /\ miscounted = FALSE /\ stopped = FALSE
  /\ limits = {setup.limit}

Fault == faults < setup.faults /\ faults' = faults + 1
UpTo(limit, n) == IF n < limit THEN n ELSE limit
Moves(p, pc) == run' = [run EXCEPT ![p] = [@ EXCEPT !.pc = pc]]

-----------------------------------------------------------------------------
(* An event arrives: the row is inserted, and its first attempt started.   *)

Comes(d) == d \in setup.come /\ row[d].status = "none" /\ hook.active

Deliver(d, r) ==
  /\ Comes(d) /\ r \in setup.replicas
  /\ row' = [row EXCEPT ![d] = PendingRow]
  /\ run' = [run EXCEPT ![d] = At("read", r, d, 0)]
  /\ UNCHANGED <<setup, hook, batch, edits, faults, History>>

(* The answer to the INSERT is lost: a row without an attempt.             *)
DeliverFails(d) ==
  /\ Comes(d) /\ Fault
  /\ row' = [row EXCEPT ![d] = PendingRow]
  /\ UNCHANGED <<setup, hook, run, batch, edits, History>>

UnderWay(d) == \/ \E p \in Runner : run[p].pc # "idle" /\ run[p].d = d
               \/ \E r \in Replica : \E i \in 1 .. Len(batch[r]) : batch[r][i].d = d

(* The lease or the backoff runs out, or the grace of a first attempt.     *)
Elapse(d) ==
  /\ row[d].status = "pending" /\ row[d].due \in {"young", "waiting"}
  /\ row' = [row EXCEPT ![d].due = IF @ = "young" THEN "stray" ELSE "elapsed"]
  /\ disturbed' = [disturbed EXCEPT ![d] = @ \/ UnderWay(d)]
  /\ UNCHANGED <<setup, hook, run, batch, edits, faults, sends, accepted, streak, blamed, miscounted, stopped, limits>>

-----------------------------------------------------------------------------
(* retryFailedDeliveries: the claim and the walk over the batch.           *)

(* Mutant: only rows with a retry time are looked at. *)
Due_ScheduledOnly(x) == x.status = "pending" /\ x.due = "elapsed"
Due(x) == x.status = "pending" /\ x.due \in {"elapsed", "stray"}

(* Mutant: the claim forgets to move the retry time. *)
LeasedRow_NoLease(x) == x
LeasedRow(x) == [x EXCEPT !.due = "waiting"]

Claimed == {d \in Delivery : Due(row[d])}
Orders(S) == {s \in [1 .. Cardinality(S) -> S] : \A i, j \in DOMAIN s : s[i] = s[j] => i = j}
Snapshot(s) == [i \in DOMAIN s |-> [d |-> s[i], count |-> row[s[i]].attempts]]

(* The tick turns to the next row of its batch, or ends. *)
TurnsTo(r, rest) ==
  /\ batch' = [batch EXCEPT ![r] = rest]
  /\ run' = [run EXCEPT ![r] = IF rest = <<>> THEN Idle
                               ELSE At("check", r, Head(rest).d, Head(rest).count)]

Claim(r) ==
  /\ r \in setup.replicas /\ run[r].pc = "idle" /\ Claimed # {}
  /\ \E s \in Orders(Claimed) : TurnsTo(r, Snapshot(s))
  /\ row' = [d \in Delivery |-> IF d \in Claimed THEN LeasedRow(row[d]) ELSE row[d]]
  /\ UNCHANGED <<setup, hook, edits, faults, History>>

(* The webhook is read before each row. *)
Check(r) ==
  /\ run[r].pc = "check"
  /\ Moves(r, IF hook.active /\ run[r].count < hook.limit THEN "read" ELSE "drop")
  /\ UNCHANGED <<setup, row, hook, batch, edits, faults, History>>

-----------------------------------------------------------------------------
(* executeDelivery: an attempt, of either kind. *)

(* An attempt that may still write what it has read of the webhook.        *)
HoldsReading(x) == x.pc \in {"send", "blame"} \/ (x.pc # "idle" /\ x.guarded)

Read(p) ==
  /\ run[p].pc = "read"
  /\ run' = [run EXCEPT ![p].pc = "send", ![p].count = @ + 1,
                        ![p].seen = hook.failures, ![p].limit = hook.limit]
  /\ miscounted' = (miscounted \/ \E q \in Runner : HoldsReading(run[q]))
  /\ UNCHANGED <<setup, row, hook, batch, edits, faults, sends, accepted, streak, blamed, disturbed, stopped, limits>>

(* The endpoint answers with success or with an error, or fetch throws.    *)
Verdict(answer) == IF answer = "ok" THEN "store" ELSE "blame"

Send(p) ==
  LET d == run[p].d IN
  /\ run[p].pc = "send"
  /\ \E answer \in {"ok", "error", "none"} :
       /\ run' = [run EXCEPT ![p] = [@ EXCEPT !.pc = Verdict(answer), !.guarded = answer # "none"]]
       /\ accepted' = IF answer = "ok"
                      THEN [accepted EXCEPT ![d] = UpTo(IF disturbed[d] THEN 1 ELSE 2, @ + 1)]
                      ELSE accepted
  /\ sends' = [sends EXCEPT ![d] = UpTo(IF disturbed[d] THEN MaxRetries ELSE MaxRetries + 1, @ + 1)]
  /\ UNCHANGED <<setup, row, hook, batch, edits, faults, streak, blamed, disturbed, miscounted, stopped, limits>>

(* What the statements of an attempt write. *)
Recording == {"store", "credit", "blame", "fail", "park"}
StoredRow(x, count) == [x EXCEPT !.status = "success", !.attempts = count]
DroppedRow(x) == [x EXCEPT !.status = "failed"]
FailedRow(x, count) == [x EXCEPT !.status = "failed", !.attempts = count]
ParkedRow(x, count) == [x EXCEPT !.status = "pending", !.attempts = count, !.due = "waiting"]

(* Mutant: a success leaves the failures as they are. *)
CreditedHook_KeepsCount == hook
CreditedHook == [hook EXCEPT !.failures = 0]
TooMany(failures) == failures >= MaxFailures
BlamedHook(seen) == [hook EXCEPT !.active = @ /\ ~ TooMany(seen + 1), !.failures = seen + 1]

(* Mutant: one attempt too few. *)
Spent_OffByOne(x) == x.count + 1 >= x.limit
Spent(x) == x.count >= x.limit

AfterBlame(x) == IF TooMany(x.seen + 1) \/ Spent(x) THEN "fail" ELSE "park"

RowAfter(p) ==
  LET x == run[p] IN
  CASE x.pc = "store" -> [row EXCEPT ![x.d] = StoredRow(@, x.count)]
    [] x.pc = "drop"  -> [row EXCEPT ![x.d] = DroppedRow(@)]
    [] x.pc = "fail"  -> [row EXCEPT ![x.d] = FailedRow(@, x.count)]
    [] x.pc = "park"  -> [row EXCEPT ![x.d] = ParkedRow(@, x.count)]
    [] OTHER          -> row
(* A failed attempt counts once, though the catch clause may record it anew. *)
Told(x, done) == x.told \/ (done /\ x.pc = "blame")
Counts(p) == run[p].pc = "blame" /\ ~ run[p].told
StreakAfter(p) == CASE run[p].pc = "credit" -> 0
                    [] Counts(p) -> UpTo(MaxFailures, streak + 1)
                    [] OTHER     -> streak
BlamedAfter(p) == IF Counts(p) THEN UpTo(MaxFailures, blamed + 1) ELSE blamed
HookAfter(p) == CASE run[p].pc = "credit" -> CreditedHook
                  [] run[p].pc = "blame"  -> BlamedHook(run[p].seen)
                  [] OTHER                -> hook

(* The attempt is over: the tick goes on, a first attempt has nobody       *)
(* waiting for it.                                                         *)
Over(p) == IF p \in Replica THEN TurnsTo(p, Tail(batch[p]))
                            ELSE run' = [run EXCEPT ![p] = Idle] /\ UNCHANGED batch

(* Mutant: the failure is handled after the success too. *)
Then_NoElse(x) == CASE x.pc = "store" -> "credit"
                    [] x.pc = "credit" -> "blame"
                    [] x.pc = "blame" -> AfterBlame(x)
                    [] OTHER -> "over"
Then(x) == CASE x.pc = "store" -> "credit"
             [] x.pc = "blame" -> AfterBlame(x)
             [] OTHER -> "over"

Write(p) ==
  /\ run[p].pc \in Recording \cup {"drop"}
  /\ row' = RowAfter(p) /\ hook' = HookAfter(p)
  /\ LET pc == Then(run[p]) IN
       IF pc = "over" THEN Over(p)
       ELSE /\ run' = [run EXCEPT ![p] = [@ EXCEPT !.pc = pc, !.told = Told(run[p], TRUE)]]
            /\ UNCHANGED batch
  /\ streak' = StreakAfter(p) /\ blamed' = BlamedAfter(p)
  /\ stopped' = (stopped \/ ~ hook'.active)
  /\ UNCHANGED <<setup, edits, faults, sends, accepted, disturbed, miscounted, limits>>

(* A throw ends a first attempt, and a tick with all that is left to do.   *)
(* Mutant: the tick ends, its batch stays. *)
Thrown_KeepsBatch(p) == run' = [run EXCEPT ![p] = Idle] /\ UNCHANGED batch
Thrown(p) == /\ run' = [run EXCEPT ![p] = Idle]
             /\ batch' = IF p \in Replica THEN [batch EXCEPT ![p] = <<>>] ELSE batch

(* A statement fails, carried out or not.  Inside the try block the catch  *)
(* clause takes it for a failure of the delivery and records that; outside *)
(* of it the attempt is left unrecorded.                                   *)

LeavesNoRecord(p) == IF run[p].guarded THEN run[p].pc \in {"store", "credit"}
                                       ELSE run[p].pc \in Recording
Caught(p, done) ==
  /\ run' = [run EXCEPT ![p] = [@ EXCEPT !.pc = "blame", !.guarded = FALSE, !.told = Told(run[p], done)]]
  /\ UNCHANGED batch

StatementFails(p) ==
  /\ run[p].pc \in Steps \ {"send"} /\ Fault
  /\ \E done \in BOOLEAN :
       /\ row' = IF done THEN RowAfter(p) ELSE row
       /\ hook' = IF done THEN HookAfter(p) ELSE hook
       /\ streak' = IF done THEN StreakAfter(p) ELSE streak
       /\ blamed' = IF done THEN BlamedAfter(p) ELSE blamed
       /\ IF run[p].guarded THEN Caught(p, done) ELSE Thrown(p)
  /\ disturbed' = [disturbed EXCEPT ![run[p].d] = @ \/ LeavesNoRecord(p)]
  /\ miscounted' = (miscounted \/ run[p].pc = "credit")
  /\ stopped' = (stopped \/ ~ hook'.active)
  /\ UNCHANGED <<setup, edits, sends, accepted, limits>>

-----------------------------------------------------------------------------
(* A replica dies with its tick and the first attempts it started. *)
Dies(p, r) == run[p].pc # "idle" /\ run[p].at = r

Crash(r) ==
  /\ \E p \in Runner : Dies(p, r)
  /\ Fault
  /\ run' = [p \in Runner |-> IF Dies(p, r) THEN Idle ELSE run[p]]
  /\ batch' = [batch EXCEPT ![r] = <<>>]
  /\ disturbed' = [d \in Delivery |->
       disturbed[d] \/ \E p \in Runner : Dies(p, r) /\ run[p].d = d /\ run[p].pc \in Recording]
  /\ UNCHANGED <<setup, row, hook, edits, sends, accepted, streak, blamed, miscounted, stopped, limits>>

(* updateWebhook sets active and max_retries and leaves the failures. *)
Switch ==
  /\ edits < setup.edits /\ edits' = edits + 1
  /\ \E active \in BOOLEAN, limit \in 0 .. MaxRetries :
       hook' = [hook EXCEPT !.active = active, !.limit = limit]
  /\ stopped' = (stopped \/ ~ hook'.active)
  /\ limits' = limits \cup {hook'.limit}
  /\ UNCHANGED <<setup, row, run, batch, faults, sends, accepted, streak, blamed, disturbed, miscounted>>

Advances(p) == Read(p) \/ Send(p) \/ Write(p)

Next ==
  \/ \E d \in Delivery : Elapse(d) \/ DeliverFails(d) \/ \E r \in Replica : Deliver(d, r)
  \/ \E r \in Replica : Claim(r) \/ Check(r) \/ Crash(r)
  \/ \E p \in Runner : Advances(p) \/ StatementFails(p)
  \/ Switch

Spec == Init /\ [][Next]_vars

(* Time passes, ticks come round, statements and endpoints answer. *)
Fairness == /\ \A d \in Delivery : WF_vars(Elapse(d))
            /\ \A r \in Replica : WF_vars(Claim(r) \/ Check(r))
            /\ \A p \in Runner : WF_vars(Advances(p))
FairSpec == Spec /\ Fairness

-----------------------------------------------------------------------------
(* Type correctness; the row a tick is at is the first of its batch, and a *)
(* tick is idle exactly when its batch is empty.                           *)
WebhookTypeOK ==
  /\ setup \in Setups
  /\ row \in [Delivery -> [status : {"none", "pending", "success", "failed"},
                           attempts : Nat, due : {"young", "stray", "waiting", "elapsed"}]]
  /\ hook \in [active : BOOLEAN, failures : Nat, limit : 0 .. MaxRetries]
  /\ run \in [Runner -> {Idle} \cup [pc : Steps, at : Replica, d : Delivery, count : Nat,
                                    seen : Nat, limit : 0 .. MaxRetries, guarded : BOOLEAN, told : BOOLEAN]]
  /\ batch \in [Replica -> Seq([d : Delivery, count : Nat])]
  /\ \A r \in Replica :
       /\ (batch[r] = <<>>) <=> (run[r] = Idle)
       /\ batch[r] # <<>> => run[r].d = Head(batch[r]).d /\ run[r].at = r
  /\ edits \in 0 .. setup.edits /\ faults \in 0 .. setup.faults
  /\ sends \in [Delivery -> Nat] /\ accepted \in [Delivery -> Nat] /\ streak \in Nat /\ blamed \in Nat
  /\ disturbed \in [Delivery -> BOOLEAN] /\ miscounted \in BOOLEAN /\ stopped \in BOOLEAN
  /\ limits \in SUBSET (0 .. MaxRetries)

(* Unless an attempt outlived its lease or grace or was left unrecorded,   *)
(* the endpoint accepts a delivery once, and is tried a second time only   *)
(* within the max_retries there was at the time; the first attempt is made *)
(* under any, 0 included.                                                  *)
TriesBounded ==
  \A d \in Delivery :
    ~ disturbed[d] => accepted[d] <= 1 /\ (sends[d] <= 1 \/ \E n \in limits : sends[d] <= n)

(* A stored outcome has its cause, however attempts overlap and statements *)
(* fail: a success was accepted by the endpoint, and a delivery is given   *)
(* up only after as many requests as max_retries has been, or when the     *)
(* webhook was inactive.                                                   *)
OutcomeExplained ==
  \A d \in Delivery :
    /\ row[d].status = "success" => accepted[d] > 0
    /\ row[d].status = "failed" => stopped \/ \E n \in limits : sends[d] >= n

(* A success stays one, unless attempts were doubled or left no record.    *)
SuccessKept ==
  [][\A d \in Delivery :
       row[d].status = "success" => row'[d].status = "success" \/ disturbed'[d]]_vars

(* The service disables the webhook only after MaxFailures attempts have   *)
(* failed: in all if a count was written from an old reading, and else in  *)
(* a row.  Attempts that overlap, or are recorded twice, never add up to   *)
(* more failures than there were.                                          *)
DisabledForCause ==
  [][hook.active /\ ~ hook'.active /\ edits' = edits
       => IF miscounted' THEN blamed' >= MaxFailures ELSE streak' >= MaxFailures]_vars

(* Every delivery that is pending is settled, though replicas crash and    *)
(* statements fail: no state is left that no tick looks at.                *)
Settles ==
  \A d \in Delivery : row[d].status = "pending" ~> row[d].status \in {"success", "failed"}
=============================================================================
