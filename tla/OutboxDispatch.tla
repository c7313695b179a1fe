--------------------------- MODULE OutboxDispatch ---------------------------
(***************************************************************************)
(* The durable automation outbox of packages/core-backend/src/multitable:  *)
(*                                                                         *)
(*   automation-outbox-enqueue.ts        producers enqueue, in their own   *)
(*                                       transaction, one pending row per  *)
(*                                       consumer key of the event         *)
(*   automation-durable-dispatcher.ts    claim, renew, complete, poison    *)
(*                                       and reschedule: SQL statements    *)
(*                                       guarded by a fence and a lease    *)
(*   automation-durable-dispatch-loop.ts the tick: one claim per slot, the *)
(*                                       adapter under a heartbeat and a   *)
(*                                       timeout, then one resolve         *)
(*                                                                         *)
(* Each SQL statement is one atomic step; between issuing a statement and  *)
(* its execution the other workers, and time, may move.  `asOf` is the     *)
(* clock reading the statement carries.  All times are relative to the     *)
(* present: a lease is the time left until it expires, and Tick moves the  *)
(* present forward, which decrements every one of them.                    *)
(***************************************************************************)
EXTENDS Integers, FiniteSets

CONSTANTS
  Workers,      (* dispatch loops, one per replica                         *)
  Events,       (* producer events                                         *)
  Keys,         (* consumer keys                                           *)
  Routes,       (* Routes[e]: the keys the manifest routes event e to      *)
  Known,        (* Known[w]: the keys of w's adapter registry              *)
  Skew,         (* Skew[w]: offset of w's clock from true time             *)
  MaxAttempts,  (* attempt ceiling                                         *)
  LeaseTime,    (* lease duration                                          *)
  RetryBase,    (* backoff base                                            *)
  RetryCap,     (* backoff cap                                             *)
  BatchSize,    (* slots per tick                                          *)
  MaxDelay,     (* BOUND: how long an issued statement may wait            *)
  MaxFaults,    (* BOUND: crashes, database errors and stops per behaviour *)
  Horizon,      (* BOUND: how long after its expiry a lease is aged        *)
  NULL          (* no lease, no job, no heartbeat                          *)

ASSUME DispatchAssumption ==
  /\ Routes \in [Events -> (SUBSET Keys) \ {{}}]
  /\ Known \in [Workers -> (SUBSET Keys) \ {{}}]
  /\ Skew \in [Workers -> Int]
  /\ MaxAttempts \in Nat \ {0}
  /\ LeaseTime \in Nat \ {0}
  /\ RetryBase \in Nat \ {0}
  /\ RetryCap \in Nat \ {0}
  /\ RetryBase <= RetryCap
  /\ BatchSize \in Nat \ {0}
  /\ MaxDelay \in Nat
  /\ MaxFaults \in Nat
  /\ Horizon \in Nat
  /\ \A w \in Workers : MaxDelay - Skew[w] <= Horizon
  /\ NULL \notin Int
  /\ NULL \notin [row : Events \X Keys, fence : Nat, attempts : Nat \ {0}]
  /\ NULL \notin [row : Events \X Keys, fence : Nat, asOf : Int]

Rows == Events \X Keys

VARIABLES
  row,          (* meta_automation_outbox_consumer, one record per row     *)
  pc,           (* what the loop of each worker is waiting for             *)
  job,          (* the ClaimedConsumer the worker is processing, or NULL   *)
  asOf,         (* clock reading of the statement in flight                *)
  slot,         (* slots used by the current tick                          *)
  taken,        (* claimedThisTick                                         *)
  verdict,      (* NormalizedVerdict of the settled adapter call           *)
  aborted,      (* leaseLost / heartbeatErrored flags of the current row   *)
  beat,         (* the renew in flight, or NULL                            *)
  stopping,     (* workers whose stop() was called                         *)
  alerted,      (* alerted[w]: keys w reported as unknown                  *)
  faults,       (* faults spent so far                                     *)
  (* History, read by no action: *)
  began,        (* began[r]: adapter calls started for r                   *)
  burned,       (* burned[r]: claims whose reply never reached the worker  *)
  accepted,     (* accepted[r]: fences under which an adapter succeeded    *)
  rejected,     (* rejected[r]: fences under which it rejected for good    *)
  runs,         (* runs[w][r]: adapter calls w started for r in this tick  *)
  parked        (* rows rescheduled and not claimed since                  *)

loop == <<pc, job, asOf, slot, taken, verdict, aborted>>
history == <<began, burned, accepted, rejected, runs, parked>>
vars == <<row, loop, beat, stopping, alerted, faults, history>>

Status == {"absent", "pending", "in_progress", "done", "dead_letter"}
Terminal == {"done", "dead_letter"}
Errors == {"none", "retryable", "permanent_rejection", "max_attempts_exhausted"}

(* What adapter.handle may come to: a verdict, a malformed verdict, a      *)
(* throw, or the adapter timeout winning the race.                         *)
Raw == {"success", "permanent_rejection", "malformed_permanent",
        "retryable_failure", "garbage", "throw", "timeout"}

NoRow == [status |-> "absent", lease |-> NULL, fence |-> 0, attempts |-> 0, error |-> "none"]
Pending == [NoRow EXCEPT !.status = "pending"]

Init ==
  /\ row = [r \in Rows |-> NoRow]
  /\ pc = [w \in Workers |-> "idle"]
  /\ job = [w \in Workers |-> NULL]
  /\ asOf = [w \in Workers |-> Skew[w]]
  /\ slot = [w \in Workers |-> 0]
  /\ taken = [w \in Workers |-> {}]
  /\ verdict = [w \in Workers |-> "none"]
  /\ aborted = [w \in Workers |-> "no"]
  /\ beat = [w \in Workers |-> NULL]
  /\ stopping = {}
  /\ alerted = [w \in Workers |-> {}]
  /\ faults = 0
  /\ began = [r \in Rows |-> 0]
  /\ burned = [r \in Rows |-> 0]
  /\ accepted = [r \in Rows |-> {}]
  /\ rejected = [r \in Rows |-> {}]
  /\ runs = [w \in Workers |-> [r \in Rows |-> 0]]
  /\ parked = {}

-----------------------------------------------------------------------------
(* Producers *)

(* enqueueOutboxEvent: the outbox row and one pending consumer row per key *)
(* of the manifest become visible together, when the source write commits. *)
Enqueue(e) ==
  /\ \A k \in Keys : row[<<e, k>>].status = "absent"
  /\ row' = [r \in Rows |-> IF r[1] = e /\ r[2] \in Routes[e] THEN Pending ELSE row[r]]
  /\ UNCHANGED <<loop, beat, stopping, alerted, faults, history>>

-----------------------------------------------------------------------------
(* The claim statement *)

(* Mutant: an expired lease is not taken over.                             *)
Reclaimable_PendingOnly(w, r) == row[r].status = "pending"

(* Not terminal, and not under a live lease as far as w's clock can tell.  *)
Reclaimable(w, r) ==
  \/ row[r].status = "pending"
  \/ row[r].status = "in_progress" /\ row[r].lease <= asOf[w]

(* findUnknownConsumerKeys                                                 *)
UnknownKeys(w) == {r[2] : r \in {q \in Rows : Reclaimable(w, q) /\ q[2] \notin Known[w]}}

(* Mutant: the claim is not scoped to the registry's keys.                 *)
Claimable_AnyKey(w, r) == pc[w] = "claim" /\ r \notin taken[w] /\ Reclaimable(w, r)

(* The WHERE clause of claimDueConsumers.  ORDER BY updated_at LIMIT 1 is  *)
(* any one of them: ties, skewed clocks and SKIP LOCKED leave no order.    *)
Claimable(w, r) ==
  /\ pc[w] = "claim"
  /\ r[2] \in Known[w]
  /\ r \notin taken[w]
  /\ Reclaimable(w, r)

(* Mutant: one attempt too many.                                           *)
Exhausted_OffByOne(r) == row[r].attempts > MaxAttempts

Exhausted(r) == row[r].attempts >= MaxAttempts

(* Mutant: the claim does not bump the fence.                              *)
ClaimedRow_SameFence(w, r) ==
  IF Exhausted(r)
  THEN [row[r] EXCEPT !.status = "dead_letter", !.lease = NULL, !.error = "max_attempts_exhausted"]
  ELSE [row[r] EXCEPT !.status = "in_progress", !.lease = asOf[w] + LeaseTime, !.attempts = @ + 1]

(* The row after the claim statement: poisoned at the ceiling, else handed *)
(* out under a new fence with one more attempt spent.                      *)
ClaimedRow(w, r) ==
  IF Exhausted(r)
  THEN [row[r] EXCEPT !.status = "dead_letter", !.lease = NULL, !.error = "max_attempts_exhausted"]
  ELSE [row[r] EXCEPT !.status = "in_progress", !.lease = asOf[w] + LeaseTime,
                      !.fence = @ + 1, !.attempts = @ + 1]

ClaimRow(w, r) ==
  /\ row' = [row EXCEPT ![r] = ClaimedRow(w, r)]
  /\ parked' = parked \ {r}

-----------------------------------------------------------------------------
(* The tick *)

Fault == faults < MaxFaults /\ faults' = faults + 1

EndTick(w) ==
  /\ pc' = [pc EXCEPT ![w] = "idle"]
  /\ asOf' = [asOf EXCEPT ![w] = Skew[w]]
  /\ slot' = [slot EXCEPT ![w] = 0]
  /\ taken' = [taken EXCEPT ![w] = {}]
  /\ runs' = [runs EXCEPT ![w] = [r \in Rows |-> 0]]

(* The head of the slot loop: the budget and shouldStop() are checked, and *)
(* the next claim is issued with a fresh clock reading.                    *)
NextSlot(w) ==
  \/ /\ slot[w] < BatchSize /\ w \notin stopping
     /\ pc' = [pc EXCEPT ![w] = "claim"]
     /\ asOf' = [asOf EXCEPT ![w] = Skew[w]]
     /\ slot' = [slot EXCEPT ![w] = @ + 1]
     /\ UNCHANGED <<taken, runs>>
  \/ /\ slot[w] >= BatchSize \/ w \in stopping
     /\ EndTick(w)

(* The interval fires on an idle loop (`running` is the overlap guard):    *)
(* the unknown-key probe, whose error is swallowed, then the first claim.  *)
BeginTick(w) ==
  /\ pc[w] = "idle" /\ w \notin stopping
  /\ \/ alerted' = [alerted EXCEPT ![w] = @ \cup UnknownKeys(w)] /\ UNCHANGED faults
     \/ Fault /\ UNCHANGED alerted
  /\ pc' = [pc EXCEPT ![w] = "claim"]
  /\ slot' = [slot EXCEPT ![w] = 1]
  /\ UNCHANGED <<row, job, asOf, taken, verdict, aborted, beat, stopping, history>>

(* Mutant: the claimed row is not excluded from later slots.               *)
Remember_Forgets(w, r) == taken[w]

(* claimedThisTick after r was claimed                                     *)
Remember(w, r) == taken[w] \cup {r}

(* The claim returns a row: it is remembered, and its adapter is called.   *)
ClaimDispatch(w, r) ==
  /\ Claimable(w, r) /\ ~Exhausted(r)
  /\ ClaimRow(w, r)
  /\ job' = [job EXCEPT ![w] = [row |-> r, fence |-> ClaimedRow(w, r).fence,
                                 attempts |-> ClaimedRow(w, r).attempts]]
  /\ pc' = [pc EXCEPT ![w] = "run"]
  /\ asOf' = [asOf EXCEPT ![w] = Skew[w]]
  /\ taken' = [taken EXCEPT ![w] = Remember(w, r)]
  /\ aborted' = [aborted EXCEPT ![w] = "no"]
  /\ began' = [began EXCEPT ![r] = @ + 1]
  /\ runs' = [runs EXCEPT ![w][r] = @ + 1]
  /\ UNCHANGED <<slot, verdict, beat, stopping, alerted, faults, burned, accepted, rejected>>

(* Mutant: an empty claim reply breaks the slot loop.                      *)
ClaimPoison_Breaks(w, r) ==
  /\ Claimable(w, r) /\ Exhausted(r)
  /\ ClaimRow(w, r)
  /\ EndTick(w)
  /\ UNCHANGED <<job, verdict, aborted, beat, stopping, alerted, faults, began, burned, accepted, rejected>>

(* The claim poisoned its row and returned none: on to the next slot.      *)
ClaimPoison(w, r) ==
  /\ Claimable(w, r) /\ Exhausted(r)
  /\ ClaimRow(w, r)
  /\ NextSlot(w)
  /\ UNCHANGED <<job, verdict, aborted, beat, stopping, alerted, faults, began, burned, accepted, rejected>>

ClaimNothing(w) ==
  /\ pc[w] = "claim"
  /\ \A r \in Rows : ~Claimable(w, r)
  /\ EndTick(w)
  /\ UNCHANGED <<row, job, verdict, aborted, beat, stopping, alerted, faults, began, burned, accepted,
                 rejected, parked>>

(* A database error on the claim ends the tick (onTickError).              *)
ClaimError(w) ==
  /\ pc[w] = "claim"
  /\ Fault
  /\ EndTick(w)
  /\ UNCHANGED <<row, job, verdict, aborted, beat, stopping, alerted, began, burned, accepted, rejected, parked>>

(* ... also when the statement was executed and only its reply was lost:   *)
(* the attempt is spent, and no adapter ran.                               *)
ClaimReplyLost(w, r) ==
  /\ Claimable(w, r)
  /\ Fault
  /\ ClaimRow(w, r)
  /\ burned' = [burned EXCEPT ![r] = IF Exhausted(r) THEN @ ELSE @ + 1]
  /\ EndTick(w)
  /\ UNCHANGED <<job, verdict, aborted, beat, stopping, alerted, began, accepted, rejected>>

-----------------------------------------------------------------------------
(* processClaimedRow *)

(* Mutant: writes are guarded by the fence alone.                          *)
HoldsToken_FenceOnly(r, fence) == row[r].fence = fence

(* The WHERE clause every write by a token holder shares.                  *)
HoldsToken(r, fence) == row[r].fence = fence /\ row[r].status = "in_progress"

(* The heartbeat interval issues a renew while the adapter runs.           *)
Beat(w) ==
  /\ pc[w] = "run"
  /\ beat[w] = NULL
  /\ beat' = [beat EXCEPT ![w] = [row |-> job[w].row, fence |-> job[w].fence, asOf |-> Skew[w]]]
  /\ UNCHANGED <<row, loop, stopping, alerted, faults, history>>

(* renewConsumerLease: the lease is pushed out, the fence stays.           *)
RenewedRow(b) ==
  IF HoldsToken(b.row, b.fence) THEN [row[b.row] EXCEPT !.lease = b.asOf + LeaseTime] ELSE row[b.row]

(* The renew of w belongs to the row w is still running.                   *)
BeatIsCurrent(w) ==
  /\ pc[w] = "run"
  /\ job[w].row = beat[w].row /\ job[w].fence = beat[w].fence

(* The renew executes.  Matching no row, it aborts the adapter it guards.  *)
BeatLands(w) ==
  /\ beat[w] # NULL
  /\ row' = [row EXCEPT ![beat[w].row] = RenewedRow(beat[w])]
  /\ aborted' = IF BeatIsCurrent(w) /\ aborted[w] = "no" /\ ~HoldsToken(beat[w].row, beat[w].fence)
                THEN [aborted EXCEPT ![w] = "leaseLost"] ELSE aborted
  /\ beat' = [beat EXCEPT ![w] = NULL]
  /\ UNCHANGED <<pc, job, asOf, slot, taken, verdict, stopping, alerted, faults, history>>

(* The renew errors, whether or not it was executed.                       *)
BeatFails(w, executed) ==
  /\ beat[w] # NULL
  /\ Fault
  /\ row' = IF executed THEN [row EXCEPT ![beat[w].row] = RenewedRow(beat[w])] ELSE row
  /\ aborted' = IF BeatIsCurrent(w) THEN [aborted EXCEPT ![w] = "heartbeatError"] ELSE aborted
  /\ beat' = [beat EXCEPT ![w] = NULL]
  /\ UNCHANGED <<pc, job, asOf, slot, taken, verdict, stopping, alerted, history>>

(* Mutant: whatever is not a failure counts as a success.                  *)
Normalize_Lenient(raw) ==
  CASE raw = "permanent_rejection" -> "poison"
    [] raw \in {"retryable_failure", "throw", "timeout"} -> "reschedule"
    [] OTHER -> "complete"

(* Mutant: a permanent failure without the exact reason poisons.           *)
Normalize_LaxReason(raw) ==
  CASE raw = "success" -> "complete"
    [] raw \in {"permanent_rejection", "malformed_permanent"} -> "poison"
    [] OTHER -> "reschedule"

(* normalizeAdapterVerdict, timeout and throw included: only an exact      *)
(* success completes and only an exact permanent rejection poisons.        *)
Normalize(raw) ==
  CASE raw = "success" -> "complete"
    [] raw = "permanent_rejection" -> "poison"
    [] OTHER -> "reschedule"

(* The race between adapter and timeout is over.                           *)
Settled(w, raw) ==
  /\ pc[w] = "run"
  /\ accepted' = IF raw = "success" THEN [accepted EXCEPT ![job[w].row] = @ \cup {job[w].fence}] ELSE accepted
  /\ rejected' = IF raw = "permanent_rejection"
                 THEN [rejected EXCEPT ![job[w].row] = @ \cup {job[w].fence}] ELSE rejected

(* The row was aborted: ownership is lost or uncertain, nothing is written.*)
SettleAborted(w, raw) ==
  /\ Settled(w, raw)
  /\ aborted[w] # "no"
  /\ job' = [job EXCEPT ![w] = NULL]
  /\ aborted' = [aborted EXCEPT ![w] = "no"]
  /\ NextSlot(w)
  /\ UNCHANGED <<row, verdict, beat, stopping, alerted, faults, began, burned, parked>>

(* Otherwise the resolve statement for its verdict is issued.              *)
Settle(w, raw) ==
  /\ Settled(w, raw)
  /\ aborted[w] = "no"
  /\ verdict' = [verdict EXCEPT ![w] = Normalize(raw)]
  /\ pc' = [pc EXCEPT ![w] = "resolve"]
  /\ asOf' = [asOf EXCEPT ![w] = Skew[w]]
  /\ UNCHANGED <<row, job, slot, taken, aborted, beat, stopping, alerted, faults, began, burned, runs, parked>>

(* computeRetryDelayMs                                                     *)
RetryDelay(attempts) ==
  LET d == RetryBase * 2 ^ (attempts - 1) IN IF d < RetryCap THEN d ELSE RetryCap

(* completeConsumer and poisonConsumer also require the lease.             *)
HoldsLease(w) ==
  /\ HoldsToken(job[w].row, job[w].fence)
  /\ row[job[w].row].lease > asOf[w]

(* Mutant: completing leaves the lease in place.                           *)
CompletedRow_KeepsLease(w) == [row[job[w].row] EXCEPT !.status = "done", !.error = "none"]

CompletedRow(w) == [row[job[w].row] EXCEPT !.status = "done", !.lease = NULL, !.error = "none"]
PoisonedRow(w) == [row[job[w].row] EXCEPT !.status = "dead_letter", !.lease = NULL, !.error = "permanent_rejection"]

(* Mutants: the token just used stays valid; the attempt is counted twice. *)
RescheduledRow_SameFence(w) ==
  [row[job[w].row] EXCEPT !.lease = asOf[w] + RetryDelay(job[w].attempts), !.error = "retryable"]
RescheduledRow_CountsAgain(w) ==
  [row[job[w].row] EXCEPT !.fence = @ + 1, !.attempts = @ + 1,
                          !.lease = asOf[w] + RetryDelay(job[w].attempts), !.error = "retryable"]

(* rescheduleConsumer: still in_progress, leased to nobody until the       *)
(* backoff ends, the token just used made stale.                           *)
RescheduledRow(w) ==
  [row[job[w].row] EXCEPT !.fence = @ + 1, !.lease = asOf[w] + RetryDelay(job[w].attempts), !.error = "retryable"]

(* The row after the resolve statement of w                                *)
ResolvedRow(w) ==
  CASE verdict[w] = "complete" /\ HoldsLease(w) -> CompletedRow(w)
    [] verdict[w] = "poison" /\ HoldsLease(w) -> PoisonedRow(w)
    [] verdict[w] = "reschedule" /\ HoldsToken(job[w].row, job[w].fence) -> RescheduledRow(w)
    [] OTHER -> row[job[w].row]

ResolveRow(w) ==
  /\ row' = [row EXCEPT ![job[w].row] = ResolvedRow(w)]
  /\ parked' = IF verdict[w] = "reschedule" /\ HoldsToken(job[w].row, job[w].fence)
               THEN parked \cup {job[w].row} ELSE parked

Resolve(w) ==
  /\ pc[w] = "resolve"
  /\ ResolveRow(w)
  /\ job' = [job EXCEPT ![w] = NULL]
  /\ verdict' = [verdict EXCEPT ![w] = "none"]
  /\ NextSlot(w)
  /\ UNCHANGED <<aborted, beat, stopping, alerted, faults, began, burned, accepted, rejected>>

(* A database error on the resolve ends the tick, executed or not.         *)
ResolveError(w, executed) ==
  /\ pc[w] = "resolve"
  /\ Fault
  /\ IF executed THEN ResolveRow(w) ELSE UNCHANGED <<row, parked>>
  /\ job' = [job EXCEPT ![w] = NULL]
  /\ verdict' = [verdict EXCEPT ![w] = "none"]
  /\ EndTick(w)
  /\ UNCHANGED <<aborted, beat, stopping, alerted, began, burned, accepted, rejected>>

-----------------------------------------------------------------------------
(* Processes and time *)

(* The replica dies.  A statement it had sent may still execute: for claim *)
(* and resolve that is the fault above followed by this one, for a renew   *)
(* it is the beat left behind.                                             *)
Crash(w) ==
  /\ pc[w] # "down"
  /\ Fault
  /\ pc' = [pc EXCEPT ![w] = "down"]
  /\ job' = [job EXCEPT ![w] = NULL]
  /\ verdict' = [verdict EXCEPT ![w] = "none"]
  /\ asOf' = [asOf EXCEPT ![w] = Skew[w]]
  /\ slot' = [slot EXCEPT ![w] = 0]
  /\ taken' = [taken EXCEPT ![w] = {}]
  /\ runs' = [runs EXCEPT ![w] = [r \in Rows |-> 0]]
  /\ alerted' = [alerted EXCEPT ![w] = {}]
  /\ aborted' = [aborted EXCEPT ![w] = "no"]
  /\ stopping' = stopping \ {w}
  /\ UNCHANGED <<row, beat, began, burned, accepted, rejected, parked>>

Restart(w) ==
  /\ pc[w] = "down"
  /\ pc' = [pc EXCEPT ![w] = "idle"]
  /\ UNCHANGED <<row, job, asOf, slot, taken, verdict, aborted, beat, stopping, alerted, faults, history>>

(* stop(): no new tick, no new slot; the row in flight is finished.        *)
Stop(w) ==
  /\ pc[w] # "down" /\ w \notin stopping
  /\ Fault
  /\ stopping' = stopping \cup {w}
  /\ UNCHANGED <<row, loop, beat, alerted, history>>

(* stop() resolves once the tick in flight has ended; the process exits.   *)
Exit(w) ==
  /\ pc[w] = "idle" /\ w \in stopping
  /\ pc' = [pc EXCEPT ![w] = "down"]
  /\ stopping' = stopping \ {w}
  /\ alerted' = [alerted EXCEPT ![w] = {}]
  /\ UNCHANGED <<row, job, asOf, slot, taken, verdict, aborted, beat, faults, history>>

Waiting(w) == pc[w] \in {"claim", "resolve"}

Aged(lease) == IF lease > -Horizon THEN lease - 1 ELSE lease

(* Time passes for every lease and for every statement still in flight.    *)
Tick ==
  /\ \A w \in Workers : Waiting(w) => asOf[w] > Skew[w] - MaxDelay
  /\ \A w \in Workers : beat[w] # NULL => beat[w].asOf > Skew[w] - MaxDelay
  /\ row' = [r \in Rows |-> IF row[r].status = "in_progress" THEN [row[r] EXCEPT !.lease = Aged(@)] ELSE row[r]]
  /\ asOf' = [w \in Workers |-> IF Waiting(w) THEN asOf[w] - 1 ELSE asOf[w]]
  /\ beat' = [w \in Workers |-> IF beat[w] # NULL THEN [beat[w] EXCEPT !.asOf = @ - 1] ELSE NULL]
  /\ UNCHANGED <<pc, job, slot, taken, verdict, aborted, stopping, alerted, faults, history>>

LoopStep(w) ==
  \/ BeginTick(w) \/ ClaimNothing(w)
  \/ \E r \in Rows : ClaimDispatch(w, r) \/ ClaimPoison(w, r)
  \/ \E raw \in Raw : SettleAborted(w, raw) \/ Settle(w, raw)
  \/ Resolve(w)

FaultStep(w) ==
  \/ ClaimError(w) \/ Crash(w) \/ Stop(w)
  \/ \E r \in Rows : ClaimReplyLost(w, r)
  \/ \E executed \in BOOLEAN : BeatFails(w, executed) \/ ResolveError(w, executed)

Next ==
  \/ \E e \in Events : Enqueue(e)
  \/ \E w \in Workers : LoopStep(w) \/ Beat(w) \/ BeatLands(w) \/ FaultStep(w) \/ Restart(w) \/ Exit(w)
  \/ Tick

Spec == Init /\ [][Next]_vars

-----------------------------------------------------------------------------
(* Type correctness *)

JobType == [row : Rows, fence : Nat, attempts : Nat \ {0}]
RowType == [status : Status, lease : Int \cup {NULL}, fence : Nat, attempts : Nat, error : Errors]

(* The shape of the store and of every loop, with the table's CHECK that a *)
(* row has a lease exactly while it is in_progress.                        *)
TypeOK ==
  /\ row \in [Rows -> RowType]
  /\ \A r \in Rows : row[r].status = "in_progress" <=> row[r].lease # NULL
  /\ pc \in [Workers -> {"idle", "claim", "run", "resolve", "down"}]
  /\ job \in [Workers -> JobType \cup {NULL}]
  /\ \A w \in Workers : pc[w] \in {"run", "resolve"} <=> job[w] # NULL
  /\ asOf \in [Workers -> Int]
  /\ slot \in [Workers -> Nat]
  /\ taken \in [Workers -> SUBSET Rows]
  /\ verdict \in [Workers -> {"none", "complete", "reschedule", "poison"}]
  /\ aborted \in [Workers -> {"no", "leaseLost", "heartbeatError"}]
  /\ beat \in [Workers -> [row : Rows, fence : Nat, asOf : Int] \cup {NULL}]
  /\ stopping \subseteq Workers
  /\ alerted \in [Workers -> SUBSET Keys]
  /\ faults \in Nat
  /\ began \in [Rows -> Nat]
  /\ burned \in [Rows -> Nat]
  /\ accepted \in [Rows -> SUBSET Nat]
  /\ rejected \in [Rows -> SUBSET Nat]
  /\ runs \in [Workers -> [Rows -> Nat]]
  /\ parked \subseteq Rows

-----------------------------------------------------------------------------
(* Safety *)

(* The fence makes one worker the owner: tokens never run ahead of the     *)
(* row, and no two workers ever hold the same token of a row, however late *)
(* their statements land (claimDueConsumers bumps the fence).              *)
SingleOwner ==
  /\ \A w \in Workers : job[w] # NULL => job[w].fence <= row[job[w].row].fence
  /\ \A v, w \in Workers :
       v # w /\ job[v] # NULL /\ job[w] # NULL /\ job[v].row = job[w].row => job[v].fence # job[w].fence

(* A row is done only because the adapter called under the very claim that *)
(* resolved it returned an exact success: no zombie, timeout, throw or     *)
(* malformed verdict can complete a delivery.                              *)
DoneIsDelivered == \A r \in Rows : row[r].status = "done" => row[r].fence \in accepted[r]

(* A row is dropped only for an exact permanent rejection under the claim  *)
(* that dropped it, or for having spent every attempt (poisonConsumer is   *)
(* "the only DROP path").                                                  *)
DroppedForCause ==
  \A r \in Rows : row[r].status = "dead_letter" =>
    \/ row[r].error = "permanent_rejection" /\ row[r].fence \in rejected[r]
    \/ row[r].error = "max_attempts_exhausted" /\ row[r].attempts = MaxAttempts

(* Every attempt the ceiling counts either started an adapter or was       *)
(* burned by a fault: without faults, no row is dead-lettered without its  *)
(* adapter having run MaxAttempts times (the reason for per-slot claims).  *)
AttemptsAccounted ==
  \A r \in Rows : row[r].attempts = began[r] + burned[r] /\ row[r].attempts <= MaxAttempts

(* A tick never starts the adapter of a row twice, whatever became of its  *)
(* lease meanwhile (#4497: the row excluded by claimedThisTick).           *)
OncePerTick == \A w \in Workers, r \in Rows : runs[w][r] <= 1

(* Rolling deploy: a row whose key no registry knows stays pending, with   *)
(* no attempt spent.                                                       *)
UnknownKeysWait ==
  \A r \in Rows : (\A w \in Workers : r[2] \notin Known[w]) => row[r] \in {NoRow, Pending}

(* done and dead_letter are final: no late statement touches such a row.   *)
TerminalIsFinal == [][\A r \in Rows : row[r].status \in Terminal => row'[r] = row[r]]_vars

(* A rescheduled row waits out its backoff: nothing but time moves its     *)
(* lease (in particular no renew of the token just used), and it is        *)
(* claimed only by a worker whose clock has passed the lease.              *)
BackoffKept ==
  [][\A r \in parked :
       \/ r \in parked' /\ row'[r] \in {row[r], [row[r] EXCEPT !.lease = Aged(@)]}
       \/ r \notin parked' /\ \E w \in Workers : pc[w] = "claim" /\ row[r].lease <= asOf[w]]_vars

(* A tick with slots left ends only when nothing is left for it to claim:  *)
(* a row poisoned at claim does not block the rows behind it (#4334).      *)
TickDrains ==
  [][\A w \in Workers :
       pc[w] \notin {"idle", "down"} /\ pc'[w] = "idle" /\ slot[w] < BatchSize
         /\ w \notin stopping /\ faults' = faults
       => pc[w] = "claim" /\ \A r \in Rows : ~Claimable(w, r)]_vars

-----------------------------------------------------------------------------
(* The promise implemented *)

OutcomeOf(status) ==
  CASE status = "absent" -> "absent"
    [] status \in {"pending", "in_progress"} -> "owed"
    [] status = "done" -> "delivered"
    [] status = "dead_letter" -> "dropped"

Promise == INSTANCE DeliveryPromise WITH
  Row <- Rows,
  outcome <- [r \in Rows |-> OutcomeOf(row[r].status)],
  tries <- [r \in Rows |-> row[r].attempts]

(* Every row is tried at most MaxAttempts times and settled at most once,  *)
(* and only after a try.                                                   *)
KeepsPromise == Promise!Spec

-----------------------------------------------------------------------------
(* Liveness *)

(* The interval timer, the adapter timeout and the driver's replies keep   *)
(* each live loop moving; a dead replica is restarted; time passes.  That  *)
(* no row is passed over for ever is ORDER BY updated_at: each claim sends *)
(* its row to the back of the queue.                                       *)
Fairness ==
  /\ \A w \in Workers : WF_vars(LoopStep(w)) /\ WF_vars(BeatLands(w)) /\ WF_vars(Restart(w)) /\ WF_vars(Exit(w))
  /\ \A w \in Workers, r \in Rows : SF_vars(ClaimDispatch(w, r) \/ ClaimPoison(w, r))
  /\ SF_vars(Tick)

FairSpec == Spec /\ Fairness

Served(r) == \E w \in Workers : r[2] \in Known[w]

(* "a row can never get stuck": whatever the adapters do, a row some live  *)
(* registry serves is eventually done or dead_letter.                      *)
EventuallySettled ==
  \A r \in Rows : Served(r) => (row[r].status = "pending" ~> row[r].status \in Terminal)
=============================================================================
