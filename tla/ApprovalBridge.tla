--------------------------- MODULE ApprovalBridge ---------------------------
(***************************************************************************)
(* A rule whose action start_approval waits for an approval, and the       *)
(* completion event that resumes the rest of the rule (the tail), with     *)
(* durable delivery on.                                                    *)
(*                                                                         *)
(*   automation-approval-bridge-service.ts  startApproval, claimCompletion,*)
(*                                      markBridgeResumed/Failed           *)
(*   automation-service.ts              executeRule, retryExecution,       *)
(*                                      handleApprovalCompletionEvent      *)
(*   automation-executor.ts             executeActions, continueExecution  *)
(*   automation-job-service.ts          one job row per action             *)
(*                                                                         *)
(* The actors are the executions themselves (execute and startApproval) and*)
(* the workers that deliver completion events.  Every step is one statement*)
(* or transaction; an actor may crash, or the database refuse, between any *)
(* two.  All executions are the first one or retries of it, so they share  *)
(* one idempotency key.  Time is abstract: a lease may expire at any step. *)
(***************************************************************************)
EXTENDS Naturals, FiniteSets

CONSTANTS
  Execs,        (* the first execution of the rule and its retries         *)
  First,
  Workers,      (* deliveries of completion events in progress             *)
  Tail,         (* number of actions after start_approval                  *)
  MaxAttempts,  (* BRIDGE_COMPLETION_MAX_ATTEMPTS                          *)
  MaxTries,     (* attempt ceiling of the outbox row of a completion event *)
  MaxFaults,    (* bound: crashes and failing statements                   *)
  NULL

ASSUME BridgeAssumption ==
  /\ First \in Execs
  /\ Execs \cap Workers = {}
  /\ {Tail, MaxAttempts, MaxTries} \subseteq Nat \ {0}
  /\ MaxFaults \in Nat
  /\ NULL \notin Execs \cup Workers

Actors == Execs \cup Workers
Steps == 0 .. Tail                    (* step 0 is start_approval *)

VARIABLES
  approval,     (* approval_instances: none, open, approved, rejected      *)
  bridge,       (* multitable_automation_approval_bridges, one row per e   *)
  exec,         (* multitable_automation_executions: status of e           *)
  jobs,         (* multitable_automation_jobs: jobs[e][i], primary key e, i*)
  event,        (* the outbox row of the completion event of e; early is   *)
                (* history: it was enqueued before the bridge was linked   *)
  run,          (* what each actor holds in memory, and its next step      *)
  runs,         (* runs[e][i]: how often tail action i of e was executed   *)
  faults,
  carried       (* history: <<e, f>>, the delivery that held fence f of the*)
                (* bridge of e carried the execution to its end            *)

vars == <<approval, bridge, exec, jobs, event, run, runs, faults, carried>>

NoBridge == [status |-> "absent", linked |-> FALSE, lease |-> "none", fence |-> 0, attempts |-> 0]
NoEvent == [state |-> "none", owner |-> NULL, tries |-> 0, early |-> FALSE]
Idle == [pc |-> "idle", exec |-> NULL, seen |-> "none", step |-> 0, status |-> "running", fence |-> 0]

Init ==
  /\ approval = [e \in Execs |-> "none"]
  /\ bridge = [e \in Execs |-> NoBridge]
  /\ exec = [e \in Execs |-> "absent"]
  /\ jobs = [e \in Execs |-> [i \in Steps |-> "absent"]]
  /\ event = [e \in Execs |-> NoEvent]
  /\ run = [a \in Actors |->
              IF a \in Execs
              THEN [Idle EXCEPT !.exec = a, !.pc = IF a = First THEN "record" ELSE "idle"]
              ELSE Idle]
  /\ runs = [e \in Execs |-> [i \in 1 .. Tail |-> 0]]
  /\ faults = 0
  /\ carried = {}

-----------------------------------------------------------------------------
(* Common parts *)

At(a, pc) == run[a].pc = pc
Goto(a, pc) == run' = [run EXCEPT ![a].pc = pc]

(* The execution object ends failed and goes to its final UPDATE.          *)
Fails(a, pc) == run' = [run EXCEPT ![a].pc = pc, ![a].status = "failed"]

Fault == faults < MaxFaults /\ faults' = faults + 1
NoFault == UNCHANGED faults

Decided == {"approved", "rejected"}
Terminal == {"resumed", "failed", "dead_letter"}

(* uniq_mt_auto_approval_bridges_active_idempotency, and the lookup        *)
Active(f) ==
  /\ bridge[f].status # "absent"
  /\ bridge[f].status # "failed" \/ bridge[f].linked

-----------------------------------------------------------------------------
(* retryExecution: a failed execution of the lineage, no approval created. *)
RetryExecution(e) ==
  /\ e # First /\ At(e, "idle")
  /\ \E p \in Execs : exec[p] = "failed"
  /\ \A f \in Execs : ~ bridge[f].linked
  /\ Goto(e, "record")
  /\ NoFault /\ UNCHANGED <<approval, bridge, exec, jobs, event, runs, carried>>

(* onExecutionStarted: if the row cannot be inserted, nothing was done.    *)
RecordExecution(e) ==
  /\ At(e, "record")
  /\ \/ exec' = [exec EXCEPT ![e] = "running"] /\ Goto(e, "lookup") /\ NoFault
     \/ Fault /\ Goto(e, "done") /\ UNCHANGED exec
  /\ UNCHANGED <<approval, bridge, jobs, event, runs, carried>>

(* startApproval: an active bridge of the key refuses; so may the actor.   *)
LookupBridge(e) ==
  /\ At(e, "lookup")
  /\ \/ (\A f \in Execs : ~ Active(f)) /\ Goto(e, "insert")
     \/ Fails(e, "persist")
  /\ NoFault /\ UNCHANGED <<approval, bridge, exec, jobs, event, runs, carried>>

(* Mutant: the unique index covers rows that are already linked only.      *)
Conflicting_LinkedOnly(f) == bridge[f].linked
Conflicting(f) == Active(f)

InsertBridge(e) ==
  /\ At(e, "insert")
  /\ \/ /\ \A f \in Execs : ~ Conflicting(f)
        /\ bridge' = [bridge EXCEPT ![e].status = "creating"]
        /\ Goto(e, "create") /\ NoFault
     \/ /\ \/ (\E f \in Execs : Conflicting(f)) /\ NoFault
           \/ Fault
        /\ Fails(e, "persist") /\ UNCHANGED bridge
  /\ UNCHANGED <<approval, exec, jobs, event, runs, carried>>

(* createApproval: one transaction, with the completion event in it when   *)
(* the approval is approved at once; or it is refused and rolled back.     *)
CreateApproval(e) ==
  /\ At(e, "create")
  /\ \/ /\ \E state \in {"open", "approved"} :
             /\ approval' = [approval EXCEPT ![e] = state]
             /\ event' = IF state = "open" THEN event ELSE [event EXCEPT ![e].state = "queued"]
        /\ Goto(e, "read")
     \/ Fails(e, "abandon") /\ UNCHANGED <<approval, event>>
  /\ NoFault /\ UNCHANGED <<bridge, exec, jobs, runs, carried>>

(* ... and after its commit reads the approval back, which may fail.       *)
ReadApproval(e) ==
  /\ At(e, "read")
  /\ \/ run' = [run EXCEPT ![e].pc = "link", ![e].seen = approval[e]] /\ NoFault
     \/ Fault /\ Fails(e, "abandon")
  /\ UNCHANGED <<approval, bridge, exec, jobs, event, runs, carried>>

LinkedStatus(seen) == IF seen = "open" THEN "pending" ELSE "resumed"

(* The UPDATE that links the approval; outside both try blocks.            *)
LinkBridge(e) ==
  /\ At(e, "link")
  /\ \/ /\ bridge' = [bridge EXCEPT ![e].status = LinkedStatus(run[e].seen), ![e].linked = TRUE]
        /\ Goto(e, "job") /\ NoFault
     \/ Fault /\ Fails(e, "persist") /\ UNCHANGED bridge
  /\ UNCHANGED <<approval, exec, jobs, event, runs, carried>>

JobFor(seen) ==
  CASE seen = "open" -> "suspended" [] seen = "approved" -> "resolved" [] OTHER -> "failed"

(* The job row of start_approval.  A suspended rule is left to its         *)
(* completion; one decided already goes on, or ends.                       *)
WriteJob(e) ==
  /\ At(e, "job")
  /\ \/ /\ jobs' = [jobs EXCEPT ![e][0] = JobFor(run[e].seen)]
        /\ run' = [run EXCEPT ![e].step = 1,
                     ![e].pc = CASE run[e].seen = "open" -> "persist"
                                 [] run[e].seen = "approved" -> "start"
                                 [] OTHER -> "skip",
                     ![e].status = IF run[e].seen = "rejected" THEN "failed" ELSE "running"]
        /\ NoFault
     \/ Fault /\ Fails(e, "abandon") /\ UNCHANGED jobs
  /\ UNCHANGED <<approval, bridge, exec, event, runs, carried>>

(* markBridgeFailed writes the status and nothing else, whatever it was;   *)
(* chk_mt_auto_approval_bridge_lease_iff_in_progress rejects that for a row*)
(* a delivery has claimed, which holds a lease.                            *)
MarkBridgeFailed(e) ==
  /\ At(e, "abandon")
  /\ \/ bridge[e].lease = "none" /\ bridge' = [bridge EXCEPT ![e].status = "failed"] /\ NoFault
     \/ bridge[e].lease # "none" /\ UNCHANGED bridge /\ NoFault
     \/ Fault /\ UNCHANGED bridge
  /\ Goto(e, "persist")
  /\ UNCHANGED <<approval, exec, jobs, event, runs, carried>>

-----------------------------------------------------------------------------
(* executeActions on the tail, for whoever holds the execution object *)

(* Mutant: a job row that exists already does not stop the action.         *)
MayStart_Always(e, i) == TRUE
MayStart(e, i) == jobs[e][i] = "absent"

(* onStart: INSERT of the job row, before the action runs.                 *)
StartAction(a) ==
  LET e == run[a].exec
      i == run[a].step
  IN /\ At(a, "start")
     /\ \/ /\ MayStart(e, i)
           /\ jobs' = [jobs EXCEPT ![e][i] = "running"]
           /\ Goto(a, "act") /\ NoFault
        \/ /\ \/ ~ MayStart(e, i) /\ NoFault
              \/ Fault
           /\ Fails(a, "persist") /\ UNCHANGED jobs
     /\ UNCHANGED <<approval, bridge, exec, event, runs, carried>>

RunAction(a) ==
  /\ At(a, "act")
  /\ runs' = [runs EXCEPT ![run[a].exec][run[a].step] = @ + 1]
  /\ Goto(a, "settle") \/ Fails(a, "settle")
  /\ NoFault /\ UNCHANGED <<approval, bridge, exec, jobs, event, carried>>

(* onSettled: UPDATE of the job row; then the next action, the rest        *)
(* skipped, or the end.                                                    *)
SettleAction(a) ==
  LET e == run[a].exec
      i == run[a].step
      failed == run[a].status = "failed"
  IN /\ At(a, "settle")
     /\ \/ /\ jobs' = [jobs EXCEPT ![e][i] = IF failed THEN "failed" ELSE "resolved"]
           /\ run' = [run EXCEPT ![a].step = i + 1,
                        ![a].pc = CASE failed -> "skip" [] i = Tail -> "persist" [] OTHER -> "start",
                        ![a].status = IF i = Tail /\ ~ failed THEN "success" ELSE @]
           /\ NoFault
        \/ Fault /\ Fails(a, "persist") /\ UNCHANGED jobs
     /\ UNCHANGED <<approval, bridge, exec, event, runs, carried>>

(* onSkipped of the remaining actions in turn, up to a row that exists.    *)
SkipRest(a) ==
  LET e == run[a].exec
      skipped == {j \in run[a].step .. Tail : \A k \in run[a].step .. j : jobs[e][k] = "absent"}
  IN /\ At(a, "skip")
     /\ \/ jobs' = [jobs EXCEPT ![e] = [j \in Steps |-> IF j \in skipped THEN "skipped" ELSE @[j]]]
           /\ NoFault
        \/ Fault /\ UNCHANGED jobs
     /\ Goto(a, "persist")
     /\ UNCHANGED <<approval, bridge, exec, event, runs, carried>>

(* updateRecordedExecution, whoever wrote the row meanwhile; its failure   *)
(* is logged.                                                              *)
PersistExecution(a) ==
  /\ At(a, "persist")
  /\ \/ exec' = [exec EXCEPT ![run[a].exec] = run[a].status] /\ NoFault
     \/ Fault /\ UNCHANGED exec
  /\ Goto(a, IF a \in Execs THEN "done" ELSE "mark")
  /\ carried' = IF a \in Workers THEN carried \cup {<<run[a].exec, run[a].fence>>} ELSE carried
  /\ UNCHANGED <<approval, bridge, jobs, event, runs>>

-----------------------------------------------------------------------------
(* The approval product and the outbox *)

(* An approver decides: the event is enqueued in the same transaction.     *)
Decide(e) ==
  /\ approval[e] = "open"
  /\ \E verdict \in Decided : approval' = [approval EXCEPT ![e] = verdict]
  /\ event' = [event EXCEPT ![e].state = "queued", ![e].early = ~ bridge[e].linked]
  /\ NoFault /\ UNCHANGED <<bridge, exec, jobs, run, runs, carried>>

(* A delivery, the first or, once the outbox lease of an earlier one has   *)
(* lapsed or its adapter timed out, a further one beside it.               *)
Receive(w, e) ==
  /\ At(w, "idle")
  /\ event[e].state \in {"queued", "taken"}
  /\ event[e].tries < MaxTries
  /\ event' = [event EXCEPT ![e].state = "taken", ![e].owner = w, ![e].tries = @ + 1]
  /\ run' = [run EXCEPT ![w] = [Idle EXCEPT !.pc = "fresh", !.exec = e, !.seen = approval[e]]]
  /\ NoFault /\ UNCHANGED <<approval, bridge, exec, jobs, runs, carried>>

(* The handler returned or threw.  The outbox takes that from its current  *)
(* owner only (OutboxDispatch, HoldsToken).                                *)
Reply(w, state) ==
  LET e == run[w].exec
  IN /\ event' = IF event[e].state = "taken" /\ event[e].owner = w
                 THEN [event EXCEPT ![e].state = state, ![e].owner = NULL]
                 ELSE event
     /\ run' = [run EXCEPT ![w] = Idle]

Consumed(w) == Reply(w, "done")
Thrown(w) == Reply(w, "queued")

BuryEvent(e) ==
  /\ event[e].state \in {"queued", "taken"} /\ event[e].tries >= MaxTries
  /\ event' = [event EXCEPT ![e].state = "dead", ![e].owner = NULL]
  /\ NoFault /\ UNCHANGED <<approval, bridge, exec, jobs, run, runs, carried>>

-----------------------------------------------------------------------------
(* claimCompletion: four statements, each keyed by the approval instance *)

(* Mutant: a claim takes no lease.                                         *)
Leased_NoLease(b) == [b EXCEPT !.status = "in_progress", !.fence = @ + 1, !.attempts = @ + 1]
(* Mutant: a claim keeps the fence of the row.                             *)
Leased_SameFence(b) == [b EXCEPT !.status = "in_progress", !.lease = "live", !.attempts = @ + 1]
Leased(b) ==
  [b EXCEPT !.status = "in_progress", !.lease = "live", !.fence = @ + 1, !.attempts = @ + 1]

(* Mutant: whatever is not claimed may be.                                 *)
Claimable_NotClaimed(b) == b.linked /\ b.status # "in_progress"
Claimable(b) == b.linked /\ b.status = "pending"
Expired(b) == b.linked /\ b.status = "in_progress" /\ b.lease = "expired"

Claimed(w, e) ==
  /\ bridge' = [bridge EXCEPT ![e] = Leased(@)]
  /\ run' = [run EXCEPT ![w].pc = "check", ![w].fence = bridge'[e].fence]
  /\ UNCHANGED event

ClaimFresh(w) ==
  LET e == run[w].exec
      matches == Claimable(bridge[e])
  IN /\ At(w, "fresh")
     /\ \/ matches /\ Claimed(w, e) /\ NoFault
        \/ ~ matches /\ Goto(w, "poison") /\ NoFault /\ UNCHANGED <<bridge, event>>
        \/ Fault /\ Thrown(w) /\ UNCHANGED bridge
     /\ UNCHANGED <<approval, exec, jobs, runs, carried>>

BuryPoison(w) ==
  LET e == run[w].exec
      matches == Expired(bridge[e]) /\ bridge[e].attempts >= MaxAttempts
  IN /\ At(w, "poison")
     /\ \/ /\ matches /\ NoFault
           /\ bridge' = [bridge EXCEPT ![e].status = "dead_letter", ![e].lease = "none"]
           /\ Consumed(w)
        \/ ~ matches /\ Goto(w, "reclaim") /\ NoFault /\ UNCHANGED <<bridge, event>>
        \/ Fault /\ Thrown(w) /\ UNCHANGED bridge
     /\ UNCHANGED <<approval, exec, jobs, runs, carried>>

ReclaimExpired(w) ==
  LET e == run[w].exec
      matches == Expired(bridge[e]) /\ bridge[e].attempts < MaxAttempts
  IN /\ At(w, "reclaim")
     /\ \/ matches /\ Claimed(w, e) /\ NoFault
        \/ ~ matches /\ Goto(w, "classify") /\ NoFault /\ UNCHANGED <<bridge, event>>
        \/ Fault /\ Thrown(w) /\ UNCHANGED bridge
     /\ UNCHANGED <<approval, exec, jobs, runs, carried>>

(* Mutant: a live lease reads as none, as before the done/busy split.      *)
Busy_Never(b) == FALSE
Busy(b) == b.linked /\ b.status \notin Terminal

(* no row or a terminal one: consumed; any other: DurableSinkBusyError.    *)
Classify(w) ==
  /\ At(w, "classify")
  /\ \/ /\ IF Busy(bridge[run[w].exec]) THEN Thrown(w) ELSE Consumed(w)
        /\ NoFault
     \/ Fault /\ Thrown(w)
  /\ UNCHANGED <<approval, bridge, exec, jobs, runs, carried>>

-----------------------------------------------------------------------------
(* resumeApprovalBridgeContinuation *)

(* Mutant: the continuation does not look at the outcome.                  *)
Resumable_Always(w) == TRUE
Resumable(w) == run[w].seen = "approved"

(* Approved, and rule, fingerprint and record as they were: the tail runs. *)
CheckRule(w) ==
  /\ At(w, "check")
  /\ \/ Resumable(w) /\ Goto(w, "resume") /\ NoFault /\ UNCHANGED event
     \/ Fails(w, "decline") /\ NoFault /\ UNCHANGED event
     \/ Fault /\ Thrown(w)
  /\ UNCHANGED <<approval, bridge, exec, jobs, runs, carried>>

(* onSettled of start_approval: an UPDATE, which may find no row.          *)
SettledStep(e, status) ==
  IF jobs[e][0] = "absent" THEN jobs ELSE [jobs EXCEPT ![e][0] = status]

ContinueExecution(w) ==
  /\ At(w, "resume")
  /\ \/ /\ jobs' = SettledStep(run[w].exec, "resolved")
        /\ run' = [run EXCEPT ![w].pc = "start", ![w].step = 1] /\ NoFault
     \/ Fault /\ Fails(w, "persist") /\ UNCHANGED jobs
  /\ UNCHANGED <<approval, bridge, exec, event, runs, carried>>

(* failApprovalBridgeExecution; without its rule it knows of no tail.      *)
FailExecution(w) ==
  /\ At(w, "decline")
  /\ \/ /\ jobs' = SettledStep(run[w].exec, "failed") /\ NoFault
        /\ \/ run' = [run EXCEPT ![w].pc = "skip", ![w].step = 1]
           \/ Goto(w, "persist")
     \/ Fault /\ Goto(w, "persist") /\ UNCHANGED jobs
  /\ UNCHANGED <<approval, bridge, exec, event, runs, carried>>

(* Mutant: the terminal write asks for the status alone.                   *)
HoldsBridge_StatusOnly(w) == bridge[run[w].exec].status = "in_progress"
HoldsBridge(w) ==
  LET b == bridge[run[w].exec] IN b.status = "in_progress" /\ b.fence = run[w].fence

(* markBridgeResumed; a lost compare-and-set is logged, and consumed too.  *)
MarkBridgeResumed(w) ==
  /\ At(w, "mark")
  /\ \/ /\ bridge' = IF HoldsBridge(w)
                     THEN [bridge EXCEPT ![run[w].exec].status = "resumed", ![run[w].exec].lease = "none"]
                     ELSE bridge
        /\ Consumed(w) /\ NoFault
     \/ Fault /\ Thrown(w) /\ UNCHANGED bridge
  /\ UNCHANGED <<approval, exec, jobs, runs, carried>>

-----------------------------------------------------------------------------
(* Environment *)

ExpireLease(e) ==
  /\ bridge[e].lease = "live"
  /\ bridge' = [bridge EXCEPT ![e].lease = "expired"]
  /\ NoFault /\ UNCHANGED <<approval, exec, jobs, event, run, runs, carried>>

Crash(a) ==
  /\ run[a].pc \notin {"idle", "done"}
  /\ Fault
  /\ run' = [run EXCEPT ![a] = IF a \in Execs THEN [@ EXCEPT !.pc = "done"] ELSE Idle]
  /\ UNCHANGED <<approval, bridge, exec, jobs, event, runs, carried>>

TailStep(a) ==
  StartAction(a) \/ RunAction(a) \/ SettleAction(a) \/ SkipRest(a) \/ PersistExecution(a)

ExecStep(e) ==
  \/ RecordExecution(e) \/ LookupBridge(e) \/ InsertBridge(e) \/ CreateApproval(e)
  \/ ReadApproval(e) \/ LinkBridge(e) \/ WriteJob(e) \/ MarkBridgeFailed(e) \/ TailStep(e)

HandlerStep(w) ==
  \/ ClaimFresh(w) \/ BuryPoison(w) \/ ReclaimExpired(w) \/ Classify(w) \/ CheckRule(w)
  \/ ContinueExecution(w) \/ FailExecution(w) \/ TailStep(w) \/ MarkBridgeResumed(w)

Next ==
  \/ \E e \in Execs : RetryExecution(e) \/ ExecStep(e) \/ Decide(e) \/ BuryEvent(e) \/ ExpireLease(e)
  \/ \E w \in Workers : HandlerStep(w) \/ \E e \in Execs : Receive(w, e)
  \/ \E a \in Actors : Crash(a)

Spec == Init /\ [][Next]_vars

-----------------------------------------------------------------------------
(* Type invariant *)

BridgeType ==
  [status: {"absent", "creating", "pending", "in_progress"} \cup Terminal, linked: BOOLEAN,
   lease: {"none", "live", "expired"}, fence: Nat, attempts: Nat]
EventType ==
  [state: {"none", "queued", "taken", "done", "dead"}, owner: Workers \cup {NULL}, tries: 0 .. MaxTries,
   early: BOOLEAN]
ExecPcs == {"record", "lookup", "insert", "create", "read", "link", "job", "abandon", "done"}
HandlerPcs == {"fresh", "poison", "reclaim", "classify", "check", "resume", "decline", "mark"}
TailPcs == {"start", "act", "settle", "skip", "persist"}
RunType ==
  [pc: {"idle"} \cup ExecPcs \cup HandlerPcs \cup TailPcs, exec: Execs \cup {NULL},
   seen: {"none", "open"} \cup Decided, step: 0 .. Tail + 1,
   status: {"running", "success", "failed"}, fence: Nat]
JobStatus == {"absent", "running", "suspended", "resolved", "failed", "skipped"}

(* Types, and what the columns and objects say of each other: a claimed    *)
(* row has a lease, an actor that works on the tail works on a step of it. *)
TypeOK ==
  /\ approval \in [Execs -> {"none", "open"} \cup Decided]
  /\ bridge \in [Execs -> BridgeType]
  /\ \A e \in Execs : bridge[e].status = "in_progress" <=> bridge[e].lease # "none"
  /\ exec \in [Execs -> {"absent", "running", "success", "failed"}]
  /\ jobs \in [Execs -> [Steps -> JobStatus]]
  /\ event \in [Execs -> EventType]
  /\ run \in [Actors -> RunType]
  /\ \A e \in Execs : run[e].exec = e /\ run[e].pc \notin HandlerPcs
  /\ \A w \in Workers : run[w].pc \notin ExecPcs /\ (run[w].pc # "idle" => run[w].exec # NULL)
  /\ \A a \in Actors : run[a].pc \in {"start", "act", "settle"} => run[a].step \in 1 .. Tail
  /\ runs \in [Execs -> [1 .. Tail -> Nat]]
  /\ faults \in 0 .. MaxFaults
  /\ carried \subseteq Execs \X Nat

-----------------------------------------------------------------------------
(* Properties *)

Started(e) == approval[e] # "none"

(* Its creator gave the approval up: createApproval had thrown.            *)
GivenUp(e) == bridge[e].status = "failed" /\ ~ bridge[e].linked

(* startApproval, retried or raced by a second retry, starts at most one   *)
(* approval for a step, unless the earlier one was reported as failed.     *)
OneLiveApproval ==
  \A e, f \in Execs : e # f /\ Started(e) /\ Started(f) => GivenUp(e) \/ GivenUp(f)

Holding == {"check", "resume", "decline", "mark"} \cup TailPcs

(* However many deliveries of one completion run at once, no two hold the  *)
(* same fence of its bridge, and none one the row has not reached.         *)
SingleHolder ==
  \A w \in Workers : run[w].pc \in Holding =>
    /\ run[w].fence <= bridge[run[w].exec].fence
    /\ \A v \in Workers \ {w} :
         run[v].pc \in Holding /\ run[v].exec = run[w].exec => run[v].fence # run[w].fence

(* A bridge that is resumed, failed or dead-lettered is never open to a    *)
(* claim again, whatever a zombie, a retry or its starter writes.          *)
NeverReopened ==
  [][\A e \in Execs : bridge[e].status \in Terminal => bridge'[e].status \in Terminal]_vars

(* The tail runs only if this execution's approval was approved, in order, *)
(* and no action of it twice: neither two deliveries, nor a reclaimed one, *)
(* nor the starter repeats what another did.                               *)
Promise == INSTANCE ApprovalPromise
KeepsPromise == Promise!Spec

Carried(e) == \E c \in carried : c[1] = e

(* A completion is consumed only after some delivery of it carried the     *)
(* execution to its end, or its bridge was given up: neither a lost lease  *)
(* nor a busy, crashed or overtaken delivery lets it be forgotten.  Only a *)
(* verdict quicker than LinkBridge may be (see CompletionNotLost).         *)
ConsumedMeansCarried ==
  \A e \in Execs :
    /\ event[e].state = "done" /\ ~ event[e].early
    /\ bridge[e].status \in {"pending", "in_progress"}
    => Carried(e)

(* A bridge is resumed by a completion only once the delivery that holds   *)
(* its last fence came to its end: one whose lease was taken over never    *)
(* settles the work of the one who took it.                                *)
ResumedByHolder ==
  \A e \in Execs :
    bridge[e].status = "resumed" /\ bridge[e].attempts > 0 => <<e, bridge[e].fence>> \in carried

(* "NO row for this approval ... (skip is correct)": no completion is      *)
(* consumed while its bridge still waits for it.                           *)
CompletionNotLost ==
  \A e \in Execs : event[e].state = "done" => bridge[e].status # "pending"
=============================================================================
