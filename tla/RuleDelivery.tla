---------------------------- MODULE RuleDelivery ----------------------------
(***************************************************************************)
(* The record-trigger sink of the durable outbox: the adapter of consumer  *)
(* key automation-record-trigger, composed with the dispatcher that calls  *)
(* it (OutboxDispatch).  Every key of this composition is that key.        *)
(*                                                                         *)
(*   automation-durable-activation.ts   the adapter: a handler that        *)
(*                                      returns is a success, one that     *)
(*                                      throws a retryable failure         *)
(*   automation-service.ts              handleEvent: the matching rules in *)
(*                                      turn, each under a lease of its    *)
(*                                      own; an error of a rule is logged  *)
(*   automation-event-fires-lease.ts    that lease: insert, else reclaim,  *)
(*                                      else classify; mark done           *)
(*                                                                         *)
(* A handler is not cancelled when the dispatcher stops waiting for it: a  *)
(* call outlives the adapter timeout and ends only by itself or with its   *)
(* replica.  The statements of the lease read the database's clock.        *)
(***************************************************************************)
EXTENDS OutboxDispatch

CONSTANTS
  NumRules,     (* enabled rules that match the event, in created_at order *)
  SinkLease     (* EVENT_DELIVERY_LEASE_MS                                 *)

ASSUME RuleAssumption ==
  /\ NumRules \in Nat \ {0} /\ SinkLease \in Nat \ {0}
  /\ \A j, k \in Keys : j = k

Rules == 1 .. NumRules

VARIABLES
  fires,        (* meta_automation_event_fires: one lease per event, rule  *)
  calls,        (* handleEvent calls in progress or not yet observed       *)
  (* History, read by no action: *)
  started,      (* started[f]: lease fences under which the rule was run   *)
  finished,     (* finished[f]: those under which the run came to its end  *)
  busy          (* busy[r]: row fences whose call found a live lease       *)

sink == <<fires, calls, started, finished, busy>>
rvars == <<vars, sink>>

Fires == Events \X Rules
NoFire == [status |-> "none", lease |-> NULL, fence |-> 0]
Phases == {"load", "insert", "reclaim", "classify", "run", "mark", "returned", "threw"}
Ended == {"returned", "threw"}

RuleInit ==
  /\ Init
  /\ fires = [f \in Fires |-> NoFire]
  /\ calls = {}
  /\ started = [f \in Fires |-> {}]
  /\ finished = [f \in Fires |-> {}]
  /\ busy = [r \in Rows |-> {}]

-----------------------------------------------------------------------------
(* The dispatcher and its adapter *)

(* The call the loop of w awaits *)
Awaited(c) == /\ pc[c.by] = "run"
              /\ job[c.by].row = c.row /\ job[c.by].fence = c.fence

(* The claim hands a row out: the adapter calls handleEvent.               *)
Dispatch(w, r) ==
  /\ ClaimDispatch(w, r)
  /\ calls' = calls \cup {[by |-> w, row |-> r, fence |-> ClaimedRow(w, r).fence,
                            phase |-> "load", rule |-> 1, token |-> 0]}
  /\ UNCHANGED <<fires, started, finished, busy>>

SettleWith(w, raw) == Settle(w, raw) \/ SettleAborted(w, raw)

(* buildConsumerAdapterRegistry: the outcome mapping                       *)
Outcome(c) == IF c.phase = "returned" THEN "success" ELSE "retryable_failure"

AdapterReturns(c) ==
  /\ Awaited(c) /\ c.phase \in Ended
  /\ SettleWith(c.by, Outcome(c))
  /\ calls' = calls \ {c}
  /\ UNCHANGED <<fires, started, finished, busy>>

(* The timeout wins: the loop goes on, and so does the call.               *)
AdapterTimesOut(c) ==
  /\ Awaited(c) /\ c.phase \notin Ended
  /\ SettleWith(c.by, "timeout")
  /\ UNCHANGED sink

ReplicaEnds(w) ==
  /\ Crash(w) \/ Exit(w)
  /\ calls' = {c \in calls : c.by # w}
  /\ UNCHANGED <<fires, started, finished, busy>>

FireAged(lease) == IF lease > -1 THEN lease - 1 ELSE lease

TimePasses ==
  /\ Tick
  /\ fires' = [f \in Fires |-> IF fires[f].status = "in_progress"
                                THEN [fires[f] EXCEPT !.lease = FireAged(@)] ELSE fires[f]]
  /\ UNCHANGED <<calls, started, finished, busy>>

(* The steps of the dispatcher the sink takes no part in.                  *)
DispatcherAlone(w) ==
  /\ \/ BeginTick(w) \/ ClaimNothing(w) \/ Resolve(w) \/ Beat(w) \/ BeatLands(w)
     \/ ClaimError(w) \/ Stop(w) \/ Restart(w)
     \/ \E r \in Rows : ClaimPoison(w, r) \/ ClaimReplyLost(w, r)
     \/ \E executed \in BOOLEAN : BeatFails(w, executed) \/ ResolveError(w, executed)
  /\ UNCHANGED sink

-----------------------------------------------------------------------------
(* handleEvent *)

Fire(c) == <<c.row[1], c.rule>>
At(c, phase) == [c EXCEPT !.phase = phase]

(* Mutant: the loop ends one rule early.                                   *)
NextRule_SkipsLast(c) ==
  IF c.rule + 1 >= NumRules THEN At(c, "returned")
  ELSE [c EXCEPT !.phase = "insert", !.rule = @ + 1, !.token = 0]

(* Mutant: a rule that failed or was busy is tried again on the spot.      *)
NextRule_Retries(c) ==
  IF c.phase = "mark" THEN At(c, "returned") ELSE [c EXCEPT !.phase = "insert", !.token = 0]

(* The loop over the rules goes on, whatever became of the last one: the   *)
(* catch around each rule logs its error and nothing else.                 *)
NextRule(c) ==
  IF c.rule = NumRules THEN At(c, "returned")
  ELSE [c EXCEPT !.phase = "insert", !.rule = @ + 1, !.token = 0]

(* c moves on to d; a call nobody awaits disappears at its end.            *)
Become(c, d) ==
  calls' = (calls \ {c}) \cup (IF d.phase \in Ended /\ ~Awaited(c) THEN {} ELSE {d})

(* loadEnabledRules, outside the per-rule catch                            *)
Load(c) ==
  /\ c.phase = "load"
  /\ Become(c, At(c, "insert"))
  /\ UNCHANGED <<vars, fires, started, finished, busy>>

(* A fresh claim and a reclaimed one, as the statements leave them         *)
Fresh == [status |-> "in_progress", lease |-> SinkLease, fence |-> 1]

(* Mutants: a live lease is taken over; the fence is left as it was.       *)
Expired_Always(f) == fires[f].status = "in_progress"
Reclaimed_SameFence(f) == [fires[f] EXCEPT !.lease = SinkLease]

Reclaimed(f) == [fires[f] EXCEPT !.lease = SinkLease, !.fence = @ + 1]

Expired(f) == fires[f].status = "in_progress" /\ fires[f].lease < 0

(* The run begins under the token just taken.                              *)
Hold(c, token) ==
  /\ Become(c, [c EXCEPT !.phase = "run", !.token = token])
  /\ started' = [started EXCEPT ![Fire(c)] = @ \cup {token}]

(* claimEventFiresLease: INSERT ... ON CONFLICT DO NOTHING                 *)
Insert(c) ==
  /\ c.phase = "insert"
  /\ \/ /\ fires[Fire(c)].status = "none"
        /\ fires' = [fires EXCEPT ![Fire(c)] = Fresh]
        /\ Hold(c, 1)
     \/ /\ fires[Fire(c)].status # "none"
        /\ Become(c, At(c, "reclaim"))
        /\ UNCHANGED <<fires, started>>
  /\ UNCHANGED <<vars, finished, busy>>

(* claimEventFiresLease: UPDATE ... WHERE the lease has expired            *)
Reclaim(c) ==
  /\ c.phase = "reclaim"
  /\ \/ /\ Expired(Fire(c))
        /\ fires' = [fires EXCEPT ![Fire(c)] = Reclaimed(Fire(c))]
        /\ Hold(c, Reclaimed(Fire(c)).fence)
     \/ /\ ~Expired(Fire(c))
        /\ Become(c, At(c, "classify"))
        /\ UNCHANGED <<fires, started>>
  /\ UNCHANGED <<vars, finished, busy>>

(* claimEventFiresLease: a done rule is skipped; for any other,            *)
(* runWithEventDedup throws DurableSinkBusyError, which handleEvent logs.  *)
Classify(c) ==
  /\ c.phase = "classify"
  /\ Become(c, NextRule(c))
  /\ busy' = IF fires[Fire(c)].status = "done" THEN busy
             ELSE [busy EXCEPT ![c.row] = @ \cup {c.fence}]
  /\ UNCHANGED <<vars, fires, started, finished>>

(* executeRule returns, also for an execution whose actions failed.        *)
Run(c) ==
  /\ c.phase = "run"
  /\ Become(c, At(c, "mark"))
  /\ finished' = [finished EXCEPT ![Fire(c)] = @ \cup {c.token}]
  /\ UNCHANGED <<vars, fires, started, busy>>

(* Mutants: the lease stays; the fence is not looked at.                   *)
Marked_KeepsLease(c) ==
  LET f == fires[Fire(c)] IN
  IF f.status = "in_progress" /\ f.fence = c.token THEN [f EXCEPT !.status = "done"] ELSE f
Marked_NoFence(c) ==
  LET f == fires[Fire(c)] IN
  IF f.status = "in_progress" THEN [f EXCEPT !.status = "done", !.lease = NULL] ELSE f

(* markEventFiresDone                                                      *)
Marked(c) ==
  LET f == fires[Fire(c)] IN
  IF f.status = "in_progress" /\ f.fence = c.token THEN [f EXCEPT !.status = "done", !.lease = NULL] ELSE f

Mark(c) ==
  /\ c.phase = "mark"
  /\ fires' = [fires EXCEPT ![Fire(c)] = Marked(c)]
  /\ Become(c, NextRule(c))
  /\ UNCHANGED <<vars, started, finished, busy>>

(* A statement errors, or executeRule throws before its first action (the  *)
(* execution record cannot be written); the statement may have executed.   *)
CallFails(c, executed) ==
  /\ c.phase \notin Ended
  /\ Fault
  /\ Become(c, IF c.phase = "load" THEN At(c, "threw") ELSE NextRule(c))
  /\ fires' = [fires EXCEPT ![Fire(c)] =
       CASE executed /\ c.phase = "insert" /\ @.status = "none" -> Fresh
         [] executed /\ c.phase = "reclaim" /\ Expired(Fire(c)) -> Reclaimed(Fire(c))
         [] executed /\ c.phase = "mark" -> Marked(c)
         [] OTHER -> @]
  /\ UNCHANGED <<row, loop, beat, stopping, alerted, history, started, finished, busy>>

CallStep(c) == Load(c) \/ Insert(c) \/ Reclaim(c) \/ Classify(c) \/ Run(c) \/ Mark(c)

RuleNext ==
  \/ \E e \in Events : Enqueue(e) /\ UNCHANGED sink
  \/ \E w \in Workers : DispatcherAlone(w) \/ ReplicaEnds(w)
  \/ \E w \in Workers, r \in Rows : Dispatch(w, r)
  \/ \E c \in calls : AdapterReturns(c) \/ AdapterTimesOut(c) \/ CallStep(c)
  \/ \E c \in calls, executed \in BOOLEAN : CallFails(c, executed)
  \/ TimePasses

RuleSpec == RuleInit /\ [][RuleNext]_rvars

-----------------------------------------------------------------------------
(* Type correctness *)

CallType == [by : Workers, row : Rows, fence : Nat, phase : Phases, rule : Rules, token : Nat]
FireType == [status : {"none", "in_progress", "done"}, lease : Int \cup {NULL}, fence : Nat]

(* The dispatcher's shape, the lease-iff-in_progress CHECK of the ledger,  *)
(* and one call at most for every claim of a row.                          *)
RuleTypeOK ==
  /\ TypeOK
  /\ fires \in [Fires -> FireType]
  /\ \A f \in Fires : fires[f].status = "in_progress" <=> fires[f].lease # NULL
  /\ calls \subseteq CallType
  /\ \A c, d \in calls : c.row = d.row /\ c.fence = d.fence => c = d
  /\ started \in [Fires -> SUBSET Nat]
  /\ finished \in [Fires -> SUBSET Nat]
  /\ busy \in [Rows -> SUBSET Nat]

-----------------------------------------------------------------------------
(* Properties *)

Running(f) == {c \in calls : c.phase \in {"run", "mark"} /\ Fire(c) = f}

(* However many calls run one rule of one event at once, with leases that  *)
(* expired under them, no two hold the same fence of its ledger row, and   *)
(* none holds a fence the row has not reached.                             *)
RuleSingleOwner ==
  \A f \in Fires :
    /\ \A c \in Running(f) : c.token <= fires[f].fence
    /\ \A c, d \in Running(f) : c # d => c.token # d.token

(* A ledger row is done only because the run under its final fence came to *)
(* its end: a holder whose lease was taken over never marks the work of    *)
(* the one who took it as done.                                            *)
DoneMeansRun == \A f \in Fires : fires[f].status = "done" => fires[f].fence \in finished[f]

(* Each delivery of an event starts a rule at most once, so the attempt    *)
(* ceiling of the outbox bounds how often a rule runs.                     *)
RunsBounded == \A f \in Fires : \A r \in Rows : r[1] = f[1] => Cardinality(started[f]) <= began[r]

(* A second run of a rule never starts after it was marked done, nor while *)
(* the lease of an earlier one that still runs is live.                    *)
NoRerun ==
  [][\A f \in Fires : started'[f] # started[f] =>
       /\ fires[f].status # "done"
       /\ \A c \in Running(f) : fires[f].lease < 0]_rvars

(* automation-durable-delivery.ts: when another worker holds a live lease  *)
(* "the delivery must NOT resolve done".                                   *)
BusyNotDone == \A r \in Rows : row[r].status = "done" => row[r].fence \notin busy[r]

(* Without faults every rule of an event that was enqueued is run to its   *)
(* end and marked, adapter timeouts and redeliveries notwithstanding.      *)
RulesEventuallyRun ==
  \A r \in Rows : row[r].status = "pending" ~> faults > 0 \/ \A i \in Rules : fires[<<r[1], i>>].status = "done"

(* Each call is a promise the runtime keeps scheduling; the rest as in     *)
(* OutboxDispatch.                                                         *)
RuleFairness ==
  /\ \A w \in Workers :
       /\ WF_rvars(DispatcherAlone(w) /\ LoopStep(w))
       /\ WF_rvars(\E c \in calls : c.by = w /\ (AdapterReturns(c) \/ AdapterTimesOut(c)))
       /\ \A r \in Rows : SF_rvars(Dispatch(w, r) \/ (ClaimPoison(w, r) /\ UNCHANGED sink))
       /\ WF_rvars(\E c \in calls : c.by = w /\ CallStep(c))
  /\ SF_rvars(TimePasses)

FairRuleSpec == RuleSpec /\ RuleFairness
=============================================================================
