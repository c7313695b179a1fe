---------------------------- MODULE ExecutionRetry ----------------------------
(***************************************************************************)
(* One failed execution of an automation rule and the retries an admin     *)
(* makes of it, side by side or one after the other.                       *)
(*                                                                         *)
(*   automation-service.ts           retryExecution and the lineage walk   *)
(*                                   that finds the root of the retries    *)
(*   automation-executor.ts          the actions in turn, the first        *)
(*                                   failure ends the run                  *)
(*   automation-execution-ledger.ts  class A: a record write and the claim *)
(*                                   of its identity in one transaction    *)
(*   automation-outbound-intent.ts   class B: intent, send, outcome, each  *)
(*                                   a statement of its own                *)
(*                                                                         *)
(* An action is identified by the root of its lineage and its place in the *)
(* rule; both claims are switched on.  The rule's actions do not change:   *)
(* retryExecution refuses a rule whose fingerprint differs.                *)
(***************************************************************************)
EXTENDS Naturals, Sequences, FiniteSets

CONSTANTS
  Kinds,          (* the rule's actions, see below                         *)
  MaxRuns,        (* bound: executions of the lineage, the first included  *)
  LineageDepth,   (* executions the lineage walk visits at most            *)
  MaxFaults       (* bound: lost replies, failed statements and crashes    *)

(* An update, a delete or a lock whose statement finds no record takes it  *)
(* for done ("update"; across bases it looks for the record first, and may *)
(* still find none when it writes); a create writes or throws.             *)
Records == {"update", "create"}
Outbound == {"webhook", "email"}

ASSUME KindsAssumption == Kinds \in Seq(Records \cup Outbound) /\ Kinds # <<>>
ASSUME RunsAssumption == /\ MaxRuns \in Nat \ {0}
                         /\ LineageDepth \in Nat \ {0}
                         /\ MaxFaults \in Nat

Execs == 1 .. MaxRuns
First == 1
NoParent == 0
Actions == 1 .. Len(Kinds)

VARIABLES
  log,        (* log[e]: status and parent of the stored execution, or "none" *)
  run,        (* run[e]: where the run of e stands                            *)
  applied,    (* meta_automation_action_applied: the class-A claims           *)
  intent,     (* intent[k]: meta_automation_outbound_intent                   *)
  faults,
  (* History, read by no action: *)
  commits,    (* <<e, a>>: the run e won and committed the claim of a         *)
  missed,     (* those of them that found no record to write                  *)
  sends,      (* [by, action, delivered]: what left the process               *)
  stale,      (* <<e, a>>: the run e passed a on a status no longer true      *)
  overlapped  (* two runs of the lineage have been under way at once          *)

vars == <<log, run, applied, intent, faults, commits, missed, sends, stale, overlapped>>

Keys == Execs \X Actions
Phases == {"idle", "act", "consult", "flip", "send", "record", "persist", "done", "crashed"}
Stopped == {"idle", "done", "crashed"}
Settled == {"sent", "outcome_unknown"}

Idle == [pc |-> "idle", parent |-> NoParent, root |-> First, action |-> 1,
         seen |-> "none", status |-> "none"]
StartedFrom(parent, root) == [Idle EXCEPT !.pc = "act", !.parent = parent, !.root = root]

Init ==
  /\ log = [e \in Execs |-> [status |-> "none", parent |-> NoParent]]
  /\ run = [e \in Execs |-> IF e = First THEN StartedFrom(NoParent, First) ELSE Idle]
  /\ applied = {}
  /\ intent = [k \in Keys |-> "none"]
  /\ faults = 0
  /\ commits = {}
  /\ missed = {}
  /\ sends = {}
  /\ stale = {}
  /\ overlapped = FALSE

-----------------------------------------------------------------------------
(* Starting and ending a run *)

(* The n-th execution on the way from e to the first, or the first         *)
Ancestor(e, n) ==
  LET up[k \in 0 .. n] == IF k = 0 THEN e
                          ELSE LET f == up[k - 1] IN
                               IF log[f].parent = NoParent THEN f ELSE log[f].parent
  IN  up[n]

(* Mutants: the claims of a retry hang on the execution it retries; the    *)
(* parent of that one, which the first execution has not.                  *)
RootOf_Itself(e) == e
RootOf_Parent(e) == log[e].parent

(* collectExecutionLineageIds(e).at(-1)                                    *)
RootOf(e) == Ancestor(e, LineageDepth - 1)

(* retryExecution: nothing keeps two retries of one execution apart.       *)
Retry(p, e) ==
  /\ log[p].status \in {"failed", "skipped"}
  /\ run[e].pc = "idle" /\ \A f \in 1 .. e - 1 : run[f].pc # "idle"
  /\ run' = [run EXCEPT ![e] = StartedFrom(p, RootOf(p))]
  /\ overlapped' = (overlapped \/ \E f \in Execs : run[f].pc \notin Stopped)
  /\ UNCHANGED <<log, applied, intent, faults, commits, missed, sends, stale>>

Step(e) == <<e, run[e].action>>
Key(e) == <<run[e].root, run[e].action>>
At(e, pc) == [run EXCEPT ![e].pc = pc]
Acting(e, kinds) == run[e].pc = "act" /\ Kinds[run[e].action] \in kinds

(* The loop of e is over and its local variables with it.                  *)
Left(e, pc, status) ==
  [run EXCEPT ![e] = [@ EXCEPT !.pc = pc, !.status = status, !.action = 1, !.seen = "none"]]
Ended(e, status) == Left(e, "persist", status)

(* The step of e succeeded: the next one, or the end.                      *)
Succeeded(e) ==
  IF run[e].action = Len(Kinds) THEN Ended(e, "success")
  ELSE [run EXCEPT ![e].pc = "act", ![e].action = @ + 1, ![e].seen = "none"]

(* A failed step ends the run.                                             *)
Failed(e) == Ended(e, "failed")

Fault == faults < MaxFaults /\ faults' = faults + 1

(* The conditions are read from the current rule and are no part of the    *)
(* fingerprint: any run may find them false.                               *)
SkipConditions(e) ==
  /\ run[e].pc = "act" /\ run[e].action = 1
  /\ run' = Ended(e, "skipped")
  /\ UNCHANGED <<log, applied, intent, faults, commits, missed, sends, stale, overlapped>>

(* executeRule stores the execution; a failure to do so is only logged.    *)
Persist(e) ==
  /\ run[e].pc = "persist"
  /\ run' = At(e, "done")
  /\ \/ /\ log' = [log EXCEPT ![e] = [status |-> run[e].status, parent |-> run[e].parent]]
        /\ UNCHANGED faults
     \/ Fault /\ UNCHANGED log
  /\ UNCHANGED <<applied, intent, commits, missed, sends, stale, overlapped>>

(* The process dies; the row of a run it had under way is not stored, or   *)
(* stays 'running', and cannot be retried.                                 *)
Crash(e) ==
  /\ run[e].pc \notin Stopped
  /\ Fault
  /\ run' = Left(e, "crashed", "none")
  /\ UNCHANGED <<log, applied, intent, commits, missed, sends, stale, overlapped>>

-----------------------------------------------------------------------------
(* Class A *)

(* Mutant: the claim commits on its own, the write does not follow.        *)
RolledBack_KeepsClaim(e) == applied' = applied \cup {Key(e)}

(* What a write that throws leaves of its claim                            *)
RolledBack(e) == UNCHANGED applied

(* The claim is won and commits with the write, or with nothing written    *)
(* because the record is not there; what follows the commit may still      *)
(* throw and fail the step.                                                *)
ApplyRecord(e, found) ==
  /\ Acting(e, IF found THEN Records ELSE {"update"})
  /\ Key(e) \notin applied
  /\ applied' = applied \cup {Key(e)}
  /\ commits' = commits \cup {Step(e)}
  /\ missed' = IF found THEN missed ELSE missed \cup {Step(e)}
  /\ \/ run' = Succeeded(e) /\ UNCHANGED faults
     \/ run' = Failed(e) /\ Fault
  /\ UNCHANGED <<log, intent, sends, stale, overlapped>>

(* The gate or a validation in front of the claim, a locked record, one    *)
(* that a look across bases does not find, a lost connection               *)
ApplyThrows(e) ==
  /\ Acting(e, Records)
  /\ RolledBack(e)
  /\ run' = Failed(e)
  /\ UNCHANGED <<log, intent, faults, commits, missed, sends, stale, overlapped>>

(* The claim is held: the step reports success and writes nothing.         *)
AlreadyApplied(e) ==
  /\ Acting(e, Records)
  /\ Key(e) \in applied
  /\ run' = Succeeded(e)
  /\ UNCHANGED <<log, applied, intent, faults, commits, missed, sends, stale, overlapped>>

-----------------------------------------------------------------------------
(* Class B: claimOutboundIntent, the send, recordOutboundOutcome *)

SetIntent(e, from, to) ==
  intent' = IF intent[Key(e)] = from THEN [intent EXCEPT ![Key(e)] = to] ELSE intent

FlipPending(e) == SetIntent(e, "failed", "pending")
FlipUnknown(e) == SetIntent(e, "pending", "outcome_unknown")
FlipSeen(e) == IF run[e].seen = "failed" THEN FlipPending(e) ELSE FlipUnknown(e)

WriteOutcome(e) == SetIntent(e, "pending", run[e].seen)

(* INSERT .. ON CONFLICT DO NOTHING                                        *)
InsertIntent(e) ==
  /\ Acting(e, Outbound)
  /\ SetIntent(e, "none", "pending")
  /\ run' = At(e, IF intent[Key(e)] = "none" THEN "send" ELSE "consult")
  /\ UNCHANGED <<log, applied, faults, commits, missed, sends, stale, overlapped>>

(* Mutant: a pending row is taken for one nobody has sent.                 *)
SkipsOn_Settled(status) == status \in Settled

SkipsOn(status) == status \in Settled \cup {"pending"}

(* The status is read: settled rows skip, the others are flipped first.    *)
Consult(e) ==
  /\ run[e].pc = "consult"
  /\ run' = IF intent[Key(e)] \in Settled THEN Succeeded(e)
            ELSE [run EXCEPT ![e].pc = "flip", ![e].seen = intent[Key(e)]]
  /\ UNCHANGED <<log, applied, intent, faults, commits, missed, sends, stale, overlapped>>

(* The guarded flip; how many rows it wrote is looked at by nobody.        *)
Flip(e) ==
  /\ run[e].pc = "flip"
  /\ FlipSeen(e)
  /\ IF SkipsOn(run[e].seen)
     THEN run' = Succeeded(e) /\ stale' = IF intent[Key(e)] = "pending" THEN stale ELSE stale \cup {Step(e)}
     ELSE run' = At(e, "send") /\ UNCHANGED stale
  /\ UNCHANGED <<log, applied, faults, commits, missed, sends, overlapped>>

(* classifyOutboundResult: 'failed' is kept for requests that never left;  *)
(* an email that failed is never more than unknown.                        *)
Outcomes(kind, delivered) ==
  {"outcome_unknown"} \cup (IF delivered THEN {"sent"}
                            ELSE IF kind = "webhook" THEN {"failed"} ELSE {})

Send(e, delivered) ==
  /\ run[e].pc = "send"
  /\ \E outcome \in Outcomes(Kinds[run[e].action], delivered) :
       run' = [run EXCEPT ![e].pc = "record", ![e].seen = outcome]
  /\ sends' = sends \cup {[by |-> e, action |-> run[e].action, delivered |-> delivered]}
  /\ UNCHANGED <<log, applied, intent, faults, commits, missed, stale, overlapped>>

(* The step reports the outcome of its own send, recorded or not.          *)
RecordOutcome(e) ==
  /\ run[e].pc = "record"
  /\ WriteOutcome(e)
  /\ run' = IF run[e].seen = "sent" THEN Succeeded(e) ELSE Failed(e)
  /\ UNCHANGED <<log, applied, faults, commits, missed, sends, stale, overlapped>>

(* A statement of the two-phase path fails before or after it took effect; *)
(* executeSingleAction turns the error into a failed step.                 *)
StatementFails(e) ==
  /\ \/ Acting(e, Outbound) /\ (SetIntent(e, "none", "pending") \/ UNCHANGED intent)
     \/ run[e].pc = "consult" /\ UNCHANGED intent
     \/ run[e].pc = "flip" /\ (FlipSeen(e) \/ UNCHANGED intent)
     \/ run[e].pc = "record" /\ (WriteOutcome(e) \/ UNCHANGED intent)
  /\ Fault
  /\ run' = Failed(e)
  /\ UNCHANGED <<log, applied, commits, missed, sends, stale, overlapped>>

-----------------------------------------------------------------------------
Proceeds(e) ==
  \/ SkipConditions(e) \/ Persist(e) \/ Crash(e)
  \/ (\E found \in BOOLEAN : ApplyRecord(e, found)) \/ ApplyThrows(e) \/ AlreadyApplied(e)
  \/ InsertIntent(e) \/ Consult(e) \/ Flip(e)
  \/ \E delivered \in BOOLEAN : Send(e, delivered)
  \/ RecordOutcome(e) \/ StatementFails(e)

Next == \E e \in Execs : Proceeds(e) \/ \E p \in Execs : Retry(p, e)

Spec == Init /\ [][Next]_vars

-----------------------------------------------------------------------------
(* Properties *)

(* Depth of e below the first execution, as it really was                  *)
ParentOf(e) == run[e].parent
DepthOf(e) ==
  LET up[k \in 0 .. MaxRuns] == IF k = 0 THEN e
                                ELSE IF up[k - 1] = NoParent THEN NoParent ELSE ParentOf(up[k - 1])
  IN  CHOOSE n \in 0 .. MaxRuns : up[n] = First

(* The runs whose root the lineage walk still finds                        *)
InReach(e) == DepthOf(e) <= LineageDepth

(* Every variable has the shape the tables and the executor give it, and a *)
(* stored execution is one whose run has ended.                            *)
RetryTypeOK ==
  /\ log \in [Execs -> [status : {"none", "success", "failed", "skipped"},
                        parent : Execs \cup {NoParent}]]
  /\ run \in [Execs -> [pc : Phases, parent : Execs \cup {NoParent}, root : Execs,
                        action : Actions,
                        seen : {"none", "pending", "failed"} \cup Settled,
                        status : {"none", "success", "failed", "skipped"}]]
  /\ applied \in SUBSET Keys
  /\ intent \in [Keys -> {"none", "pending", "failed"} \cup Settled]
  /\ faults \in 0 .. MaxFaults
  /\ commits \in SUBSET Keys /\ missed \in SUBSET commits /\ stale \in SUBSET Keys
  /\ sends \in SUBSET [by : Execs, action : Actions, delivered : BOOLEAN]
  /\ overlapped \in BOOLEAN
  /\ \A e \in Execs : log[e].status # "none" => run[e].pc = "done"

(* A record write takes effect, and an email is handed over, at most once  *)
(* in a lineage, whatever is retried, races, crashes or loses its reply:   *)
(* the claim commits with the write, and no outcome of an email is ever    *)
(* retryable.  It holds as far as the lineage walk of retryExecution sees. *)
AtMostOnce ==
  /\ \A v, w \in commits \ missed : v[2] = w[2] /\ InReach(v[1]) /\ InReach(w[1]) => v = w
  /\ \A s, t \in sends : /\ Kinds[s.action] = "email" /\ s.action = t.action
                         /\ InReach(s.by) /\ InReach(t.by)
                         => s = t

(* While no two runs of the lineage overlap, nothing external is delivered *)
(* twice, though a send may crash, time out or lose its outcome.           *)
OnceWithoutOverlap ==
  ~overlapped =>
    \A s, t \in sends :
      s.delivered /\ t.delivered /\ s.action = t.action /\ InReach(s.by) /\ InReach(t.by)
        => s = t

(* What an execution stored as success reports has happened: a record it   *)
(* creates was written; one it updates, deletes or locks was written, or   *)
(* was missing when a run of the lineage came to write it; each of its     *)
(* requests was delivered or is on record as ambiguous.  A retry that read *)
(* a request as pending and found it settled when it flipped it claims no  *)
(* more than that the request was made.                                    *)
SuccessIsExplained ==
  \A e \in Execs : log[e].status = "success" =>
    \A a \in Actions :
      LET Mine(f, b) == run[f].root = run[e].root /\ b = a IN
      CASE Kinds[a] = "create" -> \E w \in commits \ missed : Mine(w[1], w[2])
        [] Kinds[a] = "update" -> \E w \in commits : Mine(w[1], w[2])
        [] OTHER ->
             \/ intent[<<run[e].root, a>>] = "outcome_unknown"
             \/ \E s \in sends : Mine(s.by, s.action) /\ (s.delivered \/ <<e, a>> \in stale)

(* automation-outbound-intent.ts on a row that is 'sent': "already         *)
(* delivered; do NOT resend".  No action is delivered twice in a lineage.  *)
DeliveredOnce ==
  \A s, t \in sends :
    s.delivered /\ t.delivered /\ s.action = t.action /\ InReach(s.by) /\ InReach(t.by) => s = t
=============================================================================
