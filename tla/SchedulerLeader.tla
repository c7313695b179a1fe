---------------------------- MODULE SchedulerLeader ----------------------------
(***************************************************************************)
(* The automation scheduler of several replicas, its leader lock in Redis, *)
(* and the timers of one scheduled rule.                                   *)
(*                                                                         *)
(*   automation-scheduler.ts  election, renewal, relinquishing, register   *)
(*                            and unregister, destroy                      *)
(*   redis-leader-lock.ts     acquire, renew and release, atomic in Redis  *)
(*   automation-service.ts    the load at start-up and the rule edits      *)
(*   index.ts                 the order of start-up and its rollback       *)
(*                                                                         *)
(* Time is counted in ticks.  A command reaches Redis, and its answer the  *)
(* replica, within MaxDelay ticks each, which may be longer than the TTL:  *)
(* nothing in the code bounds them.  The commands of a replica share a     *)
(* connection and stay in order.  A replica is one process: a restarted    *)
(* one has a new owner id and is another replica.  A firing timer arms     *)
(* itself again with the rule it was registered with, so firings leave the *)
(* state as it is and are not actions.                                     *)
(***************************************************************************)
EXTENDS Naturals, Sequences, FiniteSets

CONSTANTS
  Replica,
  TTL,          (* ttlMs, in ticks                                         *)
  MaxDelay,     (* ticks a command, or its answer, is under way at most    *)
  MaxVersion,   (* bound: edits of the rule                                *)
  MaxFaults,    (* bound: crashes, errors, lost answers and a lost key     *)
  NULL

(* The interval of the renewals: a third of the TTL. *)
RenewEvery == TTL \div 3

ASSUME NullAssumption == NULL \notin Replica /\ NULL \notin Nat
ASSUME BoundsAssumption == MaxVersion \in Nat /\ MaxFaults \in Nat
ASSUME TimingAssumption == TTL \in Nat /\ TTL >= 3 /\ MaxDelay \in Nat

VARIABLES
  now,        (* what Redis and PostgreSQL hold: the key, the rule          *)
  phase,      (* where the process of a replica stands                      *)
  leads,      (* isLeader                                                   *)
  renewal,    (* ticks until the renewal interval fires, NULL: not running  *)
  conn,       (* the commands sent and not yet answered                     *)
  handles,    (* the entry of timers and the timers live in the event loop  *)
  rows,       (* what the load has read: the enabled version, or NULL       *)
  edits,      (* edits committed whose handler has not resumed              *)
  faults,
  (* History, read by no action: *)
  stale,      (* ticks a replica has led without the key                    *)
  idle,       (* ticks a replica has owned the key without leading          *)
  silence,    (* ticks since Redis ran what a leader last heard succeed     *)
  flushed,    (* Redis has lost the key                                     *)
  raced       (* the rule changed where a leader could not follow in order  *)

vars == <<now, phase, leads, renewal, conn, handles, rows, edits, faults, stale, idle, silence, flushed, raced>>

Phases == {"new", "electing", "ready", "loading", "serving", "degraded", "stopping", "gone"}
Destroyed == {"degraded", "stopping"}
Ops == {"acquire", "renew", "release"}
Versions == 0 .. MaxVersion
Alive(r) == phase[r] \notin {"new", "gone"}

Free == [owner |-> NULL, ttl |-> 0]
NoTimer == [entry |-> NULL, live |-> {}]

Init ==
  /\ \E s \in {"on", "off"} : now = [key |-> Free, version |-> 0, rule |-> s]
  /\ phase = [r \in Replica |-> "new"]
  /\ leads = [r \in Replica |-> FALSE]
  /\ renewal = [r \in Replica |-> NULL]
  /\ conn = [r \in Replica |-> <<>>]
  /\ handles = [r \in Replica |-> NoTimer]
  /\ rows = [r \in Replica |-> NULL]
  /\ edits = [r \in Replica |-> {}]
  /\ faults = 0
  /\ stale = [r \in Replica |-> 0]
  /\ idle = [r \in Replica |-> 0]
  /\ silence = [r \in Replica |-> 0]
  /\ flushed = FALSE
  /\ raced = [r \in Replica |-> FALSE]

History == <<stale, idle, silence, flushed, raced>>

Fault == faults < MaxFaults /\ faults' = faults + 1

-----------------------------------------------------------------------------
(* The lock.  A command carries its operation; once it is done it carries  *)
(* the verdict that is on its way back.                                    *)

Command(op) == [op |-> op, done |-> FALSE, ok |-> FALSE, age |-> 0]
Sent(r, op) == Append(conn[r], Command(op))

(* The key after an operation of r, and whether the operation succeeded. *)
(* Mutant: SET without NX. *)
Acquired_NoNX(key, r) == [key |-> [owner |-> r, ttl |-> TTL], ok |-> TRUE]
Acquired(key, r) == IF key.owner = NULL THEN [key |-> [owner |-> r, ttl |-> TTL], ok |-> TRUE]
                                        ELSE [key |-> key, ok |-> FALSE]

Owned(key, r) == key.owner = r
Renewed(key, r) == IF Owned(key, r) THEN [key |-> [key EXCEPT !.ttl = TTL], ok |-> TRUE]
                                    ELSE [key |-> key, ok |-> FALSE]
Released(key, r) == IF Owned(key, r) THEN [key |-> Free, ok |-> TRUE]
                                     ELSE [key |-> key, ok |-> FALSE]
Applied(key, r, op) == CASE op = "acquire" -> Acquired(key, r)
                         [] op = "renew"   -> Renewed(key, r)
                         [] op = "release" -> Released(key, r)

(* The oldest command of r that Redis has not run. *)
Oldest(r, i) == /\ i \in 1 .. Len(conn[r]) /\ ~ conn[r][i].done
                /\ \A j \in 1 .. i - 1 : conn[r][j].done

Answered(r, i, verdict) ==
  conn' = [conn EXCEPT ![r][i] = [@ EXCEPT !.done = TRUE, !.ok = verdict, !.age = 0]]

(* Redis runs a command; its answer may get lost, which the caller reads   *)
(* as FALSE.                                                               *)
Execute(r) ==
  \E i \in 1 .. Len(conn[r]) :
    /\ Oldest(r, i)
    /\ LET result == Applied(now.key, r, conn[r][i].op) IN
       /\ now' = [now EXCEPT !.key = result.key]
       /\ \/ Answered(r, i, result.ok) /\ UNCHANGED faults
          \/ Answered(r, i, FALSE) /\ result.ok /\ Fault
    /\ UNCHANGED <<phase, leads, renewal, handles, rows, edits, History>>

(* A command never reaches Redis and fails. *)
CommandFails(r) ==
  \E i \in 1 .. Len(conn[r]) :
    /\ Oldest(r, i) /\ Answered(r, i, FALSE) /\ Fault
    /\ UNCHANGED <<now, phase, leads, renewal, handles, rows, edits, History>>

(* Redis loses the key: a restart or an eviction. *)
KeyLost ==
  /\ now.key.owner # NULL /\ now' = [now EXCEPT !.key = Free] /\ flushed' = TRUE /\ Fault
  /\ UNCHANGED <<phase, leads, renewal, conn, handles, rows, edits, stale, idle, silence, raced>>

-----------------------------------------------------------------------------
(* The timers of the rule. *)

Unregistered(h) == [entry |-> NULL, live |-> h.live \ {h.entry}]
Armed(h, v) == [entry |-> v, live |-> h.live \cup {v}]
(* Mutant: a leader sets the new timer without clearing the one before. *)
Registered_NoClear(h, v, leader) == IF leader THEN Armed(h, v) ELSE Unregistered(h)
Registered(h, v, leader) == IF leader THEN Armed(Unregistered(h), v) ELSE Unregistered(h)

-----------------------------------------------------------------------------
(* Election and renewal. *)

(* The service is constructed and the constructor sends the acquire. *)
Boot(r) ==
  /\ phase[r] = "new" /\ phase' = [phase EXCEPT ![r] = "electing"]
  /\ conn' = [conn EXCEPT ![r] = Sent(r, "acquire")]
  /\ UNCHANGED <<now, leads, renewal, handles, rows, edits, faults, History>>

RenewFires(r) ==
  /\ Alive(r) /\ renewal[r] = 0 /\ renewal' = [renewal EXCEPT ![r] = RenewEvery]
  /\ conn' = [conn EXCEPT ![r] = Sent(r, "renew")]
  /\ UNCHANGED <<now, phase, leads, handles, rows, edits, faults, History>>

(* attemptLeadership resumes, whatever became of the service meanwhile. *)
Elected(r, won) ==
  /\ leads' = [leads EXCEPT ![r] = won]
  /\ renewal' = IF won THEN [renewal EXCEPT ![r] = RenewEvery] ELSE renewal
  /\ phase' = IF phase[r] = "electing" THEN [phase EXCEPT ![r] = "ready"] ELSE phase
  /\ UNCHANGED handles

(* Mutant: the timers survive the loss of the lease. *)
Relinquished_KeepsTimers(r) ==
  /\ leads' = [leads EXCEPT ![r] = FALSE]
  /\ renewal' = [renewal EXCEPT ![r] = NULL]
  /\ UNCHANGED handles
Relinquished(r) ==
  /\ leads' = [leads EXCEPT ![r] = FALSE]
  /\ renewal' = [renewal EXCEPT ![r] = NULL]
  /\ handles' = [handles EXCEPT ![r] = Unregistered(@)]

(* Mutant: a rejected renewal is taken for a passing one. *)
RenewAnswered_Ignores(r, ok) == UNCHANGED <<leads, renewal, handles, phase>>
RenewAnswered(r, ok) ==
  /\ \/ ~ ok /\ leads[r] /\ Relinquished(r)
     \/ (ok \/ ~ leads[r]) /\ UNCHANGED <<leads, renewal, handles>>
  /\ UNCHANGED phase

(* The first answer reaches the replica, if it still runs; a leader heard  *)
(* of a success as old as its answer.                                      *)
Reply(r) ==
  /\ conn[r] # <<>> /\ Head(conn[r]).done
  /\ conn' = [conn EXCEPT ![r] = Tail(@)]
  /\ LET answer == Head(conn[r]) IN
     /\ \/ Alive(r) /\ answer.op = "acquire" /\ Elected(r, answer.ok)
        \/ Alive(r) /\ answer.op = "renew" /\ RenewAnswered(r, answer.ok)
        \/ (~ Alive(r) \/ answer.op = "release") /\ UNCHANGED <<leads, renewal, handles, phase>>
     /\ silence' = [silence EXCEPT ![r] = CASE ~ leads'[r] -> 0
                                            [] leads'[r] /\ answer.ok -> answer.age
                                            [] OTHER -> @]
  /\ stale' = [stale EXCEPT ![r] = IF leads'[r] THEN @ ELSE 0]
  /\ UNCHANGED <<now, rows, edits, faults, idle, flushed, raced>>

-----------------------------------------------------------------------------
(* Start-up, rollback and shutdown. *)

(* loadAndRegisterAllScheduled reads the enabled rules after the verdict. *)
Select(r) ==
  /\ phase[r] = "ready" /\ phase' = [phase EXCEPT ![r] = "loading"]
  /\ rows' = [rows EXCEPT ![r] = IF now.rule = "on" THEN now.version ELSE NULL]
  /\ UNCHANGED <<now, leads, renewal, conn, handles, edits, faults, History>>

(* The rows arrive and are registered, then the service is published. *)
Load(r) ==
  /\ phase[r] = "loading" /\ phase' = [phase EXCEPT ![r] = "serving"]
  /\ handles' = IF rows[r] = NULL THEN handles
                ELSE [handles EXCEPT ![r] = Registered(@, rows[r], leads[r])]
  /\ rows' = [rows EXCEPT ![r] = NULL]
  /\ UNCHANGED <<now, leads, renewal, conn, edits, faults, History>>

(* The clocks of a leader stop with its lead. *)
Stopped(r) ==
  /\ stale' = [stale EXCEPT ![r] = 0] /\ silence' = [silence EXCEPT ![r] = 0]
  /\ UNCHANGED <<idle, flushed, raced>>

Destroy(r) ==
  /\ handles' = [handles EXCEPT ![r] = Unregistered(@)]
  /\ renewal' = [renewal EXCEPT ![r] = NULL]
  /\ conn' = IF leads[r] THEN [conn EXCEPT ![r] = Sent(r, "release")] ELSE conn
  /\ leads' = [leads EXCEPT ![r] = FALSE]
  /\ Stopped(r)

(* init() or the load throws: the service is shut down, the process stays. *)
BootFails(r) ==
  /\ phase[r] \in {"electing", "ready", "loading"} /\ Fault
  /\ phase' = [phase EXCEPT ![r] = "degraded"]
  /\ rows' = [rows EXCEPT ![r] = NULL]
  /\ Destroy(r)
  /\ UNCHANGED <<now, edits>>

Shutdown(r) ==
  /\ phase[r] = "serving" /\ phase' = [phase EXCEPT ![r] = "stopping"]
  /\ Destroy(r)
  /\ UNCHANGED <<now, rows, edits, faults>>

Ended(r) ==
  /\ phase' = [phase EXCEPT ![r] = "gone"]
  /\ leads' = [leads EXCEPT ![r] = FALSE]
  /\ renewal' = [renewal EXCEPT ![r] = NULL]
  /\ handles' = [handles EXCEPT ![r] = NoTimer]
  /\ rows' = [rows EXCEPT ![r] = NULL]
  /\ edits' = [edits EXCEPT ![r] = {}]
  /\ Stopped(r)
  /\ UNCHANGED <<now, conn>>

Exit(r) == phase[r] = "stopping" /\ Ended(r) /\ UNCHANGED faults
Crash(r) == Alive(r) /\ Ended(r) /\ Fault

-----------------------------------------------------------------------------
(* updateRule, setRuleEnabled and deleteRule: the statement commits, and   *)
(* the handler sets the timer of its own replica when it resumes.          *)

Reads(r) == phase[r] \in {"loading", "serving"}

Commit(r, state) ==
  /\ phase[r] = "serving" /\ now.rule # "deleted" /\ now.version < MaxVersion
  /\ now' = [now EXCEPT !.version = @ + 1, !.rule = state]
  /\ edits' = [edits EXCEPT ![r] = @ \cup {[version |-> now.version + 1, on |-> state = "on"]}]
  /\ raced' = [x \in Replica |-> \/ raced[x]
                                 \/ leads[x] /\ Reads(x) /\ (x = r => edits[r] # {})]
  /\ UNCHANGED <<phase, leads, renewal, conn, handles, rows, faults, stale, idle, silence, flushed>>

(* Mutant: only an enabled rule is looked at. *)
Rescheduled_EnabledOnly(r, e) ==
  handles' = [handles EXCEPT ![r] = IF e.on THEN Registered(@, e.version, leads[r]) ELSE @]
Rescheduled(r, e) ==
  handles' = [handles EXCEPT ![r] = IF e.on THEN Registered(@, e.version, leads[r])
                                            ELSE Unregistered(@)]

EditResumes(r) ==
  \E e \in edits[r] :
    /\ edits' = [edits EXCEPT ![r] = @ \ {e}]
    /\ Rescheduled(r, e)
    /\ UNCHANGED <<now, phase, leads, renewal, conn, rows, faults, History>>

(* The answer of a committed statement is lost: the handler throws. *)
EditFails(r) ==
  \E e \in edits[r] :
    /\ edits' = [edits EXCEPT ![r] = @ \ {e}] /\ Fault
    /\ raced' = [raced EXCEPT ![r] = @ \/ leads[r]]
    /\ UNCHANGED <<now, phase, leads, renewal, conn, handles, rows, stale, idle, silence, flushed>>

-----------------------------------------------------------------------------
(* A tick passes when nothing is overdue. *)

(* r does not lead and no answer can make it the leader. *)
Unaware(r) ==
  ~ leads[r] /\ (Alive(r) => \A i \in 1 .. Len(conn[r]) : conn[r][i].op # "acquire")

Aged(key) == IF key.ttl <= 1 THEN Free ELSE [key EXCEPT !.ttl = @ - 1]

Tick ==
  /\ \A r \in Replica : /\ \A i \in 1 .. Len(conn[r]) : conn[r][i].age < MaxDelay
                        /\ renewal[r] # 0
  /\ now' = [now EXCEPT !.key = Aged(@)]
  /\ conn' = [r \in Replica |-> [i \in 1 .. Len(conn[r]) |-> [conn[r][i] EXCEPT !.age = @ + 1]]]
  /\ renewal' = [r \in Replica |-> IF renewal[r] = NULL THEN NULL ELSE renewal[r] - 1]
  /\ stale' = [r \in Replica |-> IF leads[r] /\ ~ Owned(now.key, r) THEN stale[r] + 1 ELSE 0]
  /\ idle' = [r \in Replica |-> IF Owned(now.key, r) /\ Unaware(r) THEN idle[r] + 1 ELSE 0]
  /\ silence' = [r \in Replica |-> IF leads[r] THEN silence[r] + 1 ELSE 0]
  /\ UNCHANGED <<phase, leads, handles, rows, edits, faults, flushed, raced>>

Works(r) == \/ RenewFires(r) \/ Execute(r) \/ Reply(r)
            \/ Select(r) \/ Load(r) \/ EditResumes(r) \/ Exit(r)

Next ==
  \/ Tick
  \/ KeyLost
  \/ \E r \in Replica : \/ Works(r)
                        \/ Boot(r)
                        \/ Shutdown(r)
                        \/ CommandFails(r)
                        \/ BootFails(r)
                        \/ Crash(r)
                        \/ EditFails(r)
                        \/ \E s \in {"on", "off", "deleted"} : Commit(r, s)

Spec == Init /\ [][Next]_vars

(* Time passes, Redis and the database answer, and the event loop turns. *)
Fairness == WF_vars(Tick) /\ \A r \in Replica : WF_vars(Works(r))
FairSpec == Spec /\ Fairness

-----------------------------------------------------------------------------
(* Type correctness; the entry of timers and the live timer are the same   *)
(* one, so no handle is leaked by an edit, a loss of the lease or destroy. *)
LeaderTypeOK ==
  /\ now \in [key : [owner : Replica \cup {NULL}, ttl : 0 .. TTL],
              version : Versions, rule : {"on", "off", "deleted"}]
  /\ phase \in [Replica -> Phases]
  /\ leads \in [Replica -> BOOLEAN]
  /\ renewal \in [Replica -> 0 .. RenewEvery \cup {NULL}]
  /\ conn \in [Replica -> Seq([op : Ops, done : BOOLEAN, ok : BOOLEAN, age : 0 .. MaxDelay])]
  /\ handles \in [Replica -> {NoTimer} \cup {[entry |-> v, live |-> {v}] : v \in Versions}]
  /\ rows \in [Replica -> Versions \cup {NULL}]
  /\ edits \in [Replica -> SUBSET [version : Versions, on : BOOLEAN]]
  /\ faults \in 0 .. MaxFaults
  /\ stale \in [Replica -> Nat]
  /\ idle \in [Replica -> Nat]
  /\ silence \in [Replica -> Nat]
  /\ flushed \in BOOLEAN
  /\ raced \in [Replica -> BOOLEAN]

(* Two replicas that both take themselves for the leader, while Redis      *)
(* keeps the key, are never both within the lease they last heard of: one  *)
(* of them has had no word of a success for TTL or more.  Through crashes, *)
(* lost and late answers and shutdowns, at any delay.                      *)
SingleLeader ==
  ~ flushed => \A r, s \in Replica :
                 leads[r] /\ leads[s] /\ silence[r] < TTL /\ silence[s] < TTL => r = s

(* A replica and the key disagree for a bounded time only: a leader hears  *)
(* of a success again, or gives up, within an interval and the delays of a *)
(* renewal; a leader whose key is gone, even by the fault of Redis, gives  *)
(* up once its next renewal has been answered; and a key whose owner does  *)
(* not lead expires, for relinquishing ends the renewals but for those     *)
(* under way.                                                              *)
DisagreementBounded ==
  \A r \in Replica : /\ leads[r] => /\ silence[r] <= RenewEvery + 3 * MaxDelay
                                    /\ stale[r] <= RenewEvery + 2 * MaxDelay
                     /\ idle[r] <= TTL + MaxDelay

(* No timer runs on a replica that does not lead, not after a lost lease   *)
(* nor by an edit or a load that resumes after the loss; and none on a     *)
(* destroyed scheduler, though an acquire in flight makes it the leader.   *)
TimersSilent ==
  \A r \in Replica : ~ leads[r] \/ phase[r] \in Destroyed => handles[r].live = {}

(* Edits made one after another on the leader, and only there, leave it    *)
(* with a timer of the rule as it is stored, and none if it is disabled or *)
(* deleted.                                                                *)
TimersCurrent ==
  \A r \in Replica :
    phase[r] = "serving" /\ leads[r] /\ edits[r] = {} /\ ~ raced[r]
      => handles[r].live = IF now.rule = "on" THEN {now.version} ELSE {}

(* While a replica serves, another leader follows one that is lost.        *)
Handover ==
  (\E r \in Replica : phase[r] = "serving")
    ~> (\E r \in Replica : leads[r]) \/ (\A r \in Replica : phase[r] # "serving")
=============================================================================
