----------------------- MODULE ApprovalBridge_proofs -----------------------
(***************************************************************************)
(* Proofs about ApprovalBridge, for any executions, deliveries, length of  *)
(* the tail, attempt ceilings and faults.                                  *)
(***************************************************************************)
EXTENDS ApprovalBridge, TLAPS

(* The parts of TypeOK, one for each variable that has more than a shape.  *)
RunsTyped ==
  /\ run \in [Actors -> RunType]
  /\ \A e \in Execs : run[e].exec = e /\ run[e].pc \notin HandlerPcs
  /\ \A w \in Workers : run[w].pc \notin ExecPcs /\ (run[w].pc # "idle" => run[w].exec # NULL)
  /\ \A a \in Actors : run[a].pc \in {"start", "act", "settle"} => run[a].step \in 1 .. Tail
BridgesTyped ==
  /\ bridge \in [Execs -> BridgeType]
  /\ \A e \in Execs : bridge[e].status = "in_progress" <=> bridge[e].lease # "none"
EventsTyped == event \in [Execs -> EventType]
JobsTyped == jobs \in [Execs -> [Steps -> JobStatus]]
RestTyped ==
  /\ approval \in [Execs -> {"none", "open"} \cup Decided]
  /\ exec \in [Execs -> {"absent", "running", "success", "failed"}]
  /\ runs \in [Execs -> [1 .. Tail -> Nat]]
  /\ faults \in 0 .. MaxFaults
  /\ carried \subseteq Execs \X Nat

LEMMA TypeParts == TypeOK <=> RunsTyped /\ BridgesTyped /\ EventsTyped /\ JobsTyped /\ RestTyped
BY DEF TypeOK, RunsTyped, BridgesTyped, EventsTyped, JobsTyped, RestTyped

LEMMA TypePartsNext ==
  RunsTyped' /\ BridgesTyped' /\ EventsTyped' /\ JobsTyped' /\ RestTyped' => TypeOK'
BY DEF TypeOK, RunsTyped, BridgesTyped, EventsTyped, JobsTyped, RestTyped

-----------------------------------------------------------------------------
(* What a step does to what the actors hold in memory.                     *)

(* The places an actor goes to without a step of the tail being entered.   *)
Pcs == {"idle"} \cup ExecPcs \cup HandlerPcs \cup TailPcs
Plainly(a, p, q) ==
  \/ a \in Execs /\ p = "idle" /\ q = "record"
  \/ p = "record" /\ q \in {"lookup", "done"}
  \/ p = "lookup" /\ q \in {"insert", "persist"}
  \/ p = "insert" /\ q \in {"create", "persist"}
  \/ p = "create" /\ q \in {"read", "abandon"}
  \/ p = "read" /\ q = "abandon"
  \/ p = "link" /\ q \in {"job", "persist"}
  \/ p = "job" /\ q \in {"persist", "skip", "abandon"}
  \/ p \in {"abandon", "start", "settle", "skip", "resume"} /\ q = "persist"
  \/ p = "settle" /\ q = "skip"
  \/ a \in Execs /\ p = "persist" /\ q = "done"
  \/ p = "start" /\ q = "act"
  \/ p = "act" /\ q = "settle"
  \/ p = "fresh" /\ q = "poison"
  \/ p = "poison" /\ q = "reclaim"
  \/ p = "reclaim" /\ q = "classify"
  \/ p = "check" /\ q = "decline"
  \/ p = "decline" /\ q \in {"skip", "persist"}

(* x is what the step makes of a's old memory.                             *)
GoesOn(a, x) ==
  LET old == run[a] IN
  /\ x \in RunType /\ x.exec = old.exec /\ x.seen = old.seen /\ x.fence = old.fence
  /\ \/ Plainly(a, old.pc, x.pc) /\ (x.pc \in {"act", "settle"} => x.step = old.step)
     \/ a \in Workers /\ old.pc = "persist" /\ x.pc = "mark"
     \/ old.pc = "check" /\ x.pc = "resume" /\ old.seen = "approved"
     \/ old.pc = "job" /\ x.pc = "start" /\ x.step = 1 /\ old.seen = "approved"
     \/ old.pc = "resume" /\ x.pc = "start" /\ x.step = 1
     \/ old.pc = "settle" /\ x.pc = "start" /\ x.step = old.step + 1 /\ x.step \in 1 .. Tail
     \/ a \in Execs /\ x.pc = "done"
Ends(a, x) == a \in Workers /\ x = Idle
Reads(a, x) ==
  /\ a \in Execs /\ run[a].pc = "read" /\ UNCHANGED <<approval, bridge, event>>
  /\ x = [run[a] EXCEPT !.pc = "link", !.seen = approval[a]]
Receives(a, x) ==
  /\ a \in Workers /\ run[a].pc = "idle" /\ UNCHANGED <<approval, bridge>>
  /\ \E e \in Execs : x = [Idle EXCEPT !.pc = "fresh", !.exec = e, !.seen = approval[e]]
Claims(a, x) ==
  LET e == run[a].exec IN
  /\ a \in Workers /\ run[a].pc \in {"fresh", "reclaim"}
  /\ Claimable(bridge[e]) \/ Expired(bridge[e])
  /\ bridge' = [bridge EXCEPT ![e] = Leased(@)]
  /\ x = [run[a] EXCEPT !.pc = "check", !.fence = bridge[e].fence + 1]
RunStep(a, x) == GoesOn(a, x) \/ Ends(a, x) \/ Reads(a, x) \/ Receives(a, x) \/ Claims(a, x)
Acted(a) == \E x : run' = [run EXCEPT ![a] = x] /\ RunStep(a, x)

LEMMA ExecFacts ==
  ASSUME TypeOK, NEW e \in Execs
  PROVE  e \in Actors /\ e \notin Workers /\ run[e] \in RunType /\ run[e].exec = e
BY BridgeAssumption DEF TypeOK, Actors

LEMMA WorkerFacts ==
  ASSUME TypeOK, NEW w \in Workers
  PROVE  /\ w \in Actors /\ w \notin Execs /\ run[w] \in RunType
         /\ run[w].pc # "idle" => run[w].exec \in Execs
BY BridgeAssumption DEF TypeOK, Actors, RunType

(* Goto and Fails, whatever the place.                                     *)
LEMMA GotoGoes ==
  ASSUME TypeOK, NEW a \in Actors, NEW q \in Pcs, Plainly(a, run[a].pc, q),
         Goto(a, q) \/ Fails(a, q)
  PROVE  Acted(a)
<1> DEFINE x == [run[a] EXCEPT !.pc = q]
           y == [run[a] EXCEPT !.pc = q, !.status = "failed"]
<1>1. run[a] \in RunType /\ run \in [Actors -> RunType]
  BY DEF TypeOK
<1>2. /\ x \in RunType /\ x.pc = q /\ x.exec = run[a].exec /\ x.seen = run[a].seen
      /\ x.fence = run[a].fence /\ x.step = run[a].step
  BY <1>1 DEF RunType, Pcs
<1>3. /\ y \in RunType /\ y.pc = q /\ y.exec = run[a].exec /\ y.seen = run[a].seen
      /\ y.fence = run[a].fence /\ y.step = run[a].step
  BY <1>1 DEF RunType, Pcs
<1>4. run' = [run EXCEPT ![a] = x] \/ run' = [run EXCEPT ![a] = y]
  BY <1>1 DEF Goto, Fails, RunType
<1> HIDE DEF x, y
<1>5. GoesOn(a, x) /\ GoesOn(a, y)
  BY <1>2, <1>3 DEF GoesOn
<1> QED
  BY <1>4, <1>5 DEF Acted, RunStep

LEMMA ReplyEnds ==
  ASSUME TypeOK, NEW w \in Workers, NEW state, Reply(w, state)
  PROVE  Acted(w)
BY DEF Reply, Acted, RunStep, Ends

LEMMA ExecActs ==
  ASSUME TypeOK, NEW e \in Execs,
         \/ RetryExecution(e) \/ RecordExecution(e) \/ LookupBridge(e) \/ InsertBridge(e)
         \/ CreateApproval(e) \/ MarkBridgeFailed(e)
  PROVE  Acted(e)
<1>1. e \in Actors
  BY ExecFacts
<1> USE DEF Plainly, Pcs, ExecPcs, TailPcs, At
<1>2. CASE RetryExecution(e)
  BY <1>1, <1>2, GotoGoes DEF RetryExecution
<1>3. CASE RecordExecution(e)
  BY <1>1, <1>3, GotoGoes DEF RecordExecution
<1>4. CASE LookupBridge(e)
  BY <1>1, <1>4, GotoGoes DEF LookupBridge
<1>5. CASE InsertBridge(e)
  BY <1>1, <1>5, GotoGoes DEF InsertBridge
<1>6. CASE CreateApproval(e)
  BY <1>1, <1>6, GotoGoes DEF CreateApproval
<1>7. CASE MarkBridgeFailed(e)
  BY <1>1, <1>7, GotoGoes DEF MarkBridgeFailed
<1> QED
  BY <1>2, <1>3, <1>4, <1>5, <1>6, <1>7

LEMMA ReadActs ==
  ASSUME TypeOK, NEW e \in Execs, ReadApproval(e)
  PROVE  Acted(e)
<1>1. e \in Actors /\ run[e] \in RunType /\ run \in [Actors -> RunType]
  BY ExecFacts DEF TypeOK
<1>2. CASE run' = [run EXCEPT ![e].pc = "link", ![e].seen = approval[e]]
  <2>1. run' = [run EXCEPT ![e] = [run[e] EXCEPT !.pc = "link", !.seen = approval[e]]]
    BY <1>1, <1>2 DEF RunType
  <2>2. Reads(e, [run[e] EXCEPT !.pc = "link", !.seen = approval[e]])
    BY DEF ReadApproval, Reads, At
  <2> QED
    BY <2>1, <2>2 DEF Acted, RunStep
<1>3. CASE Fails(e, "abandon")
  BY <1>1, <1>3, GotoGoes DEF ReadApproval, At, Plainly, Pcs, ExecPcs
<1> QED
  BY <1>2, <1>3 DEF ReadApproval

LEMMA LinkActs ==
  ASSUME TypeOK, NEW e \in Execs, LinkBridge(e)
  PROVE  Acted(e)
<1>1. e \in Actors
  BY ExecFacts
<1> QED
  BY <1>1, GotoGoes DEF LinkBridge, At, Plainly, Pcs, ExecPcs, TailPcs

LEMMA WriteJobActs ==
  ASSUME TypeOK, NEW e \in Execs, WriteJob(e)
  PROVE  Acted(e)
<1> DEFINE q == CASE run[e].seen = "open" -> "persist" [] run[e].seen = "approved" -> "start" [] OTHER -> "skip"
           s == IF run[e].seen = "rejected" THEN "failed" ELSE "running"
           x == [run[e] EXCEPT !.step = 1, !.pc = q, !.status = s]
<1>1. e \in Actors /\ run[e] \in RunType /\ run \in [Actors -> RunType] /\ run[e].pc = "job"
  BY ExecFacts DEF TypeOK, WriteJob, At
<1>2. CASE run' = [run EXCEPT ![e].step = 1, ![e].pc = q, ![e].status = s]
  <2>1. q \in {"persist", "start", "skip"} /\ (q = "start" => run[e].seen = "approved")
        /\ s \in {"failed", "running"} /\ 1 \in 0 .. Tail + 1
    BY BridgeAssumption
  <2> HIDE DEF q, s
  <2>2. run' = [run EXCEPT ![e] = x]
    BY <1>1, <1>2 DEF RunType
  <2>3. /\ x \in RunType /\ x.pc = q /\ x.exec = run[e].exec /\ x.seen = run[e].seen
        /\ x.fence = run[e].fence /\ x.step = 1
    BY <1>1, <2>1 DEF RunType, TailPcs
  <2> HIDE DEF x
  <2>4. GoesOn(e, x)
    BY <1>1, <2>1, <2>3 DEF GoesOn, Plainly
  <2> QED
    BY <2>2, <2>4 DEF Acted, RunStep
<1>3. CASE Fails(e, "abandon")
  BY <1>1, <1>3, GotoGoes DEF Plainly, Pcs, ExecPcs
<1> QED
  BY <1>2, <1>3 DEF WriteJob

LEMMA TailActs ==
  ASSUME TypeOK, NEW a \in Actors, StartAction(a) \/ RunAction(a) \/ SkipRest(a)
  PROVE  Acted(a)
<1> USE DEF Plainly, Pcs, TailPcs, At
<1>1. CASE StartAction(a)
  BY <1>1, GotoGoes DEF StartAction
<1>2. CASE RunAction(a)
  BY <1>2, GotoGoes DEF RunAction
<1>3. CASE SkipRest(a)
  BY <1>3, GotoGoes DEF SkipRest
<1> QED
  BY <1>1, <1>2, <1>3

LEMMA SettleActs ==
  ASSUME TypeOK, NEW a \in Actors, SettleAction(a)
  PROVE  Acted(a)
<1> DEFINE i == run[a].step
           failed == run[a].status = "failed"
           q == CASE failed -> "skip" [] i = Tail -> "persist" [] OTHER -> "start"
           s == IF i = Tail /\ ~ failed THEN "success" ELSE run[a].status
           x == [run[a] EXCEPT !.step = i + 1, !.pc = q, !.status = s]
<1>1. run[a] \in RunType /\ run \in [Actors -> RunType] /\ run[a].pc = "settle"
  BY DEF TypeOK, SettleAction, At
<1>2. i \in 1 .. Tail /\ Tail \in Nat
  BY <1>1, BridgeAssumption DEF TypeOK
<1>3. CASE run' = [run EXCEPT ![a].step = i + 1, ![a].pc = q,
                     ![a].status = IF i = Tail /\ ~ failed THEN "success" ELSE @]
  <2>1. q \in {"persist", "start", "skip"} /\ (q = "start" => i # Tail)
        /\ s \in {"failed", "running", "success"}
    BY <1>1 DEF RunType
  <2>2. i + 1 \in 0 .. Tail + 1 /\ (q = "start" => i + 1 \in 1 .. Tail)
    BY <1>2, <2>1
  <2>3. run' = [run EXCEPT ![a].step = i + 1, ![a].pc = q, ![a].status = s]
    BY <1>1, <1>3 DEF RunType
  <2> HIDE DEF q, s, failed
  <2>4. run' = [run EXCEPT ![a] = x]
    BY <1>1, <2>3 DEF RunType
  <2>5. /\ x \in RunType /\ x.pc = q /\ x.exec = run[a].exec /\ x.seen = run[a].seen
        /\ x.fence = run[a].fence /\ x.step = i + 1
    BY <1>1, <2>1, <2>2 DEF RunType, TailPcs
  <2> HIDE DEF x
  <2>6. GoesOn(a, x)
    BY <1>1, <2>1, <2>2, <2>5 DEF GoesOn, Plainly
  <2> QED
    BY <2>4, <2>6 DEF Acted, RunStep
<1>4. CASE Fails(a, "persist")
  BY <1>1, <1>4, GotoGoes DEF Plainly, Pcs, TailPcs
<1> QED
  BY <1>3, <1>4 DEF SettleAction

LEMMA PersistActs ==
  ASSUME TypeOK, NEW a \in Actors, PersistExecution(a)
  PROVE  Acted(a)
<1> DEFINE x == [run[a] EXCEPT !.pc = "mark"]
<1>1. run[a] \in RunType /\ run \in [Actors -> RunType] /\ run[a].pc = "persist"
  BY DEF TypeOK, PersistExecution, At
<1>2. CASE a \in Execs
  BY <1>1, <1>2, GotoGoes DEF PersistExecution, Plainly, Pcs, ExecPcs
<1>3. CASE a \in Workers
  <2>1. run' = [run EXCEPT ![a] = x]
    BY <1>1, <1>3, WorkerFacts DEF PersistExecution, Goto
  <2>2. /\ x \in RunType /\ x.pc = "mark" /\ x.exec = run[a].exec /\ x.seen = run[a].seen
        /\ x.fence = run[a].fence
    BY <1>1 DEF RunType, HandlerPcs
  <2> HIDE DEF x
  <2>3. GoesOn(a, x)
    BY <1>1, <1>3, <2>2 DEF GoesOn
  <2> QED
    BY <2>1, <2>3 DEF Acted, RunStep
<1> QED
  BY <1>2, <1>3 DEF Actors

LEMMA ClaimedActs ==
  ASSUME TypeOK, NEW w \in Workers, run[w].pc \in {"fresh", "reclaim"},
         Claimable(bridge[run[w].exec]) \/ Expired(bridge[run[w].exec]), Claimed(w, run[w].exec)
  PROVE  Acted(w)
<1> DEFINE e == run[w].exec
           x == [run[w] EXCEPT !.pc = "check", !.fence = bridge[e].fence + 1]
<1>1. run[w] \in RunType /\ run \in [Actors -> RunType] /\ e \in Execs /\ w \in Actors
  BY WorkerFacts DEF TypeOK
<1>2. bridge \in [Execs -> BridgeType] /\ bridge' = [bridge EXCEPT ![e] = Leased(@)]
  BY DEF TypeOK, Claimed
<1>3. bridge'[e].fence = bridge[e].fence + 1
  BY <1>1, <1>2 DEF Leased, BridgeType
<1>4. run' = [run EXCEPT ![w].pc = "check", ![w].fence = bridge[e].fence + 1]
  BY <1>3 DEF Claimed
<1>5. run' = [run EXCEPT ![w] = x]
  BY <1>1, <1>4 DEF RunType
<1>6. Claims(w, x)
  BY <1>2 DEF Claims
<1> HIDE DEF x
<1> QED
  BY <1>5, <1>6 DEF Acted, RunStep

LEMMA HandlerActs ==
  ASSUME TypeOK, NEW w \in Workers,
         \/ ClaimFresh(w) \/ BuryPoison(w) \/ ReclaimExpired(w) \/ Classify(w)
         \/ CheckRule(w) \/ MarkBridgeResumed(w)
  PROVE  Acted(w)
<1>1. w \in Actors
  BY WorkerFacts
<1> USE DEF Plainly, Pcs, HandlerPcs, At, Thrown, Consumed
<1>2. CASE ClaimFresh(w)
  BY <1>1, <1>2, GotoGoes, ReplyEnds, ClaimedActs DEF ClaimFresh
<1>3. CASE BuryPoison(w)
  BY <1>1, <1>3, GotoGoes, ReplyEnds DEF BuryPoison
<1>4. CASE ReclaimExpired(w)
  BY <1>1, <1>4, GotoGoes, ReplyEnds, ClaimedActs DEF ReclaimExpired
<1>5. CASE Classify(w)
  BY <1>1, <1>5, ReplyEnds DEF Classify
<1>6. CASE CheckRule(w)
  <2> DEFINE x == [run[w] EXCEPT !.pc = "resume"]
  <2>1. run[w] \in RunType /\ run \in [Actors -> RunType] /\ run[w].pc = "check"
    BY <1>1, <1>6 DEF TypeOK, CheckRule
  <2>2. CASE Resumable(w) /\ Goto(w, "resume")
    <3>1. run' = [run EXCEPT ![w] = x]
      BY <2>1, <2>2 DEF Goto, RunType
    <3>2. /\ x \in RunType /\ x.pc = "resume" /\ x.exec = run[w].exec /\ x.seen = run[w].seen
          /\ x.fence = run[w].fence
      BY <2>1 DEF RunType
    <3> HIDE DEF x
    <3>3. GoesOn(w, x)
      BY <2>1, <2>2, <3>2 DEF GoesOn, Resumable
    <3> QED
      BY <3>1, <3>3 DEF Acted, RunStep
  <2>3. CASE Fails(w, "decline")
    BY <1>1, <2>1, <2>3, GotoGoes
  <2>4. CASE Thrown(w)
    BY <2>4, ReplyEnds
  <2> QED
    BY <1>6, <2>2, <2>3, <2>4 DEF CheckRule
<1>7. CASE MarkBridgeResumed(w)
  BY <1>1, <1>7, ReplyEnds DEF MarkBridgeResumed
<1> QED
  BY <1>2, <1>3, <1>4, <1>5, <1>6, <1>7

LEMMA ContinueActs ==
  ASSUME TypeOK, NEW w \in Workers, ContinueExecution(w) \/ FailExecution(w)
  PROVE  Acted(w)
<1>1. w \in Actors /\ run[w] \in RunType /\ run \in [Actors -> RunType]
  BY WorkerFacts DEF TypeOK
<1>2. 1 \in 0 .. Tail + 1
  BY BridgeAssumption
<1>3. ASSUME NEW q \in {"start", "skip"}, run' = [run EXCEPT ![w].pc = q, ![w].step = 1],
             run[w].pc = IF q = "start" THEN "resume" ELSE "decline"
      PROVE  Acted(w)
  <2> DEFINE x == [run[w] EXCEPT !.pc = q, !.step = 1]
  <2>1. run' = [run EXCEPT ![w] = x]
    BY <1>1, <1>3 DEF RunType
  <2>2. /\ x \in RunType /\ x.pc = q /\ x.exec = run[w].exec /\ x.seen = run[w].seen
        /\ x.fence = run[w].fence /\ x.step = 1
    BY <1>1, <1>2 DEF RunType, TailPcs
  <2> HIDE DEF x
  <2>3. GoesOn(w, x)
    BY <1>3, <2>2 DEF GoesOn, Plainly
  <2> QED
    BY <2>1, <2>3 DEF Acted, RunStep
<1> USE DEF Plainly, Pcs, TailPcs, At
<1>4. CASE ContinueExecution(w)
  BY <1>1, <1>3, <1>4, GotoGoes DEF ContinueExecution
<1>5. CASE FailExecution(w)
  BY <1>1, <1>3, <1>5, GotoGoes DEF FailExecution
<1> QED
  BY <1>4, <1>5

LEMMA ReceiveActs ==
  ASSUME TypeOK, NEW w \in Workers, NEW e \in Execs, Receive(w, e)
  PROVE  Acted(w)
<1> DEFINE x == [Idle EXCEPT !.pc = "fresh", !.exec = e, !.seen = approval[e]]
<1>1. run' = [run EXCEPT ![w] = x] /\ Receives(w, x)
  BY DEF Receive, Receives, At
<1> HIDE DEF x
<1> QED
  BY <1>1 DEF Acted, RunStep

LEMMA CrashActs ==
  ASSUME TypeOK, NEW a \in Actors, Crash(a)
  PROVE  Acted(a)
<1> DEFINE x == [run[a] EXCEPT !.pc = "done"]
<1>1. run[a] \in RunType /\ run \in [Actors -> RunType]
  BY DEF TypeOK
<1>2. CASE a \in Execs
  <2>1. run' = [run EXCEPT ![a] = x]
    BY <1>1, <1>2 DEF Crash, RunType
  <2>2. /\ x \in RunType /\ x.pc = "done" /\ x.exec = run[a].exec /\ x.seen = run[a].seen
        /\ x.fence = run[a].fence
    BY <1>1 DEF RunType, ExecPcs
  <2> HIDE DEF x
  <2>3. GoesOn(a, x)
    BY <1>2, <2>2 DEF GoesOn
  <2> QED
    BY <2>1, <2>3 DEF Acted, RunStep
<1>3. CASE a \in Workers
  <2>1. run' = [run EXCEPT ![a] = Idle]
    BY <1>3, WorkerFacts DEF Crash
  <2> QED
    BY <1>3, <2>1 DEF Acted, RunStep, Ends
<1> QED
  BY <1>2, <1>3 DEF Actors

LEMMA ExecMoves ==
  ASSUME TypeOK, NEW e \in Execs, RetryExecution(e) \/ ExecStep(e)
  PROVE  Acted(e)
BY ExecFacts, ExecActs, ReadActs, LinkActs, WriteJobActs, TailActs, SettleActs, PersistActs
   DEF ExecStep, TailStep

LEMMA WorkerMoves ==
  ASSUME TypeOK, NEW w \in Workers, HandlerStep(w) \/ \E e \in Execs : Receive(w, e)
  PROVE  Acted(w)
BY WorkerFacts, HandlerActs, ContinueActs, TailActs, SettleActs, PersistActs, ReceiveActs
   DEF HandlerStep, TailStep

(* The actions of the environment leave every actor alone.                 *)
LEMMA EnvironmentRests ==
  ASSUME NEW e \in Execs, Decide(e) \/ BuryEvent(e) \/ ExpireLease(e)
  PROVE  UNCHANGED run
BY DEF Decide, BuryEvent, ExpireLease

(* A step moves one actor at most, and only along RunStep.                 *)
LEMMA OneActs ==
  ASSUME TypeOK, [Next]_vars
  PROVE  UNCHANGED run \/ \E a \in Actors : Acted(a)
<1>1. CASE UNCHANGED vars
  BY <1>1 DEF vars
<1> QED
  BY <1>1, ExecMoves, WorkerMoves, CrashActs, EnvironmentRests DEF Next, Actors

(* The actor whose memory changes is the one that took the step.           *)
Own(a) ==
  \/ a \in Execs /\ (RetryExecution(a) \/ ExecStep(a))
  \/ a \in Workers /\ (HandlerStep(a) \/ \E e \in Execs : Receive(a, e))
  \/ Crash(a)

LEMMA Whose ==
  ASSUME TypeOK, [Next]_vars, NEW a \in Actors, run'[a] # run[a]
  PROVE  Own(a)
<1>1. ASSUME NEW b \in Actors, Acted(b) PROVE a = b
  BY <1>1 DEF Acted, TypeOK
<1>2. ~ UNCHANGED run
  OBVIOUS
<1>3. CASE \E e \in Execs : RetryExecution(e) \/ ExecStep(e)
  BY <1>1, <1>3, ExecMoves DEF Actors, Own
<1>4. CASE \E w \in Workers : HandlerStep(w) \/ \E e \in Execs : Receive(w, e)
  BY <1>1, <1>4, WorkerMoves DEF Actors, Own
<1>5. CASE \E b \in Actors : Crash(b)
  BY <1>1, <1>5, CrashActs DEF Own
<1> QED
  BY <1>2, <1>3, <1>4, <1>5, EnvironmentRests DEF Next, vars

LEMMA IdleTyped ==
  /\ Idle \in RunType
  /\ Idle.pc = "idle" /\ Idle.exec = NULL /\ Idle.seen = "none" /\ Idle.fence = 0
<1>1. 0 \in 0 .. Tail + 1 /\ 0 \in Nat
  BY BridgeAssumption
<1> QED
  BY <1>1 DEF Idle, RunType

LEMMA RunsTypedNext ==
  ASSUME TypeOK, [Next]_vars
  PROVE  RunsTyped'
<1>1. RunsTyped /\ Tail \in Nat /\ 1 \in 1 .. Tail
  BY TypeParts, BridgeAssumption
<1>2. CASE UNCHANGED run
  BY <1>1, <1>2 DEF RunsTyped
<1>3. ASSUME NEW a \in Actors, NEW x, run' = [run EXCEPT ![a] = x], RunStep(a, x) PROVE RunsTyped'
  <2> DEFINE old == run[a]
  <2>1. /\ old \in RunType
        /\ a \in Execs => old.exec = a /\ old.pc \notin HandlerPcs /\ a \notin Workers
        /\ a \in Workers => old.pc \notin ExecPcs /\ (old.pc # "idle" => old.exec # NULL) /\ a \notin Execs
        /\ old.pc \in {"start", "act", "settle"} => old.step \in 1 .. Tail
    BY <1>1, BridgeAssumption DEF RunsTyped
  <2> DEFINE Fine == /\ x \in RunType
                     /\ a \in Execs => x.exec = a /\ x.pc \notin HandlerPcs
                     /\ a \in Workers => x.pc \notin ExecPcs /\ (x.pc # "idle" => x.exec # NULL)
                     /\ x.pc \in {"start", "act", "settle"} => x.step \in 1 .. Tail
  <2>2. ASSUME GoesOn(a, x) PROVE Fine
    <3> HIDE DEF old
    <3>1. x \in RunType /\ x.exec = old.exec
      BY <2>2 DEF GoesOn, old
    <3>2. x.pc \in {"start", "act", "settle"} => x.step \in 1 .. Tail
      BY <1>1, <2>1, <2>2 DEF GoesOn, Plainly, old
    <3>3. a \in Execs => x.pc \notin HandlerPcs
      BY <2>1, <2>2 DEF GoesOn, Plainly, HandlerPcs, old
    <3>4. a \in Workers => x.pc \notin ExecPcs /\ old.pc # "idle"
      BY <2>1, <2>2 DEF GoesOn, Plainly, ExecPcs, old
    <3> QED
      BY <2>1, <3>1, <3>2, <3>3, <3>4
  <2>3. ASSUME Ends(a, x) PROVE Fine
    BY <2>1, <2>3, IdleTyped DEF Ends, ExecPcs
  <2>4. ASSUME Reads(a, x) PROVE Fine
    <3>1. approval[a] \in {"none", "open"} \cup Decided
      BY <2>4 DEF Reads, TypeOK
    <3>2. x = [old EXCEPT !.pc = "link", !.seen = approval[a]]
      BY <2>4 DEF Reads
    <3> HIDE DEF old
    <3>3. x \in RunType /\ x.pc = "link" /\ x.exec = old.exec
      BY <2>1, <3>1, <3>2 DEF RunType, ExecPcs
    <3> QED
      BY <2>1, <2>4, <3>3 DEF Reads, HandlerPcs
  <2>5. ASSUME Receives(a, x) PROVE Fine
    <3>1. PICK e \in Execs : x = [Idle EXCEPT !.pc = "fresh", !.exec = e, !.seen = approval[e]]
      BY <2>5 DEF Receives
    <3>2. approval[e] \in {"none", "open"} \cup Decided /\ e # NULL
      BY BridgeAssumption DEF TypeOK
    <3>3. x \in RunType /\ x.pc = "fresh" /\ x.exec = e
      BY <3>1, <3>2, IdleTyped DEF RunType, HandlerPcs
    <3> QED
      BY <2>1, <2>5, <3>2, <3>3 DEF Receives, ExecPcs
  <2>6. ASSUME Claims(a, x) PROVE Fine
    <3>1. a \in Workers /\ old.exec \in Execs
      BY <2>6, WorkerFacts DEF Claims
    <3>2. bridge[old.exec].fence + 1 \in Nat
      BY <3>1 DEF TypeOK, BridgeType
    <3>3. x = [old EXCEPT !.pc = "check", !.fence = bridge[old.exec].fence + 1] /\ old.pc # "idle"
      BY <2>6 DEF Claims
    <3> HIDE DEF old
    <3>4. x \in RunType /\ x.pc = "check" /\ x.exec = old.exec
      BY <2>1, <3>2, <3>3 DEF RunType, HandlerPcs
    <3> QED
      BY <2>1, <3>1, <3>3, <3>4 DEF ExecPcs
  <2>7. Fine
    BY <1>3, <2>2, <2>3, <2>4, <2>5, <2>6 DEF RunStep
  <2>8. run \in [Actors -> RunType] /\ run' \in [Actors -> RunType]
    BY <1>1, <1>3, <2>7 DEF RunsTyped
  <2>9. \A b \in Actors : run'[b] = IF b = a THEN x ELSE run[b]
    BY <1>3, <2>8
  <2> HIDE DEF old
  <2> QED
    BY <1>1, <2>7, <2>8, <2>9 DEF RunsTyped, Actors
<1> QED
  BY <1>2, <1>3, OneActs DEF Acted

-----------------------------------------------------------------------------
(* What a step does to the bridge row of e, and who wrote it.              *)
Inserted(e) ==
  /\ run[e].pc = "insert" /\ run'[e].pc = "create"
  /\ \A f \in Execs : ~ Active(f)
  /\ bridge' = [bridge EXCEPT ![e].status = "creating"]
Linked(e) ==
  /\ run[e].pc = "link" /\ run'[e].pc = "job"
  /\ bridge' = [bridge EXCEPT ![e].status = LinkedStatus(run[e].seen), ![e].linked = TRUE]
MarkedFailed(e) ==
  /\ run[e].pc = "abandon" /\ bridge[e].lease = "none"
  /\ bridge' = [bridge EXCEPT ![e].status = "failed"]
Taken(e) ==
  /\ Claimable(bridge[e]) \/ Expired(bridge[e])
  /\ bridge' = [bridge EXCEPT ![e] = Leased(@)]
Buried(e) ==
  /\ Expired(bridge[e])
  /\ bridge' = [bridge EXCEPT ![e].status = "dead_letter", ![e].lease = "none"]
Resumed(e) ==
  /\ \E w \in Workers : run[w].pc = "mark" /\ run[w].exec = e /\ HoldsBridge(w)
  /\ bridge' = [bridge EXCEPT ![e].status = "resumed", ![e].lease = "none"]
LeaseLapsed(e) ==
  /\ bridge[e].lease = "live"
  /\ bridge' = [bridge EXCEPT ![e].lease = "expired"]
Written(e) ==
  \/ Inserted(e) \/ Linked(e) \/ MarkedFailed(e) \/ Taken(e) \/ Buried(e) \/ Resumed(e) \/ LeaseLapsed(e)

LEMMA BridgeSteps ==
  ASSUME TypeOK, [Next]_vars
  PROVE  UNCHANGED bridge \/ \E e \in Execs : Written(e)
<1>1. ASSUME NEW e \in Execs, RetryExecution(e) \/ ExecStep(e) PROVE UNCHANGED bridge \/ Written(e)
  <2>1. CASE InsertBridge(e)
    <3>1. Goto(e, "create") => run'[e].pc = "create"
      BY ExecFacts DEF Goto, TypeOK, RunType
    <3> QED
      BY <2>1, <3>1 DEF InsertBridge, Conflicting, At, Written, Inserted
  <2>2. CASE LinkBridge(e)
    <3>1. Goto(e, "job") => run'[e].pc = "job"
      BY ExecFacts DEF Goto, TypeOK, RunType
    <3> QED
      BY <2>2, <3>1 DEF LinkBridge, At, Written, Linked
  <2>3. CASE MarkBridgeFailed(e)
    BY <2>3 DEF MarkBridgeFailed, At, Written, MarkedFailed
  <2>4. CASE ~ (InsertBridge(e) \/ LinkBridge(e) \/ MarkBridgeFailed(e))
    BY <1>1, <2>4 DEF ExecStep, TailStep, RetryExecution, RecordExecution, LookupBridge, CreateApproval,
       ReadApproval, WriteJob, StartAction, RunAction, SettleAction, SkipRest, PersistExecution
  <2> QED
    BY <2>1, <2>2, <2>3, <2>4
<1>2. ASSUME NEW w \in Workers, HandlerStep(w) \/ \E e \in Execs : Receive(w, e)
      PROVE  UNCHANGED bridge \/ \E e \in Execs : Written(e)
  <2> DEFINE e == run[w].exec
  <2>1. run[w].pc # "idle" => e \in Execs
    BY WorkerFacts
  <2>2. CASE ClaimFresh(w)
    BY <2>1, <2>2 DEF ClaimFresh, At, Claimed, Written, Taken
  <2>3. CASE BuryPoison(w)
    BY <2>1, <2>3 DEF BuryPoison, At, Written, Buried
  <2>4. CASE ReclaimExpired(w)
    BY <2>1, <2>4 DEF ReclaimExpired, At, Claimed, Written, Taken
  <2>5. CASE MarkBridgeResumed(w)
    BY <2>1, <2>5 DEF MarkBridgeResumed, At, Written, Resumed
  <2>6. CASE ~ (ClaimFresh(w) \/ BuryPoison(w) \/ ReclaimExpired(w) \/ MarkBridgeResumed(w))
    BY <1>2, <2>6 DEF HandlerStep, TailStep, Receive, Classify, CheckRule, ContinueExecution, FailExecution,
       StartAction, RunAction, SettleAction, SkipRest, PersistExecution
  <2> QED
    BY <2>2, <2>3, <2>4, <2>5, <2>6
<1>3. ASSUME NEW e \in Execs, Decide(e) \/ BuryEvent(e) \/ ExpireLease(e) PROVE UNCHANGED bridge \/ Written(e)
  BY <1>3 DEF Decide, BuryEvent, ExpireLease, Written, LeaseLapsed
<1>4. ASSUME NEW a \in Actors, Crash(a) PROVE UNCHANGED bridge
  BY <1>4 DEF Crash
<1>5. CASE UNCHANGED vars
  BY <1>5 DEF vars
<1> QED
  BY <1>1, <1>2, <1>3, <1>4, <1>5 DEF Next

(* What a step does to the approval of e and to its completion event.      *)
Created(e) ==
  /\ run[e].pc = "create" /\ run'[e].pc = "read"
  /\ \/ /\ approval' = [approval EXCEPT ![e] = "open"]
        /\ UNCHANGED event
     \/ /\ approval' = [approval EXCEPT ![e] = "approved"]
        /\ event' = [event EXCEPT ![e].state = "queued"]
VerdictGiven(e) ==
  /\ approval[e] = "open" /\ UNCHANGED bridge
  /\ \E verdict \in Decided : approval' = [approval EXCEPT ![e] = verdict]
  /\ event' = [event EXCEPT ![e].state = "queued", ![e].early = ~ bridge[e].linked]
Delivered(e) ==
  /\ event[e].state \in {"queued", "taken"} /\ event[e].tries < MaxTries
  /\ \E w \in Workers :
       event' = [event EXCEPT ![e].state = "taken", ![e].owner = w, ![e].tries = @ + 1]
(* The reply "done" is given at three places.                              *)
DoneBy(e) ==
  \/ Buried(e)
  \/ ~ Busy(bridge[e]) /\ UNCHANGED bridge
  \/ \E w \in Workers : run[w].pc = "mark" /\ run[w].exec = e
Answered(e) ==
  /\ event[e].state \in {"queued", "taken"}
  /\ \E state \in {"queued", "done", "dead"} :
       /\ event' = [event EXCEPT ![e].state = state, ![e].owner = NULL]
       /\ state = "done" => DoneBy(e)
Enqueued(e) ==
  \/ Created(e)
  \/ VerdictGiven(e)
  \/ UNCHANGED approval /\ (Delivered(e) \/ Answered(e))

LEMMA ReplyAnswers ==
  ASSUME NEW w \in Workers, NEW state \in {"queued", "done"}, Reply(w, state),
         state = "done" => DoneBy(run[w].exec)
  PROVE  UNCHANGED event \/ Answered(run[w].exec)
BY DEF Reply, Answered

LEMMA EventSteps ==
  ASSUME TypeOK, [Next]_vars
  PROVE  UNCHANGED <<approval, event>> \/ \E e \in Execs : Enqueued(e)
<1>1. ASSUME NEW e \in Execs, RetryExecution(e) \/ ExecStep(e)
      PROVE  UNCHANGED <<approval, event>> \/ Enqueued(e)
  <2>1. CASE CreateApproval(e)
    <3>1. Goto(e, "read") => run'[e].pc = "read"
      BY ExecFacts DEF Goto, TypeOK, RunType
    <3> QED
      BY <2>1, <3>1 DEF CreateApproval, At, Enqueued, Created
  <2>2. CASE ~ CreateApproval(e)
    BY <1>1, <2>2 DEF ExecStep, TailStep, RetryExecution, RecordExecution, LookupBridge, InsertBridge,
       ReadApproval, LinkBridge, WriteJob, MarkBridgeFailed, StartAction, RunAction, SettleAction,
       SkipRest, PersistExecution
  <2> QED
    BY <2>1, <2>2
<1>2. ASSUME NEW w \in Workers, HandlerStep(w) PROVE UNCHANGED <<approval, event>> \/ \E e \in Execs : Enqueued(e)
  <2> DEFINE e == run[w].exec
  <2>1. UNCHANGED approval
    BY <1>2 DEF HandlerStep, TailStep, ClaimFresh, BuryPoison, ReclaimExpired, Classify, CheckRule,
       ContinueExecution, FailExecution, MarkBridgeResumed,
       StartAction, RunAction, SettleAction, SkipRest, PersistExecution
  <2>2. run[w].pc # "idle" => e \in Execs
    BY WorkerFacts
  <2>3. ASSUME run[w].pc # "idle", UNCHANGED event \/ Answered(e)
        PROVE  UNCHANGED <<approval, event>> \/ \E f \in Execs : Enqueued(f)
    BY <2>1, <2>2, <2>3 DEF Enqueued
  <2>4. Thrown(w) => UNCHANGED event \/ Answered(e)
    BY ReplyAnswers DEF Thrown
  <2>5. Consumed(w) /\ DoneBy(e) => UNCHANGED event \/ Answered(e)
    BY ReplyAnswers DEF Consumed
  <2>6. CASE ClaimFresh(w)
    BY <2>3, <2>4, <2>6 DEF ClaimFresh, At, Claimed
  <2>7. CASE BuryPoison(w)
    BY <2>3, <2>4, <2>5, <2>7 DEF BuryPoison, At, DoneBy, Buried
  <2>8. CASE ReclaimExpired(w)
    BY <2>3, <2>4, <2>8 DEF ReclaimExpired, At, Claimed
  <2>9. CASE Classify(w)
    BY <2>3, <2>4, <2>5, <2>9 DEF Classify, At, DoneBy
  <2>10. CASE CheckRule(w)
    BY <2>3, <2>4, <2>10 DEF CheckRule, At
  <2>11. CASE MarkBridgeResumed(w)
    BY <2>3, <2>4, <2>5, <2>11 DEF MarkBridgeResumed, At, DoneBy
  <2>12. CASE ContinueExecution(w) \/ FailExecution(w) \/ TailStep(w)
    BY <2>1, <2>12 DEF TailStep, ContinueExecution, FailExecution, StartAction, RunAction, SettleAction,
       SkipRest, PersistExecution
  <2> QED
    BY <1>2, <2>6, <2>7, <2>8, <2>9, <2>10, <2>11, <2>12 DEF HandlerStep
<1>3. ASSUME NEW w \in Workers, NEW e \in Execs, Receive(w, e) PROVE Enqueued(e)
  BY <1>3 DEF Receive, Enqueued, Delivered
<1>4. ASSUME NEW e \in Execs, Decide(e) \/ BuryEvent(e) \/ ExpireLease(e)
      PROVE  UNCHANGED <<approval, event>> \/ Enqueued(e)
  BY <1>4 DEF Decide, BuryEvent, ExpireLease, Enqueued, VerdictGiven, Answered
<1>5. ASSUME NEW a \in Actors, Crash(a) PROVE UNCHANGED <<approval, event>>
  BY <1>5 DEF Crash
<1>6. CASE UNCHANGED vars
  BY <1>6 DEF vars
<1> QED
  BY <1>1, <1>2, <1>3, <1>4, <1>5, <1>6 DEF Next

-----------------------------------------------------------------------------
(* Where an execution stands, and what its approval, its bridge and its    *)
(* completion event may be by then.                                        *)
Early == {"idle", "record", "lookup", "insert"}
StagedAt(pc, b, verdict, state) ==
  /\ pc \in Early => b.status = "absent" /\ verdict = "none" /\ state = "none"
  /\ pc = "create" => verdict = "none"
  /\ pc \in {"create", "read", "link"} => b.status = "creating" /\ ~ b.linked
  /\ b.status = "absent" => ~ b.linked /\ verdict = "none"
  /\ ~ b.linked =>
       /\ b.status \in {"absent", "creating", "failed"}
       /\ b.lease = "none" /\ b.attempts = 0 /\ b.fence = 0
  /\ state # "none" => verdict \in Decided
Staged == \A e \in Execs : StagedAt(run[e].pc, bridge[e], approval[e], event[e].state)

LEMMA BridgesTypedNext ==
  ASSUME TypeOK, Staged, [Next]_vars
  PROVE  BridgesTyped'
<1>1. BridgesTyped
  BY TypeParts
<1>2. CASE UNCHANGED bridge
  BY <1>1, <1>2 DEF BridgesTyped
<1>3. ASSUME NEW e \in Execs, NEW b \in BridgeType, bridge' = [bridge EXCEPT ![e] = b],
             b.status = "in_progress" <=> b.lease # "none"
      PROVE  BridgesTyped'
  BY <1>1, <1>3 DEF BridgesTyped
<1>4. ASSUME NEW e \in Execs, Written(e) PROVE BridgesTyped'
  <2> DEFINE b == bridge[e]
  <2>1. b \in BridgeType /\ (b.status = "in_progress" <=> b.lease # "none") /\ bridge \in [Execs -> BridgeType]
    BY <1>1 DEF BridgesTyped
  <2>2. b.fence + 1 \in Nat /\ b.attempts + 1 \in Nat
    BY <2>1 DEF BridgeType
  <2>3. CASE Inserted(e)
    <3> DEFINE c == [b EXCEPT !.status = "creating"]
    <3>1. b.lease = "none"
      BY <2>3 DEF Inserted, Staged, StagedAt, Early
    <3>2. bridge' = [bridge EXCEPT ![e] = c]
      BY <2>1, <2>3 DEF Inserted, BridgeType
    <3>3. c \in BridgeType /\ c.status = "creating" /\ c.lease = "none"
      BY <2>1, <3>1 DEF BridgeType
    <3> HIDE DEF c
    <3> QED
      BY <1>3, <3>2, <3>3
  <2>4. CASE Linked(e)
    <3> DEFINE c == [b EXCEPT !.status = LinkedStatus(run[e].seen), !.linked = TRUE]
    <3>1. b.lease = "none" /\ bridge' = [bridge EXCEPT ![e] = c]
      BY <2>1, <2>4 DEF Linked, Staged, StagedAt, BridgeType
    <3>2. c \in BridgeType /\ c.status # "in_progress" /\ c.lease = "none"
      BY <2>1, <3>1 DEF BridgeType, LinkedStatus, Terminal
    <3> HIDE DEF c
    <3> QED
      BY <1>3, <3>1, <3>2
  <2>5. CASE MarkedFailed(e)
    <3> DEFINE c == [b EXCEPT !.status = "failed"]
    <3>1. b.lease = "none" /\ bridge' = [bridge EXCEPT ![e] = c]
      BY <2>1, <2>5 DEF MarkedFailed, BridgeType
    <3>2. c \in BridgeType /\ c.status # "in_progress" /\ c.lease = "none"
      BY <2>1, <3>1 DEF BridgeType, Terminal
    <3> HIDE DEF c
    <3> QED
      BY <1>3, <3>1, <3>2
  <2>6. CASE Taken(e)
    <3> DEFINE c == Leased(b)
    <3>1. bridge' = [bridge EXCEPT ![e] = c]
      BY <2>6 DEF Taken
    <3>2. c \in BridgeType /\ c.status = "in_progress" /\ c.lease = "live"
      BY <2>1, <2>2 DEF BridgeType, Leased
    <3> HIDE DEF c
    <3> QED
      BY <1>3, <3>1, <3>2
  <2>7. CASE Buried(e)
    <3> DEFINE c == [b EXCEPT !.status = "dead_letter", !.lease = "none"]
    <3>1. bridge' = [bridge EXCEPT ![e] = c]
      BY <2>1, <2>7 DEF Buried, BridgeType
    <3>2. c \in BridgeType /\ c.status # "in_progress" /\ c.lease = "none"
      BY <2>1 DEF BridgeType, Terminal
    <3> HIDE DEF c
    <3> QED
      BY <1>3, <3>1, <3>2
  <2>8. CASE Resumed(e)
    <3> DEFINE c == [b EXCEPT !.status = "resumed", !.lease = "none"]
    <3>1. bridge' = [bridge EXCEPT ![e] = c]
      BY <2>1, <2>8 DEF Resumed, BridgeType
    <3>2. c \in BridgeType /\ c.status # "in_progress" /\ c.lease = "none"
      BY <2>1 DEF BridgeType, Terminal
    <3> HIDE DEF c
    <3> QED
      BY <1>3, <3>1, <3>2
  <2>9. CASE LeaseLapsed(e)
    <3> DEFINE c == [b EXCEPT !.lease = "expired"]
    <3>1. bridge' = [bridge EXCEPT ![e] = c] /\ b.status = "in_progress"
      BY <2>1, <2>9 DEF LeaseLapsed, BridgeType
    <3>2. c \in BridgeType /\ c.status = "in_progress" /\ c.lease # "none"
      BY <2>1, <3>1 DEF BridgeType
    <3> HIDE DEF c
    <3> QED
      BY <1>3, <3>1, <3>2
  <2> QED
    BY <1>4, <2>3, <2>4, <2>5, <2>6, <2>7, <2>8, <2>9 DEF Written
<1> QED
  BY <1>2, <1>4, BridgeSteps

LEMMA EventsTypedNext ==
  ASSUME TypeOK, [Next]_vars
  PROVE  EventsTyped' /\ approval' \in [Execs -> {"none", "open"} \cup Decided]
<1> DEFINE AllStates == {"none", "open"} \cup Decided
<1>1. event \in [Execs -> EventType] /\ approval \in [Execs -> AllStates]
  BY DEF TypeOK
<1>2. CASE UNCHANGED <<approval, event>>
  BY <1>1, <1>2 DEF EventsTyped
<1>3. ASSUME NEW e \in Execs, Enqueued(e) PROVE EventsTyped' /\ approval' \in [Execs -> AllStates]
  <2>1. event[e] \in EventType
    BY <1>1
  <2>2. CASE Created(e)
    BY <1>1, <2>1, <2>2 DEF Created, EventsTyped, EventType, Decided
  <2>3. CASE VerdictGiven(e)
    <3> DEFINE late == bridge[e].linked
    <3>1. late \in BOOLEAN /\ (~ late) \in BOOLEAN
      BY DEF TypeOK, BridgeType
    <3>2. event' = [event EXCEPT ![e].state = "queued", ![e].early = ~ late]
      BY <2>3 DEF VerdictGiven
    <3> HIDE DEF late
    <3>3. EventsTyped'
      BY <1>1, <2>1, <3>1, <3>2 DEF EventsTyped, EventType
    <3> QED
      BY <1>1, <2>3, <3>3 DEF VerdictGiven
  <2>4. CASE Delivered(e) /\ UNCHANGED approval
    <3>1. event[e].tries + 1 \in 0 .. MaxTries
      BY <2>1, <2>4, BridgeAssumption DEF Delivered, EventType
    <3>2. PICK w \in Workers : event' = [event EXCEPT ![e].state = "taken", ![e].owner = w, ![e].tries = @ + 1]
      BY <2>4 DEF Delivered
    <3> QED
      BY <1>1, <2>1, <2>4, <3>1, <3>2 DEF EventsTyped, EventType
  <2>5. CASE Answered(e) /\ UNCHANGED approval
    <3>1. PICK state \in {"queued", "done", "dead"} : event' = [event EXCEPT ![e].state = state, ![e].owner = NULL]
      BY <2>5 DEF Answered
    <3> QED
      BY <1>1, <2>1, <2>5, <3>1 DEF EventsTyped, EventType
  <2> QED
    BY <1>3, <2>2, <2>3, <2>4, <2>5 DEF Enqueued
<1> QED
  BY <1>2, <1>3, EventSteps

(* The actor's exec is an execution, once it has a place.                  *)
LEMMA ActorFacts ==
  ASSUME TypeOK, NEW a \in Actors, run[a].pc # "idle"
  PROVE  run[a].exec \in Execs
BY ExecFacts, WorkerFacts DEF Actors

-----------------------------------------------------------------------------
(* What a step does to the job rows, the effects and the history.          *)
JobsKept == \A e \in Execs, i \in Steps : jobs[e][i] # "absent" => jobs'[e][i] # "absent"

LEMMA JobPut ==
  ASSUME TypeOK, NEW e \in Execs, NEW i \in Steps, NEW status \in JobStatus, status # "absent",
         jobs' = [jobs EXCEPT ![e][i] = status]
  PROVE  JobsTyped' /\ JobsKept
BY DEF TypeOK, JobsTyped, JobsKept

LEMMA JobsSkipped ==
  ASSUME TypeOK, NEW e \in Execs, NEW skipped,
         jobs' = [jobs EXCEPT ![e] = [j \in Steps |-> IF j \in skipped THEN "skipped" ELSE @[j]]]
  PROVE  JobsTyped' /\ JobsKept
BY DEF TypeOK, JobsTyped, JobsKept, JobStatus

LEMMA TailJobs ==
  ASSUME TypeOK, NEW a \in Actors, TailStep(a)
  PROVE  JobsTyped' /\ JobsKept
<1> DEFINE e == run[a].exec
           i == run[a].step
<1>1. UNCHANGED jobs => JobsTyped' /\ JobsKept
  BY DEF TypeOK, JobsTyped, JobsKept
<1>2. run[a].pc # "idle" => e \in Execs
  BY ActorFacts
<1>3. run[a].pc \in {"start", "settle"} => i \in Steps
  BY BridgeAssumption DEF TypeOK, Steps
<1>4. CASE StartAction(a)
  BY <1>1, <1>2, <1>3, <1>4, JobPut DEF StartAction, At, JobStatus
<1>5. CASE SettleAction(a)
  BY <1>1, <1>2, <1>3, <1>5, JobPut DEF SettleAction, At, JobStatus
<1>6. CASE SkipRest(a)
  <2> DEFINE skipped == {j \in i .. Tail : \A k \in i .. j : jobs[e][k] = "absent"}
  <2>1. \/ jobs' = [jobs EXCEPT ![e] = [j \in Steps |-> IF j \in skipped THEN "skipped" ELSE @[j]]]
        \/ UNCHANGED jobs
    BY <1>6 DEF SkipRest
  <2>2. e \in Execs
    BY <1>2, <1>6 DEF SkipRest, At
  <2> HIDE DEF skipped, e
  <2> QED
    BY <1>1, <2>1, <2>2, JobsSkipped
<1>7. CASE RunAction(a) \/ PersistExecution(a)
  BY <1>1, <1>7 DEF RunAction, PersistExecution
<1> QED
  BY <1>4, <1>5, <1>6, <1>7 DEF TailStep

LEMMA SettledStepJobs ==
  ASSUME TypeOK, NEW e \in Execs, NEW status \in {"resolved", "failed"}, jobs' = SettledStep(e, status)
  PROVE  JobsTyped' /\ JobsKept
<1>1. 0 \in Steps /\ status \in JobStatus /\ status # "absent"
  BY BridgeAssumption DEF Steps, JobStatus
<1>2. UNCHANGED jobs => JobsTyped' /\ JobsKept
  BY DEF TypeOK, JobsTyped, JobsKept
<1> QED
  BY <1>1, <1>2, JobPut DEF SettledStep

LEMMA JobSteps ==
  ASSUME TypeOK, [Next]_vars
  PROVE  JobsTyped' /\ JobsKept
<1>1. UNCHANGED jobs => JobsTyped' /\ JobsKept
  BY DEF TypeOK, JobsTyped, JobsKept
<1>2. ASSUME NEW e \in Execs, RetryExecution(e) \/ ExecStep(e) PROVE JobsTyped' /\ JobsKept
  <2>1. CASE WriteJob(e)
    <3>1. JobFor(run[e].seen) \in JobStatus \ {"absent"} /\ 0 \in Steps
      BY BridgeAssumption DEF JobFor, JobStatus, Steps
    <3> QED
      BY <1>1, <2>1, <3>1, JobPut DEF WriteJob
  <2>2. CASE TailStep(e)
    BY <2>2, TailJobs DEF Actors
  <2>3. CASE ~ (WriteJob(e) \/ TailStep(e))
    BY <1>1, <1>2, <2>3 DEF ExecStep, RetryExecution, RecordExecution, LookupBridge, InsertBridge,
       CreateApproval, ReadApproval, LinkBridge, MarkBridgeFailed
  <2> QED
    BY <2>1, <2>2, <2>3
<1>3. ASSUME NEW w \in Workers, HandlerStep(w) PROVE JobsTyped' /\ JobsKept
  <2>1. run[w].pc # "idle" => run[w].exec \in Execs
    BY WorkerFacts
  <2>2. CASE ContinueExecution(w)
    BY <1>1, <2>1, <2>2, SettledStepJobs DEF ContinueExecution, At
  <2>3. CASE FailExecution(w)
    BY <1>1, <2>1, <2>3, SettledStepJobs DEF FailExecution, At
  <2>4. CASE TailStep(w)
    BY <2>4, TailJobs DEF Actors
  <2>5. CASE ClaimFresh(w) \/ BuryPoison(w) \/ ReclaimExpired(w) \/ Classify(w) \/ CheckRule(w) \/ MarkBridgeResumed(w)
    BY <1>1, <2>5 DEF ClaimFresh, BuryPoison, ReclaimExpired, Classify, CheckRule, MarkBridgeResumed
  <2> QED
    BY <1>3, <2>2, <2>3, <2>4, <2>5 DEF HandlerStep
<1>4. ASSUME NEW e \in Execs,
             Decide(e) \/ BuryEvent(e) \/ ExpireLease(e) \/ (\E w \in Workers : Receive(w, e))
      PROVE  UNCHANGED jobs
  BY <1>4 DEF Decide, BuryEvent, ExpireLease, Receive
<1>5. ASSUME NEW a \in Actors, Crash(a) PROVE UNCHANGED jobs
  BY <1>5 DEF Crash
<1>6. CASE UNCHANGED vars
  BY <1>1, <1>6 DEF vars
<1> QED
  BY <1>1, <1>2, <1>3, <1>4, <1>5, <1>6 DEF Next

(* Only RunAction has an effect, and only the final UPDATE is remembered.  *)
LEMMA RunsSteps ==
  ASSUME [Next]_vars
  PROVE  UNCHANGED runs \/ \E a \in Actors : RunAction(a)
<1>1. ASSUME NEW a \in Actors, TailStep(a) PROVE UNCHANGED runs \/ RunAction(a)
  BY <1>1 DEF TailStep, StartAction, SettleAction, SkipRest, PersistExecution
<1>2. ASSUME NEW e \in Execs, RetryExecution(e) \/ ExecStep(e) PROVE UNCHANGED runs \/ RunAction(e)
  BY <1>1, <1>2 DEF Actors, ExecStep, RetryExecution, RecordExecution, LookupBridge, InsertBridge,
     CreateApproval, ReadApproval, LinkBridge, WriteJob, MarkBridgeFailed
<1>3. ASSUME NEW w \in Workers, HandlerStep(w) PROVE UNCHANGED runs \/ RunAction(w)
  BY <1>1, <1>3 DEF Actors, HandlerStep, ClaimFresh, BuryPoison, ReclaimExpired, Classify, CheckRule,
     ContinueExecution, FailExecution, MarkBridgeResumed
<1>4. ASSUME NEW e \in Execs,
             Decide(e) \/ BuryEvent(e) \/ ExpireLease(e) \/ (\E w \in Workers : Receive(w, e))
      PROVE  UNCHANGED runs
  BY <1>4 DEF Decide, BuryEvent, ExpireLease, Receive
<1>5. ASSUME NEW a \in Actors, Crash(a) PROVE UNCHANGED runs
  BY <1>5 DEF Crash
<1>6. CASE UNCHANGED vars
  BY <1>6 DEF vars
<1> QED
  BY <1>2, <1>3, <1>4, <1>5, <1>6 DEF Next, Actors

LEMMA ExecRowSteps ==
  ASSUME [Next]_vars
  PROVE  \/ UNCHANGED <<exec, carried>>
         \/ \E e \in Execs : exec' = [exec EXCEPT ![e] = "running"] /\ UNCHANGED carried
         \/ \E a \in Actors : PersistExecution(a)
<1>1. ASSUME NEW a \in Actors, TailStep(a) PROVE UNCHANGED <<exec, carried>> \/ PersistExecution(a)
  BY <1>1 DEF TailStep, StartAction, SettleAction, SkipRest, RunAction
<1>2. ASSUME NEW e \in Execs, RetryExecution(e) \/ ExecStep(e)
      PROVE  \/ UNCHANGED <<exec, carried>>
             \/ PersistExecution(e)
             \/ exec' = [exec EXCEPT ![e] = "running"] /\ UNCHANGED carried
  <2>1. CASE RecordExecution(e)
    BY <2>1 DEF RecordExecution
  <2>2. CASE ~ RecordExecution(e)
    BY <1>1, <1>2, <2>2 DEF Actors, ExecStep, RetryExecution, LookupBridge, InsertBridge,
       CreateApproval, ReadApproval, LinkBridge, WriteJob, MarkBridgeFailed
  <2> QED
    BY <2>1, <2>2
<1>3. ASSUME NEW w \in Workers, HandlerStep(w) PROVE UNCHANGED <<exec, carried>> \/ PersistExecution(w)
  BY <1>1, <1>3 DEF Actors, HandlerStep, ClaimFresh, BuryPoison, ReclaimExpired, Classify, CheckRule,
     ContinueExecution, FailExecution, MarkBridgeResumed
<1>4. ASSUME NEW e \in Execs,
             Decide(e) \/ BuryEvent(e) \/ ExpireLease(e) \/ (\E w \in Workers : Receive(w, e))
      PROVE  UNCHANGED <<exec, carried>>
  BY <1>4 DEF Decide, BuryEvent, ExpireLease, Receive
<1>5. ASSUME NEW a \in Actors, Crash(a) PROVE UNCHANGED <<exec, carried>>
  BY <1>5 DEF Crash
<1>6. CASE UNCHANGED vars
  BY <1>6 DEF vars
<1> QED
  BY <1>2, <1>3, <1>4, <1>5, <1>6 DEF Next, Actors

LEMMA FaultSteps ==
  ASSUME [Next]_vars
  PROVE  Fault \/ NoFault
<1>1. ASSUME NEW a \in Actors, TailStep(a) PROVE Fault \/ NoFault
  BY <1>1 DEF TailStep, StartAction, SettleAction, SkipRest, RunAction, PersistExecution
<1>2. ASSUME NEW e \in Execs, RetryExecution(e) \/ ExecStep(e) PROVE Fault \/ NoFault
  BY <1>1, <1>2 DEF Actors, ExecStep, RetryExecution, RecordExecution, LookupBridge, InsertBridge,
     CreateApproval, ReadApproval, LinkBridge, WriteJob, MarkBridgeFailed
<1>3. ASSUME NEW w \in Workers, HandlerStep(w) PROVE Fault \/ NoFault
  BY <1>1, <1>3 DEF Actors, HandlerStep, ClaimFresh, BuryPoison, ReclaimExpired, Classify, CheckRule,
     ContinueExecution, FailExecution, MarkBridgeResumed
<1>4. ASSUME NEW e \in Execs,
             Decide(e) \/ BuryEvent(e) \/ ExpireLease(e) \/ (\E w \in Workers : Receive(w, e))
      PROVE  NoFault
  BY <1>4 DEF Decide, BuryEvent, ExpireLease, Receive
<1>5. ASSUME NEW a \in Actors, Crash(a) PROVE Fault
  BY <1>5 DEF Crash
<1>6. CASE UNCHANGED vars
  BY <1>6 DEF vars, NoFault
<1> QED
  BY <1>2, <1>3, <1>4, <1>5, <1>6 DEF Next

LEMMA RestTypedNext ==
  ASSUME TypeOK, [Next]_vars
  PROVE  RestTyped'
<1>1. RestTyped
  BY TypeParts
<1>2. faults' \in 0 .. MaxFaults
  BY <1>1, FaultSteps, BridgeAssumption DEF RestTyped, Fault, NoFault
<1>3. runs' \in [Execs -> [1 .. Tail -> Nat]]
  <2>1. ASSUME NEW a \in Actors, RunAction(a) PROVE runs' \in [Execs -> [1 .. Tail -> Nat]]
    <3> DEFINE e == run[a].exec
               i == run[a].step
    <3>1. e \in Execs /\ i \in 1 .. Tail
      BY <2>1, ActorFacts DEF RunAction, At, TypeOK
    <3>2. runs' = [runs EXCEPT ![e][i] = @ + 1]
      BY <2>1 DEF RunAction
    <3> HIDE DEF e, i
    <3>3. runs \in [Execs -> [1 .. Tail -> Nat]]
      BY <1>1 DEF RestTyped
    <3>4. runs[e][i] \in Nat
      BY <3>1, <3>3
    <3>5. runs[e][i] + 1 \in Nat
      BY <3>4
    <3> QED
      BY <3>1, <3>2, <3>3, <3>5
  <2> QED
    BY <1>1, <2>1, RunsSteps DEF RestTyped
<1>4. exec' \in [Execs -> {"absent", "running", "success", "failed"}] /\ carried' \subseteq Execs \X Nat
  <2>1. ASSUME NEW a \in Actors, PersistExecution(a)
        PROVE  /\ exec' \in [Execs -> {"absent", "running", "success", "failed"}]
               /\ carried' \subseteq Execs \X Nat
    <3>1. run[a].exec \in Execs /\ run[a] \in RunType
      BY <2>1, ActorFacts DEF PersistExecution, At, TypeOK
    <3> QED
      BY <1>1, <2>1, <3>1 DEF PersistExecution, RestTyped, RunType
  <2> QED
    BY <1>1, <2>1, ExecRowSteps DEF RestTyped
<1> QED
  BY <1>2, <1>3, <1>4, EventsTypedNext DEF RestTyped

LEMMA TypeOKNext ==
  ASSUME TypeOK, Staged, [Next]_vars
  PROVE  TypeOK'
BY RunsTypedNext, BridgesTypedNext, EventsTypedNext, JobSteps, RestTypedNext, TypePartsNext

(* Where the steps that are not GoesOn take an actor.                      *)
LEMMA Landings ==
  ASSUME TypeOK, NEW a \in Actors, NEW x
  PROVE  /\ Ends(a, x) => x.pc = "idle" /\ x.seen = "none" /\ a \in Workers
         /\ Reads(a, x) => /\ x.pc = "link" /\ x.exec = a /\ x.seen = approval[a] /\ x.fence = run[a].fence
                           /\ a \in Execs /\ run[a].pc = "read"
         /\ Receives(a, x) => /\ x.pc = "fresh" /\ x.exec \in Execs /\ x.seen = approval[x.exec]
                              /\ a \in Workers
         /\ Claims(a, x) => /\ x.pc = "check" /\ x.exec = run[a].exec /\ x.seen = run[a].seen
                            /\ x.exec \in Execs /\ x.fence = bridge[x.exec].fence + 1 /\ a \in Workers
<1>1. run[a] \in RunType
  BY DEF TypeOK
<1>2. Ends(a, x) => x.pc = "idle" /\ x.seen = "none" /\ a \in Workers
  BY IdleTyped DEF Ends
<1>3. ASSUME Reads(a, x)
      PROVE  /\ x.pc = "link" /\ x.exec = a /\ x.seen = approval[a] /\ x.fence = run[a].fence
             /\ a \in Execs /\ run[a].pc = "read"
  BY <1>1, <1>3, ExecFacts DEF Reads, RunType
<1>4. ASSUME Receives(a, x)
      PROVE  /\ x.pc = "fresh" /\ x.exec \in Execs /\ x.seen = approval[x.exec] /\ a \in Workers
  BY <1>4, IdleTyped DEF Receives, RunType
<1>5. ASSUME Claims(a, x)
      PROVE  /\ x.pc = "check" /\ x.exec = run[a].exec /\ x.seen = run[a].seen
             /\ x.exec \in Execs /\ x.fence = bridge[x.exec].fence + 1 /\ a \in Workers
  BY <1>1, <1>5, WorkerFacts DEF Claims, RunType
<1> QED
  BY <1>2, <1>3, <1>4, <1>5

(* The history only grows, and an actor comes to mark through it.          *)
LEMMA CarriedSteps ==
  ASSUME TypeOK, [Next]_vars
  PROVE  /\ carried \subseteq carried'
         /\ \A w \in Workers : run[w].pc # "mark" /\ run'[w].pc = "mark" =>
              <<run'[w].exec, run'[w].fence>> \in carried'
<1>1. carried \subseteq carried'
  BY ExecRowSteps DEF PersistExecution
<1>2. ASSUME NEW w \in Workers, run[w].pc # "mark", run'[w].pc = "mark"
      PROVE  <<run'[w].exec, run'[w].fence>> \in carried'
  <2>1. PICK x : run' = [run EXCEPT ![w] = x] /\ RunStep(w, x)
    <3>1. Own(w) /\ w \in Actors /\ w \notin Execs
      BY <1>2, Whose, WorkerFacts
    <3> QED
      BY <3>1, WorkerMoves, CrashActs DEF Own, Acted
  <2>2. run'[w] = x /\ w \in Actors /\ w \notin Execs /\ run[w] \in RunType
    BY <2>1, WorkerFacts DEF TypeOK
  <2>3. GoesOn(w, x)
    BY <1>2, <2>1, <2>2, Landings DEF RunStep
  <2>4. run[w].pc = "persist" /\ x.exec = run[w].exec /\ x.fence = run[w].fence
    BY <1>2, <2>2, <2>3 DEF GoesOn, Plainly
  <2>5. PersistExecution(w) \/ Crash(w)
    BY <1>2, <2>2, <2>4, Whose DEF Own, HandlerStep, TailStep, At, ClaimFresh, BuryPoison, ReclaimExpired,
       Classify, CheckRule, ContinueExecution, FailExecution, MarkBridgeResumed,
       StartAction, SettleAction, SkipRest, RunAction, Receive
  <2>6. ~ Crash(w)
    BY <1>2, <2>2 DEF Crash, Idle, TypeOK
  <2> QED
    BY <1>2, <2>2, <2>4, <2>5, <2>6 DEF PersistExecution
<1> QED
  BY <1>1, <1>2

-----------------------------------------------------------------------------
(* The same, seen from one actor, one bridge row and one completion event. *)
LEMMA ActorNext ==
  ASSUME TypeOK, [Next]_vars, NEW a \in Actors
  PROVE  run'[a] = run[a] \/ RunStep(a, run'[a])
<1>1. ASSUME NEW b \in Actors, Acted(b) PROVE run'[a] = run[a] \/ RunStep(a, run'[a])
  BY <1>1 DEF Acted, TypeOK
<1> QED
  BY <1>1, OneActs

LEMMA ExecNext ==
  ASSUME TypeOK, [Next]_vars, NEW e \in Execs
  PROVE  run'[e] = run[e] \/ GoesOn(e, run'[e]) \/ Reads(e, run'[e])
BY ActorNext, ExecFacts DEF RunStep, Ends, Receives, Claims

SameButStatus(b, c) == c.linked = b.linked /\ c.lease = b.lease /\ c.fence = b.fence /\ c.attempts = b.attempts
SameCounts(b, c) == c.linked = b.linked /\ c.fence = b.fence /\ c.attempts = b.attempts
RowMoved(e, b, c) ==
  \/ Inserted(e) /\ c.status = "creating" /\ SameButStatus(b, c)
  \/ /\ Linked(e) /\ c.status = LinkedStatus(run[e].seen) /\ c.linked
     /\ c.lease = b.lease /\ c.fence = b.fence /\ c.attempts = b.attempts
  \/ MarkedFailed(e) /\ c.status = "failed" /\ SameButStatus(b, c)
  \/ /\ Taken(e) /\ c.status = "in_progress" /\ c.linked = b.linked /\ c.lease = "live"
     /\ c.fence = b.fence + 1 /\ c.attempts = b.attempts + 1
  \/ Buried(e) /\ c.status = "dead_letter" /\ SameCounts(b, c)
  \/ Resumed(e) /\ c.status = "resumed" /\ SameCounts(b, c)
  \/ LeaseLapsed(e) /\ c.status = b.status /\ SameCounts(b, c)

LEMMA RowNext ==
  ASSUME TypeOK, [Next]_vars, NEW e \in Execs
  PROVE  bridge'[e] = bridge[e] \/ RowMoved(e, bridge[e], bridge'[e])
<1>1. bridge \in [Execs -> BridgeType] /\ bridge[e] \in BridgeType
  BY DEF TypeOK
<1>2. ASSUME NEW f \in Execs, Written(f), f # e PROVE bridge'[e] = bridge[e]
  BY <1>1, <1>2 DEF Written, Inserted, Linked, MarkedFailed, Taken, Buried, Resumed, LeaseLapsed
<1>3. ASSUME Written(e) PROVE RowMoved(e, bridge[e], bridge'[e])
  <2>1. CASE Inserted(e)
    BY <1>1, <2>1 DEF Inserted, RowMoved, SameButStatus, BridgeType
  <2>2. CASE Linked(e)
    BY <1>1, <2>2 DEF Linked, RowMoved, BridgeType
  <2>3. CASE MarkedFailed(e)
    BY <1>1, <2>3 DEF MarkedFailed, RowMoved, SameButStatus, BridgeType
  <2>4. CASE Taken(e)
    BY <1>1, <2>4 DEF Taken, Leased, RowMoved, BridgeType
  <2>5. CASE Buried(e)
    BY <1>1, <2>5 DEF Buried, RowMoved, SameCounts, BridgeType
  <2>6. CASE Resumed(e)
    BY <1>1, <2>6 DEF Resumed, RowMoved, SameCounts, BridgeType
  <2>7. CASE LeaseLapsed(e)
    BY <1>1, <2>7 DEF LeaseLapsed, RowMoved, SameCounts, BridgeType
  <2> QED
    BY <1>3, <2>1, <2>2, <2>3, <2>4, <2>5, <2>6, <2>7 DEF Written
<1> QED
  BY <1>2, <1>3, BridgeSteps

EventMoved(e, c, d) ==
  \/ approval'[e] = approval[e] /\ d = c
  \/ /\ run[e].pc = "create" /\ run'[e].pc = "read"
     /\ approval'[e] \in {"open", "approved"} /\ d.early = c.early
     /\ d.state = c.state \/ (d.state = "queued" /\ approval'[e] = "approved")
  \/ /\ approval[e] = "open" /\ approval'[e] \in Decided /\ UNCHANGED bridge
     /\ d.state = "queued" /\ d.early = ~ bridge[e].linked
  \/ /\ approval'[e] = approval[e] /\ c.state \in {"queued", "taken"} /\ d.state # "none"
     /\ d.early = c.early /\ (d.state = "done" => DoneBy(e))

LEMMA EventNext ==
  ASSUME TypeOK, [Next]_vars, NEW e \in Execs
  PROVE  EventMoved(e, event[e], event'[e])
<1>1. event \in [Execs -> EventType] /\ event[e] \in EventType /\ DOMAIN approval = Execs
  BY DEF TypeOK
<1>2. ASSUME NEW f \in Execs, Enqueued(f), f # e PROVE approval'[e] = approval[e] /\ event'[e] = event[e]
  BY <1>1, <1>2 DEF Enqueued, Created, VerdictGiven, Delivered, Answered
<1>3. ASSUME Enqueued(e) PROVE EventMoved(e, event[e], event'[e])
  <2>1. CASE Created(e)
    <3>1. CASE approval' = [approval EXCEPT ![e] = "open"] /\ UNCHANGED event
      BY <1>1, <2>1, <3>1 DEF Created, EventMoved
    <3>2. CASE approval' = [approval EXCEPT ![e] = "approved"] /\ event' = [event EXCEPT ![e].state = "queued"]
      BY <1>1, <2>1, <3>2 DEF Created, EventMoved, EventType
    <3> QED
      BY <2>1, <3>1, <3>2 DEF Created
  <2>2. CASE VerdictGiven(e)
    <3>1. approval'[e] \in Decided /\ event'[e].state = "queued" /\ event'[e].early = ~ bridge[e].linked
      BY <1>1, <2>2 DEF VerdictGiven, EventType
    <3> QED
      BY <2>2, <3>1 DEF VerdictGiven, EventMoved
  <2>3. CASE UNCHANGED approval /\ Delivered(e)
    BY <1>1, <2>3 DEF Delivered, EventMoved, EventType
  <2>4. CASE UNCHANGED approval /\ Answered(e)
    BY <1>1, <2>4 DEF Answered, EventMoved, EventType
  <2> QED
    BY <1>3, <2>1, <2>2, <2>3, <2>4 DEF Enqueued
<1>4. CASE UNCHANGED <<approval, event>>
  BY <1>4 DEF EventMoved
<1> QED
  BY <1>2, <1>3, <1>4, EventSteps DEF EventMoved

(* Whoever comes to create inserted the row, after it found none active.   *)
LEMMA Insertion ==
  ASSUME TypeOK, [Next]_vars, NEW e \in Execs, run[e].pc = "insert", run'[e].pc = "create"
  PROVE  Inserted(e)
<1>1. Own(e) /\ e \in Actors /\ e \notin Workers /\ run[e] \in RunType
  BY Whose, ExecFacts
<1>2. ~ Crash(e)
  <2>1. Crash(e) => run'[e].pc = "done"
    BY <1>1 DEF Crash, TypeOK, RunType
  <2> QED
    BY <2>1
<1>3. InsertBridge(e)
  BY <1>1, <1>2 DEF Own, ExecStep, TailStep, At, RetryExecution, RecordExecution, LookupBridge, CreateApproval,
     ReadApproval, LinkBridge, WriteJob, MarkBridgeFailed, StartAction, RunAction, SettleAction, SkipRest,
     PersistExecution
<1>4. Fails(e, "persist") => run'[e].pc = "persist"
  BY <1>1 DEF Fails, TypeOK, RunType
<1> QED
  BY <1>3, <1>4 DEF InsertBridge, Conflicting, At, Inserted

LEMMA StagedNext ==
  ASSUME TypeOK, Staged, [Next]_vars
  PROVE  Staged'
<1>1. ASSUME NEW e \in Execs PROVE StagedAt(run'[e].pc, bridge'[e], approval'[e], event'[e].state)
  <2> DEFINE p == run[e].pc
             q == run'[e].pc
             b == bridge[e]
             c == bridge'[e]
             v == approval[e]
             u == approval'[e]
             s == event[e].state
             t == event'[e].state
  <2>1. StagedAt(p, b, v, s)
    BY DEF Staged
  <2>2. \/ q = p \/ Plainly(e, p, q) \/ (p = "read" /\ q = "link") \/ q \in {"resume", "start", "done", "mark"}
    BY ExecNext, Landings, ExecFacts DEF GoesOn
  <2>3. /\ q \in Early => p \in Early
        /\ q = "create" => p \in {"create", "insert"}
        /\ q = "read" => p \in {"read", "create"}
        /\ q = "link" => p \in {"read", "link"}
    BY <2>2 DEF Plainly, Early
  <2>4. p = "insert" /\ q = "create" => c.status = "creating" /\ ~ c.linked
    <3>1. ASSUME p = "insert", q = "create" PROVE c.status = "creating" /\ c.linked = b.linked
      <4>1. Inserted(e) /\ bridge \in [Execs -> BridgeType]
        BY <3>1, Insertion DEF TypeOK
      <4> QED
        BY <4>1 DEF Inserted, BridgeType
    <3> QED
      BY <2>1, <3>1 DEF StagedAt, Early
  <2>5. c = b \/ RowMoved(e, b, c)
    BY RowNext
  <2>6. /\ c.status = "absent" => c = b
        /\ c # b => \/ b.linked /\ c.linked
                    \/ p = "insert" /\ q = "create" /\ SameButStatus(b, c)
                    \/ p = "link" /\ q = "job" /\ c.linked
                    \/ p = "abandon" /\ c.status = "failed" /\ SameButStatus(b, c)
    BY <2>1, <2>5 DEF RowMoved, Inserted, Linked, LinkedStatus, MarkedFailed, Taken, Buried, Resumed, LeaseLapsed,
       Claimable, Expired, HoldsBridge, SameCounts, StagedAt
  <2>7. \/ u = v /\ (t # "none" => s # "none")
        \/ p = "create" /\ q = "read" /\ u \in {"open", "approved"} /\ (t # s => u = "approved")
        \/ v = "open" /\ u \in Decided /\ c = b
    BY EventNext DEF EventMoved
  <2> HIDE DEF p, q, b, c, v, u, s, t
  <2>8. /\ q \in Early => c.status = "absent" /\ u = "none" /\ t = "none"
        /\ q = "create" => u = "none"
    BY <2>1, <2>3, <2>6, <2>7 DEF StagedAt, Early, SameButStatus
  <2>9. q \in {"create", "read", "link"} => c.status = "creating" /\ ~ c.linked
    BY <2>1, <2>3, <2>4, <2>6 DEF StagedAt
  <2>10. c.status = "absent" => ~ c.linked /\ u = "none"
    BY <2>1, <2>6, <2>7 DEF StagedAt
  <2>11. ~ c.linked => /\ c.status \in {"absent", "creating", "failed"}
                      /\ c.lease = "none" /\ c.attempts = 0 /\ c.fence = 0
    BY <2>1, <2>4, <2>6 DEF StagedAt, SameButStatus
  <2>12. t # "none" => u \in Decided
    BY <2>1, <2>7 DEF StagedAt, Decided
  <2>13. StagedAt(q, c, u, t)
    BY <2>8, <2>9, <2>10, <2>11, <2>12 DEF StagedAt
  <2> QED
    BY <2>13 DEF q, c, u, t
<1> QED
  BY <1>1 DEF Staged

-----------------------------------------------------------------------------
(* One live approval.                                                      *)
OneActive == \A e, f \in Execs : Active(e) /\ Active(f) => e = f

LEMMA ActiveNext ==
  ASSUME TypeOK, Staged, [Next]_vars, NEW e \in Execs, Active(e)'
  PROVE  Active(e) \/ Inserted(e)
<1>1. CASE bridge'[e] = bridge[e]
  BY <1>1 DEF Active
<1>2. CASE RowMoved(e, bridge[e], bridge'[e])
  <2>1. StagedAt(run[e].pc, bridge[e], approval[e], event[e].state)
    BY DEF Staged
  <2> QED
    BY <1>2, <2>1 DEF Active, RowMoved, SameButStatus, SameCounts, Linked, MarkedFailed, Taken, Buried, Resumed,
       LeaseLapsed, Claimable, Expired, HoldsBridge, StagedAt
<1> QED
  BY <1>1, <1>2, RowNext

LEMMA OneActiveNext ==
  ASSUME TypeOK, Staged, OneActive, [Next]_vars
  PROVE  OneActive'
<1>1. ASSUME NEW e \in Execs, NEW f \in Execs, Active(e)', Active(f)', e # f PROVE FALSE
  <2>1. ASSUME NEW g \in Execs, NEW h \in Execs, Inserted(g), Active(h)', g # h PROVE FALSE
    <3>1. bridge'[h] = bridge[h]
      BY <2>1 DEF Inserted, TypeOK
    <3> QED
      BY <2>1, <3>1 DEF Inserted, Active
  <2>2. Active(e) /\ Active(f)
    BY <1>1, <2>1, ActiveNext
  <2> QED
    BY <1>1, <2>2 DEF OneActive
<1> QED
  BY <1>1 DEF OneActive

LEMMA OneLive ==
  ASSUME Staged, OneActive
  PROVE  OneLiveApproval
<1>1. ASSUME NEW e \in Execs, Started(e), ~ GivenUp(e) PROVE Active(e)
  BY <1>1 DEF Staged, StagedAt, Started, GivenUp, Active
<1> QED
  BY <1>1 DEF OneLiveApproval, OneActive

(* A settled bridge is never claimed again.                                *)
LEMMA TerminalStays ==
  ASSUME TypeOK, Staged, [Next]_vars, NEW e \in Execs, bridge[e].status \in Terminal
  PROVE  bridge'[e].status \in Terminal
<1>1. StagedAt(run[e].pc, bridge[e], approval[e], event[e].state)
  BY DEF Staged
<1>2. bridge[e].lease = "live" => bridge[e].status = "in_progress"
  BY DEF TypeOK
<1>3. CASE RowMoved(e, bridge[e], bridge'[e])
  BY <1>1, <1>2, <1>3 DEF RowMoved, Inserted, Linked, Taken, LeaseLapsed, Claimable, Expired, StagedAt, Early, Terminal
<1> QED
  BY <1>3, RowNext

-----------------------------------------------------------------------------
(* What an actor read of the approval, and which fence it holds.           *)
SeenSound ==
  \A a \in Actors : run[a].seen \in Decided => run[a].exec \in Execs /\ approval[run[a].exec] = run[a].seen
Approved == \A a \in Actors : run[a].pc \in {"resume", "start", "act", "settle"} => run[a].seen = "approved"
AtMark == \A w \in Workers : run[w].pc = "mark" => <<run[w].exec, run[w].fence>> \in carried

LEMMA VerdictStays ==
  ASSUME TypeOK, Staged, [Next]_vars, NEW e \in Execs, approval[e] \in Decided
  PROVE  approval'[e] = approval[e]
<1>1. StagedAt(run[e].pc, bridge[e], approval[e], event[e].state)
  BY DEF Staged
<1> QED
  BY <1>1, EventNext DEF EventMoved, StagedAt, Decided

LEMMA SeenSoundNext ==
  ASSUME TypeOK, Staged, SeenSound, [Next]_vars
  PROVE  SeenSound'
<1>1. ASSUME NEW a \in Actors, run'[a].seen \in Decided
      PROVE  run'[a].exec \in Execs /\ approval'[run'[a].exec] = run'[a].seen
  <2> DEFINE x == run'[a]
  <2>1. x = run[a] \/ RunStep(a, x)
    BY ActorNext
  <2>2. CASE x.seen = run[a].seen /\ x.exec = run[a].exec
    <3>1. x.exec \in Execs /\ approval[x.exec] = x.seen
      BY <1>1, <2>2 DEF SeenSound
    <3> HIDE DEF x
    <3> QED
      BY <1>1, <3>1, VerdictStays DEF x
  <2>3. CASE Reads(a, x)
    BY <2>3, Landings DEF Reads
  <2>4. CASE Receives(a, x)
    BY <2>4, Landings DEF Receives
  <2>5. ~ Ends(a, x)
    BY <1>1, Landings DEF Decided
  <2>6. GoesOn(a, x) => x.seen = run[a].seen /\ x.exec = run[a].exec
    BY DEF GoesOn
  <2>7. Claims(a, x) => x.seen = run[a].seen /\ x.exec = run[a].exec
    BY Landings
  <2> HIDE DEF x
  <2> QED
    BY <2>1, <2>2, <2>3, <2>4, <2>5, <2>6, <2>7 DEF RunStep, x
<1> QED
  BY <1>1 DEF SeenSound

LEMMA ApprovedNext ==
  ASSUME TypeOK, Approved, [Next]_vars
  PROVE  Approved'
<1>1. ASSUME NEW a \in Actors, run'[a].pc \in {"resume", "start", "act", "settle"}
      PROVE  run'[a].seen = "approved"
  <2> DEFINE x == run'[a]
  <2>1. x = run[a] \/ GoesOn(a, x)
    BY <1>1, ActorNext, Landings DEF RunStep
  <2>2. run[a].pc \in {"resume", "start", "act", "settle"} => run[a].seen = "approved"
    BY DEF Approved
  <2>3. CASE GoesOn(a, x)
    <3>1. x.seen = run[a].seen
      BY <2>3 DEF GoesOn
    <3>2. run[a].seen = "approved" \/ run[a].pc \in {"resume", "start", "act", "settle"}
      BY <1>1, <2>3 DEF GoesOn, Plainly
    <3> QED
      BY <2>2, <3>1, <3>2
  <2> QED
    BY <1>1, <2>1, <2>2, <2>3
<1> QED
  BY <1>1 DEF Approved

LEMMA AtMarkNext ==
  ASSUME TypeOK, AtMark, [Next]_vars
  PROVE  AtMark'
<1>1. ASSUME NEW w \in Workers, run'[w].pc = "mark" PROVE <<run'[w].exec, run'[w].fence>> \in carried'
  <2>1. CASE run[w].pc = "mark"
    <3>1. run'[w] = run[w]
      BY <1>1, <2>1, ActorNext, WorkerFacts, Landings DEF RunStep, GoesOn, Plainly
    <3> QED
      BY <2>1, <3>1, CarriedSteps DEF AtMark
  <2>2. CASE run[w].pc # "mark"
    BY <1>1, <2>2, CarriedSteps
  <2> QED
    BY <2>1, <2>2
<1> QED
  BY <1>1 DEF AtMark

(* The fence of a row only grows; a claim takes the next.                  *)
LEMMA FenceStays ==
  ASSUME TypeOK, [Next]_vars, NEW e \in Execs
  PROVE  bridge'[e].fence \in {bridge[e].fence, bridge[e].fence + 1} /\ bridge[e].fence \in Nat
<1>1. bridge[e].fence \in Nat
  BY DEF TypeOK, BridgeType
<1> QED
  BY <1>1, RowNext DEF RowMoved, SameButStatus, SameCounts

LEMMA HolderNext ==
  ASSUME TypeOK, SingleHolder, [Next]_vars, NEW w \in Workers, run'[w].pc \in Holding
  PROVE  /\ run'[w].exec \in Execs /\ run'[w].exec = run[w].exec /\ run'[w].fence \in Nat
         /\ \/ Claims(w, run'[w])
            \/ /\ run[w].pc \in Holding /\ run'[w].fence = run[w].fence
               /\ run[w].fence <= bridge[run[w].exec].fence
<1> DEFINE x == run'[w]
<1>1. w \in Actors /\ w \notin Execs /\ run[w] \in RunType
  BY WorkerFacts
<1>2. x = run[w] \/ GoesOn(w, x) \/ Claims(w, x)
  BY <1>1, ActorNext, Landings DEF RunStep, Holding, TailPcs
<1>3. CASE Claims(w, x)
  BY <1>1, <1>3, Landings, FenceStays
<1>4. CASE x = run[w] \/ GoesOn(w, x)
  <2>1. run[w].pc \notin ExecPcs
    BY DEF TypeOK
  <2>2. run[w].pc \in Holding
    BY <1>1, <1>4, <2>1 DEF GoesOn, Plainly, Holding, TailPcs, ExecPcs
  <2>3. run[w].exec \in Execs
    BY <2>2, WorkerFacts DEF Holding, TailPcs
  <2>4. x.exec = run[w].exec /\ x.fence = run[w].fence
    BY <1>4 DEF GoesOn
  <2> QED
    BY <1>1, <2>2, <2>3, <2>4 DEF SingleHolder, RunType
<1> QED
  BY <1>2, <1>3, <1>4

LEMMA SingleHolderNext ==
  ASSUME TypeOK, SingleHolder, [Next]_vars
  PROVE  SingleHolder'
<1>1. ASSUME NEW w \in Workers, Claims(w, run'[w])
      PROVE  /\ run'[w].fence = bridge[run[w].exec].fence + 1 /\ bridge'[run[w].exec].fence = run'[w].fence
             /\ run'[w].exec = run[w].exec /\ run[w].exec \in Execs
  <2>1. run[w].exec \in Execs /\ run'[w].exec = run[w].exec /\ run'[w].fence = bridge[run[w].exec].fence + 1
    BY <1>1, Landings, WorkerFacts
  <2>2. bridge' = [bridge EXCEPT ![run[w].exec] = Leased(@)] /\ bridge \in [Execs -> BridgeType]
    BY <1>1 DEF Claims, TypeOK
  <2> QED
    BY <2>1, <2>2 DEF Leased, BridgeType
<1>2. ASSUME NEW w \in Workers, run'[w].pc \in Holding
      PROVE  run'[w].fence <= bridge'[run'[w].exec].fence
  BY <1>1, <1>2, HolderNext, FenceStays
<1>3. ASSUME NEW w \in Workers, NEW v \in Workers \ {w}, run'[w].pc \in Holding, run'[v].pc \in Holding,
             run'[v].exec = run'[w].exec, run'[v].fence = run'[w].fence
      PROVE  FALSE
  <2> DEFINE e == run'[w].exec
  <2>1. e \in Execs /\ e = run[w].exec /\ e = run[v].exec /\ bridge[e].fence \in Nat
    BY <1>3, HolderNext, FenceStays
  <2>2. run'[w] = run[w] \/ run'[v] = run[v]
    BY <1>3, OneActs, WorkerFacts DEF Acted, TypeOK
  <2>3. Claims(w, run'[w]) => run'[w] # run[w]
    BY Landings, WorkerFacts DEF Claims
  <2>4. Claims(v, run'[v]) => run'[v] # run[v]
    BY Landings, WorkerFacts DEF Claims
  <2>5. CASE Claims(w, run'[w])
    BY <1>1, <1>3, <2>1, <2>2, <2>3, <2>4, <2>5, HolderNext
  <2>6. CASE Claims(v, run'[v])
    BY <1>1, <1>3, <2>1, <2>2, <2>3, <2>4, <2>6, HolderNext
  <2>7. CASE ~ Claims(w, run'[w]) /\ ~ Claims(v, run'[v])
    BY <1>3, <2>1, <2>7, HolderNext DEF SingleHolder
  <2> QED
    BY <2>5, <2>6, <2>7
<1> QED
  BY <1>2, <1>3 DEF SingleHolder

LEMMA ResumedNext ==
  ASSUME TypeOK, Staged, AtMark, ResumedByHolder, [Next]_vars
  PROVE  ResumedByHolder'
<1>1. ASSUME NEW e \in Execs, bridge'[e].status = "resumed", bridge'[e].attempts > 0
      PROVE  <<e, bridge'[e].fence>> \in carried'
  <2>1. carried \subseteq carried' /\ bridge[e] \in BridgeType
    BY CarriedSteps DEF TypeOK
  <2>2. CASE bridge'[e] = bridge[e]
    BY <1>1, <2>1, <2>2 DEF ResumedByHolder
  <2>3. CASE RowMoved(e, bridge[e], bridge'[e])
    <3>1. bridge[e].lease = "live" => bridge[e].status = "in_progress"
      BY DEF TypeOK
    <3>2. Linked(e) => bridge[e].attempts = 0
      BY DEF Staged, StagedAt, Linked
    <3>3. Resumed(e) /\ bridge'[e].fence = bridge[e].fence
      BY <1>1, <2>3, <3>1, <3>2 DEF RowMoved, SameCounts, LeaseLapsed
    <3> QED
      BY <2>1, <3>3 DEF Resumed, HoldsBridge, AtMark
  <2> QED
    BY <2>2, <2>3, RowNext
<1> QED
  BY <1>1 DEF ResumedByHolder

-----------------------------------------------------------------------------
(* A completion quicker than LinkBridge, yet not early: it was decided by  *)
(* the creation itself, and LinkBridge will not leave its bridge waiting.  *)
QuickOnes ==
  \A e \in Execs : ~ bridge[e].linked /\ event[e].state # "none" /\ ~ event[e].early =>
    approval[e] = "approved" /\ (run[e].pc = "link" => run[e].seen = "approved")

LEMMA NeverUnlinked ==
  ASSUME TypeOK, [Next]_vars, NEW e \in Execs, bridge[e].linked
  PROVE  bridge'[e].linked
BY RowNext DEF RowMoved, SameButStatus, SameCounts

LEMMA QuickOnesNext ==
  ASSUME TypeOK, Staged, QuickOnes, [Next]_vars
  PROVE  QuickOnes'
<1>1. ASSUME NEW e \in Execs, ~ bridge'[e].linked, event'[e].state # "none", ~ event'[e].early
      PROVE  approval'[e] = "approved" /\ (run'[e].pc = "link" => run'[e].seen = "approved")
  <2>1. ~ bridge[e].linked
    BY <1>1, NeverUnlinked
  <2>2. CASE approval'[e] = approval[e] /\ event[e].state # "none" /\ event'[e].early = event[e].early
    <3>1. approval[e] = "approved" /\ (run[e].pc = "link" => run[e].seen = "approved")
      BY <1>1, <2>1, <2>2 DEF QuickOnes
    <3>2. ASSUME run'[e].pc = "link" PROVE run'[e].seen = "approved"
      <4>1. run'[e] = run[e] \/ Reads(e, run'[e])
        BY <3>2, ExecNext, ExecFacts DEF GoesOn, Plainly
      <4> QED
        BY <3>1, <3>2, <4>1, Landings, ExecFacts
    <3> QED
      BY <2>2, <3>1, <3>2
  <2>3. CASE run[e].pc = "create" /\ run'[e].pc = "read"
    <3>1. event[e].state = "none"
      BY <2>3 DEF Staged, StagedAt, Decided
    <3> QED
      BY <1>1, <2>3, <3>1, EventNext DEF EventMoved, Staged, StagedAt, Decided
  <2> QED
    BY <1>1, <2>1, <2>2, <2>3, EventNext DEF EventMoved
<1> QED
  BY <1>1 DEF QuickOnes

LEMMA ConsumedNext ==
  ASSUME TypeOK, Staged, AtMark, QuickOnes, ConsumedMeansCarried, [Next]_vars
  PROVE  ConsumedMeansCarried'
<1>1. ASSUME NEW e \in Execs, Carried(e) PROVE Carried(e)'
  BY <1>1, CarriedSteps DEF Carried
<1>2. ASSUME NEW e \in Execs, event'[e].state = "done", ~ event'[e].early,
             bridge'[e].status \in {"pending", "in_progress"}, ~ Carried(e)
      PROVE  FALSE
  <2>1. StagedAt(run[e].pc, bridge[e], approval[e], event[e].state)
    BY DEF Staged
  <2>2. CASE event[e].state = "done" /\ event[e].early = event'[e].early
    <3>1. bridge[e].status \notin {"pending", "in_progress"}
      BY <1>2, <2>2 DEF ConsumedMeansCarried
    <3>2. bridge[e].lease = "live" => bridge[e].status = "in_progress"
      BY DEF TypeOK
    <3>3. Linked(e) => LinkedStatus(run[e].seen) = "resumed"
      <4>1. Linked(e) => run[e].seen = "approved"
        BY <1>2, <2>1, <2>2 DEF Linked, QuickOnes, StagedAt
      <4> QED
        BY <4>1 DEF LinkedStatus
    <3> QED
      BY <1>2, <3>1, <3>2, <3>3, RowNext DEF RowMoved, Taken, Claimable, Expired, LeaseLapsed
  <2>3. CASE event[e].state # "done"
    <3>1. DoneBy(e)
      BY <1>2, <2>3, EventNext DEF EventMoved
    <3>2. ~ Buried(e)
      <4>1. Buried(e) => bridge'[e].status = "dead_letter"
        BY DEF Buried, TypeOK, BridgeType
      <4> QED
        BY <1>2, <4>1
    <3>3. ~ (~ Busy(bridge[e]) /\ UNCHANGED bridge)
      BY <1>2, <2>1 DEF Busy, Terminal, StagedAt
    <3>4. ASSUME NEW w \in Workers, run[w].pc = "mark", run[w].exec = e PROVE FALSE
      <4>1. <<run[w].exec, run[w].fence>> \in carried
        BY <3>4 DEF AtMark
      <4> QED
        BY <1>2, <3>4, <4>1 DEF Carried
    <3> QED
      BY <3>1, <3>2, <3>3, <3>4 DEF DoneBy
  <2>4. event[e].state = "done" => event'[e].early = event[e].early
    BY <2>1, EventNext DEF EventMoved, StagedAt, Decided
  <2> QED
    BY <2>2, <2>3, <2>4
<1> QED
  BY <1>1, <1>2 DEF ConsumedMeansCarried

-----------------------------------------------------------------------------
(* The tail, in order and once.  What keeps two actors from the same action*)
(* is the job row: whoever is at act or settle inserted it, and no row that*)
(* exists is inserted again.                                               *)
InStep(pc, i, done, rows) ==
  /\ pc \in {"start", "act", "settle"} => \A j \in 1 .. i - 1 : done[j] = 1
  /\ pc = "settle" => done[i] = 1
  /\ pc \in {"act", "settle"} => rows[i] # "absent"
  /\ pc = "act" => done[i] = 0
StepsInOrder == \A a \in Actors : InStep(run[a].pc, run[a].step, runs[run[a].exec], jobs[run[a].exec])
OneAtAct ==
  \A a, b \in Actors : run[a].pc = "act" /\ run[b].pc = "act" /\ run[a].exec = run[b].exec
                       /\ run[a].step = run[b].step => a = b
NoJobNoRun == \A e \in Execs, i \in 1 .. Tail : jobs[e][i] = "absent" => runs[e][i] = 0
InOrder == StepsInOrder /\ OneAtAct /\ NoJobNoRun

LEMMA OwnAtStart ==
  ASSUME TypeOK, [Next]_vars, NEW a \in Actors, run[a].pc = "start", run'[a].pc = "act"
  PROVE  StartAction(a) /\ jobs[run[a].exec][run[a].step] = "absent"
         /\ jobs'[run[a].exec][run[a].step] # "absent"
<1> DEFINE e == run[a].exec
           i == run[a].step
<1>1. Own(a) /\ run[a] \in RunType /\ a \in Execs \cup Workers /\ e \in Execs /\ i \in Steps
  BY Whose, ActorFacts, BridgeAssumption DEF TypeOK, Actors, Steps
<1>2. ~ Crash(a)
  BY <1>1, IdleTyped DEF Crash, TypeOK, RunType
<1>3. StartAction(a)
  BY <1>1, <1>2 DEF Own, ExecStep, HandlerStep, TailStep, At, RetryExecution, RecordExecution, LookupBridge,
     InsertBridge, CreateApproval, ReadApproval, LinkBridge, WriteJob, MarkBridgeFailed, RunAction, SettleAction,
     SkipRest, PersistExecution, ClaimFresh, BuryPoison, ReclaimExpired, Classify, CheckRule, ContinueExecution,
     FailExecution, MarkBridgeResumed, Receive
<1>4. ~ Fails(a, "persist")
  BY <1>1 DEF Fails, TypeOK, RunType
<1>5. MayStart(e, i) /\ jobs' = [jobs EXCEPT ![e][i] = "running"]
  BY <1>3, <1>4 DEF StartAction
<1>6. jobs'[e][i] = "running"
  BY <1>1, <1>5 DEF TypeOK
<1> QED
  BY <1>3, <1>5, <1>6 DEF MayStart

LEMMA OwnAtAct ==
  ASSUME TypeOK, [Next]_vars, NEW a \in Actors, run[a].pc = "act", run'[a].pc = "settle"
  PROVE  RunAction(a)
<1>1. Own(a) /\ run[a] \in RunType /\ a \in Execs \cup Workers
  BY Whose DEF TypeOK, Actors
<1>2. ~ Crash(a)
  BY <1>1, IdleTyped DEF Crash, TypeOK, RunType
<1> QED
  BY <1>1, <1>2 DEF Own, ExecStep, HandlerStep, TailStep, At, RetryExecution, RecordExecution, LookupBridge,
     InsertBridge, CreateApproval, ReadApproval, LinkBridge, WriteJob, MarkBridgeFailed, StartAction, SettleAction,
     SkipRest, PersistExecution, ClaimFresh, BuryPoison, ReclaimExpired, Classify, CheckRule, ContinueExecution,
     FailExecution, MarkBridgeResumed, Receive

LEMMA TailNext ==
  ASSUME TypeOK, [Next]_vars, NEW a \in Actors, run'[a].pc \in {"start", "act", "settle"}, run'[a] # run[a]
  PROVE  /\ run'[a].exec = run[a].exec /\ run[a].exec \in Execs /\ run'[a].step \in 1 .. Tail
         /\ \/ run'[a].pc = "start" /\ run'[a].step = 1
            \/ run'[a].pc = "start" /\ run[a].pc = "settle" /\ run'[a].step = run[a].step + 1
            \/ run'[a].pc = "act" /\ run[a].pc = "start" /\ run'[a].step = run[a].step
            \/ run'[a].pc = "settle" /\ run[a].pc = "act" /\ run'[a].step = run[a].step
<1>1. GoesOn(a, run'[a])
  BY ActorNext, Landings DEF RunStep
<1>2. run[a].pc # "idle" /\ run'[a].exec = run[a].exec
  BY <1>1 DEF GoesOn, Plainly
<1>3. run'[a].step \in 1 .. Tail
  BY RunsTypedNext DEF RunsTyped
<1> QED
  BY <1>1, <1>2, <1>3, ActorFacts DEF GoesOn, Plainly

(* RunAction seen from the one it moves and from everyone else.            *)
LEMMA RunActionIs ==
  ASSUME TypeOK, NEW b \in Actors, RunAction(b)
  PROVE  /\ run[b].pc = "act" /\ run[b].exec \in Execs /\ run[b].step \in 1 .. Tail
         /\ run'[b].pc = "settle" /\ run'[b].exec = run[b].exec /\ run'[b].step = run[b].step
         /\ \A a \in Actors \ {b} : run'[a] = run[a]
         /\ \A e \in Execs, j \in 1 .. Tail :
              runs'[e][j] = IF e = run[b].exec /\ j = run[b].step THEN runs[e][j] + 1 ELSE runs[e][j]
         /\ UNCHANGED <<jobs, approval>>
<1>1. run[b].pc = "act" /\ run[b].exec \in Execs /\ run[b].step \in 1 .. Tail /\ run[b] \in RunType
  BY ActorFacts DEF RunAction, At, TypeOK
<1>2. /\ run'[b].pc = "settle" /\ run'[b].exec = run[b].exec /\ run'[b].step = run[b].step
      /\ \A a \in Actors \ {b} : run'[a] = run[a]
  BY <1>1 DEF RunAction, Goto, Fails, TypeOK, RunType
<1>3. runs' = [runs EXCEPT ![run[b].exec][run[b].step] = @ + 1] /\ runs \in [Execs -> [1 .. Tail -> Nat]]
  BY DEF RunAction, TypeOK
<1>4. ASSUME NEW e \in Execs, NEW j \in 1 .. Tail
      PROVE  runs'[e][j] = IF e = run[b].exec /\ j = run[b].step THEN runs[e][j] + 1 ELSE runs[e][j]
  BY <1>1, <1>3
<1> QED
  BY <1>1, <1>2, <1>4 DEF RunAction

LEMMA EarlierSteps ==
  ASSUME NEW k \in 1 .. Tail
  PROVE  \A j \in 1 .. k - 1 : j \in 1 .. Tail /\ j # k
BY BridgeAssumption

LEMMA InOrderRuns ==
  ASSUME TypeOK, InOrder, NEW b \in Actors, RunAction(b)
  PROVE  InOrder'
<1> DEFINE f == run[b].exec
           k == run[b].step
<1>1. runs[f][k] = 0 /\ jobs[f][k] # "absent" /\ \A j \in 1 .. k - 1 : runs[f][j] = 1
  BY RunActionIs DEF InOrder, StepsInOrder, InStep
<1>2. ASSUME NEW a \in Actors
      PROVE  InStep(run'[a].pc, run'[a].step, runs'[run'[a].exec], jobs'[run'[a].exec])
  <2>1. CASE a = b
    <3>1. \A j \in 1 .. k - 1 : j \in 1 .. Tail /\ j # k
      BY RunActionIs, EarlierSteps
    <3>2. runs'[f][k] = 1 /\ \A j \in 1 .. k - 1 : runs'[f][j] = 1
      BY <1>1, <3>1, RunActionIs
    <3> QED
      BY <1>1, <2>1, <3>2, RunActionIs DEF InStep
  <2>2. CASE a # b
    <3> DEFINE e == run[a].exec
               i == run[a].step
    <3>1. run'[a] = run[a] /\ UNCHANGED jobs
      BY <2>2, RunActionIs
    <3>2. InStep(run[a].pc, i, runs[e], jobs[e])
      BY DEF InOrder, StepsInOrder
    <3>3. run[a].pc \in {"start", "act", "settle"} =>
            e \in Execs /\ i \in 1 .. Tail /\ \A j \in 1 .. i - 1 : j \in 1 .. Tail
      BY ActorFacts, EarlierSteps DEF TypeOK
    <3>4. ASSUME run[a].pc \in {"start", "act", "settle"}, NEW j \in 1 .. Tail, runs[e][j] = 1
          PROVE  runs'[e][j] = 1
      BY <1>1, <3>3, <3>4, RunActionIs
    <3>5. ASSUME run[a].pc = "act" PROVE runs'[e][i] = 0
      <4>1. ~ (e = f /\ i = k)
        BY <2>2, <3>5, RunActionIs DEF InOrder, OneAtAct
      <4> QED
        BY <3>2, <3>3, <3>5, <4>1, RunActionIs DEF InStep
    <3> QED
      BY <3>1, <3>2, <3>3, <3>4, <3>5 DEF InStep
  <2> QED
    BY <2>1, <2>2
<1>3. OneAtAct'
  BY RunActionIs DEF InOrder, OneAtAct
<1>4. NoJobNoRun'
  <2>1. ASSUME NEW e \in Execs, NEW i \in 1 .. Tail, jobs'[e][i] = "absent" PROVE runs'[e][i] = 0
    <3>1. jobs[e][i] = "absent" /\ runs[e][i] = 0
      BY <2>1, RunActionIs DEF InOrder, NoJobNoRun
    <3> QED
      BY <1>1, <3>1, RunActionIs
  <2> QED
    BY <2>1 DEF NoJobNoRun
<1> QED
  BY <1>2, <1>3, <1>4 DEF InOrder, StepsInOrder

LEMMA InOrderNext ==
  ASSUME TypeOK, InOrder, [Next]_vars
  PROVE  InOrder'
<1>1. CASE \E b \in Actors : RunAction(b)
  BY <1>1, InOrderRuns
<1>2. CASE ~ \E b \in Actors : RunAction(b)
  <2>1. UNCHANGED runs /\ JobsKept
    BY <1>2, RunsSteps, JobSteps
  <2>2. ASSUME NEW a \in Actors
        PROVE  InStep(run'[a].pc, run'[a].step, runs[run'[a].exec], jobs'[run'[a].exec])
    <3> DEFINE e == run[a].exec
               i == run[a].step
    <3>1. InStep(run[a].pc, i, runs[e], jobs[e])
      BY DEF InOrder, StepsInOrder
    <3>2. run[a].pc \in {"start", "act", "settle"} => e \in Execs /\ i \in 1 .. Tail /\ i \in Steps
      BY ActorFacts, BridgeAssumption DEF TypeOK, Steps
    <3>3. CASE run'[a] = run[a]
      <4>1. run[a].pc \in {"act", "settle"} => jobs'[e][i] # "absent"
        BY <2>1, <3>1, <3>2 DEF InStep, JobsKept
      <4> QED
        BY <3>1, <3>3, <4>1 DEF InStep
    <3>4. CASE run'[a] # run[a] /\ run'[a].pc \in {"start", "act", "settle"}
      <4>1. CASE run'[a].pc = "start" /\ run'[a].step = 1
        BY <4>1 DEF InStep
      <4>2. CASE run'[a].pc = "start" /\ run[a].pc = "settle" /\ run'[a].step = i + 1
        <5>1. \A j \in 1 .. i : runs[e][j] = 1
          BY <3>1, <3>2, <4>2 DEF InStep
        <5> QED
          BY <3>2, <3>4, <4>2, <5>1, TailNext DEF InStep
      <4>3. CASE run'[a].pc = "act" /\ run[a].pc = "start" /\ run'[a].step = i
        <5>1. jobs[e][i] = "absent" /\ jobs'[e][i] # "absent"
          BY <4>3, OwnAtStart
        <5>2. runs[e][i] = 0
          BY <3>2, <4>3, <5>1 DEF InOrder, NoJobNoRun
        <5> QED
          BY <3>1, <3>4, <4>3, <5>1, <5>2, TailNext DEF InStep
      <4>4. ~ (run'[a].pc = "settle" /\ run[a].pc = "act")
        BY <1>2, OwnAtAct
      <4> QED
        BY <3>4, <4>1, <4>2, <4>3, <4>4, TailNext
    <3>5. CASE run'[a].pc \notin {"start", "act", "settle"}
      BY <3>5 DEF InStep
    <3> QED
      BY <3>3, <3>4, <3>5
  <2>3. OneAtAct'
    <3>1. ASSUME NEW a \in Actors, NEW b \in Actors, a # b, run'[a].pc = "act", run'[b].pc = "act",
                 run'[a].exec = run'[b].exec, run'[a].step = run'[b].step, run'[b] = run[b]
          PROVE  FALSE
      <4>1. CASE run'[a] = run[a]
        BY <3>1, <4>1 DEF InOrder, OneAtAct
      <4>2. CASE run'[a] # run[a]
        <5>1. run[a].pc = "start" /\ run[a].step = run[b].step /\ run[a].exec = run[b].exec
          BY <3>1, <4>2, TailNext
        <5>2. jobs[run[a].exec][run[a].step] = "absent"
          BY <3>1, <5>1, OwnAtStart
        <5> QED
          BY <3>1, <5>1, <5>2 DEF InOrder, StepsInOrder, InStep
      <4> QED
        BY <4>1, <4>2
    <3>2. \A a, b \in Actors : a # b => run'[a] = run[a] \/ run'[b] = run[b]
      BY OneActs DEF Acted, TypeOK
    <3> QED
      BY <3>1, <3>2 DEF OneAtAct
  <2>4. NoJobNoRun'
    <3>1. 1 .. Tail \subseteq Steps
      BY BridgeAssumption DEF Steps
    <3> QED
      BY <2>1, <3>1 DEF InOrder, NoJobNoRun, JobsKept
  <2> QED
    BY <2>1, <2>2, <2>3, <2>4 DEF InOrder, StepsInOrder
<1> QED
  BY <1>1, <1>2

-----------------------------------------------------------------------------
(* The inductive invariant, and what follows from it.                      *)
BridgeInv ==
  /\ TypeOK /\ Staged /\ OneActive
  /\ SeenSound /\ Approved /\ AtMark /\ QuickOnes /\ InOrder
  /\ SingleHolder /\ ResumedByHolder /\ ConsumedMeansCarried

LEMMA InitTypes ==
  ASSUME Init
  PROVE  TypeOK /\ \A a \in Actors : run[a].seen = "none" /\ run[a].pc \in {"idle", "record"}
<1>1. Idle \in RunType /\ NoBridge \in BridgeType /\ NoEvent \in EventType
  BY IdleTyped, BridgeAssumption DEF NoBridge, BridgeType, NoEvent, EventType
<1>2. ASSUME NEW a \in Actors
      PROVE  /\ run[a] \in RunType /\ run[a].seen = "none" /\ run[a].pc \in {"idle", "record"}
             /\ a \in Execs => run[a].exec = a
             /\ a \in Workers => run[a].pc = "idle"
  <2>1. CASE a \in Execs
    <3> DEFINE x == [Idle EXCEPT !.exec = a, !.pc = IF a = First THEN "record" ELSE "idle"]
    <3>1. run[a] = x /\ a \notin Workers
      BY <2>1, BridgeAssumption DEF Init
    <3>2. x \in RunType /\ x.seen = "none" /\ x.pc \in {"idle", "record"} /\ x.exec = a
      BY <1>1, <2>1, IdleTyped DEF RunType, ExecPcs
    <3> HIDE DEF x
    <3> QED
      BY <3>1, <3>2
  <2>2. CASE a \in Workers
    <3>1. run[a] = Idle /\ a \notin Execs
      BY <2>2, BridgeAssumption DEF Init
    <3> QED
      BY <1>1, <2>2, <3>1, IdleTyped
  <2> QED
    BY <2>1, <2>2 DEF Actors
<1>3. RunsTyped
  BY <1>2 DEF RunsTyped, Init, HandlerPcs, ExecPcs, Actors
<1>4. BridgesTyped
  BY <1>1 DEF BridgesTyped, Init, NoBridge
<1>5. EventsTyped /\ JobsTyped
  BY <1>1 DEF EventsTyped, JobsTyped, Init, JobStatus
<1>6. RestTyped
  <2>1. faults \in 0 .. MaxFaults
    <3>1. faults = 0
      BY DEF Init
    <3> QED
      BY <3>1, BridgeAssumption
  <2>2. carried \subseteq Execs \X Nat
    BY Zenon DEF Init
  <2>3. exec \in [Execs -> {"absent", "running", "success", "failed"}]
        /\ approval \in [Execs -> {"none", "open"} \cup Decided] /\ runs \in [Execs -> [1 .. Tail -> Nat]]
    BY DEF Init
  <2> QED
    BY <2>1, <2>2, <2>3 DEF RestTyped
<1> QED
  BY <1>2, <1>3, <1>4, <1>5, <1>6, TypeParts

LEMMA InitInv ==
  ASSUME Init
  PROVE  BridgeInv
<1>1. TypeOK /\ \A a \in Actors : run[a].seen = "none" /\ run[a].pc \in {"idle", "record"}
  BY InitTypes
<1>2. \A e \in Execs : /\ bridge[e].status = "absent" /\ ~ bridge[e].linked /\ bridge[e].lease = "none"
                       /\ bridge[e].fence = 0 /\ bridge[e].attempts = 0
                       /\ approval[e] = "none" /\ event[e].state = "none"
  BY DEF Init, NoBridge, NoEvent
<1>3. Staged /\ OneActive
  BY <1>1, <1>2 DEF Staged, StagedAt, OneActive, Active, Actors
<1>4. SeenSound /\ Approved /\ AtMark /\ QuickOnes
  BY <1>1, <1>2 DEF SeenSound, Approved, AtMark, QuickOnes, Decided, Actors
<1>5. StepsInOrder /\ OneAtAct
  BY <1>1 DEF StepsInOrder, OneAtAct, InStep
<1>6. NoJobNoRun
  BY DEF NoJobNoRun, Init
<1>7. SingleHolder /\ ResumedByHolder /\ ConsumedMeansCarried
  BY <1>1, <1>2 DEF SingleHolder, ResumedByHolder, ConsumedMeansCarried, Holding, TailPcs, Actors
<1> QED
  BY <1>1, <1>3, <1>4, <1>5, <1>6, <1>7 DEF BridgeInv, InOrder

LEMMA BridgeInvNext ==
  ASSUME BridgeInv, [Next]_vars
  PROVE  BridgeInv'
BY TypeOKNext, StagedNext, OneActiveNext, SeenSoundNext, ApprovedNext, AtMarkNext, QuickOnesNext, InOrderNext,
   SingleHolderNext, ResumedNext, ConsumedNext
   DEF BridgeInv

LEMMA AlwaysInv == Spec => []BridgeInv
<1>1. Init => BridgeInv
  BY InitInv
<1>2. BridgeInv /\ [Next]_vars => BridgeInv'
  BY BridgeInvNext
<1> QED
  BY <1>1, <1>2, PTL DEF Spec

(* Every row, event, job and memory of an actor keeps its type, a bridge   *)
(* has a lease exactly while it is in progress, and whoever works on the   *)
(* tail works on a step of it.                                             *)
THEOREM BridgeTyped == Spec => []TypeOK
<1>1. BridgeInv => TypeOK
  BY DEF BridgeInv
<1> QED
  BY <1>1, AlwaysInv, PTL

(* Retries of an execution, however they race, never leave two approvals   *)
(* started of which neither was given up: the unique index makes the bridge*)
(* row of the second impossible, and no approval starts without its row.   *)
THEOREM OneLive_Always == Spec => []OneLiveApproval
<1>1. BridgeInv => OneLiveApproval
  BY OneLive DEF BridgeInv
<1> QED
  BY <1>1, AlwaysInv, PTL

(* Any number of deliveries, crashes and lapsed leases: no two hold the    *)
(* same fence of a bridge, because a claim always takes the next one.      *)
THEOREM SingleHolder_Always == Spec => []SingleHolder
<1>1. BridgeInv => SingleHolder
  BY DEF BridgeInv
<1> QED
  BY <1>1, AlwaysInv, PTL

(* A bridge is resumed only by the delivery that holds its last fence, and *)
(* only after that one came to the end of the execution.                   *)
THEOREM ResumedByHolder_Always == Spec => []ResumedByHolder
<1>1. BridgeInv => ResumedByHolder
  BY DEF BridgeInv
<1> QED
  BY <1>1, AlwaysInv, PTL

(* A completion is consumed only after a delivery carried its execution to *)
(* the end or the bridge no longer waits, early verdicts apart.            *)
THEOREM Consumed_Always == Spec => []ConsumedMeansCarried
<1>1. BridgeInv => ConsumedMeansCarried
  BY DEF BridgeInv
<1> QED
  BY <1>1, AlwaysInv, PTL

(* No step of anybody brings a settled bridge back to one that waits.      *)
THEOREM NeverReopened_Always == Spec => NeverReopened
<1>1. BridgeInv /\ [Next]_vars =>
        [\A e \in Execs : bridge[e].status \in Terminal => bridge'[e].status \in Terminal]_vars
  BY TerminalStays DEF BridgeInv
<1> QED
  BY <1>1, AlwaysInv, PTL DEF Spec, NeverReopened

-----------------------------------------------------------------------------
(* The refinement: every step is one of ApprovalPromise or a stutter.      *)
LEMMA PromiseStep ==
  ASSUME BridgeInv, [Next]_vars
  PROVE  [Promise!Next]_Promise!vars
<1>1. ASSUME NEW b \in Actors, RunAction(b) PROVE Promise!Next
  <2> DEFINE e == run[b].exec
             i == run[b].step
  <2>1. /\ e \in Execs /\ i \in 1 .. Tail /\ run[b].pc = "act"
        /\ UNCHANGED approval
    BY <1>1, RunActionIs DEF BridgeInv
  <2>2. approval[e] = "approved"
    BY <2>1 DEF BridgeInv, SeenSound, Approved, Decided
  <2>3. runs[e][i] = 0 /\ \A j \in 1 .. i - 1 : runs[e][j] = 1
    BY <2>1 DEF BridgeInv, InOrder, StepsInOrder, InStep
  <2>4. runs' = [runs EXCEPT ![e][i] = 1]
    <3>1. runs' = [runs EXCEPT ![e][i] = @ + 1] /\ runs \in [Execs -> [1 .. Tail -> Nat]]
      BY <1>1 DEF RunAction, BridgeInv, TypeOK
    <3>2. [runs EXCEPT ![e][i] = @ + 1] = [runs EXCEPT ![e][i] = 0 + 1]
      BY <2>3
    <3> QED
      BY <3>1, <3>2
  <2> HIDE DEF e, i
  <2> QED
    BY <2>1, <2>2, <2>3, <2>4 DEF Promise!Next, Promise!RunAction
<1>2. CASE UNCHANGED runs
  <2>1. CASE UNCHANGED approval
    BY <1>2, <2>1 DEF Promise!vars
  <2>2. ASSUME NEW e \in Execs, Created(e) PROVE Promise!Next
    <3>1. approval[e] = "none"
      BY <2>2 DEF Created, BridgeInv, Staged, StagedAt
    <3>2. \E state \in {"open", "approved"} : approval' = [approval EXCEPT ![e] = state]
      BY <2>2 DEF Created
    <3> QED
      BY <1>2, <3>1, <3>2 DEF Promise!Next, Promise!Start
  <2>3. ASSUME NEW e \in Execs, VerdictGiven(e) PROVE Promise!Next
    BY <1>2, <2>3 DEF VerdictGiven, Decided, Promise!Next, Promise!Decide
  <2> QED
    BY <2>1, <2>2, <2>3, EventSteps DEF Enqueued, BridgeInv
<1> QED
  BY <1>1, <1>2, RunsSteps

(* What the bridge promises the author of a rule: the tail of an execution *)
(* runs only after its own approval was approved, in order, and no action  *)
(* of it twice, whatever is retried, redelivered, reclaimed or crashes.    *)
THEOREM Promise_Kept == Spec => KeepsPromise
<1>1. Init => Promise!Init
  BY DEF Init, Promise!Init
<1>2. BridgeInv /\ [Next]_vars => [Promise!Next]_Promise!vars
  BY PromiseStep
<1> QED
  BY <1>1, <1>2, AlwaysInv, PTL DEF Spec, KeepsPromise, Promise!Spec
=============================================================================
