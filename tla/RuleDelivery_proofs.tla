------------------------ MODULE RuleDelivery_proofs ------------------------
(***************************************************************************)
(* Proofs about RuleDelivery: the record-trigger sink, composed with the   *)
(* dispatcher, for any replicas, events, rules, leases, skews and faults.  *)
(* What OutboxDispatch_proofs establishes of a step of the dispatcher is   *)
(* used here for the steps of the composition.                             *)
(***************************************************************************)
EXTENDS RuleDelivery, OutboxDispatch_proofs, FiniteSetTheorems

(* A call in CallFails spends a fault and touches nothing of the dispatcher.*)
FaultSpent ==
  /\ faults' \in Nat
  /\ UNCHANGED <<row, loop, beat, stopping, alerted, history>>

LEMMA DispatcherSteps ==
  ASSUME RuleTypeOK, [RuleNext]_rvars
  PROVE  [Next]_vars \/ FaultSpent
<1>1. \A c \in calls : c.by \in Workers
  BY DEF RuleTypeOK, CallType
<1>2. ASSUME NEW c \in calls, AdapterReturns(c) \/ AdapterTimesOut(c) PROVE Next
  <2>1. \E raw \in Raw : Settle(c.by, raw) \/ SettleAborted(c.by, raw)
    BY <1>2 DEF AdapterReturns, AdapterTimesOut, SettleWith, Outcome, Raw
  <2> QED
    BY <1>1, <2>1 DEF Next, LoopStep
<1>3. ASSUME NEW c \in calls, CallStep(c) PROVE UNCHANGED vars
  BY <1>3 DEF CallStep, Load, Insert, Reclaim, Classify, Run, Mark
<1>4. ASSUME NEW c \in calls, NEW executed \in BOOLEAN, CallFails(c, executed) PROVE FaultSpent
  BY <1>4, FaultType DEF CallFails, FaultSpent, RuleTypeOK, TypeOK
<1>5. ASSUME NEW w \in Workers, DispatcherAlone(w) \/ ReplicaEnds(w) PROVE Next
  BY <1>5 DEF DispatcherAlone, ReplicaEnds, Next, LoopStep, FaultStep
<1>6. ASSUME NEW w \in Workers, NEW r \in Rows, Dispatch(w, r) PROVE Next
  BY <1>6 DEF Dispatch, Next, LoopStep
<1>7. CASE TimePasses
  BY <1>7 DEF TimePasses, Next
<1>8. CASE UNCHANGED rvars
  BY <1>8 DEF rvars
<1>9. ASSUME NEW e \in Events, Enqueue(e) PROVE Next
  BY <1>9 DEF Next
<1> QED
  BY <1>2, <1>3, <1>4, <1>5, <1>6, <1>7, <1>8, <1>9 DEF RuleNext

LEMMA FaultKeeps ==
  ASSUME IInv, FaultSpent
  PROVE  IInv'
BY DEF IInv, FaultSpent, TypeOK, Unborn, VerdictSound, SingleOwner, AttemptsAccounted, DoneIsDelivered,
   DroppedForCause, loop, history

LEMMA DispatcherInv ==
  ASSUME IInv, RuleTypeOK, [RuleNext]_rvars
  PROVE  IInv'
BY DispatcherSteps, FaultKeeps, NextIInv

-----------------------------------------------------------------------------
(* What a step does to one call.                                           *)
SameClaim(c, d) == d.by = c.by /\ d.row = c.row /\ d.fence = c.fence
Underway == {"insert", "reclaim", "classify", "run", "mark"}   (* between load and the end *)

(* The run of c's rule begins under d's token, which is new to the ledger. *)
Holds(c, d) ==
  /\ c.phase \in {"insert", "reclaim"} /\ d.phase = "run" /\ d.rule = c.rule
  /\ \/ fires[Fire(c)].status = "none" /\ d.token = 1 /\ fires'[Fire(c)].fence = 1
     \/ /\ Expired(Fire(c)) /\ d.token = fires[Fire(c)].fence + 1
        /\ fires'[Fire(c)].fence = fires[Fire(c)].fence + 1
  /\ started' = [started EXCEPT ![Fire(c)] = @ \cup {d.token}]
  /\ UNCHANGED finished
Finishes(c, d) ==
  /\ c.phase = "run" /\ d.phase = "mark" /\ d.rule = c.rule /\ d.token = c.token
  /\ finished' = [finished EXCEPT ![Fire(c)] = @ \cup {c.token}]
  /\ UNCHANGED <<fires, started>>
Passes(c, d) ==
  /\ \/ c.phase = "load" /\ d.phase \in {"insert", "threw"} /\ d.rule = c.rule
     \/ c.phase = "insert" /\ d.phase = "reclaim" /\ d.rule = c.rule
     \/ c.phase = "reclaim" /\ d.phase = "classify" /\ d.rule = c.rule
     \/ c.phase \in Underway /\ d.phase = "insert" /\ d.rule = c.rule + 1
     \/ c.phase \in Underway /\ d.phase = "returned" /\ d.rule = c.rule
  /\ UNCHANGED <<started, finished>>
CallMoves(c, d) ==
  /\ d \in CallType /\ SameClaim(c, d)
  /\ Holds(c, d) \/ Finishes(c, d) \/ Passes(c, d)

LEMMA AtPhase ==
  ASSUME NEW c \in CallType, NEW p \in Phases
  PROVE  At(c, p) \in CallType /\ SameClaim(c, At(c, p)) /\ At(c, p).phase = p
         /\ At(c, p).rule = c.rule /\ At(c, p).token = c.token
BY DEF At, CallType, SameClaim

LEMMA NextRuleMoves ==
  ASSUME NEW c \in CallType
  PROVE  LET d == NextRule(c) IN
         /\ d \in CallType /\ SameClaim(c, d)
         /\ \/ d.phase = "insert" /\ d.rule = c.rule + 1
            \/ d.phase = "returned" /\ d.rule = c.rule
<1> DEFINE n == c.rule + 1
           d == [c EXCEPT !.phase = "insert", !.rule = n, !.token = 0]
<1>1. CASE c.rule = NumRules
  BY <1>1, AtPhase DEF NextRule, Phases
<1>2. CASE c.rule # NumRules
  <2>1. n \in Rules /\ 0 \in Nat
    BY <1>2, RuleAssumption DEF CallType, Rules
  <2>2. NextRule(c) = d
    BY <1>2 DEF NextRule, CallType
  <2> HIDE DEF n
  <2>3. d \in CallType /\ SameClaim(c, d) /\ d.phase = "insert" /\ d.rule = n
    BY <2>1 DEF CallType, Phases, SameClaim
  <2> HIDE DEF d
  <2> QED
    BY <2>2, <2>3 DEF n
<1> QED
  BY <1>1, <1>2

LEMMA HoldMoves ==
  ASSUME NEW c \in CallType, NEW t \in Nat
  PROVE  LET d == [c EXCEPT !.phase = "run", !.token = t] IN
         d \in CallType /\ SameClaim(c, d) /\ d.phase = "run" /\ d.rule = c.rule /\ d.token = t
BY DEF CallType, SameClaim, Phases

LEMMA CallFacts ==
  ASSUME RuleTypeOK, NEW c \in calls
  PROVE  /\ c \in CallType /\ Fire(c) \in Fires /\ c.row \in Rows /\ c.by \in Workers
         /\ fires[Fire(c)] \in FireType /\ fires[Fire(c)].fence \in Nat
BY DEF RuleTypeOK, CallType, Fire, Fires, Rows, FireType

LEMMA StepMoves ==
  ASSUME RuleTypeOK, NEW c \in calls, CallStep(c)
  PROVE  \E d : Become(c, d) /\ CallMoves(c, d)
<1>1. /\ c \in CallType /\ Fire(c) \in Fires /\ fires[Fire(c)].fence \in Nat /\ fires \in [Fires -> FireType]
      /\ fires[Fire(c)].fence + 1 \in Nat
  BY CallFacts DEF RuleTypeOK
<1>2. CASE Load(c)
  BY <1>1, <1>2, AtPhase DEF Load, CallMoves, Passes, Phases
<1>3. CASE Insert(c)
  <2>1. CASE fires' = [fires EXCEPT ![Fire(c)] = Fresh] /\ Hold(c, 1) /\ fires[Fire(c)].status = "none"
    <3> DEFINE d == [c EXCEPT !.phase = "run", !.token = 1]
    <3>1. d \in CallType /\ SameClaim(c, d) /\ d.phase = "run" /\ d.rule = c.rule /\ d.token = 1
      BY <1>1, HoldMoves
    <3>2. fires'[Fire(c)].fence = 1
      BY <1>1, <2>1 DEF Fresh
    <3>3. Become(c, d) /\ started' = [started EXCEPT ![Fire(c)] = @ \cup {1}]
      BY <2>1 DEF Hold
    <3> HIDE DEF d
    <3>4. Holds(c, d)
      BY <1>3, <2>1, <3>1, <3>2, <3>3 DEF Insert, Holds
    <3> QED
      BY <3>1, <3>3, <3>4 DEF CallMoves
  <2>2. CASE Become(c, At(c, "reclaim")) /\ UNCHANGED <<fires, started>>
    BY <1>1, <1>3, <2>2, AtPhase DEF Insert, CallMoves, Passes, Phases
  <2> QED
    BY <1>3, <2>1, <2>2 DEF Insert
<1>4. CASE Reclaim(c)
  <2>1. CASE /\ fires' = [fires EXCEPT ![Fire(c)] = Reclaimed(Fire(c))]
             /\ Hold(c, Reclaimed(Fire(c)).fence) /\ Expired(Fire(c))
    <3> DEFINE t == fires[Fire(c)].fence + 1
               d == [c EXCEPT !.phase = "run", !.token = t]
    <3>1. d \in CallType /\ SameClaim(c, d) /\ d.phase = "run" /\ d.rule = c.rule /\ d.token = t
      BY <1>1, HoldMoves
    <3>2. Reclaimed(Fire(c)).fence = t
      BY <1>1 DEF Reclaimed, FireType
    <3>3. fires'[Fire(c)].fence = t
      BY <1>1, <2>1, <3>2
    <3>4. Become(c, d) /\ started' = [started EXCEPT ![Fire(c)] = @ \cup {t}]
      BY <2>1, <3>2 DEF Hold
    <3> HIDE DEF d
    <3>5. Holds(c, d)
      BY <1>4, <2>1, <3>1, <3>3, <3>4 DEF Reclaim, Holds
    <3> QED
      BY <3>1, <3>4, <3>5 DEF CallMoves
  <2>2. CASE Become(c, At(c, "classify")) /\ UNCHANGED <<fires, started>>
    BY <1>1, <1>4, <2>2, AtPhase DEF Reclaim, CallMoves, Passes, Phases
  <2> QED
    BY <1>4, <2>1, <2>2 DEF Reclaim
<1>5. CASE Classify(c)
  BY <1>1, <1>5, NextRuleMoves DEF Classify, CallMoves, Passes, Underway
<1>6. CASE Run(c)
  BY <1>1, <1>6, AtPhase DEF Run, CallMoves, Finishes, Phases
<1>7. CASE Mark(c)
  BY <1>1, <1>7, NextRuleMoves DEF Mark, CallMoves, Passes, Underway
<1> QED
  BY <1>2, <1>3, <1>4, <1>5, <1>6, <1>7 DEF CallStep

LEMMA FailMoves ==
  ASSUME RuleTypeOK, NEW c \in calls, NEW executed \in BOOLEAN, CallFails(c, executed)
  PROVE  \E d : Become(c, d) /\ CallMoves(c, d)
<1>1. c \in CallType
  BY CallFacts
<1>2. CASE c.phase = "load"
  BY <1>1, <1>2, AtPhase DEF CallFails, CallMoves, Passes, Phases
<1>3. CASE c.phase # "load"
  <2>1. c.phase \in Underway
    BY <1>1, <1>3 DEF CallFails, Ended, Underway, CallType, Phases
  <2> QED
    BY <1>1, <1>3, <2>1, NextRuleMoves DEF CallFails, CallMoves, Passes
<1> QED
  BY <1>2, <1>3

(* The call of a claim just handed out.                                    *)
NewCall(w, r) == [by |-> w, row |-> r, fence |-> row'[r].fence, phase |-> "load", rule |-> 1, token |-> 0]
Called(w, r) ==
  /\ row'[r].fence = row[r].fence + 1 /\ began' = [began EXCEPT ![r] = @ + 1]
  /\ calls' = calls \cup {NewCall(w, r)}
  /\ UNCHANGED <<fires, started, finished>>

LEMMA DispatchCalls ==
  ASSUME RuleTypeOK, NEW w \in Workers, NEW r \in Rows, Dispatch(w, r)
  PROVE  Called(w, r) /\ NewCall(w, r) \in CallType
<1>1. row'[r].fence = row[r].fence + 1 /\ row'[r] = ClaimedRow(w, r) /\ ClaimedRow(w, r).fence \in Nat
  BY ClaimTakesNewToken, ClaimedRowType DEF RuleTypeOK, Dispatch, ClaimDispatch, ClaimRow, TypeOK
<1>2. 1 \in Rules
  BY RuleAssumption DEF Rules
<1>3. NewCall(w, r) \in CallType
  BY <1>1, <1>2 DEF NewCall, CallType, Phases
<1> QED
  BY <1>1, <1>3 DEF Dispatch, ClaimDispatch, Called, NewCall

(* A step of the composition starts a call, moves one, or lets some go.    *)
LEMMA CallSteps ==
  ASSUME RuleTypeOK, [RuleNext]_rvars
  PROVE  \/ calls' \subseteq calls /\ UNCHANGED <<started, finished, began>>
         \/ \E w \in Workers, r \in Rows : Called(w, r) /\ NewCall(w, r) \in CallType
         \/ \E c \in calls : \E d : Become(c, d) /\ CallMoves(c, d) /\ UNCHANGED began
<1>1. ASSUME NEW c \in calls, AdapterReturns(c) \/ AdapterTimesOut(c)
      PROVE  calls' \subseteq calls /\ UNCHANGED <<started, finished, began>>
  BY <1>1 DEF AdapterReturns, AdapterTimesOut, SettleWith, Settle, SettleAborted, sink
<1>2. ASSUME NEW c \in calls, CallStep(c) PROVE \E d : Become(c, d) /\ CallMoves(c, d) /\ UNCHANGED began
  <2>1. UNCHANGED began
    BY <1>2 DEF CallStep, Load, Insert, Reclaim, Classify, Run, Mark, vars, history
  <2> QED
    BY <1>2, <2>1, StepMoves
<1>3. ASSUME NEW c \in calls, NEW executed \in BOOLEAN, CallFails(c, executed)
      PROVE  \E d : Become(c, d) /\ CallMoves(c, d) /\ UNCHANGED began
  <2>1. UNCHANGED began
    BY <1>3 DEF CallFails, history
  <2> QED
    BY <1>3, <2>1, FailMoves
<1>4. ASSUME NEW w \in Workers, DispatcherAlone(w) \/ ReplicaEnds(w)
      PROVE  calls' \subseteq calls /\ UNCHANGED <<started, finished, began>>
  <2>1. CASE ReplicaEnds(w)
    BY <2>1 DEF ReplicaEnds, Crash, Exit, history
  <2>2. CASE DispatcherAlone(w)
    <3>1. UNCHANGED <<calls, started, finished>>
      BY <2>2 DEF DispatcherAlone, sink
    <3>2. UNCHANGED began
      BY <2>2 DEF DispatcherAlone, BeginTick, ClaimNothing, Resolve, Beat, BeatLands, ClaimError, Stop, Restart,
         ClaimPoison, ClaimReplyLost, BeatFails, ResolveError, history
    <3> QED
      BY <3>1, <3>2
  <2> QED
    BY <1>4, <2>1, <2>2
<1>5. CASE TimePasses
  BY <1>5 DEF TimePasses, Tick, history
<1>6. ASSUME NEW e \in Events, Enqueue(e), UNCHANGED sink
      PROVE  calls' \subseteq calls /\ UNCHANGED <<started, finished, began>>
  BY <1>6 DEF Enqueue, sink, history
<1>7. CASE UNCHANGED rvars
  BY <1>7 DEF rvars, sink, vars, history
<1> QED
  BY <1>1, <1>2, <1>3, <1>4, <1>5, <1>6, <1>7, DispatchCalls DEF RuleNext

-----------------------------------------------------------------------------
(* What a step does to one ledger row: x before, y after.                  *)
MarkedBy(f) == \E c \in calls : c.phase = "mark" /\ Fire(c) = f /\ c.token = fires[f].fence
FireMoves(f, x, y) ==
  \/ y = x
  \/ x.status = "none" /\ y.status = "in_progress" /\ y.lease = SinkLease /\ y.fence = 1
  \/ /\ x.status = "in_progress" /\ x.lease < 0
     /\ y.status = "in_progress" /\ y.lease = SinkLease /\ y.fence = x.fence + 1
  \/ /\ x.status = "in_progress" /\ MarkedBy(f)
     /\ y.status = "done" /\ y.lease = NULL /\ y.fence = x.fence
  \/ /\ x.status = "in_progress" /\ y.status = "in_progress" /\ y.lease \in Int /\ y.fence = x.fence

LEMMA LedgerWrites ==
  ASSUME NEW x \in FireType, NEW c
  PROVE  /\ Fresh \in FireType /\ Fresh.status = "in_progress" /\ Fresh.lease = SinkLease /\ Fresh.fence = 1
         /\ \A f : fires[f] = x => /\ Reclaimed(f) \in FireType /\ Reclaimed(f).status = x.status
                                  /\ Reclaimed(f).lease = SinkLease /\ Reclaimed(f).fence = x.fence + 1
         /\ fires[Fire(c)] = x =>
              \/ Marked(c) = x
              \/ /\ x.status = "in_progress" /\ x.fence = c.token /\ Marked(c) \in FireType
                 /\ Marked(c).status = "done" /\ Marked(c).lease = NULL /\ Marked(c).fence = x.fence
<1>1. SinkLease \in Int /\ x.fence + 1 \in Nat
  BY RuleAssumption DEF FireType
<1>2. /\ Fresh \in FireType /\ Fresh.status = "in_progress" /\ Fresh.lease = SinkLease /\ Fresh.fence = 1
  BY <1>1 DEF Fresh, FireType
<1>3. ASSUME NEW f, fires[f] = x
      PROVE  /\ Reclaimed(f) \in FireType /\ Reclaimed(f).status = x.status
             /\ Reclaimed(f).lease = SinkLease /\ Reclaimed(f).fence = x.fence + 1
  BY <1>1, <1>3 DEF Reclaimed, FireType
<1>4. ASSUME fires[Fire(c)] = x, x.status = "in_progress", x.fence = c.token
      PROVE  /\ Marked(c) \in FireType /\ Marked(c).status = "done"
             /\ Marked(c).lease = NULL /\ Marked(c).fence = x.fence
  BY <1>4 DEF Marked, FireType
<1>5. fires[Fire(c)] = x /\ ~ (x.status = "in_progress" /\ x.fence = c.token) => Marked(c) = x
  BY DEF Marked
<1> QED
  BY <1>2, <1>3, <1>4, <1>5

(* One write of one row, with what it leaves there.                        *)
LEMMA CallWrites ==
  ASSUME RuleTypeOK, NEW c \in calls,
         CallStep(c) \/ \E executed \in BOOLEAN : CallFails(c, executed)
  PROVE  \E y \in FireType : /\ fires' = [fires EXCEPT ![Fire(c)] = y]
                             /\ FireMoves(Fire(c), fires[Fire(c)], y)
<1> DEFINE g == Fire(c)
           x == fires[g]
           Wrote == \E y \in FireType : fires' = [fires EXCEPT ![g] = y] /\ FireMoves(g, x, y)
<1>1. g \in Fires /\ x \in FireType /\ fires \in [Fires -> FireType]
  BY CallFacts DEF RuleTypeOK
<1>2. ASSUME fires' = fires \/ fires' = [fires EXCEPT ![g] = x] PROVE Wrote
  BY <1>1, <1>2 DEF FireMoves
<1>3. ASSUME x.status = "none", fires' = [fires EXCEPT ![g] = Fresh] PROVE Wrote
  BY <1>1, <1>3, LedgerWrites DEF FireMoves
<1>4. ASSUME Expired(g), fires' = [fires EXCEPT ![g] = Reclaimed(g)] PROVE Wrote
  <2> DEFINE y == Reclaimed(g)
  <2>1. y \in FireType /\ y.status = x.status /\ y.lease = SinkLease /\ y.fence = x.fence + 1
    BY <1>1, LedgerWrites
  <2>2. x.status = "in_progress" /\ x.lease < 0
    BY <1>4 DEF Expired
  <2> HIDE DEF y
  <2>3. FireMoves(g, x, y)
    BY <2>1, <2>2 DEF FireMoves
  <2> QED
    BY <1>4, <2>1, <2>3 DEF y
<1>5. ASSUME c.phase = "mark", fires' = [fires EXCEPT ![g] = Marked(c)] PROVE Wrote
  <2>1. \/ Marked(c) = x
        \/ /\ x.status = "in_progress" /\ x.fence = c.token /\ Marked(c) \in FireType
           /\ Marked(c).status = "done" /\ Marked(c).lease = NULL /\ Marked(c).fence = x.fence
    BY <1>1, LedgerWrites
  <2>2. x.fence = c.token => MarkedBy(g)
    BY <1>5 DEF MarkedBy
  <2> HIDE DEF g, x, Wrote
  <2>3. FireMoves(g, x, Marked(c)) /\ Marked(c) \in FireType
    BY <1>1, <2>1, <2>2 DEF FireMoves
  <2> QED
    BY <1>5, <2>3 DEF Wrote
<1> HIDE DEF Wrote
<1>6. ASSUME CallStep(c) PROVE Wrote
  BY <1>2, <1>3, <1>4, <1>5, <1>6 DEF CallStep, Load, Insert, Reclaim, Classify, Run, Mark
<1>7. ASSUME NEW executed \in BOOLEAN, CallFails(c, executed) PROVE Wrote
  <2>1. fires' = [fires EXCEPT ![g] =
          CASE executed /\ c.phase = "insert" /\ x.status = "none" -> Fresh
            [] executed /\ c.phase = "reclaim" /\ Expired(g) -> Reclaimed(g)
            [] executed /\ c.phase = "mark" -> Marked(c)
            [] OTHER -> x]
    BY <1>7 DEF CallFails
  <2>2. CASE executed /\ c.phase = "insert" /\ x.status = "none"
    BY <1>3, <2>1, <2>2
  <2>3. CASE executed /\ c.phase = "reclaim" /\ Expired(g)
    BY <1>4, <2>1, <2>3
  <2>4. CASE executed /\ c.phase = "mark"
    BY <1>5, <2>1, <2>4
  <2>5. CASE ~ (\/ executed /\ c.phase = "insert" /\ x.status = "none"
                \/ executed /\ c.phase = "reclaim" /\ Expired(g)
                \/ executed /\ c.phase = "mark")
    BY <1>2, <2>1, <2>5
  <2> QED
    BY <2>2, <2>3, <2>4, <2>5
<1> QED
  BY <1>6, <1>7 DEF Wrote

LEMMA FireNext ==
  ASSUME RuleTypeOK, [RuleNext]_rvars
  PROVE  /\ fires' \in [Fires -> FireType]
         /\ \A f \in Fires : FireMoves(f, fires[f], fires'[f])
<1>1. fires \in [Fires -> FireType]
  BY DEF RuleTypeOK
<1>2. CASE UNCHANGED fires
  BY <1>1, <1>2 DEF FireMoves
<1>3. ASSUME NEW c \in calls, CallStep(c) \/ \E executed \in BOOLEAN : CallFails(c, executed)
      PROVE  fires' \in [Fires -> FireType] /\ \A f \in Fires : FireMoves(f, fires[f], fires'[f])
  <2>1. PICK y \in FireType : fires' = [fires EXCEPT ![Fire(c)] = y] /\ FireMoves(Fire(c), fires[Fire(c)], y)
    BY <1>3, CallWrites
  <2>2. \A f \in Fires : fires'[f] = IF f = Fire(c) THEN y ELSE fires[f]
    BY <1>1, <2>1
  <2>3. \A f \in Fires : fires[f] = fires'[f] => FireMoves(f, fires[f], fires'[f])
    BY DEF FireMoves
  <2> QED
    BY <1>1, <2>1, <2>2, <2>3
<1>4. CASE TimePasses
  <2>1. ASSUME NEW f \in Fires PROVE fires'[f] \in FireType /\ FireMoves(f, fires[f], fires'[f])
    <3> DEFINE x == fires[f]
               l == FireAged(x.lease)
    <3>1. x \in FireType
      BY <1>1
    <3>2. CASE x.status = "in_progress"
      <4>1. fires'[f] = [x EXCEPT !.lease = l]
        BY <1>4, <3>1, <3>2 DEF TimePasses, FireType
      <4>2. x.lease \in Int
        BY <3>1, <3>2 DEF FireType, RuleTypeOK
      <4>3. l \in Int
        BY <4>2 DEF FireAged
      <4> HIDE DEF l
      <4> QED
        BY <3>1, <3>2, <4>1, <4>3 DEF FireType, FireMoves
    <3>3. CASE x.status # "in_progress"
      BY <1>4, <3>1, <3>3 DEF TimePasses, FireMoves
    <3> QED
      BY <3>2, <3>3
  <2> QED
    BY <1>4, <2>1 DEF TimePasses
<1> QED
  BY <1>2, <1>3, <1>4 DEF RuleNext, Dispatch, DispatcherAlone, ReplicaEnds, AdapterReturns, AdapterTimesOut,
     sink, rvars

-----------------------------------------------------------------------------
(* The invariant of the sink.  Behind: a claim hands out a fence no call of*)
(* the row has, so that calls are told apart by it.  Credit: what a call   *)
(* holds of the ledger, and that its run came to its end before mark.      *)
Behind == \A c \in calls : c.fence <= row[c.row].fence
Credit ==
  /\ \A f \in Fires : fires[f].status = "none" => fires[f].fence = 0
  /\ \A c \in calls : c.phase \in {"run", "mark"} => c.token >= 1
  /\ \A c \in calls : c.phase = "mark" => c.token \in finished[Fire(c)]

(* Calls of row r that may still start the rule of f.                      *)
MayStart(c, f) ==
  c.phase \notin Ended /\ (c.rule < f[2] \/ (c.rule = f[2] /\ c.phase \in {"load", "insert", "reclaim"}))
Yet(f, r) == {c \in calls : c.row = r /\ MayStart(c, f)}
Budget ==
  /\ IsFiniteSet(calls)
  /\ \A f \in Fires : IsFiniteSet(started[f])
  /\ \A f \in Fires, r \in Rows :
       r[1] = f[1] => Cardinality(started[f]) + Cardinality(Yet(f, r)) <= began[r]

LEMMA RowFenceGrows ==
  ASSUME IInv, RuleTypeOK, [RuleNext]_rvars, NEW r \in Rows
  PROVE  row[r].fence \in Nat /\ row'[r].fence \in Nat /\ row[r].fence <= row'[r].fence
<1>1. row[r].fence \in Nat
  BY DEF RuleTypeOK, TypeOK, RowType
<1>2. CASE FaultSpent
  BY <1>1, <1>2 DEF FaultSpent
<1>3. CASE [Next]_vars
  <2>1. TypeOK /\ (row[r].status = "absent" => row[r] = NoRow)
    BY DEF IInv, Unborn
  <2>2. RowStep(r)
    BY <1>3, <2>1, RowEffects
  <2> QED
    BY <1>1, <2>1, <2>2, FenceGrows
<1> QED
  BY <1>1, <1>2, <1>3, DispatcherSteps

LEMMA BecomeOne ==
  ASSUME NEW c \in calls, NEW d, Become(c, d)
  PROVE  \A x \in calls' : (x \in calls /\ x # c) \/ x = d
BY DEF Become

LEMMA CallsNext ==
  ASSUME IInv, RuleTypeOK, Behind, [RuleNext]_rvars
  PROVE  /\ calls' \subseteq CallType
         /\ \A c, d \in calls' : c.row = d.row /\ c.fence = d.fence => c = d
         /\ Behind'
<1>1. calls \subseteq CallType /\ \A c, d \in calls : c.row = d.row /\ c.fence = d.fence => c = d
  BY DEF RuleTypeOK
<1>2. \A c \in CallType : c.row \in Rows /\ c.fence \in Nat
  BY DEF CallType
<1>3. \A c \in calls : c.fence <= row'[c.row].fence
  BY <1>1, <1>2, RowFenceGrows DEF Behind
<1>4. CASE calls' \subseteq calls
  BY <1>1, <1>3, <1>4 DEF Behind
<1>5. ASSUME NEW w \in Workers, NEW r \in Rows, Called(w, r), NewCall(w, r) \in CallType
      PROVE  /\ calls' \subseteq CallType
             /\ \A c, d \in calls' : c.row = d.row /\ c.fence = d.fence => c = d
             /\ Behind'
  <2> DEFINE n == NewCall(w, r)
  <2>1. n.row = r /\ n.fence = row[r].fence + 1 /\ n.fence = row'[r].fence /\ row[r].fence \in Nat
    BY <1>5, RowFenceGrows DEF Called, NewCall
  <2>2. calls' = calls \cup {n} /\ n \in CallType
    BY <1>5 DEF Called
  <2> HIDE DEF n
  <2>3. \A c \in calls : ~ (c.row = n.row /\ c.fence = n.fence)
    BY <1>1, <1>2, <2>1 DEF Behind
  <2>4. \A c \in calls' : c.fence <= row'[c.row].fence
    BY <1>3, <2>1, <2>2
  <2> QED
    BY <1>1, <2>2, <2>3, <2>4 DEF Behind
<1>6. ASSUME NEW c \in calls, NEW d, Become(c, d), CallMoves(c, d)
      PROVE  /\ calls' \subseteq CallType
             /\ \A x, y \in calls' : x.row = y.row /\ x.fence = y.fence => x = y
             /\ Behind'
  <2>1. d \in CallType /\ d.row = c.row /\ d.fence = c.fence
    BY <1>6 DEF CallMoves, SameClaim
  <2>2. \A x \in calls' : (x \in calls /\ x # c) \/ x = d
    BY <1>6, BecomeOne
  <2>3. \A x \in calls' : x.fence <= row'[x.row].fence
    BY <1>3, <2>1, <2>2
  <2> QED
    BY <1>1, <2>1, <2>2, <2>3 DEF Behind
<1> QED
  BY <1>4, <1>5, <1>6, CallSteps

LEMMA HistoryTypes ==
  ASSUME RuleTypeOK, [RuleNext]_rvars
  PROVE  /\ started' \in [Fires -> SUBSET Nat] /\ finished' \in [Fires -> SUBSET Nat]
         /\ busy' \in [Rows -> SUBSET Nat]
<1>1. started \in [Fires -> SUBSET Nat] /\ finished \in [Fires -> SUBSET Nat] /\ busy \in [Rows -> SUBSET Nat]
  BY DEF RuleTypeOK
<1>2. ASSUME NEW c \in calls, NEW d, CallMoves(c, d)
      PROVE  started' \in [Fires -> SUBSET Nat] /\ finished' \in [Fires -> SUBSET Nat]
  <2>1. c.token \in Nat /\ d.token \in Nat /\ Fire(c) \in Fires
    BY <1>2, CallFacts DEF CallMoves, CallType
  <2>2. CASE Holds(c, d)
    BY <1>1, <2>1, <2>2 DEF Holds
  <2>3. CASE Finishes(c, d)
    BY <1>1, <2>1, <2>3 DEF Finishes
  <2>4. CASE Passes(c, d)
    BY <1>1, <2>4 DEF Passes
  <2> QED
    BY <1>2, <2>2, <2>3, <2>4 DEF CallMoves
<1>3. started' \in [Fires -> SUBSET Nat] /\ finished' \in [Fires -> SUBSET Nat]
  BY <1>1, <1>2, CallSteps DEF Called
<1>4. ASSUME NEW c \in calls, Classify(c) PROVE busy' \in [Rows -> SUBSET Nat]
  <2>1. c.row \in Rows /\ c.fence \in Nat
    BY CallFacts DEF CallType
  <2>2. busy' = busy \/ busy' = [busy EXCEPT ![c.row] = @ \cup {c.fence}]
    BY <1>4 DEF Classify
  <2> QED
    BY <1>1, <2>1, <2>2
<1>5. busy' \in [Rows -> SUBSET Nat]
  BY <1>1, <1>4 DEF RuleNext, Dispatch, DispatcherAlone, ReplicaEnds, AdapterReturns, AdapterTimesOut, TimePasses,
     CallStep, Load, Insert, Reclaim, Run, Mark, CallFails, sink, rvars
<1> QED
  BY <1>3, <1>5

LEMMA RuleTypeNext ==
  ASSUME IInv, RuleTypeOK, Behind, [RuleNext]_rvars
  PROVE  RuleTypeOK' /\ Behind'
<1>1. TypeOK'
  BY DispatcherInv DEF IInv
<1>2. ASSUME NEW f \in Fires PROVE fires'[f].status = "in_progress" <=> fires'[f].lease # NULL
  <2>1. fires[f].status = "in_progress" <=> fires[f].lease # NULL
    BY DEF RuleTypeOK
  <2>2. NULL \notin Int /\ SinkLease \in Int
    BY DispatchAssumption, RuleAssumption
  <2> QED
    BY <2>1, <2>2, FireNext DEF FireMoves
<1> QED
  BY <1>1, <1>2, FireNext, CallsNext, HistoryTypes DEF RuleTypeOK

LEMMA FireFenceGrows ==
  ASSUME RuleTypeOK, Credit, [RuleNext]_rvars, NEW f \in Fires
  PROVE  fires[f].fence \in Nat /\ fires'[f].fence \in Nat /\ fires[f].fence <= fires'[f].fence
<1>1. fires[f].fence \in Nat /\ (fires[f].status = "none" => fires[f].fence = 0)
  BY DEF RuleTypeOK, FireType, Credit
<1>2. FireMoves(f, fires[f], fires'[f])
  BY FireNext
<1> QED
  BY <1>1, <1>2 DEF FireMoves

(* A run is held under a fence of the row that nobody held before.         *)
LEMMA HoldIsNew ==
  ASSUME RuleTypeOK, Credit, [RuleNext]_rvars, NEW c \in calls, NEW d, CallMoves(c, d), Holds(c, d)
  PROVE  /\ d.phase = "run" /\ Fire(d) = Fire(c) /\ d.token \in Nat /\ d.token >= 1
         /\ d.token = fires'[Fire(c)].fence /\ fires[Fire(c)].fence < d.token
<1>1. fires[Fire(c)].fence \in Nat /\ (fires[Fire(c)].status = "none" => fires[Fire(c)].fence = 0)
  BY CallFacts DEF Credit
<1>2. Fire(d) = Fire(c) /\ d.phase = "run"
  BY DEF CallMoves, SameClaim, Holds, Fire
<1> QED
  BY <1>1, <1>2 DEF Holds

LEMMA CreditNext ==
  ASSUME RuleTypeOK, Credit, [RuleNext]_rvars
  PROVE  Credit'
<1>1. ASSUME NEW f \in Fires, fires'[f].status = "none" PROVE fires'[f].fence = 0
  <2>1. FireMoves(f, fires[f], fires'[f])
    BY FireNext
  <2> QED
    BY <1>1, <2>1 DEF FireMoves, Credit
<1> DEFINE Good(c) == /\ c.phase \in {"run", "mark"} => c.token >= 1
                      /\ c.phase = "mark" => c.token \in finished'[Fire(c)]
<1>2. ASSUME NEW c \in calls, UNCHANGED finished PROVE Good(c)
  BY <1>2 DEF Credit
<1>3. CASE calls' \subseteq calls /\ UNCHANGED finished
  BY <1>1, <1>2, <1>3 DEF Credit
<1>4. ASSUME NEW w \in Workers, NEW r \in Rows, Called(w, r)
      PROVE  Credit'
  <2>1. NewCall(w, r).phase = "load"
    BY DEF NewCall
  <2>2. calls' = calls \cup {NewCall(w, r)} /\ UNCHANGED finished
    BY <1>4 DEF Called
  <2>3. \A c \in calls' : Good(c)
    BY <1>2, <2>1, <2>2
  <2> QED
    BY <1>1, <2>3 DEF Credit
<1>5. ASSUME NEW c \in calls, NEW d, Become(c, d), CallMoves(c, d)
      PROVE  Credit'
  <2>1. Fire(c) \in Fires /\ finished \in [Fires -> SUBSET Nat] /\ \A x \in calls : Fire(x) \in Fires
    BY CallFacts DEF RuleTypeOK
  <2>2. finished' = finished \/ finished' = [finished EXCEPT ![Fire(c)] = @ \cup {c.token}]
    BY <1>5 DEF CallMoves, Holds, Finishes, Passes
  <2>3. \A x \in calls : Good(x)
    BY <2>1, <2>2 DEF Credit
  <2>4. Good(d)
    <3>1. CASE Holds(c, d)
      BY <1>5, <3>1, HoldIsNew
    <3>2. CASE Finishes(c, d)
      <4>1. Fire(d) = Fire(c) /\ d.token = c.token /\ c.token >= 1 /\ c.token \in finished'[Fire(c)]
        BY <1>5, <2>1, <3>2 DEF CallMoves, Finishes, SameClaim, Fire, Credit
      <4> QED
        BY <4>1
    <3>3. CASE Passes(c, d)
      BY <3>3 DEF Passes
    <3> QED
      BY <1>5, <3>1, <3>2, <3>3 DEF CallMoves
  <2>5. \A x \in calls' : Good(x)
    BY <1>5, <2>3, <2>4, BecomeOne
  <2> QED
    BY <1>1, <2>5 DEF Credit
<1> QED
  BY <1>3, <1>4, <1>5, CallSteps

LEMMA RuleSingleOwnerNext ==
  ASSUME RuleTypeOK, Credit, RuleSingleOwner, [RuleNext]_rvars
  PROVE  RuleSingleOwner'
<1> DEFINE InRun(c) == c.phase \in {"run", "mark"}
           Apart(c, d) == InRun(c) /\ InRun(d) /\ Fire(c) = Fire(d) /\ c # d => c.token # d.token
<1>1. \A c \in calls : InRun(c) => c.token \in Nat /\ c.token <= fires[Fire(c)].fence
  BY CallFacts DEF RuleSingleOwner, Running, CallType
<1>2. \A c, d \in calls : Apart(c, d)
  BY CallFacts DEF RuleSingleOwner, Running
<1>3. \A c \in calls : InRun(c) => c.token <= fires'[Fire(c)].fence
  BY <1>1, CallFacts, FireFenceGrows
<1>4. ASSUME \A c \in calls' : InRun(c) => c.token <= fires'[Fire(c)].fence,
             \A c, d \in calls' : Apart(c, d)
      PROVE  RuleSingleOwner'
  BY <1>4 DEF RuleSingleOwner, Running, Fire
<1>5. CASE \A x \in calls' : x \in calls \/ ~InRun(x)
  BY <1>2, <1>3, <1>4, <1>5
<1>6. ASSUME NEW w \in Workers, NEW r \in Rows, Called(w, r)
      PROVE  \A x \in calls' : x \in calls \/ ~InRun(x)
  BY <1>6 DEF Called, NewCall
<1>7. ASSUME NEW c \in calls, NEW d, Become(c, d), CallMoves(c, d)
      PROVE  RuleSingleOwner'
  <2>1. \A x \in calls' : (x \in calls /\ x # c) \/ x = d
    BY <1>7, BecomeOne
  <2>2. CASE Passes(c, d)
    BY <1>5, <2>1, <2>2 DEF Passes
  <2>3. CASE Finishes(c, d)
    <3>1. Fire(d) = Fire(c) /\ d.token = c.token /\ InRun(c)
      BY <1>7, <2>3 DEF CallMoves, Finishes, SameClaim, Fire
    <3>2. \A x \in calls' : InRun(x) => x.token <= fires'[Fire(x)].fence
      BY <1>3, <2>1, <3>1
    <3>3. \A x, y \in calls' : Apart(x, y)
      BY <1>2, <2>1, <3>1
    <3> QED
      BY <1>4, <3>2, <3>3
  <2>4. CASE Holds(c, d)
    <3>1. /\ Fire(d) = Fire(c) /\ d.token \in Nat /\ d.token = fires'[Fire(c)].fence
          /\ fires[Fire(c)].fence < d.token /\ fires[Fire(c)].fence \in Nat
      BY <1>7, <2>4, HoldIsNew, CallFacts
    <3>2. \A x \in calls' : InRun(x) => x.token <= fires'[Fire(x)].fence
      BY <1>3, <2>1, <3>1
    <3>3. \A x \in calls : InRun(x) /\ Fire(x) = Fire(d) => x.token < d.token
      BY <1>1, <3>1
    <3>4. \A x, y \in calls' : Apart(x, y)
      BY <1>2, <2>1, <3>1, <3>3, <1>1
    <3> QED
      BY <1>4, <3>2, <3>4
  <2> QED
    BY <1>7, <2>2, <2>3, <2>4 DEF CallMoves
<1> QED
  BY <1>5, <1>6, <1>7, CallSteps

LEMMA DoneMeansRunNext ==
  ASSUME RuleTypeOK, Credit, DoneMeansRun, [RuleNext]_rvars
  PROVE  DoneMeansRun'
<1>1. ASSUME NEW f \in Fires PROVE finished[f] \subseteq finished'[f]
  <2>1. finished \in [Fires -> SUBSET Nat]
    BY DEF RuleTypeOK
  <2>2. ASSUME NEW c \in calls, NEW d, CallMoves(c, d) PROVE finished[f] \subseteq finished'[f]
    BY <2>1, <2>2, CallFacts DEF CallMoves, Holds, Finishes, Passes
  <2> QED
    BY <2>2, CallSteps DEF Called
<1>2. ASSUME NEW f \in Fires, fires'[f].status = "done" PROVE fires'[f].fence \in finished[f]
  <2>1. FireMoves(f, fires[f], fires'[f])
    BY FireNext
  <2>2. CASE fires'[f] = fires[f]
    BY <1>2, <2>2 DEF DoneMeansRun
  <2>3. CASE MarkedBy(f) /\ fires'[f].fence = fires[f].fence
    BY <2>3 DEF MarkedBy, Credit
  <2> QED
    BY <1>2, <2>1, <2>2, <2>3 DEF FireMoves
<1> QED
  BY <1>1, <1>2 DEF DoneMeansRun

-----------------------------------------------------------------------------
(* Only a call that takes a fence starts a run: of a row nobody had, or of *)
(* one whose lease has run out.                                            *)
LEMMA StartedAt ==
  ASSUME RuleTypeOK, [RuleNext]_rvars, NEW f \in Fires, started'[f] # started[f]
  PROVE  \E c \in calls : \E d : Holds(c, d) /\ Fire(c) = f
<1>1. started \in [Fires -> SUBSET Nat]
  BY DEF RuleTypeOK
<1>2. PICK c \in calls : \E d : CallMoves(c, d)
  BY CallSteps DEF Called
<1>3. PICK d : CallMoves(c, d)
  BY <1>2
<1>4. Holds(c, d)
  BY <1>3 DEF CallMoves, Finishes, Passes
<1> QED
  BY <1>1, <1>4 DEF Holds

LEMMA NoRerunStep ==
  ASSUME RuleTypeOK, Credit, RuleSingleOwner, [RuleNext]_rvars, NEW f \in Fires, started'[f] # started[f]
  PROVE  fires[f].status # "done" /\ \A c \in Running(f) : fires[f].lease < 0
<1>1. PICK c \in calls : \E d : Holds(c, d) /\ Fire(c) = f
  BY StartedAt
<1>2. CASE Expired(f)
  BY <1>2 DEF Expired
<1>3. CASE fires[f].status = "none"
  <2>1. fires[f].fence = 0
    BY <1>3 DEF Credit
  <2>2. \A b \in Running(f) : b.token >= 1 /\ b.token <= fires[f].fence /\ b.token \in Nat
    BY CallFacts DEF Running, Credit, RuleSingleOwner, CallType
  <2>3. Running(f) = {}
    BY <2>1, <2>2
  <2> QED
    BY <1>3, <2>3
<1> QED
  BY <1>1, <1>2, <1>3 DEF Holds

-----------------------------------------------------------------------------
(* Counting runs.                                                          *)
LEMMA OneMore ==
  ASSUME NEW S, IsFiniteSet(S), NEW x, NEW T, T \subseteq S \cup {x}
  PROVE  /\ IsFiniteSet(T)
         /\ Cardinality(T) \in Nat /\ Cardinality(S) \in Nat /\ Cardinality(T) <= Cardinality(S) + 1
<1>1. IsFiniteSet(S \cup {x}) /\ Cardinality(S \cup {x}) \in {Cardinality(S), Cardinality(S) + 1}
  BY FS_AddElement
<1>2. IsFiniteSet(T) /\ Cardinality(T) <= Cardinality(S \cup {x})
  BY <1>1, FS_Subset
<1> QED
  BY <1>1, <1>2, FS_CardinalityType

LEMMA OneLess ==
  ASSUME NEW S, IsFiniteSet(S), NEW x \in S, NEW T, T \subseteq S \ {x}
  PROVE  /\ IsFiniteSet(T)
         /\ Cardinality(T) \in Nat /\ Cardinality(S) \in Nat /\ Cardinality(T) + 1 <= Cardinality(S)
<1>1. IsFiniteSet(S \ {x}) /\ Cardinality(S \ {x}) = Cardinality(S) - 1
  BY FS_RemoveElement
<1>2. IsFiniteSet(T) /\ Cardinality(T) <= Cardinality(S \ {x})
  BY <1>1, FS_Subset
<1> QED
  BY <1>1, <1>2, FS_CardinalityType

LEMMA NoMore ==
  ASSUME NEW S, IsFiniteSet(S), NEW T, T \subseteq S
  PROVE  /\ IsFiniteSet(T)
         /\ Cardinality(T) \in Nat /\ Cardinality(S) \in Nat /\ Cardinality(T) <= Cardinality(S)
BY FS_Subset, FS_CardinalityType

LEMMA Swapped ==
  ASSUME NEW S, IsFiniteSet(S), NEW x \in S, NEW y, NEW T, T \subseteq (S \ {x}) \cup {y}
  PROVE  Cardinality(T) \in Nat /\ Cardinality(S) \in Nat /\ Cardinality(T) <= Cardinality(S)
<1> DEFINE R == S \ {x}
<1>1. IsFiniteSet(R) /\ Cardinality(R) \in Nat /\ Cardinality(S) \in Nat /\ Cardinality(R) + 1 <= Cardinality(S)
  BY OneLess
<1> HIDE DEF R
<1>2. Cardinality(T) \in Nat /\ Cardinality(T) <= Cardinality(R) + 1
  BY <1>1, OneMore DEF R
<1> QED
  BY <1>1, <1>2

(* A call only ever moves away from the starts it has left.                *)
LEMMA StartsLeft ==
  ASSUME NEW c \in CallType, NEW d, CallMoves(c, d), NEW f \in Fires, MayStart(d, f)
  PROVE  MayStart(c, f)
<1>1. c.rule \in Int /\ d.rule \in Int /\ f[2] \in Int
  BY DEF CallMoves, CallType, Rules, Fires
<1>2. CASE Holds(c, d) \/ Finishes(c, d)
  BY <1>1, <1>2 DEF Holds, Finishes, MayStart, Ended
<1>3. CASE Passes(c, d)
  <2>1. CASE c.phase = "load"
    BY <1>1, <1>3, <2>1 DEF Passes, MayStart, Ended, Underway
  <2>2. CASE c.phase # "load"
    BY <1>1, <1>3, <2>2 DEF Passes, MayStart, Ended, Underway
  <2> QED
    BY <2>1, <2>2
<1> QED
  BY <1>2, <1>3 DEF CallMoves

LEMMA SameEventSameRow ==
  ASSUME NEW q \in Rows, NEW r \in Rows, q[1] = r[1]
  PROVE  q = r
<1>1. q = <<q[1], q[2]>> /\ r = <<r[1], r[2]>> /\ q[2] \in Keys /\ r[2] \in Keys
  BY DEF Rows
<1> QED
  BY <1>1, RuleAssumption

LEMMA BudgetNext ==
  ASSUME RuleTypeOK, Budget, [RuleNext]_rvars
  PROVE  Budget'
<1> DEFINE Left(f, r) == {c \in calls' : c.row = r /\ MayStart(c, f)}
           Within(f, r) == Cardinality(started'[f]) + Cardinality(Left(f, r)) <= began'[r]
<1>1. /\ calls \subseteq CallType /\ IsFiniteSet(calls)
      /\ started \in [Fires -> SUBSET Nat] /\ began \in [Rows -> Nat]
      /\ \A f \in Fires : IsFiniteSet(started[f])
  BY DEF RuleTypeOK, TypeOK, Budget
<1>2. ASSUME NEW f \in Fires, NEW r \in Rows
      PROVE  /\ IsFiniteSet(started[f]) /\ IsFiniteSet(Yet(f, r)) /\ began[r] \in Nat
             /\ Cardinality(started[f]) \in Nat /\ Cardinality(Yet(f, r)) \in Nat
             /\ r[1] = f[1] => Cardinality(started[f]) + Cardinality(Yet(f, r)) <= began[r]
  <2>1. Yet(f, r) \subseteq calls
    BY DEF Yet
  <2> QED
    BY <1>1, <2>1, NoMore, FS_CardinalityType DEF Budget
<1>3. ASSUME IsFiniteSet(calls'), \A f \in Fires : IsFiniteSet(started'[f]),
             \A f \in Fires, r \in Rows : r[1] = f[1] => Within(f, r)
      PROVE  Budget'
  BY <1>3 DEF Budget, Yet, MayStart
<1>4. CASE calls' \subseteq calls /\ UNCHANGED <<started, began>>
  <2>1. IsFiniteSet(calls')
    BY <1>1, <1>4, NoMore
  <2>2. ASSUME NEW f \in Fires, NEW r \in Rows, r[1] = f[1] PROVE Within(f, r)
    <3>1. Left(f, r) \subseteq Yet(f, r)
      BY <1>4 DEF Yet
    <3>2. Cardinality(Left(f, r)) \in Nat /\ Cardinality(Left(f, r)) <= Cardinality(Yet(f, r))
      BY <1>2, <3>1, NoMore
    <3> QED
      BY <1>2, <1>4, <2>2, <3>2
  <2> QED
    BY <1>1, <1>3, <1>4, <2>1, <2>2
<1>5. ASSUME NEW w \in Workers, NEW q \in Rows, Called(w, q)
      PROVE  Budget'
  <2> DEFINE n == NewCall(w, q)
  <2>1. calls' = calls \cup {n} /\ n.row = q /\ started' = started /\ began' = [began EXCEPT ![q] = @ + 1]
    BY <1>5 DEF Called, NewCall
  <2> HIDE DEF n
  <2>2. IsFiniteSet(calls')
    <3>1. calls' \subseteq calls \cup {n}
      BY <2>1
    <3> QED
      BY <1>1, <3>1, OneMore
  <2>3. ASSUME NEW f \in Fires, NEW r \in Rows, r[1] = f[1] PROVE Within(f, r)
    <3>1. CASE r = q
      <4>1. Left(f, r) \subseteq Yet(f, r) \cup {n}
        BY <2>1 DEF Yet
      <4>2. Cardinality(Left(f, r)) \in Nat /\ Cardinality(Left(f, r)) <= Cardinality(Yet(f, r)) + 1
        BY <1>2, <4>1, OneMore
      <4>3. began'[r] = began[r] + 1
        BY <1>1, <2>1, <3>1
      <4> QED
        BY <1>2, <2>1, <2>3, <4>2, <4>3
    <3>2. CASE r # q
      <4>1. Left(f, r) = Yet(f, r) /\ began'[r] = began[r]
        BY <1>1, <2>1, <3>2 DEF Yet
      <4> QED
        BY <1>2, <2>1, <2>3, <4>1
    <3> QED
      BY <3>1, <3>2
  <2> QED
    BY <1>1, <1>3, <2>1, <2>2, <2>3
<1>6. ASSUME NEW c \in calls, NEW d, Become(c, d), CallMoves(c, d), UNCHANGED began
      PROVE  Budget'
  <2>1. /\ d.row = c.row /\ c \in CallType /\ c.row \in Rows /\ Fire(c) \in Fires
        /\ \A x \in calls' : (x \in calls /\ x # c) \/ x = d
    BY <1>6, BecomeOne, CallFacts DEF CallMoves, SameClaim
  <2>2. IsFiniteSet(calls')
    <3>1. calls' \subseteq calls \cup {d}
      BY <2>1
    <3> QED
      BY <1>1, <3>1, OneMore
  <2>3. ASSUME NEW f \in Fires, NEW r \in Rows
        PROVE  Cardinality(Left(f, r)) \in Nat /\ Cardinality(Left(f, r)) <= Cardinality(Yet(f, r))
    <3>1. CASE c \in Yet(f, r)
      <4>1. Left(f, r) \subseteq (Yet(f, r) \ {c}) \cup {d}
        BY <2>1 DEF Yet
      <4> QED
        BY <1>2, <3>1, <4>1, Swapped
    <3>2. CASE c \notin Yet(f, r)
      <4>1. Left(f, r) \subseteq Yet(f, r)
        BY <1>6, <2>1, <3>2, StartsLeft DEF Yet
      <4> QED
        BY <1>2, <4>1, NoMore
    <3> QED
      BY <3>1, <3>2
  <2>4. CASE UNCHANGED started
    BY <1>1, <1>2, <1>3, <1>6, <2>2, <2>3, <2>4
  <2>5. CASE Holds(c, d)
    <3> DEFINE g == Fire(c)
    <3>1. started' = [started EXCEPT ![g] = @ \cup {d.token}]
      BY <2>5 DEF Holds
    <3>2. g \in Fires /\ g[1] = c.row[1] /\ g[2] = c.rule
      BY <2>1 DEF Fire
    <3>3. c \in Yet(g, c.row)
      BY <2>5, <3>2 DEF Yet, MayStart, Holds, Ended
    <3>4. ~MayStart(d, g)
      BY <2>1, <2>5, <3>2 DEF MayStart, Holds, CallType, Rules
    <3> HIDE DEF g
    <3>5. \A f \in Fires : started'[f] = IF f = g THEN started[g] \cup {d.token} ELSE started[f]
      BY <1>1, <3>1
    <3>6. ASSUME NEW f \in Fires PROVE IsFiniteSet(started'[f])
      <4>1. IsFiniteSet(started[f])
        BY <1>1
      <4>2. started'[f] \subseteq started[f] \cup {d.token}
        BY <3>5
      <4> QED
        BY <4>1, <4>2, OneMore
    <3>7. ASSUME NEW f \in Fires, NEW r \in Rows, r[1] = f[1] PROVE Within(f, r)
      <4>1. CASE f = g
        <5>1. r = c.row
          BY <2>1, <3>2, <3>7, <4>1, SameEventSameRow
        <5>2. Left(f, r) \subseteq Yet(f, r) \ {c}
          BY <2>1, <3>4, <4>1 DEF Yet
        <5>3. Cardinality(Left(f, r)) \in Nat /\ Cardinality(Left(f, r)) + 1 <= Cardinality(Yet(f, r))
          BY <1>2, <3>3, <4>1, <5>1, <5>2, OneLess
        <5>4. Cardinality(started'[f]) \in Nat /\ Cardinality(started'[f]) <= Cardinality(started[f]) + 1
          BY <1>2, <3>5, <4>1, OneMore
        <5> QED
          BY <1>2, <1>6, <3>7, <5>3, <5>4
      <4>2. CASE f # g
        BY <1>2, <1>6, <2>3, <3>5, <3>7, <4>2
      <4> QED
        BY <4>1, <4>2
    <3> QED
      BY <1>3, <2>2, <3>6, <3>7
  <2> QED
    BY <1>6, <2>4, <2>5 DEF CallMoves, Finishes, Passes
<1> QED
  BY <1>4, <1>5, <1>6, CallSteps

-----------------------------------------------------------------------------
(* The invariant of the composition                                        *)
RuleInv == /\ IInv /\ RuleTypeOK /\ Behind /\ Credit
           /\ RuleSingleOwner /\ DoneMeansRun /\ Budget

LEMMA InitRuleInv == RuleInit => RuleInv
<1> SUFFICES ASSUME RuleInit PROVE RuleInv
  OBVIOUS
<1>1. IInv
  BY InitIInv DEF RuleInit
<1>2. calls = {} /\ fires = [f \in Fires |-> NoFire] /\ started = [f \in Fires |-> {}]
  BY DEF RuleInit
<1>3. NoFire \in FireType /\ NoFire.status = "none" /\ NoFire.lease = NULL /\ NoFire.fence = 0
  BY DEF NoFire, FireType
<1>4. RuleTypeOK
  BY <1>1, <1>2, <1>3 DEF RuleInit, RuleTypeOK, IInv
<1>5. Behind /\ Credit /\ RuleSingleOwner /\ DoneMeansRun
  BY <1>2, <1>3 DEF Behind, Credit, RuleSingleOwner, Running, DoneMeansRun
<1>6. Budget
  <2>1. IsFiniteSet({}) /\ Cardinality({}) = 0
    BY FS_EmptySet
  <2>2. \A f \in Fires : started[f] = {}
    BY <1>2
  <2>3. \A f \in Fires, r \in Rows : Yet(f, r) = {}
    BY <1>2 DEF Yet
  <2>4. \A r \in Rows : began[r] = 0
    BY DEF RuleInit, Init
  <2> QED
    BY <1>2, <2>1, <2>2, <2>3, <2>4 DEF Budget
<1> QED
  BY <1>1, <1>4, <1>5, <1>6 DEF RuleInv

LEMMA NextRuleInv == RuleInv /\ [RuleNext]_rvars => RuleInv'
<1> SUFFICES ASSUME RuleInv, [RuleNext]_rvars PROVE RuleInv'
  OBVIOUS
<1> QED
  BY DispatcherInv, RuleTypeNext, CreditNext, RuleSingleOwnerNext, DoneMeansRunNext, BudgetNext DEF RuleInv

LEMMA AlwaysRuleInv == RuleSpec => []RuleInv
BY InitRuleInv, NextRuleInv, PTL DEF RuleSpec

(* Every reachable state of the composition keeps the shape of the store,  *)
(* of the loops, of the ledger and of the calls, with one call at most for *)
(* every claim of a row.                                                   *)
THEOREM RuleTyped == RuleSpec => []RuleTypeOK
BY AlwaysRuleInv, PTL DEF RuleInv

(* The dispatcher keeps its own invariants when a real adapter is called:  *)
(* calls that outlive their timeout and errors inside them included.       *)
THEOREM DispatcherKept == RuleSpec => [](SingleOwner /\ DoneIsDelivered /\ DroppedForCause /\ AttemptsAccounted)
BY AlwaysRuleInv, PTL DEF RuleInv, IInv

(* No two calls ever run one rule of one event under the same fence of its *)
(* ledger row, and none under a fence the row has not reached              *)
(* (claimEventFiresLease).                                                 *)
THEOREM RuleOwned == RuleSpec => []RuleSingleOwner
BY AlwaysRuleInv, PTL DEF RuleInv

(* A ledger row is done only after the run under its final fence came to   *)
(* its end (the fence in the WHERE of markEventFiresDone).                 *)
THEOREM DoneOnlyIfRun == RuleSpec => []DoneMeansRun
BY AlwaysRuleInv, PTL DEF RuleInv

(* Each delivery of an event starts a rule at most once: the attempts of   *)
(* the outbox row bound the runs of every rule.                            *)
THEOREM RunsAreBounded == RuleSpec => []RunsBounded
<1>1. RuleInv => RunsBounded
  <2> SUFFICES ASSUME RuleInv, NEW f \in Fires, NEW r \in Rows, r[1] = f[1]
               PROVE  Cardinality(started[f]) <= began[r]
    BY DEF RunsBounded
  <2>1. Yet(f, r) \subseteq calls /\ IsFiniteSet(calls) /\ IsFiniteSet(started[f]) /\ began[r] \in Nat
    BY DEF Yet, RuleInv, Budget, RuleTypeOK, TypeOK
  <2>2. Cardinality(Yet(f, r)) \in Nat /\ Cardinality(started[f]) \in Nat
    BY <2>1, NoMore, FS_CardinalityType
  <2>3. Cardinality(started[f]) + Cardinality(Yet(f, r)) <= began[r]
    BY DEF RuleInv, Budget
  <2> QED
    BY <2>1, <2>2, <2>3
<1> QED
  BY <1>1, AlwaysRuleInv, PTL

(* A second run of a rule never starts after it was marked done, nor while *)
(* the lease of an earlier one that still runs is live.                    *)
THEOREM NeverRerun == RuleSpec => NoRerun
<1>1. RuleInv /\ [RuleNext]_rvars =>
        [\A f \in Fires : started'[f] # started[f] =>
           /\ fires[f].status # "done"
           /\ \A c \in Running(f) : fires[f].lease < 0]_rvars
  BY NoRerunStep DEF RuleInv
<1> QED
  BY <1>1, AlwaysRuleInv, PTL DEF RuleSpec, NoRerun

-----------------------------------------------------------------------------
(* What the dispatcher promises, with the sink in the adapter's place      *)

LEMMA DispatcherMove ==
  RuleInv /\ [RuleNext]_rvars => IInv /\ TypeOK /\ ([Next]_vars \/ FaultSpent)
BY DispatcherSteps DEF RuleInv, IInv

(* The composition implements DeliveryPromise: a row is tried at most      *)
(* MaxAttempts times and settled at most once, after a try, also when a    *)
(* handleEvent call outlives its timeout or a statement in it fails.       *)
THEOREM PromiseCarried == RuleSpec => KeepsPromise
<1>1. RuleInit => Promise!Init /\ Tried
  BY DEF RuleInit, Init, Promise!Init, OutcomeOf, Tried, NoRow
<1>2. RuleInv /\ Tried /\ [RuleNext]_rvars => Tried'
  <2>1. FaultSpent /\ Tried => Tried'
    BY DEF FaultSpent, Tried
  <2> QED
    BY <2>1, DispatcherMove, TriedNext
<1>3. RuleInv /\ Tried /\ [RuleNext]_rvars => [Promise!Next]_(Promise!vars)
  <2>1. FaultSpent => UNCHANGED Promise!vars
    BY DEF FaultSpent, Promise!vars
  <2>2. IInv => Unborn
    BY DEF IInv
  <2> QED
    BY <2>1, <2>2, DispatcherMove, StepImplements
<1> QED
  BY <1>1, <1>2, <1>3, AlwaysRuleInv, PTL DEF RuleSpec, KeepsPromise, Promise!Spec

(* A late statement of the sink moves no settled row, a tick calls the     *)
(* handler of a row once, and a rescheduled row waits out its backoff.     *)
THEOREM StepsCarried == RuleSpec => []OncePerTick /\ TerminalIsFinal /\ BackoffKept
<1>1. RuleInit => Remembered /\ ParkedStale /\ BeatBehind
  BY DEF RuleInit, Init, Remembered, ParkedStale, BeatBehind
<1>2. RuleInv /\ Remembered /\ [RuleNext]_rvars => Remembered'
  <2>1. FaultSpent /\ Remembered => Remembered'
    BY DEF FaultSpent, Remembered, loop, history
  <2> QED
    BY <2>1, DispatcherMove, RememberedNext
<1>3. RuleInv /\ Remembered => OncePerTick
  <2>1. TypeOK => \A w \in Workers, r \in Rows : runs[w][r] \in Nat
    BY DEF TypeOK
  <2> QED
    BY <2>1 DEF RuleInv, IInv, Remembered, OncePerTick
<1>4. RuleInv /\ BeatBehind /\ [RuleNext]_rvars => BeatBehind'
  <2>1. FaultSpent /\ BeatBehind => BeatBehind'
    BY DEF FaultSpent, BeatBehind
  <2>2. RuleInv => Unborn /\ SingleOwner
    BY DEF RuleInv, IInv
  <2> QED
    BY <2>1, <2>2, DispatcherMove, BeatBehindNext
<1>5. RuleInv /\ BeatBehind /\ ParkedStale /\ [RuleNext]_rvars => ParkedStale'
  <2>1. FaultSpent /\ ParkedStale => ParkedStale'
    BY DEF FaultSpent, ParkedStale, loop, history
  <2>2. RuleInv => Unborn /\ SingleOwner
    BY DEF RuleInv, IInv
  <2> QED
    BY <2>1, <2>2, DispatcherMove, ParkedStaleNext
<1>6. RuleInv /\ [RuleNext]_rvars => [\A r \in Rows : row[r].status \in Terminal => row'[r] = row[r]]_vars
  <2>1. FaultSpent => \A r \in Rows : row'[r] = row[r]
    BY DEF FaultSpent
  <2> QED
    BY <2>1, DispatcherMove, TerminalStep
<1>7. RuleInv /\ ParkedStale /\ [RuleNext]_rvars =>
        [\A r \in parked :
           \/ r \in parked' /\ row'[r] \in {row[r], [row[r] EXCEPT !.lease = Aged(@)]}
           \/ r \notin parked' /\ \E w \in Workers : pc[w] = "claim" /\ row[r].lease <= asOf[w]]_vars
  <2>1. FaultSpent => \A r \in parked : r \in parked' /\ row'[r] = row[r]
    BY DEF FaultSpent, history
  <2> QED
    BY <2>1, DispatcherMove, ParkedStep DEF Waits
<1> QED
  BY <1>1, <1>2, <1>3, <1>4, <1>5, <1>6, <1>7, AlwaysRuleInv, PTL DEF RuleSpec, TerminalIsFinal, BackoffKept
=============================================================================
