------------------------ MODULE WebhookDelivery_proofs ------------------------
(***************************************************************************)
(* Proofs about WebhookDelivery, for any rows, replicas, limits, crashes   *)
(* and failed statements.                                                  *)
(***************************************************************************)
EXTENDS WebhookDelivery, FiniteSetTheorems, SequenceTheorems, TLAPS

Shapes == [status : {"none", "pending", "success", "failed"},
           attempts : Nat, due : {"young", "stray", "waiting", "elapsed"}]
Attempts == [pc : Steps, at : Replica, d : Delivery, count : Nat,
             seen : Nat, limit : 0 .. MaxRetries, guarded : BOOLEAN, told : BOOLEAN]
Claims == [d : Delivery, count : Nat]
Hooks == [active : BOOLEAN, failures : Nat, limit : 0 .. MaxRetries]

(* The parts of WebhookTypeOK that an attempt disturbs.                    *)
RunType == run \in [Runner -> {Idle} \cup Attempts]
BatchType ==
  /\ batch \in [Replica -> Seq(Claims)]
  /\ \A r \in Replica : /\ (batch[r] = <<>>) <=> (run[r] = Idle)
                        /\ batch[r] # <<>> => run[r].d = Head(batch[r]).d /\ run[r].at = r
RowType == row \in [Delivery -> Shapes]
HookType == hook \in Hooks
RestType ==
  /\ setup \in Setups
  /\ edits \in 0 .. setup.edits /\ faults \in 0 .. setup.faults
  /\ sends \in [Delivery -> Nat] /\ accepted \in [Delivery -> Nat] /\ streak \in Nat /\ blamed \in Nat
  /\ disturbed \in [Delivery -> BOOLEAN] /\ miscounted \in BOOLEAN /\ stopped \in BOOLEAN
  /\ limits \in SUBSET (0 .. MaxRetries)

LEMMA TypeParts == WebhookTypeOK <=> RunType /\ BatchType /\ RowType /\ HookType /\ RestType
BY DEF WebhookTypeOK, RunType, BatchType, RowType, HookType, RestType, Shapes, Attempts, Claims, Hooks

LEMMA TypePartsNext == RunType' /\ BatchType' /\ RowType' /\ HookType' /\ RestType' => WebhookTypeOK'
BY DEF WebhookTypeOK, RunType, BatchType, RowType, HookType, RestType, Shapes, Attempts, Claims, Hooks

-----------------------------------------------------------------------------
(* What the steps leave in memory.                                         *)

(* An attempt is told from an idle runner by the step it is at.            *)
LEMMA Awake ==
  ASSUME RunType, NEW p \in Runner, run[p].pc # "idle"
  PROVE  run[p] \in Attempts /\ run[p] # Idle
BY DEF RunType, Idle

LEMMA AttemptsAwake ==
  ASSUME NEW x \in Attempts
  PROVE  x # Idle /\ x.pc # "idle"
BY DEF Attempts, Idle, Steps

(* An attempt that goes on leaves every batch as it is.                    *)
LEMMA GoesOn ==
  ASSUME RunType, BatchType, NEW p \in Runner, run[p].pc # "idle",
         NEW x \in Attempts, x.d = run[p].d, x.at = run[p].at,
         run' = [run EXCEPT ![p] = x], UNCHANGED batch
  PROVE  RunType' /\ BatchType'
<1>1. run[p] # Idle /\ x # Idle
  BY Awake, AttemptsAwake
<1>2. RunType'
  BY DEF RunType
<1>3. \A r \in Replica : r \in Runner /\ run'[r] = IF r = p THEN x ELSE run[r]
  BY DEF RunType, Runner
<1>4. BatchType'
  BY <1>1, <1>3 DEF BatchType
<1> QED
  BY <1>2, <1>4

(* A tick that turns to what is left of a batch.                           *)
LEMMA TurnsToType ==
  ASSUME RunType, BatchType, NEW r \in Replica, NEW rest \in Seq(Claims), TurnsTo(r, rest)
  PROVE  RunType' /\ BatchType'
<1> DEFINE x == At("check", r, Head(rest).d, Head(rest).count)
<1>1. r \in Runner
  BY DEF Runner
<1>2. ASSUME rest # <<>> PROVE x \in Attempts /\ x # Idle /\ x.d = Head(rest).d /\ x.at = r
  <2>1. Head(rest) \in Claims
    BY <1>2
  <2>2. x \in Attempts /\ x.d = Head(rest).d /\ x.at = r
    BY <2>1, LimitsAssumption DEF Claims, At, Attempts, Steps
  <2> QED
    BY <2>2, AttemptsAwake
<1>3. run' = [run EXCEPT ![r] = IF rest = <<>> THEN Idle ELSE x] /\ batch' = [batch EXCEPT ![r] = rest]
  BY DEF TurnsTo
<1> HIDE DEF x
<1>4. RunType'
  BY <1>1, <1>2, <1>3 DEF RunType
<1>5. \A q \in Replica : /\ run'[q] = IF q = r THEN (IF rest = <<>> THEN Idle ELSE x) ELSE run[q]
                         /\ batch'[q] = IF q = r THEN rest ELSE batch[q]
  BY <1>3 DEF RunType, BatchType, Runner
<1>6. batch' \in [Replica -> Seq(Claims)]
  BY <1>3 DEF BatchType
<1>7. BatchType'
  BY <1>2, <1>5, <1>6 DEF BatchType
<1> QED
  BY <1>4, <1>7

(* A first attempt that is over, and a throw, leave their runner idle.     *)
LEMMA GoesIdle ==
  ASSUME RunType, BatchType, NEW p \in Runner,
         run' = [run EXCEPT ![p] = Idle],
         batch' = IF p \in Replica THEN [batch EXCEPT ![p] = <<>>] ELSE batch
  PROVE  RunType' /\ BatchType'
<1>1. RunType'
  BY DEF RunType
<1>2. \A q \in Replica : /\ run'[q] = IF q = p THEN Idle ELSE run[q]
                         /\ batch'[q] = IF q = p THEN <<>> ELSE batch[q]
  BY DEF RunType, BatchType, Runner
<1>3. batch' \in [Replica -> Seq(Claims)]
  BY DEF BatchType
<1>4. BatchType'
  BY <1>2, <1>3 DEF BatchType
<1> QED
  BY <1>1, <1>4

LEMMA ThrownType ==
  ASSUME RunType, BatchType, NEW p \in Runner, Thrown(p)
  PROVE  RunType' /\ BatchType'
BY GoesIdle DEF Thrown

LEMMA OverType ==
  ASSUME RunType, BatchType, NEW p \in Runner, run[p].pc # "idle", Over(p)
  PROVE  RunType' /\ BatchType'
<1>1. CASE p \in Replica
  <2>1. batch[p] \in Seq(Claims) /\ TurnsTo(p, Tail(batch[p]))
    BY <1>1 DEF BatchType, Over
  <2>2. batch[p] # <<>>
    BY <1>1, Awake DEF BatchType
  <2>3. Tail(batch[p]) \in Seq(Claims)
    BY <2>1, <2>2
  <2> QED
    BY <1>1, <2>1, <2>3, TurnsToType
<1>2. CASE p \notin Replica
  BY <1>2, GoesIdle DEF Over
<1> QED
  BY <1>1, <1>2

(* A step that changes nothing of an attempt but where it stands.          *)
LEMMA MovesType ==
  ASSUME RunType, BatchType, NEW p \in Runner, run[p].pc # "idle", NEW pc \in Steps,
         Moves(p, pc), UNCHANGED batch
  PROVE  RunType' /\ BatchType'
<1> DEFINE x == [run[p] EXCEPT !.pc = pc]
<1>1. run[p] \in Attempts
  BY Awake
<1>2. x \in Attempts /\ x.d = run[p].d /\ x.at = run[p].at
  BY <1>1 DEF Attempts
<1>3. run' = [run EXCEPT ![p] = x]
  BY DEF Moves
<1> HIDE DEF x
<1> QED
  BY <1>2, <1>3, GoesOn

-----------------------------------------------------------------------------
(* What the statements write.                                              *)

LEMMA RowAfterType ==
  ASSUME RunType, RowType, NEW p \in Runner, run[p].pc # "idle"
  PROVE  RowAfter(p) \in [Delivery -> Shapes]
<1> DEFINE x == run[p]
           old == row[x.d]
<1>1. x.d \in Delivery /\ x.count \in Nat
  BY Awake DEF Attempts
<1>2. old \in Shapes
  BY <1>1 DEF RowType
<1>3. /\ StoredRow(old, x.count) \in Shapes
      /\ DroppedRow(old) \in Shapes
      /\ FailedRow(old, x.count) \in Shapes
      /\ ParkedRow(old, x.count) \in Shapes
  BY <1>1, <1>2 DEF Shapes, StoredRow, DroppedRow, FailedRow, ParkedRow
<1> HIDE DEF old
<1>4. RowAfter(p) = CASE x.pc = "store" -> [row EXCEPT ![x.d] = StoredRow(old, x.count)]
                      [] x.pc = "drop"  -> [row EXCEPT ![x.d] = DroppedRow(old)]
                      [] x.pc = "fail"  -> [row EXCEPT ![x.d] = FailedRow(old, x.count)]
                      [] x.pc = "park"  -> [row EXCEPT ![x.d] = ParkedRow(old, x.count)]
                      [] OTHER          -> row
  BY <1>1 DEF RowAfter, RowType, old
<1> QED
  BY <1>1, <1>3, <1>4 DEF RowType

LEMMA HookAfterType ==
  ASSUME RunType, HookType, NEW p \in Runner, run[p].pc # "idle"
  PROVE  HookAfter(p) \in Hooks
<1>1. run[p].seen \in Nat /\ run[p].seen + 1 \in Nat
  BY Awake DEF Attempts
<1>2. CreditedHook \in Hooks
  BY DEF HookType, Hooks, CreditedHook
<1>3. BlamedHook(run[p].seen) \in Hooks
  BY <1>1 DEF HookType, Hooks, BlamedHook
<1> HIDE DEF BlamedHook
<1>4. hook \in Hooks
  BY DEF HookType
<1> QED
  BY <1>2, <1>3, <1>4 DEF HookAfter

LEMMA StreakAfterType ==
  ASSUME streak \in Nat, NEW p \in Runner
  PROVE  StreakAfter(p) \in Nat
BY LimitsAssumption DEF StreakAfter, UpTo

LEMMA BlamedAfterType ==
  ASSUME blamed \in Nat, NEW p \in Runner
  PROVE  BlamedAfter(p) \in Nat
BY LimitsAssumption DEF BlamedAfter, UpTo

LEMMA UpToType ==
  ASSUME NEW limit \in Nat, NEW n \in Nat
  PROVE  UpTo(limit, n) \in Nat
BY DEF UpTo

-----------------------------------------------------------------------------
(* The initial states are of the type.                                     *)
LEMMA InitType == Init => WebhookTypeOK
<1> SUFFICES ASSUME Init PROVE WebhookTypeOK
  OBVIOUS
<1>1. /\ setup.left \subseteq Delivery /\ setup.edits \in Nat /\ setup.faults \in Nat
      /\ setup.limit \in 0 .. MaxRetries
  BY SetupsAssumption DEF Init
<1>2. RunType
  BY DEF Init, RunType
<1>3. BatchType
  BY DEF Init, BatchType, Runner
<1>4. RowType
  BY DEF Init, RowType, Shapes, PendingRow, NoRow
<1>5. HookType
  BY <1>1 DEF Init, HookType, Hooks
<1>6. edits \in 0 .. setup.edits /\ faults \in 0 .. setup.faults
  BY <1>1 DEF Init
<1>7. RestType
  BY <1>1, <1>6 DEF Init, RestType
<1> QED
  BY <1>2, <1>3, <1>4, <1>5, <1>7, TypeParts

LEMMA SetupInside ==
  ASSUME RestType
  PROVE  /\ setup.come \subseteq Delivery /\ setup.replicas \subseteq Replica
         /\ setup.edits \in Nat /\ setup.faults \in Nat
BY SetupsAssumption DEF RestType

(* The claimed rows, in any order, are a batch.                            *)
LEMMA SnapshotType ==
  ASSUME RowType, NEW s \in Orders(Claimed)
  PROVE  Snapshot(s) \in Seq(Claims)
<1>1. Claimed \subseteq Delivery /\ IsFiniteSet(Claimed)
  BY NamesAssumption, FS_Subset DEF Claimed
<1>2. Cardinality(Claimed) \in Nat
  BY <1>1, FS_CardinalityType
<1>3. s \in [1 .. Cardinality(Claimed) -> Claimed]
  BY DEF Orders
<1>4. \A i \in 1 .. Cardinality(Claimed) : s[i] \in Delivery /\ row[s[i]].attempts \in Nat
  BY <1>1, <1>3 DEF RowType, Shapes
<1>5. Snapshot(s) \in [1 .. Cardinality(Claimed) -> Claims]
  BY <1>3, <1>4 DEF Snapshot, Claims
<1> QED
  BY <1>2, <1>5

LEMMA ToldType ==
  ASSUME NEW x \in Attempts, NEW done \in BOOLEAN
  PROVE  Told(x, done) \in BOOLEAN
BY DEF Told, Attempts

LEMMA StatementFailsType ==
  ASSUME WebhookTypeOK, NEW p \in Runner, StatementFails(p)
  PROVE  WebhookTypeOK'
<1>1. RunType /\ BatchType /\ RowType /\ HookType /\ RestType
  BY TypeParts
<1>2. run[p].pc # "idle" /\ faults < setup.faults /\ faults' = faults + 1
  BY <1>1 DEF StatementFails, Fault, Steps
<1>3. RunType' /\ BatchType'
  <2>1. CASE run[p].guarded
    <3>0. PICK done \in BOOLEAN : Caught(p, done)
      BY <2>1 DEF StatementFails
    <3> DEFINE x == [run[p] EXCEPT !.pc = "blame", !.guarded = FALSE, !.told = Told(run[p], done)]
    <3>1. run[p] \in Attempts /\ run \in [Runner -> {Idle} \cup Attempts]
      BY <1>1, <1>2, Awake DEF RunType
    <3>2. x \in Attempts /\ x.d = run[p].d /\ x.at = run[p].at
      BY <3>1, ToldType DEF Attempts, Steps
    <3>3. run' = [run EXCEPT ![p] = x] /\ UNCHANGED batch
      BY <3>0 DEF Caught
    <3> HIDE DEF x
    <3> QED
      BY <1>1, <1>2, <3>2, <3>3, GoesOn
  <2>2. CASE ~ run[p].guarded
    BY <1>1, <2>2, ThrownType DEF StatementFails
  <2> QED
    BY <2>1, <2>2
<1>4. RowType' /\ HookType' /\ streak' \in Nat /\ blamed' \in Nat
  <2>1. CASE UNCHANGED <<row, hook, streak, blamed>>
    BY <1>1, <2>1 DEF RowType, HookType, RestType
  <2>2. CASE /\ row' = RowAfter(p) /\ hook' = HookAfter(p)
             /\ streak' = StreakAfter(p) /\ blamed' = BlamedAfter(p)
    BY <1>1, <1>2, <2>2, RowAfterType, HookAfterType, StreakAfterType, BlamedAfterType
       DEF RowType, HookType, RestType
  <2> QED
    BY <2>1, <2>2 DEF StatementFails
<1>5. RestType'
  <2>1. faults' \in 0 .. setup.faults
    BY <1>1, <1>2, SetupInside DEF RestType
  <2>2. disturbed' \in [Delivery -> BOOLEAN] /\ miscounted' \in BOOLEAN /\ stopped' \in BOOLEAN
    BY <1>1, <1>4 DEF StatementFails, RestType, HookType, Hooks
  <2> QED
    BY <1>1, <1>4, <2>1, <2>2 DEF StatementFails, RestType
<1> QED
  BY <1>3, <1>4, <1>5, TypePartsNext

LEMMA WriteType ==
  ASSUME WebhookTypeOK, NEW p \in Runner, Write(p)
  PROVE  WebhookTypeOK'
<1>1. RunType /\ BatchType /\ RowType /\ HookType /\ RestType
  BY TypeParts
<1>2. run[p].pc # "idle"
  BY DEF Write, Recording
<1>3. RowType' /\ HookType' /\ streak' \in Nat /\ blamed' \in Nat
  BY <1>1, <1>2, RowAfterType, HookAfterType, StreakAfterType, BlamedAfterType
     DEF Write, RowType, HookType, RestType
<1>4. RunType' /\ BatchType'
  <2>1. Then(run[p]) \in Steps \cup {"over"}
    BY DEF Then, AfterBlame, Steps
  <2>2. CASE Then(run[p]) = "over"
    BY <1>1, <1>2, <2>2, OverType DEF Write
  <2>3. CASE Then(run[p]) # "over"
    <3> DEFINE t == Told(run[p], TRUE)
               pc == Then(run[p])
               x == [run[p] EXCEPT !.pc = pc, !.told = t]
    <3>1. run[p] \in Attempts /\ run \in [Runner -> {Idle} \cup Attempts]
      BY <1>1, <1>2, Awake DEF RunType
    <3>2. t \in BOOLEAN /\ pc \in Steps
      BY <2>1, <2>3, <3>1, ToldType
    <3>3. run' = [run EXCEPT ![p] = x] /\ UNCHANGED batch
      BY <2>3 DEF Write
    <3> HIDE DEF t, pc
    <3>4. x \in Attempts /\ x.d = run[p].d /\ x.at = run[p].at
      BY <3>1, <3>2 DEF Attempts
    <3> HIDE DEF x
    <3> QED
      BY <1>1, <1>2, <3>3, <3>4, GoesOn
  <2> QED
    BY <2>2, <2>3
<1>5. stopped' \in BOOLEAN
  BY <1>1, <1>3 DEF Write, RestType, HookType, Hooks
<1>6. RestType'
  BY <1>1, <1>3, <1>5 DEF Write, RestType
<1> QED
  BY <1>3, <1>4, <1>6, TypePartsNext

LEMMA ReadType ==
  ASSUME WebhookTypeOK, NEW p \in Runner, Read(p)
  PROVE  WebhookTypeOK'
<1> DEFINE x == [run[p] EXCEPT !.pc = "send", !.count = run[p].count + 1,
                               !.seen = hook.failures, !.limit = hook.limit]
<1>1. RunType /\ BatchType /\ RowType /\ HookType /\ RestType
  BY TypeParts
<1>2. run[p].pc # "idle" /\ run[p] \in Attempts
  BY <1>1, Awake DEF Read
<1>3. run[p].count + 1 \in Nat /\ hook.failures \in Nat /\ hook.limit \in 0 .. MaxRetries
  BY <1>1, <1>2 DEF Attempts, HookType, Hooks
<1>4. x \in Attempts /\ x.d = run[p].d /\ x.at = run[p].at
  BY <1>2, <1>3 DEF Attempts, Steps
<1>5. run' = [run EXCEPT ![p] = x] /\ UNCHANGED batch
  BY <1>1, <1>2 DEF Read, RunType, Attempts
<1> HIDE DEF x
<1>6. RunType' /\ BatchType'
  BY <1>1, <1>2, <1>4, <1>5, GoesOn
<1>7. miscounted' \in BOOLEAN
  BY <1>1 DEF Read, RestType
<1>8. RowType' /\ HookType' /\ RestType'
  BY <1>1, <1>7 DEF Read, RowType, HookType, RestType
<1> QED
  BY <1>6, <1>8, TypePartsNext

LEMMA SendType ==
  ASSUME WebhookTypeOK, NEW p \in Runner, Send(p)
  PROVE  WebhookTypeOK'
<1> DEFINE d == run[p].d
<1>1. RunType /\ BatchType /\ RowType /\ HookType /\ RestType
  BY TypeParts
<1>2. run[p].pc # "idle" /\ run[p] \in Attempts /\ d \in Delivery
  BY <1>1, Awake DEF Send, Attempts
<1>3. PICK answer \in {"ok", "error", "none"} :
        /\ run' = [run EXCEPT ![p] = [@ EXCEPT !.pc = Verdict(answer), !.guarded = answer # "none"]]
        /\ accepted' = IF answer = "ok"
                       THEN [accepted EXCEPT ![d] = UpTo(IF disturbed[d] THEN 1 ELSE 2, @ + 1)]
                       ELSE accepted
  BY DEF Send
<1> DEFINE x == [run[p] EXCEPT !.pc = Verdict(answer), !.guarded = answer # "none"]
<1>4. x \in Attempts /\ x.d = run[p].d /\ x.at = run[p].at
  BY <1>2 DEF Attempts, Steps, Verdict
<1>5. run' = [run EXCEPT ![p] = x] /\ UNCHANGED batch
  BY <1>3 DEF Send
<1> HIDE DEF x
<1>6. RunType' /\ BatchType'
  BY <1>1, <1>2, <1>4, <1>5, GoesOn
<1>7. accepted' \in [Delivery -> Nat]
  <2>1. accepted[d] + 1 \in Nat /\ (IF disturbed[d] THEN 1 ELSE 2) \in Nat
    BY <1>1, <1>2 DEF RestType
  <2> QED
    BY <1>1, <1>3, <2>1, UpToType DEF RestType
<1>8. sends' \in [Delivery -> Nat]
  <2>1. sends[d] + 1 \in Nat /\ (IF disturbed[d] THEN MaxRetries ELSE MaxRetries + 1) \in Nat
    BY <1>1, <1>2, LimitsAssumption DEF RestType
  <2> QED
    BY <1>1, <2>1, UpToType DEF Send, RestType
<1>9. RowType' /\ HookType' /\ RestType'
  BY <1>1, <1>7, <1>8 DEF Send, RowType, HookType, RestType
<1> QED
  BY <1>6, <1>9, TypePartsNext

LEMMA FaultsIn ==
  ASSUME RestType, Fault
  PROVE  faults' \in 0 .. setup.faults
BY SetupInside DEF RestType, Fault

LEMMA DeliverType ==
  ASSUME WebhookTypeOK, NEW d \in Delivery, NEW r \in Replica, Deliver(d, r)
  PROVE  WebhookTypeOK'
<1> DEFINE x == At("read", r, d, 0)
<1>1. RunType /\ BatchType /\ RowType /\ HookType /\ RestType
  BY TypeParts
<1>2. x \in {Idle} \cup Attempts /\ d \in Runner /\ d \notin Replica
  BY NamesAssumption, LimitsAssumption DEF At, Attempts, Steps, Runner
<1>3. run' = [run EXCEPT ![d] = x] /\ UNCHANGED batch
  BY DEF Deliver
<1> HIDE DEF x
<1>4. RunType' /\ BatchType'
  <2>1. \A q \in Replica : run'[q] = run[q]
    BY <1>1, <1>2, <1>3 DEF RunType, Runner
  <2> QED
    BY <1>1, <1>2, <1>3, <2>1 DEF RunType, BatchType
<1>5. PendingRow \in Shapes
  BY DEF PendingRow, NoRow, Shapes
<1>6. RowType' /\ HookType' /\ RestType'
  BY <1>1, <1>5 DEF Deliver, RowType, HookType, RestType, History
<1> QED
  BY <1>4, <1>6, TypePartsNext

LEMMA ClaimType ==
  ASSUME WebhookTypeOK, NEW r \in Replica, Claim(r)
  PROVE  WebhookTypeOK'
<1>1. RunType /\ BatchType /\ RowType /\ HookType /\ RestType
  BY TypeParts
<1>2. PICK s \in Orders(Claimed) : TurnsTo(r, Snapshot(s))
  BY DEF Claim
<1>3. Snapshot(s) \in Seq(Claims)
  BY <1>1, SnapshotType
<1>4. RunType' /\ BatchType'
  BY <1>1, <1>2, <1>3, TurnsToType
<1>5. \A d \in Delivery : LeasedRow(row[d]) \in Shapes
  BY <1>1 DEF RowType, Shapes, LeasedRow
<1>6. RowType' /\ HookType' /\ RestType'
  BY <1>1, <1>5 DEF Claim, RowType, HookType, RestType, History
<1> QED
  BY <1>4, <1>6, TypePartsNext

LEMMA CrashType ==
  ASSUME WebhookTypeOK, NEW r \in Replica, Crash(r)
  PROVE  WebhookTypeOK'
<1>1. RunType /\ BatchType /\ RowType /\ HookType /\ RestType
  BY TypeParts
<1>2. /\ run' = [p \in Runner |-> IF Dies(p, r) THEN Idle ELSE run[p]]
      /\ batch' = [batch EXCEPT ![r] = <<>>]
  BY DEF Crash
<1>3. RunType'
  BY <1>1, <1>2 DEF RunType
<1>4. BatchType'
  <2>1. batch' \in [Replica -> Seq(Claims)]
    BY <1>1, <1>2 DEF BatchType
  <2>2. ASSUME NEW q \in Replica
        PROVE  /\ (batch'[q] = <<>>) <=> (run'[q] = Idle)
               /\ batch'[q] # <<>> => run'[q].d = Head(batch'[q]).d /\ run'[q].at = q
    <3>1. q \in Runner /\ batch'[q] = IF q = r THEN <<>> ELSE batch[q]
      BY <1>1, <1>2 DEF BatchType, Runner
    <3>2. run[q] = Idle \/ run[q].pc # "idle"
      BY <1>1, <3>1, AttemptsAwake DEF RunType
    <3>3. run'[q] = IF q = r THEN Idle ELSE run[q]
      <4>1. run[q] # Idle => run[q].at = q
        BY <1>1 DEF BatchType
      <4>2. run[q] = Idle => run[q].pc = "idle"
        BY DEF Idle
      <4> QED
        BY <1>2, <3>1, <3>2, <4>1, <4>2 DEF Dies
    <3> QED
      BY <1>1, <3>1, <3>3 DEF BatchType
  <2> QED
    BY <2>1, <2>2 DEF BatchType
<1>5. faults' \in 0 .. setup.faults
  BY <1>1, FaultsIn DEF Crash
<1>6. disturbed' \in [Delivery -> BOOLEAN]
  BY <1>1 DEF Crash, RestType
<1>7. RowType' /\ HookType' /\ RestType'
  BY <1>1, <1>5, <1>6 DEF Crash, RowType, HookType, RestType
<1> QED
  BY <1>3, <1>4, <1>7, TypePartsNext

LEMMA CheckType ==
  ASSUME WebhookTypeOK, NEW r \in Replica, Check(r)
  PROVE  WebhookTypeOK'
<1>1. RunType /\ BatchType /\ RowType /\ HookType /\ RestType
  BY TypeParts
<1>2. r \in Runner /\ run[r].pc # "idle"
  BY DEF Check, Runner
<1>3. PICK pc \in {"read", "drop"} : Moves(r, pc)
  BY DEF Check
<1>4. RunType' /\ BatchType'
  BY <1>1, <1>2, <1>3, MovesType DEF Check, Steps
<1>5. RowType' /\ HookType' /\ RestType'
  BY <1>1 DEF Check, RowType, HookType, RestType, History
<1> QED
  BY <1>4, <1>5, TypePartsNext

(* Steps that leave every attempt alone.                                   *)
LEMMA AsideType ==
  ASSUME WebhookTypeOK, (\E d \in Delivery : Elapse(d) \/ DeliverFails(d)) \/ Switch
  PROVE  WebhookTypeOK'
<1>1. RunType /\ BatchType /\ RowType /\ HookType /\ RestType
  BY TypeParts
<1>2. RunType' /\ BatchType'
  BY <1>1 DEF Elapse, DeliverFails, Switch, RunType, BatchType
<1>3. CASE \E d \in Delivery : Elapse(d)
  <2>1. PICK d \in Delivery : Elapse(d)
    BY <1>3
  <2>2. [row[d] EXCEPT !.due = IF @ = "young" THEN "stray" ELSE "elapsed"] \in Shapes
    BY <1>1 DEF RowType, Shapes
  <2>3. RowType'
    BY <1>1, <2>1, <2>2 DEF Elapse, RowType
  <2>4. disturbed' \in [Delivery -> BOOLEAN]
    BY <1>1, <2>1 DEF Elapse, RestType
  <2>5. HookType' /\ RestType'
    BY <1>1, <2>1, <2>4 DEF Elapse, HookType, RestType
  <2> QED
    BY <1>2, <2>3, <2>5, TypePartsNext
<1>4. CASE \E d \in Delivery : DeliverFails(d)
  <2>1. PICK d \in Delivery : DeliverFails(d)
    BY <1>4
  <2>2. PendingRow \in Shapes
    BY DEF PendingRow, NoRow, Shapes
  <2>3. faults' \in 0 .. setup.faults
    BY <1>1, <2>1, FaultsIn DEF DeliverFails
  <2>4. RowType' /\ HookType' /\ RestType'
    BY <1>1, <2>1, <2>2, <2>3 DEF DeliverFails, RowType, HookType, RestType, History
  <2> QED
    BY <1>2, <2>4, TypePartsNext
<1>5. CASE Switch
  <2>1. HookType'
    BY <1>1, <1>5 DEF Switch, HookType, Hooks
  <2>2. edits' \in 0 .. setup.edits /\ stopped' \in BOOLEAN /\ limits' \in SUBSET (0 .. MaxRetries)
    <3>1. hook'.limit \in 0 .. MaxRetries
      BY <2>1 DEF HookType, Hooks
    <3>2. limits' \in SUBSET (0 .. MaxRetries)
      <4>1. limits' = limits \cup {hook'.limit}
        BY <1>5 DEF Switch
      <4> QED
        BY <1>1, <3>1, <4>1 DEF RestType
    <3>3. edits' \in 0 .. setup.edits'
      <4>1. edits < setup.edits /\ edits' = edits + 1 /\ UNCHANGED setup
        BY <1>5 DEF Switch
      <4>2. edits \in Nat /\ setup.edits \in Nat
        BY <1>1, SetupInside DEF RestType
      <4> QED
        BY <4>1, <4>2
    <3> QED
      BY <1>1, <1>5, <2>1, <3>2, <3>3 DEF Switch, RestType, HookType, Hooks
  <2>3. RowType' /\ RestType'
    BY <1>1, <1>5, <2>2 DEF Switch, RowType, RestType
  <2> QED
    BY <1>2, <2>1, <2>3, TypePartsNext
<1> QED
  BY <1>3, <1>4, <1>5

LEMMA NextType ==
  ASSUME WebhookTypeOK, [Next]_vars
  PROVE  WebhookTypeOK'
<1>1. ASSUME NEW d \in Delivery, Elapse(d) \/ DeliverFails(d) PROVE WebhookTypeOK'
  BY <1>1, AsideType
<1>2. ASSUME NEW d \in Delivery, NEW r \in Replica, Deliver(d, r) PROVE WebhookTypeOK'
  BY <1>2, DeliverType
<1>3. ASSUME NEW r \in Replica, Claim(r) \/ Check(r) \/ Crash(r) PROVE WebhookTypeOK'
  BY <1>3, ClaimType, CheckType, CrashType
<1>4. ASSUME NEW p \in Runner, Advances(p) PROVE WebhookTypeOK'
  BY <1>4, ReadType, SendType, WriteType DEF Advances
<1>5. ASSUME NEW p \in Runner, StatementFails(p) PROVE WebhookTypeOK'
  BY <1>5, StatementFailsType
<1>6. ASSUME Switch PROVE WebhookTypeOK'
  BY <1>6, AsideType
<1>7. ASSUME UNCHANGED vars PROVE WebhookTypeOK'
  BY <1>7 DEF vars, WebhookTypeOK
<1> QED
  BY <1>1, <1>2, <1>3, <1>4, <1>5, <1>6, <1>7 DEF Next

(* Types, and what a batch and its tick say of each other, whatever the    *)
(* rows, replicas, limits, crashes and failed statements.                  *)
THEOREM TypeCorrect == Spec => []WebhookTypeOK
BY InitType, NextType, PTL DEF Spec

-----------------------------------------------------------------------------
(* Why a stored outcome has its cause.  Every count in the database, in a  *)
(* batch and in an attempt stands for requests that were made; an attempt  *)
(* about to write an outcome has seen what justifies it.                   *)

(* The count n stands for requests that were made, or all were made that a *)
(* delivery may take.                                                      *)
Made(n, made) == n <= made \/ made >= MaxRetries

(* The numbers of requests after which a delivery may be given up: every   *)
(* max_retries there has been, and none once the webhook was inactive.     *)
Enough == limits \cup {n \in {0} : stopped}
Justified(n, enough) == \E m \in enough : m <= n

(* A row, and an attempt, with the requests made for it, those accepted,   *)
(* and how many are enough.                                                *)
RowSound(x, made, got, enough) ==
  /\ Made(x.attempts, made)
  /\ x.status = "success" => got > 0
  /\ x.status = "failed" => Justified(made, enough)
AttemptSound(x, made, got, enough) ==
  /\ IF x.pc = "send" THEN x.count >= 1 /\ Made(x.count - 1, made) ELSE Made(x.count, made)
  /\ x.pc = "store" => got > 0
  /\ x.guarded \/ x.pc \in {"send", "store", "credit", "blame", "fail", "park"} => x.limit \in enough
  /\ x.pc \in {"drop", "fail"} => Justified(x.count, enough)

RowsSound == \A d \in Delivery : RowSound(row[d], sends[d], accepted[d], Enough)
HookSound == (~ hook.active => stopped) /\ hook.limit \in limits
Sound(p) == AttemptSound(run[p], sends[run[p].d], accepted[run[p].d], Enough)
RunsSound == \A p \in Runner : run[p].pc # "idle" => Sound(p)
BatchesSound ==
  \A r \in Replica : \A i \in 1 .. Len(batch[r]) : Made(batch[r][i].count, sends[batch[r][i].d])

IInv == WebhookTypeOK /\ RowsSound /\ HookSound /\ RunsSound /\ BatchesSound

(* What a step does to the history.                                        *)
Grown ==
  /\ \A d \in Delivery : /\ sends'[d] >= sends[d] \/ sends'[d] >= MaxRetries
                         /\ accepted[d] > 0 => accepted'[d] > 0
  /\ stopped => stopped'
  /\ limits \subseteq limits'

LEMMA MadeGrows ==
  ASSUME NEW n \in Nat, NEW made \in Nat, NEW more \in Nat,
         more >= made \/ more >= MaxRetries, Made(n, made)
  PROVE  Made(n, more)
BY LimitsAssumption DEF Made

LEMMA JustifiedGrows ==
  ASSUME NEW made \in Nat, NEW more \in Nat, more >= made \/ more >= MaxRetries,
         NEW enough \in SUBSET (0 .. MaxRetries), NEW enough2 \in SUBSET (0 .. MaxRetries),
         enough \subseteq enough2, Justified(made, enough)
  PROVE  Justified(more, enough2)
<1>1. PICK m \in enough : m <= made
  BY DEF Justified
<1>2. m \in 0 .. MaxRetries /\ m \in enough2
  BY <1>1
<1>3. m <= more
  BY <1>1, <1>2, LimitsAssumption
<1> QED
  BY <1>2, <1>3 DEF Justified

(* A count that stands for requests is no more reason than the requests.   *)
LEMMA JustifiedBySends ==
  ASSUME NEW n \in Nat, NEW made \in Nat, NEW enough \in SUBSET (0 .. MaxRetries),
         Made(n, made), Justified(n, enough)
  PROVE  Justified(made, enough)
<1>1. PICK m \in enough : m <= n
  BY DEF Justified
<1>2. m \in 0 .. MaxRetries
  BY <1>1
<1>3. m <= made
  BY <1>1, <1>2, LimitsAssumption DEF Made
<1> QED
  BY <1>1, <1>3 DEF Justified

LEMMA EnoughType ==
  ASSUME WebhookTypeOK
  PROVE  Enough \in SUBSET (0 .. MaxRetries)
BY LimitsAssumption, TypeParts DEF RestType, Enough

LEMMA EnoughTypeNext ==
  ASSUME WebhookTypeOK'
  PROVE  Enough' \in SUBSET (0 .. MaxRetries)
<1>1. limits' \in SUBSET (0 .. MaxRetries)
  BY DEF WebhookTypeOK
<1>2. Enough' = limits' \cup {n \in {0} : stopped'}
  BY DEF Enough
<1>3. 0 \in 0 .. MaxRetries
  BY LimitsAssumption
<1> QED
  BY <1>1, <1>2, <1>3

LEMMA EnoughGrows ==
  ASSUME Grown
  PROVE  Enough \subseteq Enough'
BY DEF Grown, Enough

LEMMA RowSoundGrows ==
  ASSUME NEW x \in Shapes, NEW made \in Nat, NEW more \in Nat, NEW got \in Nat, NEW got2 \in Nat,
         NEW enough \in SUBSET (0 .. MaxRetries), NEW enough2 \in SUBSET (0 .. MaxRetries),
         more >= made \/ more >= MaxRetries, got > 0 => got2 > 0, enough \subseteq enough2,
         RowSound(x, made, got, enough)
  PROVE  RowSound(x, more, got2, enough2)
<1>1. Made(x.attempts, more)
  BY MadeGrows DEF RowSound, Shapes
<1>2. Justified(made, enough) => Justified(more, enough2)
  BY JustifiedGrows
<1> QED
  BY <1>1, <1>2 DEF RowSound

LEMMA AttemptSoundGrows ==
  ASSUME NEW x \in Attempts, NEW made \in Nat, NEW more \in Nat, NEW got \in Nat, NEW got2 \in Nat,
         NEW enough \in SUBSET (0 .. MaxRetries), NEW enough2 \in SUBSET (0 .. MaxRetries),
         more >= made \/ more >= MaxRetries, got > 0 => got2 > 0, enough \subseteq enough2,
         AttemptSound(x, made, got, enough)
  PROVE  AttemptSound(x, more, got2, enough2)
<1>1. x.count \in Nat
  BY DEF Attempts
<1>2. x.pc # "send" => Made(x.count, more)
  BY <1>1, MadeGrows DEF AttemptSound
<1>3. x.pc = "send" => x.count >= 1 /\ Made(x.count - 1, more)
  <2>1. x.pc = "send" => x.count - 1 \in Nat
    BY <1>1 DEF AttemptSound
  <2> QED
    BY <2>1, MadeGrows DEF AttemptSound
<1>4. Justified(x.count, enough) => Justified(x.count, enough2)
  BY <1>1, JustifiedGrows
<1> QED
  BY <1>2, <1>3, <1>4 DEF AttemptSound

LEMMA HistoryType ==
  ASSUME WebhookTypeOK
  PROVE  \A d \in Delivery : /\ sends[d] \in Nat /\ accepted[d] \in Nat
                             /\ row[d] \in Shapes
BY DEF WebhookTypeOK, Shapes

LEMMA StillGrown ==
  ASSUME WebhookTypeOK, UNCHANGED <<sends, accepted>>, stopped => stopped', limits \subseteq limits'
  PROVE  Grown
<1>1. \A d \in Delivery : sends[d] \in Nat /\ sends'[d] = sends[d] /\ accepted'[d] = accepted[d]
  BY HistoryType
<1> QED
  BY <1>1 DEF Grown

(* Where a row stays as it is, it stays sound.                             *)
LEMMA RowKept ==
  ASSUME WebhookTypeOK, WebhookTypeOK', Grown, NEW d \in Delivery, NEW x \in Shapes,
         RowSound(x, sends[d], accepted[d], Enough)
  PROVE  RowSound(x, sends'[d], accepted'[d], Enough')
<1>1. sends[d] \in Nat /\ accepted[d] \in Nat
  BY HistoryType
<1>2. sends'[d] \in Nat /\ accepted'[d] \in Nat
  BY DEF WebhookTypeOK
<1>3. Enough \in SUBSET (0 .. MaxRetries) /\ Enough' \in SUBSET (0 .. MaxRetries) /\ Enough \subseteq Enough'
  BY EnoughType, EnoughTypeNext, EnoughGrows
<1> QED
  BY <1>1, <1>2, <1>3, RowSoundGrows DEF Grown

LEMMA RowsKept ==
  ASSUME IInv, WebhookTypeOK', Grown, UNCHANGED row
  PROVE  RowsSound'
<1> SUFFICES ASSUME NEW d \in Delivery
             PROVE  RowSound(row'[d], sends'[d], accepted'[d], Enough')
  BY DEF RowsSound
<1>1. row[d] \in Shapes /\ RowSound(row[d], sends[d], accepted[d], Enough)
  BY HistoryType DEF IInv, RowsSound
<1> QED
  BY <1>1, RowKept DEF IInv

(* An attempt that stays as it is stays sound.                             *)
LEMMA AttemptKept ==
  ASSUME WebhookTypeOK, WebhookTypeOK', Grown, NEW x \in Attempts,
         AttemptSound(x, sends[x.d], accepted[x.d], Enough)
  PROVE  AttemptSound(x, sends'[x.d], accepted'[x.d], Enough')
<1> DEFINE d == x.d
<1>1. d \in Delivery
  BY DEF Attempts
<1>2. sends[d] \in Nat /\ accepted[d] \in Nat
  BY <1>1, HistoryType
<1>3. sends'[d] \in Nat /\ accepted'[d] \in Nat
  BY <1>1 DEF WebhookTypeOK
<1>4. /\ sends'[d] >= sends[d] \/ sends'[d] >= MaxRetries
      /\ accepted[d] > 0 => accepted'[d] > 0
      /\ Enough \in SUBSET (0 .. MaxRetries) /\ Enough' \in SUBSET (0 .. MaxRetries) /\ Enough \subseteq Enough'
  BY <1>1, EnoughType, EnoughTypeNext, EnoughGrows DEF Grown
<1>5. AttemptSound(x, sends[d], accepted[d], Enough)
  OBVIOUS
<1> HIDE DEF d
<1>6. AttemptSound(x, sends'[d], accepted'[d], Enough')
  BY <1>2, <1>3, <1>4, <1>5, AttemptSoundGrows
<1> QED
  BY <1>6 DEF d

LEMMA OthersKept ==
  ASSUME IInv, WebhookTypeOK', Grown, NEW p \in Runner, run'[p] = run[p], run[p].pc # "idle"
  PROVE  AttemptSound(run'[p], sends'[run'[p].d], accepted'[run'[p].d], Enough')
<1>1. run[p] \in Attempts
  BY Awake, TypeParts DEF IInv
<1>2. AttemptSound(run[p], sends[run[p].d], accepted[run[p].d], Enough)
  BY DEF IInv, RunsSound, Sound
<1>3. AttemptSound(run[p], sends'[run[p].d], accepted'[run[p].d], Enough')
  BY <1>1, <1>2, AttemptKept DEF IInv
<1> QED
  BY <1>3

LEMMA RunsKept ==
  ASSUME IInv, WebhookTypeOK', Grown,
         \A p \in Runner : \/ run'[p] = run[p] \/ run'[p].pc = "idle"
                           \/ AttemptSound(run'[p], sends'[run'[p].d], accepted'[run'[p].d], Enough')
  PROVE  RunsSound'
BY OthersKept DEF RunsSound, Sound

LEMMA ClaimKept ==
  ASSUME WebhookTypeOK, WebhookTypeOK', Grown, NEW x \in Claims, Made(x.count, sends[x.d])
  PROVE  Made(x.count, sends'[x.d])
<1>1. x.d \in Delivery /\ x.count \in Nat
  BY DEF Claims
<1>2. sends[x.d] \in Nat /\ sends'[x.d] \in Nat
  BY <1>1 DEF WebhookTypeOK
<1> QED
  BY <1>1, <1>2, MadeGrows DEF Grown

LEMMA BatchesKept ==
  ASSUME IInv, WebhookTypeOK', Grown,
         \A r \in Replica : \/ batch'[r] = batch[r] \/ batch'[r] = <<>>
                            \/ \A i \in 1 .. Len(batch'[r]) :
                                 Made(batch'[r][i].count, sends[batch'[r][i].d])
  PROVE  BatchesSound'
<1> SUFFICES ASSUME NEW r \in Replica, NEW i \in 1 .. Len(batch'[r])
             PROVE  Made(batch'[r][i].count, sends'[batch'[r][i].d])
  BY DEF BatchesSound
<1>1. batch'[r] \in Seq(Claims)
  BY DEF WebhookTypeOK, Claims
<1>2. batch'[r][i] \in Claims
  BY <1>1
<1>3. Made(batch'[r][i].count, sends[batch'[r][i].d])
  <2>1. batch'[r] # <<>>
    BY <1>1
  <2> QED
    BY <2>1 DEF IInv, BatchesSound
<1> QED
  BY <1>2, <1>3, ClaimKept DEF IInv

(* The invariant from its parts.                                           *)
LEMMA Together ==
  ASSUME WebhookTypeOK', RowsSound', HookSound', RunsSound', BatchesSound'
  PROVE  IInv'
BY DEF IInv

(* What an attempt that is sound writes into its row is sound.             *)
LEMMA RowAfterSound ==
  ASSUME IInv, NEW p \in Runner, run[p].pc # "idle", NEW d \in Delivery
  PROVE  RowSound(RowAfter(p)[d], sends[d], accepted[d], Enough)
<1> DEFINE x == run[p]
           old == row[x.d]
<1>1. x \in Attempts /\ x.d \in Delivery /\ x.count \in Nat
  BY Awake, TypeParts DEF IInv, Attempts
<1>2. Sound(p) /\ RowSound(row[d], sends[d], accepted[d], Enough)
  BY DEF IInv, RunsSound, RowsSound
<1>3. row \in [Delivery -> Shapes] /\ old \in Shapes
  BY <1>1, TypeParts DEF IInv, RowType
<1>4. CASE d # x.d \/ x.pc \notin {"store", "drop", "fail", "park"}
  <2>1. RowAfter(p)[d] = row[d]
    BY <1>3, <1>4, <1>1 DEF RowAfter
  <2> QED
    BY <1>2, <2>1
<1>5. CASE d = x.d /\ x.pc = "store"
  <2>1. RowAfter(p)[d] = StoredRow(old, x.count)
    BY <1>1, <1>3, <1>5 DEF RowAfter
  <2>2. StoredRow(old, x.count).status = "success" /\ StoredRow(old, x.count).attempts = x.count
    BY <1>3 DEF StoredRow, Shapes
  <2> QED
    BY <1>2, <1>5, <2>1, <2>2 DEF Sound, AttemptSound, RowSound
<1>6. CASE d = x.d /\ x.pc = "drop"
  <2>1. RowAfter(p)[d] = DroppedRow(old)
    BY <1>1, <1>3, <1>6 DEF RowAfter
  <2>2. DroppedRow(old).status = "failed" /\ DroppedRow(old).attempts = old.attempts
    BY <1>3 DEF DroppedRow, Shapes
  <2>3. Justified(sends[d], Enough)
    BY <1>1, <1>2, <1>6, HistoryType, EnoughType, JustifiedBySends DEF IInv, Sound, AttemptSound
  <2> QED
    BY <1>2, <1>6, <2>1, <2>2, <2>3 DEF RowSound
<1>7. CASE d = x.d /\ x.pc = "fail"
  <2>1. RowAfter(p)[d] = FailedRow(old, x.count)
    BY <1>1, <1>3, <1>7 DEF RowAfter
  <2>2. FailedRow(old, x.count).status = "failed" /\ FailedRow(old, x.count).attempts = x.count
    BY <1>3 DEF FailedRow, Shapes
  <2>3. Justified(sends[d], Enough)
    BY <1>1, <1>2, <1>7, HistoryType, EnoughType, JustifiedBySends DEF IInv, Sound, AttemptSound
  <2>4. Made(x.count, sends[d])
    BY <1>2, <1>7 DEF Sound, AttemptSound
  <2> QED
    BY <2>1, <2>2, <2>3, <2>4 DEF RowSound
<1>8. CASE d = x.d /\ x.pc = "park"
  <2>1. RowAfter(p)[d] = ParkedRow(old, x.count)
    BY <1>1, <1>3, <1>8 DEF RowAfter
  <2>2. ParkedRow(old, x.count).status = "pending" /\ ParkedRow(old, x.count).attempts = x.count
    BY <1>3 DEF ParkedRow, Shapes
  <2>3. Made(x.count, sends[d])
    BY <1>2, <1>8 DEF Sound, AttemptSound
  <2> QED
    BY <2>1, <2>2, <2>3 DEF RowSound
<1> QED
  BY <1>4, <1>5, <1>6, <1>7, <1>8

LEMMA RowsWritten ==
  ASSUME IInv, WebhookTypeOK', Grown, NEW p \in Runner, run[p].pc # "idle", row' = RowAfter(p)
  PROVE  RowsSound'
<1> SUFFICES ASSUME NEW d \in Delivery
             PROVE  RowSound(row'[d], sends'[d], accepted'[d], Enough')
  BY DEF RowsSound
<1>1. RowAfter(p)[d] \in Shapes
  BY RowAfterType, TypeParts DEF IInv
<1>2. RowSound(RowAfter(p)[d], sends'[d], accepted'[d], Enough')
  BY <1>1, RowAfterSound, RowKept DEF IInv
<1> QED
  BY <1>2

(* A tick that turns to the rest of its batch reads a sound count.         *)
LEMMA TurnsSound ==
  ASSUME IInv, WebhookTypeOK', Grown, NEW r \in Replica, NEW rest \in Seq(Claims), TurnsTo(r, rest),
         \A i \in 1 .. Len(rest) : Made(rest[i].count, sends[rest[i].d])
  PROVE  RunsSound' /\ BatchesSound'
<1>1. RunType /\ BatchType /\ r \in Runner
  BY TypeParts DEF IInv, Runner
<1>2. \A q \in Replica \ {r} : batch'[q] = batch[q]
  BY <1>1 DEF TurnsTo, BatchType
<1>3. batch'[r] = rest
  BY <1>1 DEF TurnsTo, BatchType
<1>4. BatchesSound'
  BY <1>2, <1>3, BatchesKept
<1>5. \A q \in Runner \ {r} : run'[q] = run[q]
  BY <1>1 DEF TurnsTo, RunType
<1>6. CASE rest = <<>>
  <2>1. run'[r].pc = "idle"
    BY <1>1, <1>6 DEF TurnsTo, RunType, Idle
  <2> QED
    BY <1>4, <1>5, <2>1, RunsKept
<1>7. CASE rest # <<>>
  <2> DEFINE h == Head(rest)
  <2>1. run'[r] = At("check", r, h.d, h.count)
    BY <1>1, <1>7 DEF TurnsTo, RunType
  <2>2. h = rest[1] /\ 1 \in 1 .. Len(rest) /\ h \in Claims
    BY <1>7
  <2>3. Made(h.count, sends'[h.d])
    BY <2>2, ClaimKept DEF IInv
  <2>4. run'[r].pc = "check" /\ run'[r].count = h.count /\ run'[r].d = h.d /\ run'[r].guarded = FALSE
    BY <2>1 DEF At
  <2>5. AttemptSound(run'[r], sends'[run'[r].d], accepted'[run'[r].d], Enough')
    BY <2>3, <2>4 DEF AttemptSound
  <2> QED
    BY <1>4, <1>5, <2>5, RunsKept
<1> QED
  BY <1>6, <1>7

LEMMA EndsSound ==
  ASSUME IInv, WebhookTypeOK', Grown, NEW p \in Runner, run' = [run EXCEPT ![p] = Idle],
         batch' = IF p \in Replica THEN [batch EXCEPT ![p] = <<>>] ELSE batch
  PROVE  RunsSound' /\ BatchesSound'
<1>1. RunType /\ BatchType
  BY TypeParts DEF IInv
<1>2. \A q \in Runner : run'[q] = run[q] \/ run'[q].pc = "idle"
  BY <1>1 DEF RunType, Idle
<1>3. \A r \in Replica : batch'[r] = batch[r] \/ batch'[r] = <<>>
  BY <1>1 DEF BatchType
<1> QED
  BY <1>2, <1>3, RunsKept, BatchesKept

LEMMA OverSound ==
  ASSUME IInv, WebhookTypeOK', Grown, NEW p \in Runner, run[p].pc # "idle", Over(p)
  PROVE  RunsSound' /\ BatchesSound'
<1>1. CASE p \in Replica
  <2> DEFINE rest == Tail(batch[p])
  <2>1. batch[p] \in Seq(Claims) /\ TurnsTo(p, rest)
    BY <1>1, TypeParts DEF BatchType, Over, IInv
  <2>2. batch[p] # <<>>
    BY <1>1, Awake, TypeParts DEF BatchType, IInv
  <2>3. rest \in Seq(Claims) /\ Len(rest) = Len(batch[p]) - 1
    BY <2>1, <2>2
  <2>4. \A i \in 1 .. Len(rest) : i + 1 \in 1 .. Len(batch[p]) /\ rest[i] = batch[p][i + 1]
    BY <2>1, <2>2, <2>3
  <2>5. \A i \in 1 .. Len(rest) : Made(rest[i].count, sends[rest[i].d])
    BY <1>1, <2>4 DEF IInv, BatchesSound
  <2> HIDE DEF rest
  <2> QED
    BY <1>1, <2>1, <2>3, <2>5, TurnsSound
<1>2. CASE p \notin Replica
  BY <1>2, EndsSound DEF Over
<1> QED
  BY <1>1, <1>2

(* An attempt that goes on.                                                *)
LEMMA GoesOnSound ==
  ASSUME IInv, WebhookTypeOK', Grown, NEW p \in Runner, NEW x,
         run' = [run EXCEPT ![p] = x], UNCHANGED batch,
         AttemptSound(x, sends'[x.d], accepted'[x.d], Enough')
  PROVE  RunsSound' /\ BatchesSound'
<1>1. RunType
  BY TypeParts DEF IInv
<1>2. run'[p] = x /\ \A q \in Runner \ {p} : run'[q] = run[q]
  BY <1>1 DEF RunType
<1>3. AttemptSound(run'[p], sends'[run'[p].d], accepted'[run'[p].d], Enough')
  BY <1>2
<1> QED
  BY <1>2, <1>3, RunsKept, BatchesKept

-----------------------------------------------------------------------------
(* Every step keeps IInv.                                                  *)

(* The history only grows, to where it stops to matter.                    *)
LEMMA GrownStep ==
  ASSUME WebhookTypeOK, [Next]_vars
  PROVE  Grown
<1>1. ASSUME NEW p \in Runner, Send(p) PROVE Grown
  <2> DEFINE d == run[p].d
             most == IF disturbed[d] THEN MaxRetries ELSE MaxRetries + 1
             last == IF disturbed[d] THEN 1 ELSE 2
  <2>1. sends \in [Delivery -> Nat] /\ accepted \in [Delivery -> Nat] /\ UNCHANGED <<stopped, limits>>
    BY <1>1 DEF WebhookTypeOK, Send
  <2>2. most \in Nat /\ most >= MaxRetries /\ last \in Nat /\ last > 0
    BY LimitsAssumption
  <2>3. sends' = [sends EXCEPT ![d] = UpTo(most, sends[d] + 1)]
    BY <1>1, <2>1 DEF Send
  <2>4. accepted' = [accepted EXCEPT ![d] = UpTo(last, accepted[d] + 1)] \/ accepted' = accepted
    BY <1>1, <2>1 DEF Send
  <2> HIDE DEF d, most, last
  <2>5. ASSUME NEW e \in Delivery
        PROVE  /\ sends'[e] >= sends[e] \/ sends'[e] >= MaxRetries
               /\ accepted[e] > 0 => accepted'[e] > 0
    <3>1. sends[e] \in Nat /\ accepted[e] \in Nat /\ MaxRetries \in Nat
      BY <2>1, LimitsAssumption
    <3>2. sends'[e] = sends[e] \/ sends'[e] = UpTo(most, sends[e] + 1)
      BY <2>1, <2>3
    <3>3. accepted'[e] = accepted[e] \/ accepted'[e] = UpTo(last, accepted[e] + 1)
      BY <2>1, <2>4
    <3> QED
      BY <2>2, <3>1, <3>2, <3>3 DEF UpTo
  <2> QED
    BY <2>1, <2>5 DEF Grown
<1>2. CASE UNCHANGED <<sends, accepted>> /\ (stopped => stopped') /\ limits \subseteq limits'
  BY <1>2, StillGrown
<1>3. ASSUME NEW p \in Runner, Read(p) \/ Write(p) \/ StatementFails(p) PROVE Grown
  <2>1. UNCHANGED <<sends, accepted>>
    BY <1>3 DEF Read, Write, StatementFails
  <2>2. UNCHANGED limits
    BY <1>3 DEF Read, Write, StatementFails
  <2>3. stopped => stopped'
    BY <1>3 DEF Read, Write, StatementFails
  <2> QED
    BY <1>2, <2>1, <2>2, <2>3
<1>4. ASSUME NEW d \in Delivery,
             Elapse(d) \/ DeliverFails(d) \/ \E r \in Replica : Deliver(d, r)
      PROVE  Grown
  BY <1>2, <1>4 DEF Elapse, DeliverFails, Deliver, History
<1>5. ASSUME NEW r \in Replica, Claim(r) \/ Check(r) \/ Crash(r) PROVE Grown
  BY <1>2, <1>5 DEF Claim, Check, Crash, History
<1>6. CASE Switch
  <2>1. UNCHANGED <<sends, accepted>>
    BY <1>6 DEF Switch
  <2>2. (stopped => stopped') /\ limits \subseteq limits'
    BY <1>6 DEF Switch
  <2> QED
    BY <1>2, <2>1, <2>2
<1>7. CASE UNCHANGED vars
  BY <1>2, <1>7 DEF vars
<1> QED
  BY <1>1, <1>3, <1>4, <1>5, <1>6, <1>7 DEF Next, Advances

(* What an attempt writes of the webhook leaves max_retries as it is.      *)
LEMMA HookAfterLimit ==
  ASSUME HookType, NEW p \in Runner
  PROVE  HookAfter(p).limit = hook.limit
BY DEF HookType, Hooks, HookAfter, CreditedHook, BlamedHook

LEMMA WriteKeeps ==
  ASSUME IInv, WebhookTypeOK', Grown, NEW p \in Runner, Write(p)
  PROVE  IInv'
<1> DEFINE x == [run[p] EXCEPT !.pc = Then(run[p]), !.told = Told(run[p], TRUE)]
<1>1. run[p].pc # "idle" /\ run[p] \in Attempts
  BY Awake, TypeParts DEF Write, Recording, IInv
<1>2. RowsSound' /\ HookSound'
  <2>1. hook'.limit = hook.limit
    BY HookAfterLimit, TypeParts DEF Write, IInv
  <2> QED
    BY <1>1, <2>1, RowsWritten DEF Write, HookSound, IInv
<1>3. CASE Then(run[p]) = "over"
  <2>1. RunsSound' /\ BatchesSound'
    BY <1>1, <1>3, OverSound DEF Write
  <2> QED
    BY <1>2, <2>1, Together
<1>4. CASE Then(run[p]) # "over"
  <2>1. run' = [run EXCEPT ![p] = x] /\ UNCHANGED <<batch, sends, accepted>>
    BY <1>4 DEF Write
  <2>2. /\ x.limit = run[p].limit /\ x.pc = Then(run[p]) /\ x.count = run[p].count /\ x.d = run[p].d
        /\ run[p].pc \in {"store", "blame"} /\ x.pc \in {"credit", "fail", "park"}
    BY <1>1, <1>4 DEF Attempts, Then, AfterBlame
  <2>3. Made(x.count, sends'[x.d])
    BY <1>1, <2>1, <2>2 DEF IInv, RunsSound, Sound, AttemptSound
  <2>4. x.pc = "fail" => Justified(x.count, Enough')
    <3> SUFFICES ASSUME x.pc = "fail" PROVE Justified(x.count, Enough')
      OBVIOUS
    <3>a. x.count \in Nat /\ run[p].limit \in Enough'
      BY <1>1, <2>2, EnoughGrows DEF IInv, RunsSound, Sound, AttemptSound, Attempts
    <3>b. CASE Spent(run[p])
      BY <2>2, <3>a, <3>b, EnoughTypeNext DEF Spent, Justified
    <3>c. stopped' => Justified(x.count, Enough')
      BY <3>a DEF Enough, Justified
    <3>1. SUFFICES ASSUME ~ Spent(run[p]) PROVE stopped'
      BY <3>b, <3>c
    <3>2. run[p].pc = "blame" /\ TooMany(run[p].seen + 1)
      BY <2>2, <3>1 DEF Then, AfterBlame
    <3>3. hook' = BlamedHook(run[p].seen)
      BY <3>2 DEF Write, HookAfter
    <3>4. ~ hook'.active
      BY <3>2, <3>3, TypeParts DEF BlamedHook, IInv, HookType, Hooks
    <3> QED
      BY <3>4 DEF Write
  <2> HIDE DEF x
  <2>5. x.limit \in Enough'
    BY <1>1, <2>2, EnoughGrows DEF IInv, RunsSound, Sound, AttemptSound, Then, AfterBlame
  <2>6. AttemptSound(x, sends'[x.d], accepted'[x.d], Enough')
    BY <2>2, <2>3, <2>4, <2>5 DEF AttemptSound
  <2>7. RunsSound' /\ BatchesSound'
    BY <2>1, <2>6, GoesOnSound
  <2> QED
    BY <1>2, <2>7, Together
<1> QED
  BY <1>3, <1>4

LEMMA StatementFailsKeeps ==
  ASSUME IInv, WebhookTypeOK', Grown, NEW p \in Runner, StatementFails(p)
  PROVE  IInv'
<1>1. run[p].pc # "idle" /\ run[p].pc # "send" /\ run[p] \in Attempts
  BY Awake, TypeParts DEF StatementFails, Steps, IInv
<1>2. RowsSound'
  BY <1>1, RowsKept, RowsWritten DEF StatementFails
<1>3. HookSound'
  <2>1. hook'.limit = hook.limit /\ UNCHANGED limits
    BY HookAfterLimit, TypeParts DEF StatementFails, IInv
  <2> QED
    BY <2>1 DEF StatementFails, HookSound, IInv
<1>4. CASE run[p].guarded
  <2>0. PICK done \in BOOLEAN : Caught(p, done)
    BY <1>4 DEF StatementFails
  <2> DEFINE x == [run[p] EXCEPT !.pc = "blame", !.guarded = FALSE, !.told = Told(run[p], done)]
  <2>1. run' = [run EXCEPT ![p] = x] /\ UNCHANGED <<batch, sends>>
    BY <2>0 DEF StatementFails, Caught
  <2>2. x.pc = "blame" /\ x.count = run[p].count /\ x.d = run[p].d /\ x.limit = run[p].limit
    BY <1>1 DEF Attempts
  <2>3. Made(x.count, sends'[x.d])
    BY <1>1, <2>1, <2>2 DEF IInv, RunsSound, Sound, AttemptSound
  <2>a. x.limit \in Enough'
    BY <1>1, <1>4, <2>2, EnoughGrows DEF IInv, RunsSound, Sound, AttemptSound
  <2> HIDE DEF x
  <2>4. AttemptSound(x, sends'[x.d], accepted'[x.d], Enough')
    BY <2>2, <2>3, <2>a DEF AttemptSound
  <2>5. RunsSound' /\ BatchesSound'
    BY <2>1, <2>4, GoesOnSound
  <2> QED
    BY <1>2, <1>3, <2>5, Together
<1>5. CASE ~ run[p].guarded
  <2>1. RunsSound' /\ BatchesSound'
    BY <1>5, EndsSound DEF StatementFails, Thrown
  <2> QED
    BY <1>2, <1>3, <2>1, Together
<1> QED
  BY <1>4, <1>5

LEMMA ReadKeeps ==
  ASSUME IInv, WebhookTypeOK', Grown, NEW p \in Runner, Read(p)
  PROVE  IInv'
<1> DEFINE x == [run[p] EXCEPT !.pc = "send", !.count = run[p].count + 1,
                               !.seen = hook.failures, !.limit = hook.limit]
<1>1. run[p].pc = "read" /\ run[p] \in Attempts /\ RunType
  BY Awake, TypeParts DEF Read, IInv
<1>2. run' = [run EXCEPT ![p] = x] /\ UNCHANGED <<batch, sends, row, hook, stopped, limits>>
  BY <1>1 DEF Read, RunType, Attempts
<1>3. /\ x.pc = "send" /\ x.count = run[p].count + 1 /\ x.d = run[p].d /\ run[p].count \in Nat
      /\ x.limit = hook.limit
  BY <1>1 DEF Attempts
<1>4. Made(run[p].count, sends'[x.d])
  BY <1>1, <1>2, <1>3 DEF IInv, RunsSound, Sound, AttemptSound
<1> HIDE DEF x
<1>5. x.count >= 1 /\ x.count - 1 = run[p].count
  BY <1>3
<1>a. x.limit \in Enough'
  BY <1>2, <1>3 DEF IInv, HookSound, Enough
<1>6. AttemptSound(x, sends'[x.d], accepted'[x.d], Enough')
  BY <1>3, <1>4, <1>5, <1>a DEF AttemptSound
<1>7. RunsSound' /\ BatchesSound'
  BY <1>2, <1>6, GoesOnSound
<1>8. RowsSound' /\ HookSound'
  BY <1>2, RowsKept DEF IInv, HookSound
<1> QED
  BY <1>7, <1>8, Together

LEMMA SendKeeps ==
  ASSUME IInv, WebhookTypeOK', Grown, NEW p \in Runner, Send(p)
  PROVE  IInv'
<1> DEFINE d == run[p].d
           most == IF disturbed[d] THEN MaxRetries ELSE MaxRetries + 1
           last == IF disturbed[d] THEN 1 ELSE 2
<1>1. run[p].pc = "send" /\ run[p] \in Attempts /\ d \in Delivery /\ run[p].count \in Nat
  BY Awake, TypeParts DEF Send, IInv, Attempts
<1>2. PICK answer \in {"ok", "error", "none"} :
        /\ run' = [run EXCEPT ![p] = [@ EXCEPT !.pc = Verdict(answer), !.guarded = answer # "none"]]
        /\ accepted' = IF answer = "ok"
                       THEN [accepted EXCEPT ![d] = UpTo(IF disturbed[d] THEN 1 ELSE 2, @ + 1)]
                       ELSE accepted
  BY DEF Send
<1> DEFINE x == [run[p] EXCEPT !.pc = Verdict(answer), !.guarded = answer # "none"]
<1>3. run' = [run EXCEPT ![p] = x] /\ UNCHANGED <<batch, row, hook, stopped, limits>>
  BY <1>2 DEF Send
<1>4. x.pc = Verdict(answer) /\ x.count = run[p].count /\ x.d = d /\ x.limit = run[p].limit
  BY <1>1 DEF Attempts
<1>5. sends[d] \in Nat /\ accepted[d] \in Nat
  BY <1>1, HistoryType DEF IInv
<1>6. Made(run[p].count, sends'[d])
  <2>1. sends'[d] = UpTo(most, sends[d] + 1)
    BY <1>1 DEF Send, IInv, WebhookTypeOK
  <2>2. most \in Nat /\ most >= MaxRetries /\ MaxRetries \in Nat
    BY LimitsAssumption
  <2>3. Made(run[p].count - 1, sends[d])
    BY <1>1 DEF IInv, RunsSound, Sound, AttemptSound
  <2> HIDE DEF most, d
  <2> QED
    BY <1>1, <1>5, <2>1, <2>2, <2>3 DEF Made, UpTo
<1>7. x.pc = "store" => accepted'[d] > 0
  <2>1. x.pc = "store" => answer = "ok"
    BY <1>4 DEF Verdict
  <2>2. answer = "ok" => accepted'[d] = UpTo(last, accepted[d] + 1)
    BY <1>1, <1>2 DEF IInv, WebhookTypeOK
  <2>3. last \in Nat /\ last > 0
    OBVIOUS
  <2> HIDE DEF last, d, x
  <2> QED
    BY <1>5, <2>1, <2>2, <2>3 DEF UpTo
<1>8. x.pc \in {"store", "blame"}
  BY <1>4 DEF Verdict
<1> HIDE DEF x, d
<1>a. x.limit \in Enough'
  BY <1>1, <1>4, EnoughGrows DEF IInv, RunsSound, Sound, AttemptSound
<1>9. AttemptSound(x, sends'[x.d], accepted'[x.d], Enough')
  BY <1>4, <1>6, <1>7, <1>8, <1>a DEF AttemptSound
<1>10. RunsSound' /\ BatchesSound'
  BY <1>3, <1>9, GoesOnSound
<1>11. RowsSound' /\ HookSound'
  BY <1>3, RowsKept DEF IInv, HookSound
<1> QED
  BY <1>10, <1>11, Together

(* A row is dropped unread only when the webhook was seen inactive, or all *)
(* its attempts were made.                                                 *)
LEMMA CheckKeeps ==
  ASSUME IInv, WebhookTypeOK', Grown, NEW r \in Replica, Check(r)
  PROVE  IInv'
<1> DEFINE x == [run[r] EXCEPT !.pc = IF hook.active /\ run[r].count < hook.limit THEN "read" ELSE "drop"]
<1>1. r \in Runner /\ run[r].pc = "check" /\ run[r] \in Attempts
  BY Awake, TypeParts DEF Check, IInv, Runner
<1>2. run' = [run EXCEPT ![r] = x] /\ UNCHANGED <<batch, row, hook, sends, stopped, limits>>
  BY DEF Check, Moves, History
<1>3. /\ x.count = run[r].count /\ x.d = run[r].d /\ x.count \in Nat /\ x.pc \in {"read", "drop"}
      /\ x.limit = run[r].limit /\ x.guarded = run[r].guarded
      /\ x.pc = "drop" => ~ (hook.active /\ run[r].count < hook.limit)
  BY <1>1 DEF Attempts
<1>4. Made(x.count, sends'[x.d])
  BY <1>1, <1>2, <1>3 DEF IInv, RunsSound, Sound, AttemptSound
<1>5. x.pc = "drop" => Justified(x.count, Enough')
  <2>1. hook.limit \in Nat /\ hook.limit \in Enough' /\ (~ hook.active => 0 \in Enough')
    BY <1>2, TypeParts, LimitsAssumption DEF IInv, HookSound, HookType, Hooks, Enough
  <2> HIDE DEF x
  <2> QED
    BY <1>3, <2>1 DEF Justified
<1>6. x.guarded => x.limit \in Enough'
  BY <1>1, <1>3, EnoughGrows DEF IInv, RunsSound, Sound, AttemptSound
<1> HIDE DEF x
<1>7. AttemptSound(x, sends'[x.d], accepted'[x.d], Enough')
  BY <1>3, <1>4, <1>5, <1>6 DEF AttemptSound
<1>8. RunsSound' /\ BatchesSound'
  BY <1>1, <1>2, <1>7, GoesOnSound
<1>9. RowsSound' /\ HookSound'
  BY <1>2, RowsKept DEF IInv, HookSound
<1> QED
  BY <1>8, <1>9, Together

LEMMA ClaimKeeps ==
  ASSUME IInv, WebhookTypeOK', Grown, NEW r \in Replica, Claim(r)
  PROVE  IInv'
<1>1. row \in [Delivery -> Shapes] /\ Claimed \subseteq Delivery /\ RowType
  BY TypeParts DEF IInv, RowType, Claimed
<1>2. PICK s \in Orders(Claimed) : TurnsTo(r, Snapshot(s))
  BY DEF Claim
<1>3. Snapshot(s) \in Seq(Claims)
  BY <1>1, SnapshotType
<1>4. \A i \in 1 .. Len(Snapshot(s)) : Made(Snapshot(s)[i].count, sends[Snapshot(s)[i].d])
  <2> SUFFICES ASSUME NEW i \in 1 .. Len(Snapshot(s))
               PROVE  Made(Snapshot(s)[i].count, sends[Snapshot(s)[i].d])
    OBVIOUS
  <2>1. i \in DOMAIN Snapshot(s) /\ DOMAIN Snapshot(s) = DOMAIN s
    BY <1>3 DEF Snapshot
  <2>2. s[i] \in Delivery
    BY <1>1, <2>1 DEF Orders
  <2>3. Snapshot(s)[i].d = s[i] /\ Snapshot(s)[i].count = row[s[i]].attempts
    BY <2>1 DEF Snapshot
  <2> QED
    BY <2>2, <2>3 DEF IInv, RowsSound, RowSound
<1>5. RunsSound' /\ BatchesSound'
  BY <1>2, <1>3, <1>4, TurnsSound
<1>6. RowsSound'
  <2> SUFFICES ASSUME NEW d \in Delivery
               PROVE  RowSound(row'[d], sends'[d], accepted'[d], Enough')
    BY DEF RowsSound
  <2>1. row'[d].status = row[d].status /\ row'[d].attempts = row[d].attempts
    BY <1>1 DEF Claim, LeasedRow, Shapes
  <2>2. RowSound(row[d], sends[d], accepted[d], Enough)
    BY DEF IInv, RowsSound
  <2>3. UNCHANGED <<sends, accepted, stopped, limits>>
    BY DEF Claim, History
  <2> QED
    BY <2>1, <2>2, <2>3 DEF RowSound, Enough
<1>7. HookSound'
  BY DEF Claim, History, IInv, HookSound
<1> QED
  BY <1>5, <1>6, <1>7, Together

(* A row is inserted with no attempts.                                     *)
LEMMA InsertedSound ==
  ASSUME IInv, NEW e \in Delivery, row' = [row EXCEPT ![e] = PendingRow],
         UNCHANGED <<sends, accepted, stopped, limits, hook>>
  PROVE  RowsSound' /\ HookSound'
<1> SUFFICES ASSUME NEW d \in Delivery
             PROVE  RowSound(row'[d], sends'[d], accepted'[d], Enough')
  BY DEF RowsSound, HookSound, IInv
<1>1. row \in [Delivery -> Shapes] /\ sends[d] \in Nat
  BY TypeParts, HistoryType DEF IInv, RowType
<1>2. RowSound(row[d], sends[d], accepted[d], Enough)
  BY DEF IInv, RowsSound
<1>3. CASE d = e
  <2>1. row'[d].status = "pending" /\ row'[d].attempts = 0
    BY <1>1, <1>3 DEF PendingRow, NoRow
  <2> QED
    BY <1>1, <2>1 DEF RowSound, Made
<1>4. CASE d # e
  BY <1>1, <1>2, <1>4 DEF Enough
<1> QED
  BY <1>3, <1>4

LEMMA DeliverKeeps ==
  ASSUME IInv, WebhookTypeOK', Grown, NEW d \in Delivery, NEW r \in Replica, Deliver(d, r)
  PROVE  IInv'
<1> DEFINE x == At("read", r, d, 0)
<1>1. run' = [run EXCEPT ![d] = x] /\ UNCHANGED batch /\ d \in Runner
  BY DEF Deliver, Runner
<1>2. x.pc = "read" /\ x.count = 0 /\ x.d = d /\ x.guarded = FALSE
  BY DEF At
<1>3. Made(0, sends'[d])
  BY DEF WebhookTypeOK, Made
<1> HIDE DEF x
<1>4. AttemptSound(x, sends'[x.d], accepted'[x.d], Enough')
  BY <1>2, <1>3 DEF AttemptSound
<1>5. RunsSound' /\ BatchesSound'
  BY <1>1, <1>4, GoesOnSound
<1>6. RowsSound' /\ HookSound'
  BY InsertedSound DEF Deliver, History
<1> QED
  BY <1>5, <1>6, Together

(* The steps that touch no attempt.                                        *)
LEMMA AsideKeeps ==
  ASSUME IInv, WebhookTypeOK', Grown, NEW d \in Delivery, Elapse(d) \/ DeliverFails(d)
  PROVE  IInv'
<1>1. UNCHANGED <<run, batch, sends, accepted, stopped, limits, hook>>
  BY DEF Elapse, DeliverFails, History
<1>2. RunsSound' /\ BatchesSound'
  BY <1>1 DEF IInv, RunsSound, BatchesSound, Sound, Enough
<1>3. CASE DeliverFails(d)
  BY <1>1, <1>2, <1>3, InsertedSound, Together DEF DeliverFails
<1>4. CASE Elapse(d)
  <2>1. RowsSound'
    <3> SUFFICES ASSUME NEW e \in Delivery
                 PROVE  RowSound(row'[e], sends'[e], accepted'[e], Enough')
      BY DEF RowsSound
    <3>1. row[e] \in Shapes /\ RowSound(row[e], sends[e], accepted[e], Enough)
      BY HistoryType DEF IInv, RowsSound
    <3>2. row'[e].status = row[e].status /\ row'[e].attempts = row[e].attempts
      BY <1>4, TypeParts DEF Elapse, Shapes, IInv, RowType
    <3> QED
      BY <1>1, <3>1, <3>2 DEF RowSound, Enough
  <2>2. HookSound'
    BY <1>1 DEF IInv, HookSound
  <2> QED
    BY <1>2, <2>1, <2>2, Together
<1> QED
  BY <1>3, <1>4

LEMMA CrashKeeps ==
  ASSUME IInv, WebhookTypeOK', Grown, NEW r \in Replica, Crash(r)
  PROVE  IInv'
<1>1. UNCHANGED <<row, hook, stopped, limits>>
  BY DEF Crash
<1>2. \A p \in Runner : run'[p] = run[p] \/ run'[p].pc = "idle"
  BY DEF Crash, Idle
<1>3. \A q \in Replica : batch'[q] = batch[q] \/ batch'[q] = <<>>
  BY TypeParts DEF Crash, IInv, BatchType
<1>4. RowsSound' /\ HookSound'
  BY <1>1, RowsKept DEF IInv, HookSound
<1> QED
  BY <1>2, <1>3, <1>4, RunsKept, BatchesKept, Together

LEMMA SwitchKeeps ==
  ASSUME IInv, WebhookTypeOK', Grown, Switch
  PROVE  IInv'
<1>1. UNCHANGED <<row, run, batch>>
  BY DEF Switch
<1>2. HookSound'
  BY TypeParts DEF Switch, HookSound, IInv, HookType, Hooks
<1> QED
  BY <1>1, <1>2, RowsKept, RunsKept, BatchesKept, Together

LEMMA InitIInv == Init => IInv
<1> SUFFICES ASSUME Init PROVE IInv
  OBVIOUS
<1>1. WebhookTypeOK
  BY InitType
<1>2. RowsSound
  BY DEF Init, RowsSound, RowSound, Made, PendingRow, NoRow
<1>3. HookSound /\ RunsSound /\ BatchesSound
  BY DEF Init, HookSound, RunsSound, BatchesSound, Sound, Idle
<1> QED
  BY <1>1, <1>2, <1>3 DEF IInv

LEMMA NextIInv ==
  ASSUME IInv, [Next]_vars
  PROVE  IInv'
<1>1. WebhookTypeOK' /\ Grown
  BY NextType, GrownStep DEF IInv
<1>2. ASSUME NEW d \in Delivery, Elapse(d) \/ DeliverFails(d) PROVE IInv'
  BY <1>1, <1>2, AsideKeeps
<1>3. ASSUME NEW d \in Delivery, NEW r \in Replica, Deliver(d, r) PROVE IInv'
  BY <1>1, <1>3, DeliverKeeps
<1>4. ASSUME NEW r \in Replica, Claim(r) \/ Check(r) \/ Crash(r) PROVE IInv'
  BY <1>1, <1>4, ClaimKeeps, CheckKeeps, CrashKeeps
<1>5. ASSUME NEW p \in Runner, Advances(p) PROVE IInv'
  BY <1>1, <1>5, ReadKeeps, SendKeeps, WriteKeeps DEF Advances
<1>6. ASSUME NEW p \in Runner, StatementFails(p) PROVE IInv'
  BY <1>1, <1>6, StatementFailsKeeps
<1>7. ASSUME Switch PROVE IInv'
  BY <1>1, <1>7, SwitchKeeps
<1>8. ASSUME UNCHANGED vars PROVE IInv'
  BY <1>8 DEF vars, IInv, WebhookTypeOK, RowsSound, HookSound, RunsSound, Sound, BatchesSound, Enough
<1> QED
  BY <1>2, <1>3, <1>4, <1>5, <1>6, <1>7, <1>8 DEF Next

(* A stored success was accepted by the endpoint, and a stored failure had *)
(* all its requests made or met an inactive webhook, however first         *)
(* attempts, ticks, crashes, failed statements and switches interleave.    *)
THEOREM OutcomeHasCause == Spec => []OutcomeExplained
<1>1. IInv => OutcomeExplained
  BY HistoryType DEF IInv, RowsSound, RowSound, OutcomeExplained, Justified, Enough
<1> QED
  BY <1>1, InitIInv, NextIInv, PTL DEF Spec
=============================================================================
