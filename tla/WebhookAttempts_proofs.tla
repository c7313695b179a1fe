----------------------- MODULE WebhookAttempts_proofs -----------------------
(***************************************************************************)
(* More proofs about WebhookDelivery: how often a delivery is tried, that  *)
(* a success stays one, and when the service disables a webhook.           *)
(***************************************************************************)
EXTENDS WebhookDelivery_proofs

(* The attempt of p is at d; the i-th row r has claimed and not yet left   *)
(* is d.                                                                   *)
Holds(p, d) == run[p].pc # "idle" /\ run[p].d = d
Entry(r, i, d) == i \in 1 .. Len(batch[r]) /\ batch[r][i].d = d

(* The n-th attempt is the first, or within a limit there has been.        *)
Permitted(n, allowed) == n <= 1 \/ \E m \in allowed : n <= m

(* Whatever has happened: a first attempt is at its own row, an attempt is *)
(* guarded only once its request is answered and made only if permitted,   *)
(* and its failure is counted when that of the webhook has been written.   *)
Steady(x, allowed) ==
  /\ x.guarded => x.pc \in Recording
  /\ x.pc \in {"store", "credit"} => x.guarded
  /\ x.pc = "read" => Permitted(x.count + 1, allowed)
  /\ x.pc = "send" => Permitted(x.count, allowed)
  /\ x.told => x.pc \in Recording
  /\ x.pc \in {"fail", "park"} => x.told
AttemptsSteady ==
  \A p \in Runner : run[p].pc # "idle" => Steady(run[p], limits) /\ (p \in Delivery => run[p].d = p)
Known == \A d \in Delivery : UnderWay(d) => row[d].status # "none"

(* Of a delivery no attempt of which outlived its deadline or was left     *)
(* unrecorded.  One attempt or claim at a time:                            *)
Alone(d) ==
  /\ \A q, r \in Replica : \A i, j \in Nat : Entry(q, i, d) /\ Entry(r, j, d) => q = r /\ i = j
  /\ run[d].pc # "idle" => \A r \in Replica : \A i \in Nat : ~ Entry(r, i, d)
  /\ Due(row[d]) => ~ UnderWay(d)

(* and every count is the number of requests made, but for the one an      *)
(* attempt is about to make.                                               *)
Exact(x, made, got, status) ==
  /\ x.count = IF x.pc = "send" THEN made + 1 ELSE made
  /\ IF x.pc \in {"store", "credit"} THEN got <= 1 ELSE got = 0
  /\ IF x.pc = "credit" THEN status = "success" ELSE status \in {"pending", "failed"}
Queued(d, made, got, status) ==
  \A r \in Replica : \A i \in Nat : Entry(r, i, d) /\ i > 1
    => batch[r][i].count = made /\ got = 0 /\ status \in {"pending", "failed"}
RowExact(x, made, got) == x.status = "pending" => x.attempts = made /\ got = 0
Bounded(made, got, allowed) == got <= 1 /\ Permitted(made, allowed)
Counted(d) ==
  /\ \A p \in Runner : Holds(p, d) => Exact(run[p], sends[d], accepted[d], row[d].status)
  /\ Queued(d, sends[d], accepted[d], row[d].status)
  /\ (\A p \in Runner : Holds(p, d) => run[p].pc \notin Recording) => RowExact(row[d], sends[d], accepted[d])
  /\ row[d].status = "none" => sends[d] = 0 /\ accepted[d] = 0
  /\ Bounded(sends[d], accepted[d], limits)

TriesInv ==
  /\ WebhookTypeOK /\ AttemptsSteady /\ Known
  /\ \A d \in Delivery : ~ disturbed[d] => Alone(d) /\ Counted(d)

(* The failures that an attempt has read, its own included when counted.   *)
Recorded(x) == IF x.told THEN x.seen + 1 ELSE x.seen

(* No failure count exceeds the failures of attempts; unless one was       *)
(* written from an old reading, one attempt at a time holds one, and none  *)
(* exceeds the failures in a row.                                          *)
NoMore(n, count) == n <= count \/ count >= MaxFailures
Within(failures, attempts, count) ==
  /\ NoMore(failures, count)
  /\ \A p \in Runner : HoldsReading(attempts[p]) => NoMore(Recorded(attempts[p]), count)
OneReading == \A p, q \in Runner : HoldsReading(run[p]) /\ HoldsReading(run[q]) => p = q
Readings ==
  /\ Within(hook.failures, run, blamed)
  /\ ~ miscounted => Within(hook.failures, run, streak) /\ OneReading

-----------------------------------------------------------------------------
(* Where attempts and claims stand.                                        *)
Entries(r) == 1 .. Len(batch[r])
Taken(d) == run[d].pc # "idle" \/ \E r \in Replica : \E i \in Nat : Entry(r, i, d)

LEMMA RunnerKinds ==
  /\ \A r \in Replica : r \in Runner /\ r \notin Delivery
  /\ \A d \in Delivery : d \in Runner /\ d \notin Replica
  /\ \A p \in Runner : p \in Delivery \/ p \in Replica
BY NamesAssumption DEF Runner

LEMMA BatchFacts ==
  ASSUME WebhookTypeOK, NEW r \in Replica
  PROVE  /\ batch[r] \in Seq(Claims) /\ Len(batch[r]) \in Nat
         /\ \A i \in Entries(r) : batch[r][i] \in Claims
         /\ run[r].pc # "idle" <=> batch[r] # <<>>
         /\ run[r].pc # "idle" => 1 \in Entries(r) /\ batch[r][1].d = run[r].d
<1>1. RunType /\ BatchType
  BY TypeParts
<1>2. batch[r] \in Seq(Claims) /\ Len(batch[r]) \in Nat
  BY <1>1 DEF BatchType
<1>3. \A i \in Entries(r) : batch[r][i] \in Claims
  BY <1>2 DEF Entries
<1>4. r \in Runner /\ (run[r].pc # "idle" <=> run[r] # Idle)
  <2>1. r \in Runner
    BY RunnerKinds
  <2>2. run[r].pc # "idle" => run[r] # Idle
    BY DEF Idle
  <2>3. run[r] # Idle => run[r] \in Attempts
    BY <1>1, <2>1 DEF RunType
  <2> QED
    BY <2>1, <2>2, <2>3, AttemptsAwake
<1>5. batch[r] # <<>> => 1 \in Entries(r) /\ batch[r][1].d = run[r].d
  BY <1>1, <1>2 DEF BatchType, Entries
<1> QED
  BY <1>1, <1>2, <1>3, <1>4, <1>5 DEF BatchType

(* A delivery is under way when its first attempt or a claim of it is.     *)
LEMMA UnderWayIs ==
  WebhookTypeOK /\ AttemptsSteady => \A d \in Delivery : UnderWay(d) <=> Taken(d)
<1> SUFFICES ASSUME WebhookTypeOK, AttemptsSteady, NEW d \in Delivery PROVE UnderWay(d) <=> Taken(d)
  OBVIOUS
<1>1. ASSUME NEW p \in Runner, run[p].pc # "idle", run[p].d = d PROVE Taken(d)
  <2>1. CASE p \in Delivery
    <3>1. p = d
      BY <1>1, <2>1 DEF AttemptsSteady
    <3> QED
      BY <1>1, <3>1 DEF Taken
  <2>2. CASE p \in Replica
    <3>1. Entry(p, 1, d)
      BY <1>1, <2>2, BatchFacts DEF Entry, Entries
    <3> QED
      BY <2>2, <3>1 DEF Taken
  <2> QED
    BY <2>1, <2>2, RunnerKinds
<1>2. ASSUME NEW r \in Replica, NEW i \in Entries(r), batch[r][i].d = d PROVE Taken(d)
  <2>1. Entry(r, i, d) /\ i \in Nat
    BY <1>2, BatchFacts DEF Entry, Entries
  <2> QED
    BY <2>1 DEF Taken
<1>3. Taken(d) => UnderWay(d)
  <2>1. run[d].pc # "idle" => d \in Runner /\ run[d].d = d
    BY RunnerKinds DEF AttemptsSteady
  <2> QED
    BY <2>1 DEF Taken, UnderWay, Entry
<1> QED
  BY <1>1, <1>2, <1>3 DEF UnderWay, Entries

(* An undisturbed delivery has one attempt at a time, and nobody waits to  *)
(* make another.                                                           *)
LEMMA OneHolder ==
  ASSUME WebhookTypeOK, AttemptsSteady, NEW d \in Delivery, Alone(d),
         NEW p \in Runner, Holds(p, d)
  PROVE  /\ \A q \in Runner : Holds(q, d) => q = p
         /\ \A r \in Replica : \A i \in Nat : Entry(r, i, d) => r = p /\ i = 1
<1>1. ASSUME NEW q \in Runner, Holds(q, d)
      PROVE  \/ q = d /\ run[d].pc # "idle"
             \/ q \in Replica /\ Entry(q, 1, d)
  <2>1. CASE q \in Delivery
    BY <1>1, <2>1 DEF AttemptsSteady, Holds
  <2>2. CASE q \in Replica
    BY <1>1, <2>2, BatchFacts DEF Holds, Entry, Entries
  <2> QED
    BY <2>1, <2>2, RunnerKinds
<1>2. 1 \in Nat
  OBVIOUS
<1> QED
  BY <1>1, <1>2 DEF Alone

-----------------------------------------------------------------------------
(* How the claims move: a batch stays, loses its first row, or is gone.    *)
Shifted == \A r \in Replica : \E k \in {0, 1} : \A i \in 1 .. Len(batch'[r]) :
             i + k \in Entries(r) /\ batch'[r][i] = batch[r][i + k]

LEMMA ShiftedBatches ==
  ASSUME WebhookTypeOK,
         \A r \in Replica : \/ batch'[r] = batch[r] \/ batch'[r] = <<>>
                            \/ batch[r] # <<>> /\ batch'[r] = Tail(batch[r])
  PROVE  Shifted
<1> SUFFICES ASSUME NEW r \in Replica
             PROVE  \E k \in {0, 1} : \A i \in 1 .. Len(batch'[r]) :
                      i + k \in Entries(r) /\ batch'[r][i] = batch[r][i + k]
  BY DEF Shifted
<1>1. batch[r] \in Seq(Claims) /\ Len(batch[r]) \in Nat
  BY BatchFacts
<1>2. CASE batch'[r] = batch[r]
  <2>1. \A i \in 1 .. Len(batch'[r]) : i + 0 \in Entries(r) /\ batch'[r][i] = batch[r][i + 0]
    BY <1>1, <1>2 DEF Entries
  <2> QED
    BY <2>1
<1>3. CASE batch'[r] = <<>>
  BY <1>3
<1>4. CASE batch[r] # <<>> /\ batch'[r] = Tail(batch[r])
  <2>1. Len(batch'[r]) = Len(batch[r]) - 1 /\ \A i \in 1 .. Len(batch'[r]) : batch'[r][i] = batch[r][i + 1]
    BY <1>1, <1>4
  <2>2. \A i \in 1 .. Len(batch'[r]) : i + 1 \in Entries(r)
    BY <1>1, <2>1 DEF Entries
  <2> QED
    BY <2>1, <2>2
<1> QED
  BY <1>2, <1>3, <1>4

LEMMA EntryShifted ==
  ASSUME Shifted, NEW r \in Replica
  PROVE  \E k \in {0, 1} : \A i \in Nat, d \in Delivery :
           Entry(r, i, d)' => Entry(r, i + k, d) /\ batch'[r][i] = batch[r][i + k]
BY DEF Shifted, Entry, Entries

LEMMA AloneKept ==
  ASSUME Shifted, NEW d \in Delivery, Alone(d), run'[d].pc # "idle" => run[d].pc # "idle",
         Due(row'[d]) => ~ UnderWay(d)'
  PROVE  Alone(d)'
<1>1. ASSUME NEW q \in Replica, NEW r \in Replica, NEW i \in Nat, NEW j \in Nat, Entry(q, i, d)', Entry(r, j, d)'
      PROVE  q = r /\ i = j
  <2>1. PICK k \in {0, 1} : \A m \in Nat : Entry(q, m, d)' => Entry(q, m + k, d)
    BY EntryShifted
  <2>2. PICK l \in {0, 1} : \A m \in Nat : Entry(r, m, d)' => Entry(r, m + l, d)
    BY EntryShifted
  <2>3. Entry(q, i + k, d) /\ Entry(r, j + l, d) /\ i + k \in Nat /\ j + l \in Nat
    BY <1>1, <2>1, <2>2
  <2>4. q = r
    BY <2>3 DEF Alone
  <2>5. Entry(q, j + k, d) /\ j + k \in Nat
    BY <1>1, <2>1, <2>4
  <2>6. i + k = j + k
    BY <2>3, <2>5 DEF Alone
  <2> QED
    BY <2>4, <2>6
<1>2. ASSUME run'[d].pc # "idle", NEW r \in Replica, NEW i \in Nat PROVE ~ Entry(r, i, d)'
  <2>1. PICK k \in {0, 1} : \A m \in Nat : Entry(r, m, d)' => Entry(r, m + k, d)
    BY EntryShifted
  <2>2. i + k \in Nat
    OBVIOUS
  <2> QED
    BY <1>2, <2>1, <2>2 DEF Alone
<1>3. Due(row[d])' => ~ UnderWay(d)'
  BY DEF Due
<1> QED
  BY <1>1, <1>2, <1>3 DEF Alone

LEMMA TakenKept ==
  ASSUME Shifted, NEW d \in Delivery, run'[d].pc # "idle" => run[d].pc # "idle", Taken(d)'
  PROVE  Taken(d)
<1>1. CASE run'[d].pc # "idle"
  BY <1>1 DEF Taken
<1>2. CASE \E r \in Replica : \E i \in Nat : Entry(r, i, d)'
  <2>1. PICK r \in Replica, i \in Nat : Entry(r, i, d)'
    BY <1>2
  <2>2. PICK k \in {0, 1} : Entry(r, i + k, d)
    BY <2>1, EntryShifted
  <2>3. i + k \in Nat
    OBVIOUS
  <2> QED
    BY <2>2, <2>3 DEF Taken
<1> QED
  BY <1>1, <1>2 DEF Taken

-----------------------------------------------------------------------------
(* What an undisturbed delivery that a step leaves alone keeps.            *)
LEMMA QueueShifted ==
  ASSUME Shifted, NEW d \in Delivery, NEW made, NEW got, NEW status, Queued(d, made, got, status)
  PROVE  Queued(d, made, got, status)'
<1> SUFFICES ASSUME NEW r \in Replica, NEW i \in Nat, Entry(r, i, d)', i > 1
             PROVE  batch'[r][i].count = made /\ got = 0 /\ status \in {"pending", "failed"}
  BY DEF Queued
<1>1. PICK k \in {0, 1} : Entry(r, i + k, d) /\ batch'[r][i] = batch[r][i + k]
  BY EntryShifted
<1>2. i + k \in Nat /\ i + k > 1
  OBVIOUS
<1> QED
  BY <1>1, <1>2 DEF Queued

LEMMA CountedKept ==
  ASSUME NEW d \in Delivery, Counted(d),
         Queued(d, sends[d], accepted[d], row[d].status)',
         row'[d].status = row[d].status, row'[d].attempts = row[d].attempts,
         sends'[d] = sends[d], accepted'[d] = accepted[d], UNCHANGED limits,
         \A q \in Runner : Holds(q, d)' => \/ Holds(q, d) /\ run'[q] = run[q]
                                           \/ Exact(run'[q], sends[d], accepted[d], row[d].status),
         \A q \in Runner : Holds(q, d) /\ run[q].pc \in Recording => Holds(q, d)' /\ run'[q].pc \in Recording
  PROVE  Counted(d)'
<1>1. ASSUME NEW q \in Runner, Holds(q, d)' PROVE Exact(run'[q], sends'[d], accepted'[d], row'[d].status)
  BY <1>1 DEF Counted
<1>2. ASSUME \A q \in Runner : Holds(q, d)' => run'[q].pc \notin Recording
      PROVE  RowExact(row'[d], sends'[d], accepted'[d])
  <2>1. \A q \in Runner : Holds(q, d) => run[q].pc \notin Recording
    BY <1>2
  <2>2. RowExact(row[d], sends[d], accepted[d])
    BY <2>1 DEF Counted
  <2> QED
    BY <2>2 DEF RowExact
<1>3. row'[d].status = "none" => sends'[d] = 0 /\ accepted'[d] = 0
  BY DEF Counted
<1>4. Bounded(sends'[d], accepted'[d], limits')
  BY DEF Counted
<1> QED
  BY <1>1, <1>2, <1>3, <1>4 DEF Counted

-----------------------------------------------------------------------------
(* A step of an attempt: it goes on, or leaves its row.                    *)
Goes(p, x) ==
  run' = [run EXCEPT ![p] = x] /\ batch' = batch /\ x \in Attempts /\ x.d = run[p].d /\ Steady(x, limits')
Leaves(p) ==
  \/ run' = [run EXCEPT ![p] = Idle] /\ batch' = IF p \in Replica THEN [batch EXCEPT ![p] = <<>>] ELSE batch
  \/ p \in Replica /\ TurnsTo(p, Tail(batch[p]))

LEMMA GoesMoves ==
  ASSUME WebhookTypeOK, NEW p \in Runner, run[p].pc # "idle", NEW x, Goes(p, x)
  PROVE  /\ Shifted /\ run'[p] = x /\ x.pc # "idle"
         /\ \A q \in Runner : q # p => run'[q] = run[q]
         /\ \A d \in Delivery : run'[d].pc # "idle" => run[d].pc # "idle"
<1>1. run'[p] = x /\ \A q \in Runner : q # p => run'[q] = run[q]
  BY TypeParts DEF Goes, RunType
<1>2. x.pc # "idle"
  BY AttemptsAwake DEF Goes
<1>3. Shifted
  BY ShiftedBatches DEF Goes
<1> QED
  BY <1>1, <1>2, <1>3, RunnerKinds

LEMMA LeavesMoves ==
  ASSUME WebhookTypeOK, NEW p \in Runner, run[p].pc # "idle", Leaves(p)
  PROVE  /\ Shifted
         /\ \A q \in Runner : q # p => run'[q] = run[q]
         /\ \A d \in Delivery : run'[d].pc # "idle" => run[d].pc # "idle"
         /\ \/ run'[p].pc = "idle"
            \/ p \in Replica /\ 2 \in Entries(p) /\ run'[p] = At("check", p, batch[p][2].d, batch[p][2].count)
<1>1. RunType /\ BatchType
  BY TypeParts
<1>2. CASE run' = [run EXCEPT ![p] = Idle] /\ batch' = IF p \in Replica THEN [batch EXCEPT ![p] = <<>>] ELSE batch
  <2>1. run'[p] = Idle /\ \A q \in Runner : q # p => run'[q] = run[q]
    BY <1>1, <1>2 DEF RunType
  <2>2. \A r \in Replica : batch'[r] = batch[r] \/ batch'[r] = <<>>
    BY <1>1, <1>2 DEF BatchType
  <2>3. Shifted
    BY <2>2, ShiftedBatches
  <2> QED
    BY <2>1, <2>3, RunnerKinds DEF Idle
<1>3. CASE p \in Replica /\ TurnsTo(p, Tail(batch[p]))
  <2> DEFINE rest == Tail(batch[p])
             y == IF rest = <<>> THEN Idle ELSE At("check", p, Head(rest).d, Head(rest).count)
  <2>1. batch[p] # <<>> /\ batch[p] \in Seq(Claims) /\ Len(batch[p]) \in Nat
    BY <1>3, BatchFacts
  <2>2. run' = [run EXCEPT ![p] = y] /\ batch' = [batch EXCEPT ![p] = rest]
    BY <1>3 DEF TurnsTo
  <2>3. rest # <<>> => 2 \in Entries(p) /\ Head(rest) = batch[p][2]
    BY <2>1 DEF Entries
  <2>4. y.pc = "idle" \/ (2 \in Entries(p) /\ y = At("check", p, batch[p][2].d, batch[p][2].count))
    BY <2>3 DEF Idle
  <2> HIDE DEF y
  <2>5. run'[p] = y /\ \A q \in Runner : q # p => run'[q] = run[q]
    BY <1>1, <2>2 DEF RunType
  <2>6. Shifted
    <3>1. \A r \in Replica : batch'[r] = batch[r] \/ (batch[r] # <<>> /\ batch'[r] = Tail(batch[r]))
      BY <1>1, <2>1, <2>2 DEF BatchType
    <3> QED
      BY <3>1, ShiftedBatches
  <2> QED
    BY <1>3, <2>4, <2>5, <2>6, RunnerKinds
<1> QED
  BY <1>2, <1>3 DEF Leaves

(* A step of p writes its own row and no other; the row of an undisturbed  *)
(* delivery is left as it should be.                                       *)
OwnFacts(p) ==
  LET d == run[p].d IN
    /\ Exact(run[p], sends[d], accepted[d], row[d].status) /\ Bounded(sends[d], accepted[d], limits)
    /\ run[p].pc \notin Recording => RowExact(row[d], sends[d], accepted[d])
Work(p) ==
  /\ run[p].pc # "idle" /\ UNCHANGED limits
  /\ \A d \in Delivery :
       /\ d # run[p].d => row'[d] = row[d] /\ sends'[d] = sends[d] /\ accepted'[d] = accepted[d]
       /\ row'[d].status = "none" => row[d].status = "none"
       /\ Due(row'[d]) => Due(row[d])
       /\ disturbed[d] => disturbed'[d]
  /\ \/ Leaves(p) /\ \A d \in Delivery : d = run[p].d /\ ~ disturbed'[d] /\ OwnFacts(p)
          => RowExact(row'[d], sends'[d], accepted'[d]) /\ Bounded(sends'[d], accepted'[d], limits')
     \/ \E x : Goes(p, x) /\ \A d \in Delivery : d = run[p].d /\ ~ disturbed'[d] /\ OwnFacts(p)
          => /\ Exact(x, sends'[d], accepted'[d], row'[d].status) /\ Bounded(sends'[d], accepted'[d], limits')
             /\ x.pc \notin Recording => RowExact(row'[d], sends'[d], accepted'[d])

LEMMA OwnCounts ==
  ASSUME TriesInv, NEW p \in Runner, run[p].pc # "idle", NEW d \in Delivery, d = run[p].d, ~ disturbed[d]
  PROVE  OwnFacts(p)
<1>1. WebhookTypeOK /\ AttemptsSteady /\ Alone(d) /\ Counted(d) /\ Holds(p, d)
  BY DEF TriesInv, Holds
<1>2. \A q \in Runner : Holds(q, d) => q = p
  BY <1>1, OneHolder
<1> QED
  BY <1>1, <1>2 DEF OwnFacts, Counted

LEMMA SteadyNext ==
  ASSUME TriesInv, NEW p \in Runner, run[p].pc # "idle", Leaves(p) \/ \E x : Goes(p, x),
         UNCHANGED limits
  PROVE  /\ AttemptsSteady' /\ Shifted
         /\ \A q \in Runner : q # p => run'[q] = run[q]
         /\ \A d \in Delivery : run'[d].pc # "idle" => run[d].pc # "idle"
<1>1. WebhookTypeOK /\ AttemptsSteady
  BY DEF TriesInv
<1>2. CASE Leaves(p)
  <2>1. /\ Shifted /\ \A q \in Runner : q # p => run'[q] = run[q]
        /\ \A d \in Delivery : run'[d].pc # "idle" => run[d].pc # "idle"
        /\ \/ run'[p].pc = "idle"
           \/ p \in Replica /\ 2 \in Entries(p) /\ run'[p] = At("check", p, batch[p][2].d, batch[p][2].count)
    BY <1>1, <1>2, LeavesMoves
  <2>2. run'[p].pc # "idle" => Steady(run'[p], limits') /\ p \notin Delivery
    BY <2>1, RunnerKinds DEF At, Steady
  <2> QED
    BY <1>1, <2>1, <2>2 DEF AttemptsSteady
<1>3. ASSUME NEW x, Goes(p, x)
      PROVE  /\ AttemptsSteady' /\ Shifted
             /\ \A q \in Runner : q # p => run'[q] = run[q]
             /\ \A d \in Delivery : run'[d].pc # "idle" => run[d].pc # "idle"
  <2>1. /\ Shifted /\ run'[p] = x /\ \A q \in Runner : q # p => run'[q] = run[q]
        /\ \A d \in Delivery : run'[d].pc # "idle" => run[d].pc # "idle"
    BY <1>1, <1>3, GoesMoves
  <2>2. Steady(x, limits') /\ (p \in Delivery => x.d = p)
    BY <1>1, <1>3 DEF Goes, AttemptsSteady
  <2> QED
    BY <1>1, <2>1, <2>2 DEF AttemptsSteady
<1> QED
  BY <1>2, <1>3

LEMMA UnderWayIsNext ==
  WebhookTypeOK' /\ AttemptsSteady' => (\A d \in Delivery : UnderWay(d) <=> Taken(d))'
BY UnderWayIs, PTL

LEMMA UnderWayKept ==
  ASSUME WebhookTypeOK, AttemptsSteady, WebhookTypeOK', AttemptsSteady', Shifted,
         NEW d \in Delivery, run'[d].pc # "idle" => run[d].pc # "idle", UnderWay(d)'
  PROVE  UnderWay(d)
<1>2. Taken(d)'
  BY UnderWayIsNext
<1>3. Taken(d)
  BY <1>2, TakenKept
<1> QED
  BY <1>3, UnderWayIs

(* The row of an attempt that goes on, or leaves it.                       *)
LEMMA OwnCounted ==
  ASSUME TriesInv, NEW p \in Runner, Work(p), NEW d \in Delivery, d = run[p].d, ~ disturbed'[d]
  PROVE  Counted(d)'
<1>1. /\ WebhookTypeOK /\ AttemptsSteady /\ run[p].pc # "idle" /\ ~ disturbed[d]
      /\ Alone(d) /\ Holds(p, d)
  BY DEF TriesInv, Work, Holds
<1>2. /\ \A q \in Runner : Holds(q, d) => q = p
      /\ \A r \in Replica : \A i \in Nat : Entry(r, i, d) => r = p /\ i = 1
  BY <1>1, OneHolder
<1>3. OwnFacts(p)
  BY <1>1, OwnCounts
<1>4. Shifted /\ \A q \in Runner : q # p => run'[q] = run[q]
  <2>1. (Leaves(p) \/ \E x : Goes(p, x)) /\ UNCHANGED limits
    BY DEF Work
  <2> QED
    BY <1>1, <2>1, SteadyNext
<1>5. ASSUME NEW r \in Replica, NEW i \in Nat, i > 1 PROVE ~ Entry(r, i, d)'
  <2>1. PICK k \in {0, 1} : Entry(r, i, d)' => Entry(r, i + k, d)
    BY <1>4, EntryShifted
  <2>2. i + k \in Nat /\ i + k # 1
    BY <1>5
  <2> QED
    BY <1>2, <2>1, <2>2
<1>6. row'[d].status # "none"
  <2>1. UnderWay(d)
    BY <1>1 DEF UnderWay, Holds
  <2> QED
    BY <2>1 DEF TriesInv, Known, Work
<1>7. \A q \in Runner : q # p => ~ Holds(q, d)'
  BY <1>2, <1>4 DEF Holds
<1>8. ASSUME NEW x, Goes(p, x),
             Exact(x, sends'[d], accepted'[d], row'[d].status), Bounded(sends'[d], accepted'[d], limits'),
             x.pc \notin Recording => RowExact(row'[d], sends'[d], accepted'[d])
      PROVE  Counted(d)'
  <2>1. run'[p] = x /\ Holds(p, d)'
    <3>1. run'[p] = x /\ x.pc # "idle" /\ x.d = d
      BY <1>1, <1>8, GoesMoves DEF Goes
    <3> QED
      BY <3>1 DEF Holds
  <2> QED
    BY <1>5, <1>6, <1>7, <1>8, <2>1 DEF Counted, Queued
<1>9. ASSUME Leaves(p), RowExact(row'[d], sends'[d], accepted'[d]), Bounded(sends'[d], accepted'[d], limits')
      PROVE  Counted(d)'
  <2>1. ~ Holds(p, d)'
    <3>1. \/ run'[p].pc = "idle"
          \/ p \in Replica /\ 2 \in Entries(p) /\ run'[p] = At("check", p, batch[p][2].d, batch[p][2].count)
      BY <1>1, <1>9, LeavesMoves
    <3>2. p \in Replica /\ 2 \in Entries(p) => batch[p][2].d # d
      BY <1>2 DEF Entry, Entries
    <3> QED
      BY <3>1, <3>2 DEF Holds, At
  <2> QED
    BY <1>5, <1>6, <1>7, <1>9, <2>1 DEF Counted, Queued
<1> QED
  BY <1>3, <1>8, <1>9 DEF Work

LEMMA OthersCounted ==
  ASSUME TriesInv, NEW p \in Runner, Work(p), NEW d \in Delivery, d # run[p].d, ~ disturbed'[d]
  PROVE  Counted(d)'
<1>1. /\ WebhookTypeOK /\ AttemptsSteady /\ run[p].pc # "idle" /\ ~ disturbed[d] /\ Counted(d)
      /\ row'[d] = row[d] /\ sends'[d] = sends[d] /\ accepted'[d] = accepted[d]
  BY DEF TriesInv, Work
<1>2. Shifted /\ \A q \in Runner : q # p => run'[q] = run[q]
  <2>1. (Leaves(p) \/ \E x : Goes(p, x)) /\ UNCHANGED limits
    BY DEF Work
  <2> QED
    BY <1>1, <2>1, SteadyNext
<1>3. Queued(d, sends[d], accepted[d], row[d].status)'
  <2>1. PICK made, got, status : made = sends[d] /\ got = accepted[d] /\ status = row[d].status
    OBVIOUS
  <2>2. Queued(d, made, got, status)
    BY <1>1, <2>1 DEF Counted
  <2>3. Queued(d, made, got, status)'
    BY <1>2, <2>2, QueueShifted
  <2> QED
    BY <1>1, <2>1, <2>3 DEF Queued
<1>4. ASSUME NEW q \in Runner, Holds(q, d)'
      PROVE  \/ Holds(q, d) /\ run'[q] = run[q]
             \/ Exact(run'[q], sends[d], accepted[d], row[d].status)
  <2>1. CASE q # p
    BY <1>2, <1>4, <2>1 DEF Holds
  <2>2. CASE q = p
    <3>1. ASSUME NEW x, Goes(p, x) PROVE FALSE
      BY <1>1, <1>4, <2>2, <3>1, GoesMoves DEF Goes, Holds
    <3>2. Leaves(p)
      BY <3>1 DEF Work
    <3>3. p \in Replica /\ 2 \in Entries(p) /\ run'[p] = At("check", p, batch[p][2].d, batch[p][2].count)
      BY <1>1, <1>4, <2>2, <3>2, LeavesMoves DEF Holds
    <3>4. Entry(p, 2, d) /\ 2 \in Nat /\ 2 > 1
      BY <1>4, <2>2, <3>3 DEF Entry, Entries, At, Holds
    <3>5. batch[p][2].count = sends[d] /\ accepted[d] = 0 /\ row[d].status \in {"pending", "failed"}
      BY <1>1, <3>3, <3>4 DEF Counted, Queued
    <3>6. run'[q].pc = "check" /\ run'[q].count = sends[d]
      BY <2>2, <3>3, <3>5 DEF At
    <3> QED
      BY <3>5, <3>6 DEF Exact
  <2> QED
    BY <2>1, <2>2
<1>5. \A q \in Runner : Holds(q, d) /\ run[q].pc \in Recording => Holds(q, d)' /\ run'[q].pc \in Recording
  BY <1>2 DEF Holds
<1>6. UNCHANGED limits
  BY DEF Work
<1> QED
  BY <1>1, <1>3, <1>4, <1>5, <1>6, CountedKept

LEMMA WorkKeeps ==
  ASSUME TriesInv, WebhookTypeOK', NEW p \in Runner, Work(p)
  PROVE  TriesInv'
<1>1. WebhookTypeOK /\ AttemptsSteady /\ run[p].pc # "idle"
  BY DEF TriesInv, Work
<1>2. /\ AttemptsSteady' /\ Shifted
      /\ \A d \in Delivery : run'[d].pc # "idle" => run[d].pc # "idle"
  <2>1. (Leaves(p) \/ \E x : Goes(p, x)) /\ UNCHANGED limits
    BY DEF Work
  <2> QED
    BY <1>1, <2>1, SteadyNext
<1>3. \A d \in Delivery : UnderWay(d)' => UnderWay(d)
  BY <1>1, <1>2, UnderWayKept
<1>4. Known'
  BY <1>3 DEF TriesInv, Known, Work
<1>5. ASSUME NEW d \in Delivery, ~ disturbed'[d] PROVE Alone(d)'
  <2>1. Alone(d)
    BY <1>5 DEF TriesInv, Work
  <2>2. Due(row'[d]) => ~ UnderWay(d)'
    <3>1. Due(row'[d]) => Due(row[d])
      BY DEF Work
    <3> QED
      BY <1>3, <2>1, <3>1 DEF Alone
  <2> QED
    BY <1>2, <2>1, <2>2, AloneKept
<1>6. ASSUME NEW d \in Delivery, ~ disturbed'[d] PROVE Counted(d)'
  BY <1>6, OwnCounted, OthersCounted
<1> QED
  BY <1>2, <1>4, <1>5, <1>6 DEF TriesInv

(* What is permitted is within the greatest limit there can be.            *)
LEMMA PermittedFew ==
  ASSUME WebhookTypeOK, NEW n \in Nat, Permitted(n, limits)
  PROVE  n <= MaxRetries
<1>1. limits \in SUBSET (0 .. MaxRetries) /\ MaxRetries \in Nat \ {0}
  BY TypeParts, LimitsAssumption DEF RestType
<1> QED
  BY <1>1 DEF Permitted

-----------------------------------------------------------------------------
(* The steps of an attempt are such work.                                  *)
LEMMA AttemptNow ==
  ASSUME TriesInv, NEW p \in Runner, run[p].pc # "idle"
  PROVE  /\ run[p] \in Attempts /\ run[p].d \in Delivery /\ run[p].count \in Nat
         /\ Steady(run[p], limits) /\ WebhookTypeOK /\ row \in [Delivery -> Shapes]
         /\ sends \in [Delivery -> Nat] /\ accepted \in [Delivery -> Nat]
         /\ disturbed \in [Delivery -> BOOLEAN] /\ run \in [Runner -> {Idle} \cup Attempts]
<1>1. RunType /\ RowType /\ RestType /\ run[p] \in Attempts
  BY TypeParts, Awake DEF TriesInv
<1> QED
  BY <1>1 DEF RunType, RowType, RestType, TriesInv, AttemptsSteady, Attempts

LEMMA RowAfterIs ==
  ASSUME TriesInv, NEW p \in Runner, run[p].pc # "idle"
  PROVE  /\ \A d \in Delivery : d # run[p].d => RowAfter(p)[d] = row[d]
         /\ run[p].pc = "store" => RowAfter(p)[run[p].d].status = "success"
         /\ run[p].pc \in {"drop", "fail"} => RowAfter(p)[run[p].d].status = "failed"
         /\ run[p].pc = "park" => /\ RowAfter(p)[run[p].d].status = "pending"
                                  /\ RowAfter(p)[run[p].d].attempts = run[p].count
                                  /\ RowAfter(p)[run[p].d].due = "waiting"
         /\ run[p].pc \notin {"store", "drop", "fail", "park"} => RowAfter(p) = row
<1> DEFINE x == run[p]
           old == row[x.d]
<1>1. x.d \in Delivery /\ old \in Shapes /\ row \in [Delivery -> Shapes]
  BY AttemptNow
<1>2. /\ StoredRow(old, x.count).status = "success"
      /\ DroppedRow(old).status = "failed" /\ FailedRow(old, x.count).status = "failed"
      /\ ParkedRow(old, x.count).status = "pending" /\ ParkedRow(old, x.count).attempts = x.count
      /\ ParkedRow(old, x.count).due = "waiting"
  BY <1>1 DEF Shapes, StoredRow, DroppedRow, FailedRow, ParkedRow
<1>3. RowAfter(p) = CASE x.pc = "store" -> [row EXCEPT ![x.d] = StoredRow(old, x.count)]
                      [] x.pc = "drop"  -> [row EXCEPT ![x.d] = DroppedRow(old)]
                      [] x.pc = "fail"  -> [row EXCEPT ![x.d] = FailedRow(old, x.count)]
                      [] x.pc = "park"  -> [row EXCEPT ![x.d] = ParkedRow(old, x.count)]
                      [] OTHER          -> row
  BY <1>1 DEF RowAfter
<1> HIDE DEF old, x
<1>4. /\ \A d \in Delivery : d # x.d => RowAfter(p)[d] = row[d]
      /\ x.pc = "store" => RowAfter(p)[x.d] = StoredRow(old, x.count)
      /\ x.pc = "drop" => RowAfter(p)[x.d] = DroppedRow(old)
      /\ x.pc = "fail" => RowAfter(p)[x.d] = FailedRow(old, x.count)
      /\ x.pc = "park" => RowAfter(p)[x.d] = ParkedRow(old, x.count)
      /\ x.pc \notin {"store", "drop", "fail", "park"} => RowAfter(p) = row
  BY <1>1, <1>3
<1> QED
  BY <1>2, <1>4 DEF x

LEMMA RowsMove ==
  ASSUME TriesInv, NEW p \in Runner, run[p].pc # "idle", row' = row \/ row' = RowAfter(p),
         NEW d \in Delivery
  PROVE  /\ d # run[p].d => row'[d] = row[d]
         /\ row'[d].status = "none" => row[d].status = "none"
         /\ Due(row'[d]) => Due(row[d])
<1>1. CASE row' = row
  BY <1>1
<1>2. CASE row' = RowAfter(p)
  <2>1. CASE d # run[p].d \/ run[p].pc \notin {"store", "drop", "fail", "park"}
    BY <1>2, <2>1, RowAfterIs
  <2>2. CASE d = run[p].d /\ run[p].pc \in {"store", "drop", "fail", "park"}
    BY <1>2, <2>2, RowAfterIs DEF Due
  <2> QED
    BY <2>1, <2>2
<1> QED
  BY <1>1, <1>2

LEMMA CheckWorks ==
  ASSUME TriesInv, HookSound, NEW r \in Replica, Check(r)
  PROVE  r \in Runner /\ Work(r)
<1> DEFINE x == [run[r] EXCEPT !.pc = IF hook.active /\ run[r].count < hook.limit THEN "read" ELSE "drop"]
           d == run[r].d
<1>1. r \in Runner /\ run[r].pc = "check"
  BY RunnerKinds DEF Check
<1>2. run[r] \in Attempts /\ Steady(run[r], limits) /\ run[r].count \in Nat
  BY <1>1, AttemptNow
<1>3. /\ x \in Attempts /\ x.d = d /\ x.count = run[r].count /\ ~ x.guarded
      /\ x.pc \in {"read", "drop"} /\ (x.pc = "read" => run[r].count < hook.limit) /\ ~ x.told
  BY <1>1, <1>2 DEF Attempts, Steps, Steady, Recording
<1>4. run' = [run EXCEPT ![r] = x] /\ UNCHANGED <<row, batch, sends, accepted, disturbed, limits>>
  BY <1>1 DEF Check, Moves, History
<1>a. hook.limit \in limits /\ limits \in SUBSET (0 .. MaxRetries) /\ MaxRetries \in Nat
  BY TypeParts, LimitsAssumption DEF TriesInv, RestType, HookSound
<1>b. x.pc = "read" => Permitted(x.count + 1, limits)
  <2>1. hook.limit \in 0 .. MaxRetries /\ MaxRetries \in Nat
    BY <1>a
  <2>2. hook.limit \in Nat
    BY <2>1
  <2> HIDE DEF x
  <2> QED
    BY <1>2, <1>3, <1>a, <2>2 DEF Permitted
<1> HIDE DEF x
<1>5. Goes(r, x)
  BY <1>3, <1>4, <1>b DEF Goes, Steady
<1>6. OwnFacts(r) => /\ Exact(x, sends[d], accepted[d], row[d].status) /\ Bounded(sends[d], accepted[d], limits)
                     /\ RowExact(row[d], sends[d], accepted[d])
  BY <1>1, <1>3 DEF OwnFacts, Exact, Recording
<1> QED
  BY <1>1, <1>4, <1>5, <1>6 DEF Work

LEMMA ReadWorks ==
  ASSUME TriesInv, NEW p \in Runner, Read(p)
  PROVE  Work(p)
<1> DEFINE x == [run[p] EXCEPT !.pc = "send", !.count = run[p].count + 1,
                               !.seen = hook.failures, !.limit = hook.limit]
           d == run[p].d
<1>1. run[p].pc = "read"
  BY DEF Read
<1>2. run[p] \in Attempts /\ Steady(run[p], limits) /\ run[p].count \in Nat /\ run \in [Runner -> {Idle} \cup Attempts]
  BY <1>1, AttemptNow
<1>3. hook.failures \in Nat /\ run[p].count + 1 \in Nat /\ hook.limit \in 0 .. MaxRetries
  BY <1>2, TypeParts DEF TriesInv, HookType, Hooks
<1>4. /\ x \in Attempts /\ x.d = d /\ x.count = run[p].count + 1 /\ ~ x.guarded
      /\ x.pc = "send" /\ Permitted(run[p].count + 1, limits) /\ ~ x.told
  BY <1>1, <1>2, <1>3 DEF Attempts, Steps, Steady, Recording
<1>5. run' = [run EXCEPT ![p] = x] /\ UNCHANGED <<row, batch, sends, accepted, disturbed, limits>>
  BY <1>2 DEF Read, Attempts
<1> HIDE DEF x
<1>6. Goes(p, x)
  BY <1>4, <1>5 DEF Goes, Steady
<1>7. OwnFacts(p) => /\ Exact(x, sends[d], accepted[d], row[d].status) /\ Bounded(sends[d], accepted[d], limits)
                     /\ RowExact(row[d], sends[d], accepted[d])
  BY <1>1, <1>4 DEF OwnFacts, Exact, Recording
<1> QED
  BY <1>1, <1>5, <1>6, <1>7 DEF Work

LEMMA SendWorks ==
  ASSUME TriesInv, NEW p \in Runner, Send(p)
  PROVE  Work(p)
<1> DEFINE d == run[p].d
<1>1. run[p].pc = "send"
  BY DEF Send
<1>2. /\ run[p] \in Attempts /\ Steady(run[p], limits) /\ run[p].count \in Nat /\ d \in Delivery
      /\ sends \in [Delivery -> Nat] /\ accepted \in [Delivery -> Nat] /\ disturbed \in [Delivery -> BOOLEAN]
  BY <1>1, AttemptNow
<1>3. PICK answer \in {"ok", "error", "none"} :
        /\ run' = [run EXCEPT ![p] = [@ EXCEPT !.pc = Verdict(answer), !.guarded = answer # "none"]]
        /\ accepted' = IF answer = "ok"
                       THEN [accepted EXCEPT ![d] = UpTo(IF disturbed[d] THEN 1 ELSE 2, @ + 1)]
                       ELSE accepted
  BY DEF Send
<1> DEFINE x == [run[p] EXCEPT !.pc = Verdict(answer), !.guarded = answer # "none"]
<1>4. /\ x \in Attempts /\ x.d = d /\ x.count = run[p].count
      /\ x.pc = (IF answer = "ok" THEN "store" ELSE "blame") /\ x.guarded = (answer # "none")
  BY <1>2 DEF Attempts, Steps, Verdict
<1>5. /\ run' = [run EXCEPT ![p] = x] /\ UNCHANGED <<row, batch, disturbed, limits>>
      /\ sends' = [sends EXCEPT ![d] = UpTo(IF disturbed[d] THEN MaxRetries ELSE MaxRetries + 1, @ + 1)]
  BY <1>3 DEF Send
<1> HIDE DEF x
<1>6. Goes(p, x)
  BY <1>4, <1>5 DEF Goes, Steady, Recording
<1>7. \A e \in Delivery : e # d => sends'[e] = sends[e] /\ accepted'[e] = accepted[e]
  BY <1>2, <1>3, <1>5
<1>8. ASSUME ~ disturbed[d], OwnFacts(p)
      PROVE  Exact(x, sends'[d], accepted'[d], row[d].status) /\ Bounded(sends'[d], accepted'[d], limits')
  <2>1. /\ run[p].count = sends[d] + 1 /\ accepted[d] = 0 /\ row[d].status \in {"pending", "failed"}
        /\ Permitted(run[p].count, limits) /\ run[p].count <= MaxRetries
    BY <1>1, <1>2, <1>8, PermittedFew DEF OwnFacts, Exact, Steady, TriesInv
  <2>2. sends'[d] = sends[d] + 1
    BY <1>2, <1>5, <1>8, <2>1, LimitsAssumption DEF UpTo
  <2>3. accepted'[d] = IF answer = "ok" THEN 1 ELSE 0
    BY <1>2, <1>3, <1>8, <2>1 DEF UpTo
  <2> QED
    BY <1>4, <1>5, <2>1, <2>2, <2>3 DEF Exact, Bounded
<1>9. x.pc \in Recording
  BY <1>4 DEF Recording
<1> QED
  BY <1>1, <1>5, <1>6, <1>7, <1>8, <1>9 DEF Work

LEMMA WriteWorks ==
  ASSUME TriesInv, NEW p \in Runner, Write(p)
  PROVE  Work(p)
<1> DEFINE x == [run[p] EXCEPT !.pc = Then(run[p]), !.told = Told(run[p], TRUE)]
           d == run[p].d
<1>1. run[p].pc \in Recording \cup {"drop"} /\ run[p].pc # "idle"
  BY DEF Write, Recording
<1>2. run[p] \in Attempts /\ Steady(run[p], limits) /\ d \in Delivery
  BY <1>1, AttemptNow
<1>3. row' = RowAfter(p) /\ UNCHANGED <<sends, accepted, disturbed, limits>>
  BY DEF Write
<1>4. \A e \in Delivery : /\ e # d => row'[e] = row[e]
                          /\ row'[e].status = "none" => row[e].status = "none"
                          /\ Due(row'[e]) => Due(row[e])
  BY <1>1, <1>3, RowsMove
<1>5. CASE run[p].pc \in {"store", "blame"}
  <2>1. x \in Attempts /\ x.d = d /\ x.count = run[p].count /\ x.guarded = run[p].guarded
    BY <1>2, <1>5, ToldType DEF Attempts, Steps, Then, AfterBlame
  <2>2. x.told = Told(run[p], TRUE) /\ x.pc = Then(run[p]) /\ Then(run[p]) # "over"
    BY <1>2, <1>5 DEF Attempts, Then, AfterBlame
  <2>3. IF run[p].pc = "store" THEN x.pc = "credit" ELSE x.pc \in {"fail", "park"}
    BY <1>5, <2>2 DEF Then, AfterBlame
  <2>4. run' = [run EXCEPT ![p] = x] /\ UNCHANGED batch
    BY <2>2 DEF Write
  <2>a. run[p].pc = "blame" => x.told
    BY <2>2 DEF Told
  <2> HIDE DEF x
  <2>5. Goes(p, x)
    BY <1>2, <1>5, <2>1, <2>3, <2>4, <2>a DEF Goes, Steady, Recording
  <2>6. OwnFacts(p) => Exact(x, sends[d], accepted[d], row'[d].status) /\ Bounded(sends[d], accepted[d], limits)
    <3>1. run[p].pc = "store" => row'[d].status = "success"
      BY <1>1, <1>3, RowAfterIs
    <3>2. run[p].pc = "blame" => row'[d] = row[d]
      BY <1>1, <1>3, RowAfterIs
    <3> QED
      BY <1>5, <2>1, <2>3, <3>1, <3>2 DEF OwnFacts, Exact
  <2>7. x.pc \in Recording
    BY <1>5, <2>3 DEF Recording
  <2> QED
    BY <1>1, <1>3, <1>4, <2>5, <2>6, <2>7 DEF Work
<1>6. CASE run[p].pc \in {"credit", "fail", "park", "drop"}
  <2>1. Over(p)
    BY <1>6 DEF Write, Then
  <2>2. Leaves(p)
    BY <2>1 DEF Leaves, Over
  <2>3. OwnFacts(p) => RowExact(row'[d], sends[d], accepted[d]) /\ Bounded(sends[d], accepted[d], limits)
    <3>1. run[p].pc \in {"drop", "fail"} => row'[d].status = "failed"
      BY <1>1, <1>3, RowAfterIs
    <3>2. run[p].pc = "credit" => row'[d] = row[d]
      BY <1>1, <1>3, RowAfterIs
    <3>3. run[p].pc = "park" => row'[d].attempts = run[p].count
      BY <1>1, <1>3, RowAfterIs
    <3> QED
      BY <1>6, <3>1, <3>2, <3>3 DEF OwnFacts, Exact, RowExact
  <2> QED
    BY <1>1, <1>3, <1>4, <2>2, <2>3 DEF Work
<1> QED
  BY <1>1, <1>5, <1>6 DEF Recording

LEMMA StatementFailsWorks ==
  ASSUME TriesInv, NEW p \in Runner, StatementFails(p)
  PROVE  Work(p)
<1> DEFINE d == run[p].d
<1>1. run[p].pc \in Steps \ {"send"} /\ run[p].pc # "idle"
  BY DEF StatementFails, Steps
<1>2. run[p] \in Attempts /\ Steady(run[p], limits) /\ d \in Delivery /\ disturbed \in [Delivery -> BOOLEAN]
  BY <1>1, AttemptNow
<1>3. (row' = row \/ row' = RowAfter(p)) /\ UNCHANGED <<sends, accepted, limits>>
  BY DEF StatementFails
<1>4. \A e \in Delivery : /\ e # d => row'[e] = row[e]
                          /\ row'[e].status = "none" => row[e].status = "none"
                          /\ Due(row'[e]) => Due(row[e])
  BY <1>1, <1>3, RowsMove
<1>5. disturbed' = [disturbed EXCEPT ![d] = @ \/ LeavesNoRecord(p)]
  BY DEF StatementFails
<1>6. /\ \A e \in Delivery : disturbed[e] => disturbed'[e]
      /\ LeavesNoRecord(p) => disturbed'[d]
  BY <1>2, <1>5
<1>7. CASE run[p].guarded
  <2>0. PICK done \in BOOLEAN : Caught(p, done)
    BY <1>7 DEF StatementFails
  <2> DEFINE x == [run[p] EXCEPT !.pc = "blame", !.guarded = FALSE, !.told = Told(run[p], done)]
  <2>1. x \in Attempts /\ x.d = d /\ x.count = run[p].count /\ x.pc = "blame" /\ ~ x.guarded
    BY <1>2, ToldType DEF Attempts, Steps
  <2>2. run' = [run EXCEPT ![p] = x] /\ UNCHANGED batch
    BY <2>0 DEF Caught
  <2> HIDE DEF x
  <2>3. Goes(p, x) /\ x.pc \in Recording
    BY <2>1, <2>2 DEF Goes, Steady, Recording
  <2>4. ASSUME ~ disturbed'[d], OwnFacts(p)
        PROVE  Exact(x, sends'[d], accepted'[d], row'[d].status) /\ Bounded(sends'[d], accepted'[d], limits')
    <3>1. run[p].pc \in {"blame", "fail", "park"}
      BY <1>2, <1>6, <1>7, <2>4 DEF LeavesNoRecord, Steady, Recording
    <3>2. row'[d].status \in {"pending", "failed"}
      <4>1. row[d].status \in {"pending", "failed"}
        BY <2>4, <3>1 DEF OwnFacts, Exact
      <4> QED
        BY <1>1, <1>3, <3>1, <4>1, RowAfterIs
    <3> QED
      BY <1>3, <2>1, <2>4, <3>1, <3>2 DEF OwnFacts, Exact
  <2> QED
    BY <1>1, <1>3, <1>4, <1>6, <2>3, <2>4 DEF Work
<1>8. CASE ~ run[p].guarded
  <2>1. Leaves(p)
    BY <1>8 DEF StatementFails, Thrown, Leaves
  <2>2. ASSUME ~ disturbed'[d], OwnFacts(p)
        PROVE  RowExact(row'[d], sends'[d], accepted'[d]) /\ Bounded(sends'[d], accepted'[d], limits')
    <3>1. run[p].pc \notin Recording
      BY <1>6, <1>8, <2>2 DEF LeavesNoRecord
    <3>2. row'[d].status = "failed" \/ row'[d] = row[d]
      <4>1. run[p].pc \notin {"store", "fail", "park"}
        BY <3>1 DEF Recording
      <4> QED
        BY <1>1, <1>3, <4>1, RowAfterIs
    <3> QED
      BY <1>3, <2>2, <3>1, <3>2 DEF OwnFacts, RowExact
  <2> QED
    BY <1>1, <1>3, <1>4, <1>6, <2>1, <2>2 DEF Work
<1> QED
  BY <1>7, <1>8

-----------------------------------------------------------------------------
(* The steps that are no attempt's.                                        *)
LEMMA StillCounted ==
  ASSUME NEW d \in Delivery, Counted(d), Shifted,
         row'[d].status = row[d].status, row'[d].attempts = row[d].attempts,
         sends'[d] = sends[d], accepted'[d] = accepted[d], UNCHANGED limits,
         \A q \in Runner : Holds(q, d)' => Holds(q, d) /\ run'[q] = run[q],
         \A q \in Runner : Holds(q, d) /\ run[q].pc \in Recording => Holds(q, d)' /\ run'[q] = run[q]
  PROVE  Counted(d)'
<1>1. PICK made, got, status : made = sends[d] /\ got = accepted[d] /\ status = row[d].status
  OBVIOUS
<1>2. Queued(d, made, got, status)
  BY <1>1 DEF Counted
<1>3. Queued(d, made, got, status)'
  BY <1>2, QueueShifted
<1>4. Queued(d, sends[d], accepted[d], row[d].status)'
  BY <1>1, <1>3 DEF Queued
<1> QED
  BY <1>4, CountedKept

(* A row comes in, with its first attempt or without.                      *)
LEMMA InsertedKeeps ==
  ASSUME TriesInv, WebhookTypeOK', NEW d \in Delivery, NEW r, Comes(d),
         row' = [row EXCEPT ![d] = PendingRow], UNCHANGED <<batch, sends, accepted, disturbed, limits>>,
         run' = run \/ run' = [run EXCEPT ![d] = At("read", r, d, 0)]
  PROVE  TriesInv'
<1> DEFINE x == At("read", r, d, 0)
<1>1. WebhookTypeOK /\ AttemptsSteady /\ RunType /\ RowType /\ RestType /\ BatchType /\ d \in Runner
  BY TypeParts, RunnerKinds DEF TriesInv
<1>2. ~ UnderWay(d) /\ row[d].status = "none"
  BY DEF Comes, TriesInv, Known
<1>3. ~ Taken(d)
  BY <1>1, <1>2, UnderWayIs
<1>4. Shifted
  BY <1>1, ShiftedBatches
<1>5. \A q \in Runner : q # d => run'[q] = run[q]
  BY <1>1 DEF RunType
<1>6. run'[d] = run[d] \/ run'[d] = x
  BY <1>1 DEF RunType
<1>7. AttemptsSteady'
  <2>1. Steady(x, limits') /\ x.d = d
    BY DEF Steady, Permitted, At
  <2> QED
    BY <1>1, <1>5, <1>6, <2>1 DEF AttemptsSteady
<1>8. /\ row'[d].status = "pending" /\ row'[d].attempts = 0 /\ ~ Due(row'[d])
      /\ \A e \in Delivery : e # d => row'[e] = row[e]
  BY <1>1 DEF RowType, PendingRow, NoRow, Due
<1>9. ASSUME NEW e \in Delivery, e # d, UnderWay(e)' PROVE UnderWay(e)
  <2>1. run'[e] = run[e]
    BY <1>5, <1>9, RunnerKinds
  <2> QED
    BY <1>1, <1>4, <1>7, <1>9, <2>1, UnderWayKept
<1>10. Known'
  <2> SUFFICES ASSUME NEW e \in Delivery, UnderWay(e)' PROVE row'[e].status # "none"
    BY DEF Known
  <2> QED
    BY <1>8, <1>9 DEF TriesInv, Known
<1>11. ASSUME NEW e \in Delivery, e # d, ~ disturbed'[e] PROVE Alone(e)' /\ Counted(e)'
  <2>1. Alone(e) /\ Counted(e) /\ run'[e] = run[e] /\ row'[e] = row[e]
    BY <1>5, <1>8, <1>11, RunnerKinds DEF TriesInv
  <2>2. Due(row'[e]) => ~ UnderWay(e)'
    BY <1>9, <1>11, <2>1 DEF Alone
  <2>3. \A q \in Runner : Holds(q, e)' => Holds(q, e) /\ run'[q] = run[q]
    BY <1>5, <1>6, <1>11 DEF Holds, At
  <2>4. \A q \in Runner : Holds(q, e) => Holds(q, e)' /\ run'[q] = run[q]
    <3>1. run[d].pc = "idle"
      BY <1>3 DEF Taken
    <3> QED
      BY <1>5, <3>1 DEF Holds
  <2> QED
    BY <1>4, <2>1, <2>2, <2>3, <2>4, AloneKept, StillCounted
<1>12. ASSUME ~ disturbed'[d] PROVE Alone(d)' /\ Counted(d)'
  <2>1. \A q \in Replica : \A i \in Nat : ~ Entry(q, i, d)'
    BY <1>3 DEF Taken, Entry
  <2>2. Alone(d)'
    BY <1>8, <2>1 DEF Alone, Due
  <2>3. sends'[d] = 0 /\ accepted'[d] = 0
    BY <1>2, <1>12 DEF TriesInv, Counted
  <2>4. \A q \in Runner : Holds(q, d)' => q = d /\ run'[d] = x
    BY <1>1, <1>2, <1>5, <1>6 DEF Holds, UnderWay
  <2>5. Exact(x, 0, 0, "pending")
    BY DEF Exact, At
  <2>6. Bounded(0, 0, limits')
    BY DEF Bounded, Permitted
  <2> HIDE DEF x
  <2>7. Counted(d)'
    BY <1>8, <2>1, <2>3, <2>4, <2>5, <2>6 DEF Counted, Queued, RowExact
  <2> QED
    BY <2>2, <2>7
<1> QED
  BY <1>7, <1>10, <1>11, <1>12 DEF TriesInv

LEMMA DeliverTries ==
  ASSUME TriesInv, WebhookTypeOK', NEW d \in Delivery, NEW r \in Replica, Deliver(d, r)
  PROVE  TriesInv'
BY InsertedKeeps DEF Deliver, History

LEMMA DeliverFailsTries ==
  ASSUME TriesInv, WebhookTypeOK', NEW d \in Delivery, DeliverFails(d)
  PROVE  TriesInv'
BY InsertedKeeps DEF DeliverFails, History

LEMMA ElapseTries ==
  ASSUME TriesInv, WebhookTypeOK', NEW d \in Delivery, Elapse(d)
  PROVE  TriesInv'
<1>1. /\ WebhookTypeOK /\ AttemptsSteady /\ RowType /\ RestType /\ UNCHANGED <<run, batch, sends, accepted, limits>>
  BY TypeParts DEF TriesInv, Elapse
<1>2. \A e \in Delivery : /\ row'[e].status = row[e].status /\ row'[e].attempts = row[e].attempts
                          /\ e # d => row'[e] = row[e]
  BY <1>1 DEF Elapse, RowType, Shapes
<1>3. /\ \A e \in Delivery : disturbed[e] => disturbed'[e]
      /\ UnderWay(d) => disturbed'[d]
  BY <1>1 DEF Elapse, RestType
<1>4. AttemptsSteady'
  BY <1>1 DEF AttemptsSteady, Steady
<1>5. \A e \in Delivery : UnderWay(e)' <=> UnderWay(e)
  BY <1>1 DEF UnderWay
<1>6. Known'
  BY <1>2, <1>5 DEF TriesInv, Known
<1>7. Shifted
  BY <1>1, ShiftedBatches
<1>8. ASSUME NEW e \in Delivery, ~ disturbed'[e] PROVE Alone(e)' /\ Counted(e)'
  <2>1. Alone(e) /\ Counted(e)
    BY <1>3, <1>8 DEF TriesInv
  <2>2. Due(row'[e]) => ~ UnderWay(e)'
    BY <1>2, <1>3, <1>5, <1>8, <2>1 DEF Alone
  <2>3. Alone(e)'
    BY <1>1, <1>7, <2>1, <2>2, AloneKept
  <2>4. Counted(e)'
    BY <1>1, <1>2, <1>7, <2>1, StillCounted DEF Holds
  <2> QED
    BY <2>3, <2>4
<1> QED
  BY <1>4, <1>6, <1>8 DEF TriesInv

LEMMA CrashTries ==
  ASSUME TriesInv, WebhookTypeOK', NEW r \in Replica, Crash(r)
  PROVE  TriesInv'
<1>1. /\ WebhookTypeOK /\ AttemptsSteady /\ BatchType /\ RestType /\ UNCHANGED <<row, sends, accepted, limits>>
  BY TypeParts DEF TriesInv, Crash
<1>2. \A p \in Runner : run'[p] = IF Dies(p, r) THEN Idle ELSE run[p]
  BY DEF Crash
<1>3. \A p \in Runner : run'[p] = run[p] \/ run'[p].pc = "idle"
  BY <1>2 DEF Idle
<1>4. Shifted
  <2>1. \A q \in Replica : batch'[q] = batch[q] \/ batch'[q] = <<>>
    BY <1>1 DEF Crash, BatchType
  <2> QED
    BY <1>1, <2>1, ShiftedBatches
<1>5. AttemptsSteady'
  BY <1>1, <1>3 DEF AttemptsSteady
<1>6. \A e \in Delivery : run'[e].pc # "idle" => run[e].pc # "idle"
  BY <1>3, RunnerKinds
<1>7. \A e \in Delivery : UnderWay(e)' => UnderWay(e)
  BY <1>1, <1>4, <1>5, <1>6, UnderWayKept
<1>8. Known'
  BY <1>1, <1>7 DEF TriesInv, Known
<1>9. ASSUME NEW e \in Delivery, ~ disturbed'[e] PROVE Alone(e)' /\ Counted(e)'
  <2>1. ~ disturbed[e] /\ \A p \in Runner : Holds(p, e) /\ run[p].pc \in Recording => ~ Dies(p, r)
    BY <1>1, <1>9 DEF Crash, RestType, Holds
  <2>2. Alone(e) /\ Counted(e)
    BY <2>1 DEF TriesInv
  <2>3. Due(row'[e]) => ~ UnderWay(e)'
    BY <1>1, <1>7, <2>2 DEF Alone
  <2>4. Alone(e)'
    BY <1>4, <1>6, <2>2, <2>3, AloneKept
  <2>5. \A q \in Runner : Holds(q, e)' => Holds(q, e) /\ run'[q] = run[q]
    BY <1>3 DEF Holds
  <2>6. \A q \in Runner : Holds(q, e) /\ run[q].pc \in Recording => Holds(q, e)' /\ run'[q] = run[q]
    BY <1>2, <2>1 DEF Holds
  <2>7. Counted(e)'
    BY <1>1, <1>4, <2>2, <2>5, <2>6, StillCounted
  <2> QED
    BY <2>4, <2>7
<1> QED
  BY <1>5, <1>8, <1>9 DEF TriesInv

(* Nothing that the invariant is about has changed.                        *)
LEMMA AsideTries ==
  ASSUME TriesInv, WebhookTypeOK', UNCHANGED <<row, run, batch, sends, accepted, disturbed>>,
         limits \subseteq limits'
  PROVE  TriesInv'
<1>1. \A n : Permitted(n, limits) => Permitted(n, limits')
  BY DEF Permitted
<1>2. AttemptsSteady'
  BY <1>1 DEF TriesInv, AttemptsSteady, Steady
<1>3. Known'
  BY DEF TriesInv, Known, UnderWay
<1>4. ASSUME NEW d \in Delivery, ~ disturbed[d] PROVE Alone(d)' /\ Counted(d)'
  <2>1. Alone(d)'
    BY <1>4 DEF TriesInv, Alone, Entry, UnderWay, Due
  <2>2. Counted(d)'
    BY <1>1, <1>4 DEF TriesInv, Counted, Holds, Exact, Queued, Entry, RowExact, Bounded
  <2> QED
    BY <2>1, <2>2
<1> QED
  BY <1>2, <1>3, <1>4 DEF TriesInv

(* A claim takes rows that nobody was at, each of them once.               *)
LEMMA ClaimFacts ==
  ASSUME WebhookTypeOK, NEW r \in Replica, Claim(r)
  PROVE  /\ batch[r] = <<>> /\ run[r].pc = "idle"
         /\ \A q \in Replica : q # r => batch'[q] = batch[q]
         /\ \A q \in Runner : q # r => run'[q] = run[q]
         /\ \A i \in 1 .. Len(batch'[r]) : /\ batch'[r][i].d \in Claimed
                                           /\ batch'[r][i].count = row[batch'[r][i].d].attempts
         /\ \A i, j \in 1 .. Len(batch'[r]) : batch'[r][i].d = batch'[r][j].d => i = j
         /\ 1 \in 1 .. Len(batch'[r])
         /\ run'[r] = At("check", r, batch'[r][1].d, batch'[r][1].count)
<1>1. RunType /\ BatchType /\ RowType /\ r \in Runner
  BY TypeParts, RunnerKinds
<1>2. batch[r] = <<>> /\ run[r].pc = "idle"
  BY BatchFacts DEF Claim
<1>3. PICK s \in Orders(Claimed) : TurnsTo(r, Snapshot(s))
  BY DEF Claim
<1> DEFINE n == Cardinality(Claimed)
<1>4. n \in Nat /\ n # 0
  <2>1. IsFiniteSet(Claimed)
    BY NamesAssumption, FS_Subset DEF Claimed
  <2> QED
    BY <2>1, FS_CardinalityType, FS_EmptySet DEF Claim
<1>5. s \in [1 .. n -> Claimed] /\ \A i, j \in 1 .. n : s[i] = s[j] => i = j
  BY <1>3 DEF Orders
<1> HIDE DEF n
<1> DEFINE t == Snapshot(s)
<1>6. t \in Seq(Claims)
  BY <1>1, <1>3, SnapshotType
<1>7. DOMAIN t = 1 .. n /\ \A i \in 1 .. n : t[i].d = s[i] /\ t[i].count = row[s[i]].attempts
  BY <1>5 DEF Snapshot
<1>8. run' = [run EXCEPT ![r] = IF t = <<>> THEN Idle ELSE At("check", r, Head(t).d, Head(t).count)]
      /\ batch' = [batch EXCEPT ![r] = t]
  BY <1>3 DEF TurnsTo
<1> HIDE DEF t
<1>9. Len(t) = n /\ t # <<>> /\ Head(t) = t[1]
  <2>1. Len(t) = n
    BY <1>4, <1>6, <1>7
  <2> QED
    BY <1>4, <1>6, <2>1
<1>10. batch'[r] = t /\ \A q \in Replica : q # r => batch'[q] = batch[q]
  BY <1>1, <1>8 DEF BatchType
<1>11. run'[r] = At("check", r, t[1].d, t[1].count) /\ \A q \in Runner : q # r => run'[q] = run[q]
  BY <1>1, <1>8, <1>9 DEF RunType
<1>12. \A i \in 1 .. n : t[i].d \in Claimed /\ t[i].count = row[t[i].d].attempts
  BY <1>5, <1>7
<1>13. \A i, j \in 1 .. n : t[i].d = t[j].d => i = j
  BY <1>5, <1>7
<1>14. 1 \in 1 .. n
  BY <1>4
<1> QED
  BY <1>2, <1>9, <1>10, <1>11, <1>12, <1>13, <1>14

LEMMA ClaimTries ==
  ASSUME TriesInv, WebhookTypeOK', NEW r \in Replica, Claim(r)
  PROVE  TriesInv'
<1>1. /\ WebhookTypeOK /\ AttemptsSteady /\ RowType /\ r \in Runner /\ r \notin Delivery
      /\ UNCHANGED <<sends, accepted, disturbed, limits>>
  BY TypeParts, RunnerKinds DEF TriesInv, Claim, History
<1>2. /\ batch[r] = <<>> /\ run[r].pc = "idle"
      /\ \A q \in Replica : q # r => batch'[q] = batch[q]
      /\ \A q \in Runner : q # r => run'[q] = run[q]
      /\ \A i \in 1 .. Len(batch'[r]) : /\ batch'[r][i].d \in Claimed
                                        /\ batch'[r][i].count = row[batch'[r][i].d].attempts
      /\ \A i, j \in 1 .. Len(batch'[r]) : batch'[r][i].d = batch'[r][j].d => i = j
      /\ 1 \in 1 .. Len(batch'[r])
      /\ run'[r] = At("check", r, batch'[r][1].d, batch'[r][1].count)
  BY <1>1, ClaimFacts
<1>3. /\ \A d \in Delivery : row'[d].status = row[d].status /\ row'[d].attempts = row[d].attempts
      /\ \A d \in Claimed : ~ Due(row'[d])
      /\ \A d \in Delivery \ Claimed : ~ Due(row'[d])
  <2>1. \A d \in Claimed : d \in Delivery /\ row'[d] = LeasedRow(row[d])
    BY DEF Claim, Claimed
  <2>2. \A d \in Delivery \ Claimed : row'[d] = row[d] /\ ~ Due(row[d])
    BY DEF Claim, Claimed
  <2>3. \A d \in Delivery : row[d] \in Shapes
    BY <1>1 DEF RowType
  <2>4. ASSUME NEW y \in Shapes
        PROVE  LeasedRow(y).status = y.status /\ LeasedRow(y).attempts = y.attempts /\ LeasedRow(y).due = "waiting"
    BY DEF LeasedRow, Shapes
  <2>5. \A d \in Claimed : /\ row'[d].status = row[d].status /\ row'[d].attempts = row[d].attempts
                           /\ row'[d].due = "waiting"
    BY <2>1, <2>3, <2>4
  <2>6. \A d \in Claimed : ~ Due(row'[d])
    BY <2>5 DEF Due
  <2> QED
    BY <2>2, <2>5, <2>6
<1>4. AttemptsSteady'
  <2>1. Steady(run'[r], limits')
    BY <1>2 DEF At, Steady
  <2> QED
    BY <1>1, <1>2, <2>1 DEF AttemptsSteady
<1>5. \A d \in Claimed : d \in Delivery /\ row[d].status = "pending" /\ Due(row[d])
  BY DEF Claimed, Due
<1>6. ASSUME NEW d \in Delivery, NEW q \in Replica, NEW i \in Nat, Entry(q, i, d)'
      PROVE  IF q = r THEN d \in Claimed /\ i \in 1 .. Len(batch'[r]) /\ batch'[r][i].d = d ELSE Entry(q, i, d)
  BY <1>2, <1>6 DEF Entry
<1>7. ASSUME NEW d \in Delivery, NEW q \in Runner, Holds(q, d)'
      PROVE  IF q = r THEN d \in Claimed /\ d = batch'[r][1].d ELSE Holds(q, d) /\ run'[q] = run[q]
  BY <1>2, <1>7 DEF Holds, At
<1>8. Known'
  <2> SUFFICES ASSUME NEW d \in Delivery, UnderWay(d)' PROVE row[d].status # "none"
    BY <1>3 DEF Known
  <2>1. Taken(d)'
    BY <1>4, UnderWayIsNext
  <2>2. Taken(d) \/ d \in Claimed
    <3>1. run'[d] = run[d]
      BY <1>1, <1>2, RunnerKinds
    <3> QED
      BY <1>6, <2>1, <3>1 DEF Taken
  <2>3. Taken(d) => UnderWay(d)
    BY <1>1, UnderWayIs
  <2> QED
    BY <1>5, <2>2, <2>3 DEF TriesInv, Known
<1>9. ASSUME NEW d \in Claimed, ~ disturbed'[d] PROVE Alone(d)' /\ Counted(d)'
  <2>1. d \in Delivery /\ Alone(d) /\ Counted(d) /\ row[d].status = "pending" /\ Due(row[d])
    BY <1>1, <1>5, <1>9 DEF TriesInv
  <2>2. ~ UnderWay(d) /\ ~ Taken(d)
    BY <1>1, <2>1, UnderWayIs DEF Alone
  <2>3. \A q \in Replica : \A i \in Nat : Entry(q, i, d)' => q = r /\ i \in 1 .. Len(batch'[r]) /\ batch'[r][i].d = d
    BY <1>6, <2>1, <2>2 DEF Taken
  <2>4. run'[d].pc = "idle"
    BY <1>1, <1>2, <2>1, <2>2, RunnerKinds DEF Taken
  <2>5. Alone(d)'
    BY <1>2, <1>3, <2>3, <2>4 DEF Alone, Due
  <2>6. RowExact(row[d], sends[d], accepted[d])
    BY <2>1, <2>2 DEF Counted, UnderWay, Holds
  <2>7. row[d].attempts = sends[d] /\ accepted[d] = 0
    BY <2>1, <2>6 DEF RowExact
  <2>8. \A q \in Runner : Holds(q, d)' => q = r /\ d = batch'[r][1].d
    BY <1>7, <2>1, <2>2 DEF UnderWay, Holds
  <2>9. ASSUME NEW q \in Runner, Holds(q, d)' PROVE Exact(run'[q], sends'[d], accepted'[d], row'[d].status)
    <3>1. run'[q].pc = "check" /\ run'[q].count = sends[d]
      BY <1>2, <2>7, <2>8, <2>9 DEF At
    <3> QED
      BY <1>1, <1>3, <2>1, <2>7, <3>1 DEF Exact
  <2>10. Queued(d, sends[d], accepted[d], row[d].status)'
    <3>1. ASSUME NEW q \in Replica, NEW i \in Nat, Entry(q, i, d)'
          PROVE  batch'[q][i].count = sends[d]
      BY <1>2, <2>3, <2>7, <3>1
    <3> QED
      BY <1>1, <1>3, <2>1, <2>7, <3>1 DEF Queued
  <2>11. /\ RowExact(row'[d], sends'[d], accepted'[d]) /\ Bounded(sends'[d], accepted'[d], limits')
         /\ row'[d].status # "none"
    BY <1>1, <1>3, <2>1, <2>7 DEF RowExact, Counted
  <2>12. Counted(d)'
    BY <1>1, <1>3, <2>1, <2>9, <2>10, <2>11 DEF Counted, Queued
  <2> QED
    BY <2>5, <2>12
<1>10. ASSUME NEW d \in Delivery \ Claimed, ~ disturbed'[d] PROVE Alone(d)' /\ Counted(d)'
  <2>1. Alone(d) /\ Counted(d) /\ run'[d] = run[d]
    BY <1>1, <1>2, <1>10, RunnerKinds DEF TriesInv
  <2>2. \A q \in Replica : \A i \in Nat : Entry(q, i, d)' => q # r /\ Entry(q, i, d)
    BY <1>6
  <2>3. Alone(d)'
    BY <1>3, <2>1, <2>2 DEF Alone, Due
  <2>4. Queued(d, sends[d], accepted[d], row[d].status)'
    BY <1>1, <1>2, <1>3, <2>1, <2>2 DEF Counted, Queued
  <2>5. \A q \in Runner : Holds(q, d)' => Holds(q, d) /\ run'[q] = run[q]
    BY <1>7
  <2>6. \A q \in Runner : Holds(q, d) => Holds(q, d)' /\ run'[q] = run[q]
    BY <1>2 DEF Holds
  <2>7. Counted(d)'
    BY <1>1, <1>3, <2>1, <2>4, <2>5, <2>6, CountedKept
  <2> QED
    BY <2>3, <2>7
<1> QED
  BY <1>4, <1>8, <1>9, <1>10 DEF TriesInv

-----------------------------------------------------------------------------
(* The invariant holds throughout.                                         *)
LEMMA TriesInit == Init => TriesInv
<1> SUFFICES ASSUME Init PROVE TriesInv
  OBVIOUS
<1>1. WebhookTypeOK
  BY InitType
<1>2. (\A p \in Runner : run[p].pc = "idle") /\ (\A r \in Replica : Len(batch[r]) = 0)
  BY DEF Init, Idle
<1>3. AttemptsSteady
  BY <1>2 DEF AttemptsSteady
<1>4. \A r \in Replica : \A i : \A d \in Delivery : ~ Entry(r, i, d)
  BY <1>2 DEF Entry
<1>5. \A d \in Delivery : ~ UnderWay(d)
  BY <1>2 DEF UnderWay
<1>6. ASSUME NEW d \in Delivery PROVE Alone(d) /\ Counted(d)
  <2>1. Alone(d)
    BY <1>2, <1>4, <1>5, RunnerKinds DEF Alone
  <2>2. sends[d] = 0 /\ accepted[d] = 0 /\ row[d].attempts = 0
    BY DEF Init, PendingRow, NoRow
  <2>3. Counted(d)
    BY <1>2, <1>4, <2>2 DEF Counted, Holds, Queued, RowExact, Bounded, Permitted
  <2> QED
    BY <2>1, <2>3
<1> QED
  BY <1>1, <1>3, <1>5, <1>6 DEF TriesInv, Known

LEMMA TriesNext ==
  ASSUME TriesInv, HookSound, [Next]_vars
  PROVE  TriesInv'
<1>1. WebhookTypeOK'
  BY NextType DEF TriesInv
<1>2. ASSUME NEW d \in Delivery, Elapse(d) \/ DeliverFails(d) PROVE TriesInv'
  BY <1>1, <1>2, ElapseTries, DeliverFailsTries
<1>3. ASSUME NEW d \in Delivery, NEW r \in Replica, Deliver(d, r) PROVE TriesInv'
  BY <1>1, <1>3, DeliverTries
<1>4. ASSUME NEW r \in Replica, Claim(r) PROVE TriesInv'
  BY <1>1, <1>4, ClaimTries
<1>5. ASSUME NEW r \in Replica, Check(r) PROVE TriesInv'
  BY <1>1, <1>5, CheckWorks, WorkKeeps
<1>6. ASSUME NEW r \in Replica, Crash(r) PROVE TriesInv'
  BY <1>1, <1>6, CrashTries
<1>7. ASSUME NEW p \in Runner, Advances(p) \/ StatementFails(p) PROVE TriesInv'
  BY <1>1, <1>7, ReadWorks, SendWorks, WriteWorks, StatementFailsWorks, WorkKeeps DEF Advances
<1>8. ASSUME Switch PROVE TriesInv'
  <2>1. limits \subseteq limits'
    BY <1>8 DEF Switch
  <2> QED
    BY <1>1, <1>8, <2>1, AsideTries DEF Switch
<1>9. ASSUME UNCHANGED vars PROVE TriesInv'
  BY <1>1, <1>9, AsideTries DEF vars
<1> QED
  BY <1>2, <1>3, <1>4, <1>5, <1>6, <1>7, <1>8, <1>9 DEF Next

LEMMA TriesInvAlways == Spec => []TriesInv
<1>1. IInv => HookSound
  BY DEF IInv
<1> QED
  BY <1>1, InitIInv, NextIInv, TriesInit, TriesNext, PTL DEF Spec

(* A delivery no attempt of which outlived its deadline or was left        *)
(* unrecorded is accepted once, and requested a second time only within a  *)
(* limit the webhook has had, the first attempt and every replica's ticks  *)
(* together, whatever that limit is and however it is edited.              *)
THEOREM TriesAreBounded == Spec => []TriesBounded
<1>1. TriesInv => TriesBounded
  <2> SUFFICES ASSUME TriesInv, NEW d \in Delivery, ~ disturbed[d]
               PROVE  accepted[d] <= 1 /\ (sends[d] <= 1 \/ \E n \in limits : sends[d] <= n)
    BY DEF TriesBounded
  <2>1. Bounded(sends[d], accepted[d], limits)
    BY DEF TriesInv, Counted
  <2> QED
    BY <2>1 DEF Bounded, Permitted
<1> QED
  BY <1>1, TriesInvAlways, PTL

(* Only the attempt that stored a success is at its row, and that attempt  *)
(* writes the row no more.                                                 *)
LEMMA SuccessStays ==
  ASSUME TriesInv, [Next]_vars, NEW d \in Delivery, row[d].status = "success"
  PROVE  row'[d].status = "success" \/ disturbed'[d]
<1>1. ASSUME NEW p \in Runner, Write(p) \/ StatementFails(p)
      PROVE  row'[d].status = "success" \/ disturbed'[d]
  <2>1. /\ Work(p) /\ run[p].pc # "idle" /\ (row' = row \/ row' = RowAfter(p))
    BY <1>1, WriteWorks, StatementFailsWorks DEF Work, Write, StatementFails
  <2>2. CASE d # run[p].d
    BY <2>1, <2>2, RowsMove
  <2>3. CASE d = run[p].d /\ ~ disturbed'[d]
    <3>1. ~ disturbed[d]
      BY <2>1, <2>3 DEF Work
    <3>2. OwnFacts(p)
      BY <2>1, <2>3, <3>1, OwnCounts
    <3>3. run[p].pc = "credit"
      BY <2>3, <3>2 DEF OwnFacts, Exact
    <3>4. row' = row
      BY <2>1, <3>3, RowAfterIs
    <3> QED
      BY <3>4
  <2> QED
    BY <2>2, <2>3
<1>2. ASSUME NEW e \in Delivery, Elapse(e) PROVE row'[d].status = "success"
  <2>1. RowType
    BY TypeParts DEF TriesInv
  <2> QED
    BY <1>2, <2>1 DEF Elapse, RowType, Shapes
<1>3. ASSUME NEW e \in Delivery, Comes(e), row' = [row EXCEPT ![e] = PendingRow] PROVE row'[d].status = "success"
  <2>1. RowType
    BY TypeParts DEF TriesInv
  <2> QED
    BY <1>3, <2>1 DEF Comes, RowType
<1>4. ASSUME NEW r \in Replica, Claim(r) PROVE row'[d].status = "success"
  <2>1. d \notin Claimed
    BY DEF Claimed, Due
  <2> QED
    BY <1>4, <2>1 DEF Claim
<1>5. ASSUME UNCHANGED row PROVE row'[d].status = "success"
  BY <1>5
<1>6. ASSUME NEW r \in Replica, Check(r) \/ Crash(r) PROVE UNCHANGED row
  BY <1>6 DEF Check, Crash
<1>7. ASSUME NEW p \in Runner, Read(p) \/ Send(p) PROVE UNCHANGED row
  BY <1>7 DEF Read, Send
<1>8. Switch \/ UNCHANGED vars => UNCHANGED row
  BY DEF Switch, vars
<1> QED
  BY <1>1, <1>2, <1>3, <1>4, <1>5, <1>6, <1>7, <1>8 DEF Next, Advances, Deliver, DeliverFails

(* A stored success is never overwritten, unless an attempt at the row     *)
(* outlived its lease or grace or was left unrecorded.                     *)
THEOREM SuccessKeptAlways == Spec => SuccessKept
<1>1. TriesInv /\ [Next]_vars
        => [\A d \in Delivery :
              row[d].status = "success" => row'[d].status = "success" \/ disturbed'[d]]_vars
  BY SuccessStays
<1> QED
  BY <1>1, TriesInvAlways, PTL DEF Spec, SuccessKept

-----------------------------------------------------------------------------
(* What attempts hold of the failure count.                                *)

(* A step that leaves the counts, and gives no attempt another reading.    *)
LEMMA ReadingsKept ==
  ASSUME Readings, miscounted => miscounted', hook'.failures = hook.failures,
         UNCHANGED <<streak, blamed>>,
         \A q \in Runner : HoldsReading(run'[q]) => HoldsReading(run[q]) /\ Recorded(run'[q]) = Recorded(run[q])
  PROVE  Readings'
<1>1. Within(hook'.failures, run', blamed')
  BY DEF Readings, Within
<1>2. ~ miscounted' => Within(hook'.failures, run', streak') /\ OneReading'
  BY DEF Readings, Within, OneReading
<1> QED
  BY <1>1, <1>2 DEF Readings

LEMMA LeavesNoReading ==
  ASSUME TriesInv, NEW p \in Runner, run[p].pc # "idle", Leaves(p)
  PROVE  ~ HoldsReading(run'[p]) /\ \A q \in Runner : q # p => run'[q] = run[q]
<1>1. /\ \A q \in Runner : q # p => run'[q] = run[q]
      /\ \/ run'[p].pc = "idle"
         \/ p \in Replica /\ 2 \in Entries(p) /\ run'[p] = At("check", p, batch[p][2].d, batch[p][2].count)
  BY LeavesMoves DEF TriesInv
<1> QED
  BY <1>1 DEF HoldsReading, At

LEMMA HeldReading ==
  ASSUME TriesInv, NEW p \in Runner, HoldsReading(run[p])
  PROVE  run[p].pc # "idle" /\ run[p].seen \in Nat /\ Recorded(run[p]) \in Nat
<1>1. run[p].pc # "idle"
  BY DEF HoldsReading
<1>2. run[p] \in Attempts
  BY <1>1, AttemptNow
<1> QED
  BY <1>1, <1>2 DEF Attempts, Recorded

(* The failures that a failed attempt writes are no more than the count    *)
(* that includes its own.                                                  *)
LEMMA BlameCounts ==
  ASSUME NEW x \in Attempts, NEW count \in Nat, NoMore(Recorded(x), count), NEW more,
         more = IF x.told THEN count ELSE UpTo(MaxFailures, count + 1)
  PROVE  /\ NoMore(x.seen + 1, more)
         /\ \A n \in Nat : NoMore(n, count) => NoMore(n, more)
         /\ TooMany(x.seen + 1) => more >= MaxFailures
<1>1. x.seen \in Nat /\ MaxFailures \in Nat
  BY LimitsAssumption DEF Attempts
<1>2. CASE x.told
  BY <1>1, <1>2 DEF NoMore, Recorded, TooMany
<1>3. CASE ~ x.told
  <2>1. more = IF count + 1 < MaxFailures THEN count + 1 ELSE MaxFailures
    BY <1>3 DEF UpTo
  <2>2. x.seen <= count \/ count >= MaxFailures
    BY <1>3 DEF NoMore, Recorded
  <2>3. ASSUME NEW n \in Nat, NoMore(n, count) PROVE NoMore(n, more)
    BY <1>1, <2>1, <2>3 DEF NoMore
  <2>4. NoMore(x.seen + 1, more)
    BY <1>1, <2>1, <2>2 DEF NoMore
  <2>5. TooMany(x.seen + 1) => more >= MaxFailures
    BY <1>1, <2>1, <2>2 DEF TooMany
  <2> QED
    BY <2>3, <2>4, <2>5
<1> QED
  BY <1>2, <1>3

(* A failed attempt that records its failure, and what it does to a count. *)
LEMMA BlameWithin ==
  ASSUME TriesInv, NEW p \in Runner, run[p].pc = "blame", NEW count \in Nat, NEW more,
         more = IF run[p].told THEN count ELSE UpTo(MaxFailures, count + 1),
         Within(hook.failures, run, count), NEW failures, failures = run[p].seen + 1, NEW attempts,
         \A q \in Runner : q # p => attempts[q] = run[q],
         HoldsReading(attempts[p]) => Recorded(attempts[p]) = run[p].seen + 1
  PROVE  Within(failures, attempts, more) /\ (TooMany(run[p].seen + 1) => more >= MaxFailures)
<1>1. run[p] \in Attempts /\ NoMore(Recorded(run[p]), count)
  BY AttemptNow DEF HoldsReading, Within
<1>2. /\ NoMore(run[p].seen + 1, more)
      /\ \A n \in Nat : NoMore(n, count) => NoMore(n, more)
      /\ TooMany(run[p].seen + 1) => more >= MaxFailures
  BY <1>1, BlameCounts
<1>3. ASSUME NEW q \in Runner, HoldsReading(attempts[q]) PROVE NoMore(Recorded(attempts[q]), more)
  <2>1. CASE q = p
    BY <1>2, <1>3, <2>1
  <2>2. CASE q # p
    <3>1. HoldsReading(run[q]) /\ attempts[q] = run[q]
      BY <1>3, <2>2
    <3>2. Recorded(run[q]) \in Nat /\ NoMore(Recorded(run[q]), count)
      BY <3>1, HeldReading DEF Within
    <3> QED
      BY <1>2, <3>1, <3>2
  <2> QED
    BY <2>1, <2>2
<1> QED
  BY <1>2, <1>3 DEF Within

LEMMA CountTypes ==
  ASSUME TriesInv
  PROVE  streak \in Nat /\ blamed \in Nat /\ HookType
BY TypeParts DEF TriesInv, RestType

LEMMA Blames ==
  ASSUME TriesInv, NEW p \in Runner, run[p].pc = "blame",
         hook' = HookAfter(p), streak' = StreakAfter(p), blamed' = BlamedAfter(p)
  PROVE  /\ hook'.failures = run[p].seen + 1 /\ (hook.active /\ ~ hook'.active => TooMany(run[p].seen + 1))
         /\ streak' = IF run[p].told THEN streak ELSE UpTo(MaxFailures, streak + 1)
         /\ blamed' = IF run[p].told THEN blamed ELSE UpTo(MaxFailures, blamed + 1)
<1>1. HookType
  BY CountTypes
<1>2. hook' = BlamedHook(run[p].seen)
  BY DEF HookAfter
<1>3. hook'.failures = run[p].seen + 1 /\ (hook.active /\ ~ hook'.active => TooMany(run[p].seen + 1))
  BY <1>1, <1>2 DEF BlamedHook, HookType, Hooks
<1> QED
  BY <1>3 DEF StreakAfter, BlamedAfter, Counts

LEMMA BlameReadings ==
  ASSUME TriesInv, Readings, NEW p \in Runner, run[p].pc = "blame", UNCHANGED miscounted,
         hook' = HookAfter(p), streak' = StreakAfter(p), blamed' = BlamedAfter(p),
         \A q \in Runner : q # p => run'[q] = run[q],
         HoldsReading(run'[p]) => Recorded(run'[p]) = run[p].seen + 1
  PROVE  Readings'
<1>1. /\ hook'.failures = run[p].seen + 1
      /\ streak' = IF run[p].told THEN streak ELSE UpTo(MaxFailures, streak + 1)
      /\ blamed' = IF run[p].told THEN blamed ELSE UpTo(MaxFailures, blamed + 1)
  BY Blames
<1>2. streak \in Nat /\ blamed \in Nat
  BY CountTypes
<1>3. Within(hook'.failures, run', blamed')
  BY <1>1, <1>2, BlameWithin DEF Readings
<1>4. ASSUME ~ miscounted PROVE Within(hook'.failures, run', streak') /\ OneReading'
  <2>1. Within(hook'.failures, run', streak')
    BY <1>1, <1>2, <1>4, BlameWithin DEF Readings
  <2>2. \A q \in Runner : HoldsReading(run[q]) => q = p
    BY <1>4 DEF Readings, OneReading, HoldsReading
  <2>3. \A q \in Runner : HoldsReading(run'[q]) => q = p
    BY <2>2
  <2> QED
    BY <2>1, <2>3 DEF OneReading
<1> QED
  BY <1>3, <1>4 DEF Readings

LEMMA ReadReadings ==
  ASSUME TriesInv, Readings, NEW p \in Runner, Read(p)
  PROVE  Readings'
<1>1. /\ run[p].pc = "read" /\ run[p] \in Attempts /\ run \in [Runner -> {Idle} \cup Attempts]
      /\ Steady(run[p], limits)
  BY AttemptNow DEF Read
<1>2. /\ run'[p].seen = hook.failures /\ run'[p].told = run[p].told
      /\ \A q \in Runner : q # p => run'[q] = run[q]
  BY <1>1 DEF Read, Attempts
<1>3. /\ UNCHANGED <<hook, streak, blamed>>
      /\ miscounted' <=> miscounted \/ \E q \in Runner : HoldsReading(run[q])
  BY DEF Read
<1>4. Recorded(run'[p]) = hook.failures
  BY <1>1, <1>2 DEF Recorded, Steady, Recording
<1>5. Within(hook'.failures, run', blamed')
  BY <1>2, <1>3, <1>4 DEF Readings, Within
<1>6. ASSUME ~ miscounted' PROVE Within(hook'.failures, run', streak') /\ OneReading'
  <2>1. ~ miscounted /\ \A q \in Runner : ~ HoldsReading(run[q])
    BY <1>3, <1>6
  <2>2. \A q \in Runner : HoldsReading(run'[q]) => q = p
    BY <1>2, <2>1
  <2> QED
    BY <1>2, <1>3, <1>4, <2>1, <2>2 DEF Readings, Within, OneReading
<1> QED
  BY <1>5, <1>6 DEF Readings

LEMMA SendReadings ==
  ASSUME TriesInv, Readings, NEW p \in Runner, Send(p)
  PROVE  Readings'
<1>1. run[p].pc = "send" /\ run[p] \in Attempts /\ run \in [Runner -> {Idle} \cup Attempts]
  BY AttemptNow DEF Send
<1>2. /\ run'[p].seen = run[p].seen /\ run'[p].told = run[p].told
      /\ \A q \in Runner : q # p => run'[q] = run[q]
  BY <1>1 DEF Send, Attempts
<1>3. UNCHANGED <<hook, streak, blamed, miscounted>>
  BY DEF Send
<1> QED
  BY <1>1, <1>2, <1>3, ReadingsKept DEF HoldsReading, Recorded

(* A step that records nothing of the webhook leaves the readings alone.   *)
LEMMA RecordsNothing ==
  ASSUME NEW p \in Runner, run[p].pc \notin {"credit", "blame"}
  PROVE  HookAfter(p) = hook /\ StreakAfter(p) = streak /\ BlamedAfter(p) = blamed
BY DEF HookAfter, StreakAfter, BlamedAfter, Counts

(* The count of an attempt that is not recording a failure stays.          *)
LEMMA ToldStays ==
  ASSUME NEW x \in Attempts, NEW done \in BOOLEAN, x.pc # "blame" \/ ~ done
  PROVE  Told(x, done) = x.told
BY DEF Told, Attempts

LEMMA Credits ==
  ASSUME TriesInv, NEW p \in Runner, run[p].pc = "credit",
         hook' = HookAfter(p), streak' = StreakAfter(p), blamed' = BlamedAfter(p)
  PROVE  hook'.failures = 0 /\ streak' = 0 /\ blamed' = blamed
<1>1. hook'.failures = 0
  BY CountTypes DEF HookAfter, CreditedHook, HookType, Hooks
<1>2. streak' = 0
  BY DEF StreakAfter, Counts
<1>3. blamed' = blamed
  BY DEF BlamedAfter, Counts
<1> QED
  BY <1>1, <1>2, <1>3

LEMMA ZeroWithin ==
  ASSUME TriesInv, NEW attempts, Within(hook.failures, run, blamed),
         \A q \in Runner : HoldsReading(attempts[q])
           => HoldsReading(run[q]) /\ Recorded(attempts[q]) = Recorded(run[q])
  PROVE  Within(0, attempts, blamed)
<1>1. NoMore(0, blamed)
  BY CountTypes DEF NoMore
<1>2. ASSUME NEW q \in Runner, HoldsReading(attempts[q]) PROVE NoMore(Recorded(attempts[q]), blamed)
  <2>1. HoldsReading(run[q]) /\ Recorded(attempts[q]) = Recorded(run[q])
    BY <1>2
  <2>2. NoMore(Recorded(run[q]), blamed)
    BY <2>1 DEF Within
  <2> QED
    BY <2>1, <2>2
<1> QED
  BY <1>1, <1>2 DEF Within

LEMMA WriteReadings ==
  ASSUME TriesInv, Readings, NEW p \in Runner, Write(p)
  PROVE  Readings'
<1>1. run[p].pc \in Recording \cup {"drop"} /\ run[p].pc # "idle"
  BY DEF Write, Recording
<1>2. run[p] \in Attempts /\ Steady(run[p], limits) /\ run \in [Runner -> {Idle} \cup Attempts]
  BY <1>1, AttemptNow
<1>3. hook' = HookAfter(p) /\ streak' = StreakAfter(p) /\ blamed' = BlamedAfter(p) /\ UNCHANGED miscounted
  BY DEF Write
<1>4. CASE run[p].pc \in {"store", "blame"}
  <2> DEFINE pc == Then(run[p])
             t == Told(run[p], TRUE)
             x == [run[p] EXCEPT !.pc = pc, !.told = t]
  <2>1. IF run[p].pc = "store" THEN pc = "credit" ELSE pc \in {"fail", "park"}
    BY <1>4 DEF Then, AfterBlame
  <2>2. run' = [run EXCEPT ![p] = x]
    BY <1>4, <2>1 DEF Write
  <2>3. /\ x.pc \notin {"send", "blame", "idle"} /\ x.guarded = run[p].guarded /\ x.seen = run[p].seen
        /\ x.told = t
    BY <1>2, <1>4, <2>1 DEF Attempts
  <2>4. IF run[p].pc = "store" THEN t = run[p].told ELSE t = TRUE
    <3>1. run[p].pc = "store" => t = run[p].told
      BY <1>2, ToldStays
    <3>2. run[p].pc = "blame" => t = TRUE
      BY DEF Told
    <3> QED
      BY <1>4, <3>1, <3>2
  <2> HIDE DEF pc, x, t
  <2>5. run'[p] = x /\ \A q \in Runner : q # p => run'[q] = run[q]
    BY <1>2, <2>2
  <2>6. CASE run[p].pc = "store"
    <3>1. hook' = hook /\ streak' = streak /\ blamed' = blamed
      BY <1>3, <2>6, RecordsNothing
    <3>2. \A q \in Runner : HoldsReading(run'[q]) => HoldsReading(run[q]) /\ Recorded(run'[q]) = Recorded(run[q])
      BY <1>1, <2>3, <2>4, <2>5, <2>6 DEF HoldsReading, Recorded
    <3> QED
      BY <1>3, <3>1, <3>2, ReadingsKept
  <2>7. CASE run[p].pc = "blame"
    <3>1. Recorded(run'[p]) = run[p].seen + 1
      BY <2>3, <2>4, <2>5, <2>7 DEF Recorded
    <3> QED
      BY <1>3, <2>5, <2>7, <3>1, BlameReadings
  <2> QED
    BY <1>4, <2>6, <2>7
<1>5. CASE run[p].pc \in {"credit", "fail", "park", "drop"}
  <2>1. Leaves(p)
    BY <1>5 DEF Write, Then, Leaves, Over
  <2>2. ~ HoldsReading(run'[p]) /\ \A q \in Runner : q # p => run'[q] = run[q]
    BY <1>1, <2>1, LeavesNoReading
  <2>3. CASE run[p].pc # "credit"
    <3>1. hook' = hook /\ streak' = streak /\ blamed' = blamed
      BY <1>3, <1>5, <2>3, RecordsNothing
    <3> QED
      BY <1>3, <2>2, <3>1, ReadingsKept
  <2>4. CASE run[p].pc = "credit"
    <3>1. HoldsReading(run[p])
      BY <1>2, <2>4 DEF HoldsReading, Steady
    <3>2. hook'.failures = 0 /\ streak' = 0 /\ blamed' = blamed
      BY <1>3, <2>4, Credits
    <3>3. Within(0, run', blamed)
      BY <2>2, ZeroWithin DEF Readings
    <3>4. ~ miscounted => \A q \in Runner : ~ HoldsReading(run'[q])
      BY <2>2, <3>1 DEF Readings, OneReading
    <3> QED
      BY <1>3, <3>2, <3>3, <3>4 DEF Readings, Within, NoMore, OneReading
  <2> QED
    BY <2>3, <2>4
<1> QED
  BY <1>1, <1>4, <1>5 DEF Recording

(* What a failed statement leaves of the attempt.                          *)
LEMMA FailedAttempt ==
  ASSUME TriesInv, NEW p \in Runner, NEW done \in BOOLEAN, run[p].pc \in Steps \ {"send"},
         IF run[p].guarded THEN Caught(p, done) ELSE Thrown(p)
  PROVE  /\ HoldsReading(run'[p]) => /\ HoldsReading(run[p]) /\ run'[p].seen = run[p].seen
                                     /\ run'[p].told = Told(run[p], done)
         /\ \A q \in Runner : q # p => run'[q] = run[q]
<1>1. run[p].pc # "idle"
  BY DEF Steps
<1>2. run[p] \in Attempts /\ run \in [Runner -> {Idle} \cup Attempts]
  BY <1>1, AttemptNow
<1>3. CASE run[p].guarded
  <2> DEFINE t == Told(run[p], done)
             x == [run[p] EXCEPT !.pc = "blame", !.guarded = FALSE, !.told = t]
  <2>1. run' = [run EXCEPT ![p] = x]
    BY <1>3 DEF Caught
  <2> HIDE DEF t
  <2>2. x.seen = run[p].seen /\ x.told = t
    BY <1>2 DEF Attempts
  <2> HIDE DEF x
  <2>3. run'[p] = x /\ \A q \in Runner : q # p => run'[q] = run[q]
    BY <1>2, <2>1
  <2> QED
    BY <1>1, <1>3, <2>2, <2>3 DEF HoldsReading, t
<1>4. CASE ~ run[p].guarded
  <2>1. Leaves(p)
    BY <1>4 DEF Thrown, Leaves
  <2> QED
    BY <1>1, <2>1, LeavesNoReading
<1> QED
  BY <1>3, <1>4

LEMMA StatementFailsReadings ==
  ASSUME TriesInv, Readings, NEW p \in Runner, StatementFails(p)
  PROVE  Readings'
<1>1. run[p].pc \in Steps \ {"send"} /\ run[p].pc # "idle"
  BY DEF StatementFails, Steps
<1>2. run[p] \in Attempts /\ Steady(run[p], limits)
  BY <1>1, AttemptNow
<1>3. PICK done \in BOOLEAN :
        /\ hook' = IF done THEN HookAfter(p) ELSE hook
        /\ streak' = IF done THEN StreakAfter(p) ELSE streak
        /\ blamed' = IF done THEN BlamedAfter(p) ELSE blamed
        /\ IF run[p].guarded THEN Caught(p, done) ELSE Thrown(p)
  BY DEF StatementFails
<1>4. miscounted' <=> miscounted \/ run[p].pc = "credit"
  BY DEF StatementFails
<1>5. /\ HoldsReading(run'[p]) => /\ HoldsReading(run[p]) /\ run'[p].seen = run[p].seen
                                  /\ run'[p].told = Told(run[p], done)
      /\ \A q \in Runner : q # p => run'[q] = run[q]
  BY <1>1, <1>3, FailedAttempt
<1>6. CASE run[p].pc = "blame" /\ done
  <2>1. HoldsReading(run'[p]) => Recorded(run'[p]) = run[p].seen + 1
    BY <1>5, <1>6 DEF Recorded, Told
  <2>2. UNCHANGED miscounted
    <3>1. miscounted \in BOOLEAN /\ miscounted' \in BOOLEAN
      BY TypeParts DEF TriesInv, RestType, StatementFails
    <3> QED
      BY <1>4, <1>6, <3>1
  <2> QED
    BY <1>3, <1>5, <1>6, <2>1, <2>2, BlameReadings
<1>7. ASSUME run[p].pc # "blame" \/ ~ done
      PROVE  \A q \in Runner : HoldsReading(run'[q]) => HoldsReading(run[q]) /\ Recorded(run'[q]) = Recorded(run[q])
  <2>1. Told(run[p], done) = run[p].told
    BY <1>2, <1>7, ToldStays
  <2> QED
    BY <1>5, <2>1 DEF Recorded
<1>8. CASE ~ done \/ run[p].pc \notin {"credit", "blame"}
  <2>1. hook' = hook /\ streak' = streak /\ blamed' = blamed
    BY <1>3, <1>8, RecordsNothing
  <2> QED
    BY <1>4, <1>7, <1>8, <2>1, ReadingsKept
<1>9. CASE run[p].pc = "credit" /\ done
  <2>1. hook'.failures = 0 /\ blamed' = blamed
    BY <1>3, <1>9, Credits
  <2>2. Within(0, run', blamed)
    BY <1>7, <1>9, ZeroWithin DEF Readings
  <2> QED
    BY <1>4, <1>9, <2>1, <2>2 DEF Readings
<1> QED
  BY <1>6, <1>8, <1>9

LEMMA OtherReadings ==
  ASSUME TriesInv, Readings,
         \/ \E d \in Delivery : Elapse(d) \/ DeliverFails(d) \/ \E r \in Replica : Deliver(d, r)
         \/ \E r \in Replica : Claim(r) \/ Check(r) \/ Crash(r)
         \/ Switch \/ UNCHANGED vars
  PROVE  Readings'
<1>1. RunType /\ HookType
  BY TypeParts DEF TriesInv
<1>2. ASSUME NEW d \in Delivery, Elapse(d) \/ DeliverFails(d) PROVE Readings'
  BY <1>2, ReadingsKept DEF Elapse, DeliverFails, History
<1>3. ASSUME NEW d \in Delivery, NEW r \in Replica, Deliver(d, r) PROVE Readings'
  <2>1. \A q \in Runner : run'[q] = run[q] \/ run'[q] = At("read", r, d, 0)
    BY <1>1, <1>3 DEF Deliver, RunType
  <2>2. ~ HoldsReading(At("read", r, d, 0))
    BY DEF HoldsReading, At
  <2>3. UNCHANGED <<hook, streak, blamed, miscounted>>
    BY <1>3 DEF Deliver, History
  <2> QED
    BY <2>1, <2>2, <2>3, ReadingsKept
<1>4. ASSUME NEW r \in Replica, Claim(r) PROVE Readings'
  <2>1. /\ \A q \in Runner : q # r => run'[q] = run[q]
        /\ run'[r] = At("check", r, batch'[r][1].d, batch'[r][1].count)
    BY <1>4, ClaimFacts DEF TriesInv
  <2>2. ~ HoldsReading(run'[r])
    BY <2>1 DEF HoldsReading, At
  <2>3. UNCHANGED <<hook, streak, blamed, miscounted>>
    BY <1>4 DEF Claim, History
  <2> QED
    BY <2>1, <2>2, <2>3, ReadingsKept
<1>5. ASSUME NEW r \in Replica, Check(r) PROVE Readings'
  <2>1. r \in Runner /\ run[r].pc = "check" /\ run[r] \in Attempts /\ Steady(run[r], limits)
    BY <1>5, RunnerKinds, AttemptNow DEF Check
  <2>2. /\ \A q \in Runner : q # r => run'[q] = run[q]
        /\ run'[r].guarded = run[r].guarded /\ run'[r].pc \in {"read", "drop"}
    BY <1>1, <1>5, <2>1 DEF Check, Moves, RunType, Attempts
  <2>3. ~ HoldsReading(run'[r])
    BY <2>1, <2>2 DEF HoldsReading, Steady, Recording
  <2>4. UNCHANGED <<hook, streak, blamed, miscounted>>
    BY <1>5 DEF Check, History
  <2> QED
    BY <2>2, <2>3, <2>4, ReadingsKept
<1>6. ASSUME NEW r \in Replica, Crash(r) PROVE Readings'
  <2>1. \A q \in Runner : run'[q] = run[q] \/ run'[q] = Idle
    BY <1>6 DEF Crash
  <2>2. ~ HoldsReading(Idle)
    BY DEF HoldsReading, Idle
  <2>3. UNCHANGED <<hook, streak, blamed, miscounted>>
    BY <1>6 DEF Crash
  <2> QED
    BY <2>1, <2>2, <2>3, ReadingsKept
<1>7. ASSUME Switch PROVE Readings'
  BY <1>1, <1>7, ReadingsKept DEF Switch, HookType, Hooks
<1>8. ASSUME UNCHANGED vars PROVE Readings'
  BY <1>8, ReadingsKept DEF vars
<1> QED
  BY <1>2, <1>3, <1>4, <1>5, <1>6, <1>7, <1>8

LEMMA ReadingsNext ==
  ASSUME TriesInv, Readings, [Next]_vars
  PROVE  Readings'
<1>1. ASSUME NEW p \in Runner, Advances(p) \/ StatementFails(p) PROVE Readings'
  BY <1>1, ReadReadings, SendReadings, WriteReadings, StatementFailsReadings DEF Advances
<1> QED
  BY <1>1, OtherReadings DEF Next

LEMMA ReadingsAlways == Spec => [](TriesInv /\ Readings)
<1>1. Init => Readings
  <2> SUFFICES ASSUME Init PROVE Readings
    OBVIOUS
  <2>1. hook.failures = 0 /\ streak = 0 /\ blamed = 0
    BY DEF Init
  <2>2. \A p \in Runner : ~ HoldsReading(run[p])
    BY DEF Init, HoldsReading, Idle
  <2> QED
    BY <2>1, <2>2 DEF Readings, Within, NoMore, OneReading
<1>2. TriesInv /\ Readings /\ [Next]_vars => Readings'
  BY ReadingsNext
<1> QED
  BY <1>1, <1>2, TriesInvAlways, PTL DEF Spec

LEMMA DisablingHasCause ==
  ASSUME TriesInv, Readings, [Next]_vars, hook.active, ~ hook'.active, edits' = edits
  PROVE  IF miscounted' THEN blamed' >= MaxFailures ELSE streak' >= MaxFailures
<1> DEFINE Cause == IF miscounted' THEN blamed' >= MaxFailures ELSE streak' >= MaxFailures
<1>1. ASSUME NEW p \in Runner, Write(p) \/ StatementFails(p),
             hook' = HookAfter(p), streak' = StreakAfter(p), blamed' = BlamedAfter(p)
      PROVE  Cause
  <2>1. HookType /\ streak \in Nat /\ blamed \in Nat
    BY CountTypes
  <2>2. run[p].pc = "blame"
    BY <1>1, <2>1 DEF HookAfter, CreditedHook, HookType, Hooks
  <2>3. miscounted => miscounted'
    BY <1>1 DEF Write, StatementFails
  <2>4. /\ TooMany(run[p].seen + 1)
        /\ streak' = IF run[p].told THEN streak ELSE UpTo(MaxFailures, streak + 1)
        /\ blamed' = IF run[p].told THEN blamed ELSE UpTo(MaxFailures, blamed + 1)
    BY <1>1, <2>2, Blames
  <2>5. run[p] \in Attempts /\ HoldsReading(run[p])
    BY <2>2, AttemptNow DEF HoldsReading
  <2>6. blamed' >= MaxFailures
    BY <2>1, <2>4, <2>5, BlameCounts DEF Readings, Within
  <2>7. ~ miscounted => streak' >= MaxFailures
    BY <2>1, <2>4, <2>5, BlameCounts DEF Readings, Within
  <2> QED
    BY <2>3, <2>6, <2>7
<1>2. UNCHANGED hook => FALSE
  OBVIOUS
<1>3. ASSUME NEW p \in Runner, Advances(p) \/ StatementFails(p) PROVE Cause
  <2>1. CASE Read(p) \/ Send(p)
    BY <1>2, <2>1 DEF Read, Send
  <2>2. CASE Write(p)
    BY <1>1, <2>2 DEF Write
  <2>3. CASE StatementFails(p)
    <3>1. PICK done \in BOOLEAN : /\ hook' = IF done THEN HookAfter(p) ELSE hook
                                  /\ streak' = IF done THEN StreakAfter(p) ELSE streak
                                  /\ blamed' = IF done THEN BlamedAfter(p) ELSE blamed
      BY <2>3 DEF StatementFails
    <3>2. done = TRUE
      BY <1>2, <3>1
    <3> QED
      BY <1>1, <2>3, <3>1, <3>2
  <2> QED
    BY <1>3, <2>1, <2>2, <2>3 DEF Advances
<1>4. ~ Switch
  <2>1. setup.edits \in Nat /\ edits \in 0 .. setup.edits
    BY TypeParts, SetupInside DEF TriesInv, RestType
  <2>2. edits + 1 # edits
    BY <2>1
  <2>3. Switch => edits' = edits + 1
    BY DEF Switch
  <2> QED
    BY <2>2, <2>3
<1>5. ~ \E d \in Delivery : Elapse(d) \/ DeliverFails(d) \/ \E r \in Replica : Deliver(d, r)
  BY <1>2 DEF Elapse, DeliverFails, Deliver
<1>6. ~ \E r \in Replica : Claim(r) \/ Check(r) \/ Crash(r)
  BY <1>2 DEF Claim, Check, Crash
<1>7. ~ UNCHANGED vars
  BY <1>2 DEF vars
<1> QED
  BY <1>3, <1>4, <1>5, <1>6, <1>7 DEF Next

(* The service itself disables a webhook only after MaxFailures attempts   *)
(* failed, however their records overlap; and only after as many that no   *)
(* recorded success interrupts, unless some failure count was written from *)
(* an outdated reading.                                                    *)
THEOREM DisabledForCauseAlways == Spec => DisabledForCause
<1>1. TriesInv /\ Readings /\ [Next]_vars
        => [hook.active /\ ~ hook'.active /\ edits' = edits
              => IF miscounted' THEN blamed' >= MaxFailures ELSE streak' >= MaxFailures]_vars
  BY DisablingHasCause
<1> QED
  BY <1>1, ReadingsAlways, PTL DEF Spec, DisabledForCause
=============================================================================
