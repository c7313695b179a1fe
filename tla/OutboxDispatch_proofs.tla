----------------------- MODULE OutboxDispatch_proofs -----------------------
(***************************************************************************)
(* Proofs about OutboxDispatch, for any number of workers, events, keys,   *)
(* attempts and faults, any clock skew and any delay of the statements.    *)
(***************************************************************************)
EXTENDS OutboxDispatch, TLAPS

USE DEF Status, Terminal, Errors

-----------------------------------------------------------------------------
(* The records the statements write are well typed.                        *)

LEMMA RetryDelayType ==
  ASSUME NEW n \in Nat \ {0}
  PROVE  RetryDelay(n) \in Int
<1>1. n - 1 \in Nat
  OBVIOUS
<1>2. \A m \in Nat : 2 ^ m \in Int
  OBVIOUS
<1>3. RetryBase * 2 ^ (n - 1) \in Int
  BY <1>1, <1>2, DispatchAssumption
<1> QED
  BY <1>3, DispatchAssumption DEF RetryDelay

LEMMA ClaimedRowType ==
  ASSUME TypeOK, NEW w \in Workers, NEW r \in Rows
  PROVE  /\ ClaimedRow(w, r) \in RowType
         /\ ClaimedRow(w, r).status = "in_progress" <=> ClaimedRow(w, r).lease # NULL
         /\ ClaimedRow(w, r).fence \in Nat
         /\ ~Exhausted(r) => ClaimedRow(w, r).attempts \in Nat \ {0}
<1> DEFINE old == row[r]
<1>1. old \in RowType /\ asOf[w] + LeaseTime \in Int \ {NULL}
  BY DispatchAssumption DEF TypeOK
<1>a. old.fence + 1 \in Nat /\ old.attempts + 1 \in Nat \ {0}
  BY <1>1 DEF RowType
<1>2. CASE Exhausted(r)
  BY <1>1, <1>a, <1>2 DEF RowType, ClaimedRow
<1>3. CASE ~Exhausted(r)
  BY <1>1, <1>a, <1>3 DEF RowType, ClaimedRow
<1> QED
  BY <1>2, <1>3

LEMMA RenewedRowType ==
  ASSUME TypeOK, NEW w \in Workers, beat[w] # NULL
  PROVE  /\ beat[w].row \in Rows
         /\ RenewedRow(beat[w]) \in RowType
         /\ RenewedRow(beat[w]).status = "in_progress" <=> RenewedRow(beat[w]).lease # NULL
<1> DEFINE b == beat[w]
           old == row[b.row]
<1>1. b \in [row : Rows, fence : Nat, asOf : Int]
  BY DEF TypeOK
<1>2. b.row \in Rows /\ b.asOf + LeaseTime \in Int \ {NULL}
  BY <1>1, DispatchAssumption
<1>3. old \in RowType /\ (old.status = "in_progress" <=> old.lease # NULL)
  BY <1>2 DEF TypeOK
<1>4. CASE HoldsToken(b.row, b.fence)
  <2>1. RenewedRow(b) = [old EXCEPT !.lease = b.asOf + LeaseTime]
    BY <1>4 DEF RenewedRow
  <2>2. old.status = "in_progress"
    BY <1>4 DEF HoldsToken
  <2> QED
    BY <1>2, <1>3, <2>1, <2>2 DEF RowType
<1>5. CASE ~HoldsToken(b.row, b.fence)
  BY <1>2, <1>3, <1>5 DEF RenewedRow
<1> QED
  BY <1>4, <1>5

LEMMA ResolvedRowType ==
  ASSUME TypeOK, NEW w \in Workers, pc[w] = "resolve"
  PROVE  /\ job[w] \in JobType
         /\ ResolvedRow(w) \in RowType
         /\ ResolvedRow(w).status = "in_progress" <=> ResolvedRow(w).lease # NULL
<1> DEFINE old == row[job[w].row]
           delay == RetryDelay(job[w].attempts)
<1>1. job[w] \in JobType
  BY DEF TypeOK
<1>2. delay \in Int
  BY <1>1, RetryDelayType DEF JobType
<1>3. asOf[w] + delay \in Int \ {NULL}
  BY <1>2, DispatchAssumption DEF TypeOK
<1>4. old \in RowType /\ (old.status = "in_progress" <=> old.lease # NULL)
  BY <1>1 DEF TypeOK, JobType
<1>5. \/ ResolvedRow(w) = old
      \/ ResolvedRow(w) = [old EXCEPT !.status = "done", !.lease = NULL, !.error = "none"]
      \/ ResolvedRow(w) = [old EXCEPT !.status = "dead_letter", !.lease = NULL, !.error = "permanent_rejection"]
      \/ /\ old.status = "in_progress"
         /\ ResolvedRow(w) = [old EXCEPT !.fence = @ + 1, !.lease = asOf[w] + delay, !.error = "retryable"]
  BY DEF ResolvedRow, CompletedRow, PoisonedRow, RescheduledRow, HoldsToken
<1>6. old.fence + 1 \in Nat
  BY <1>4 DEF RowType
<1> HIDE DEF old, delay
<1> QED
  BY <1>1, <1>3, <1>4, <1>5, <1>6 DEF RowType

-----------------------------------------------------------------------------
(* Type correctness                                                        *)

(* What the end of a slot does to the loop, whichever way it goes.         *)
LEMMA EndTickType ==
  ASSUME TypeOK, NEW w \in Workers, EndTick(w)
  PROVE  /\ pc' = [pc EXCEPT ![w] = "idle"]
         /\ asOf' \in [Workers -> Int]
         /\ slot' \in [Workers -> Nat]
         /\ taken' \in [Workers -> SUBSET Rows]
         /\ runs' \in [Workers -> [Rows -> Nat]]
<1>1. Skew[w] \in Int
  BY DispatchAssumption
<1>2. [r \in Rows |-> 0] \in [Rows -> Nat]
  OBVIOUS
<1> QED
  BY <1>1, <1>2 DEF TypeOK, EndTick

LEMMA NextSlotType ==
  ASSUME TypeOK, NEW w \in Workers, NextSlot(w)
  PROVE  /\ pc' = [pc EXCEPT ![w] = "idle"] \/ pc' = [pc EXCEPT ![w] = "claim"]
         /\ asOf' \in [Workers -> Int]
         /\ slot' \in [Workers -> Nat]
         /\ taken' \in [Workers -> SUBSET Rows]
         /\ runs' \in [Workers -> [Rows -> Nat]]
<1>1. CASE EndTick(w)
  BY <1>1, EndTickType
<1>2. CASE ~EndTick(w)
  <2>1. Skew[w] \in Int
    BY DispatchAssumption
  <2>2. /\ pc' = [pc EXCEPT ![w] = "claim"]
        /\ asOf' = [asOf EXCEPT ![w] = Skew[w]]
        /\ slot' = [slot EXCEPT ![w] = @ + 1]
        /\ taken' = taken /\ runs' = runs
    BY <1>2 DEF NextSlot
  <2>3. slot' \in [Workers -> Nat]
    BY <2>2 DEF TypeOK
  <2> QED
    BY <2>1, <2>2, <2>3 DEF TypeOK
<1> QED
  BY <1>1, <1>2

LEMMA FaultType ==
  ASSUME TypeOK, Fault
  PROVE  faults' \in Nat
  BY DEF TypeOK, Fault

(* A worker that has given up its row is not processing one.               *)
LEMMA FreeLoopType ==
  ASSUME TypeOK, NEW w \in Workers, NEW p \in {"idle", "claim", "down"},
         pc' = [pc EXCEPT ![w] = p],
         job' = [job EXCEPT ![w] = NULL] \/ (job' = job /\ pc[w] \in {"idle", "claim"})
  PROVE  /\ pc' \in [Workers -> {"idle", "claim", "run", "resolve", "down"}]
         /\ job' \in [Workers -> JobType \cup {NULL}]
         /\ \A v \in Workers : pc'[v] \in {"run", "resolve"} <=> job'[v] # NULL
<1>1. pc' \in [Workers -> {"idle", "claim", "run", "resolve", "down"}]
  BY DEF TypeOK
<1>2. job' \in [Workers -> JobType \cup {NULL}]
  BY DEF TypeOK
<1>3. job'[w] = NULL /\ pc'[w] \notin {"run", "resolve"}
  BY DEF TypeOK
<1>4. \A v \in Workers \ {w} : pc'[v] = pc[v] /\ job'[v] = job[v]
  BY DEF TypeOK
<1> QED
  BY <1>1, <1>2, <1>3, <1>4 DEF TypeOK

(* A step that replaces one row by a well-typed one keeps the table typed. *)
LEMMA TableType ==
  ASSUME TypeOK, NEW r \in Rows, NEW new,
         row' = [row EXCEPT ![r] = new],
         new \in RowType,
         new.status = "in_progress" <=> new.lease # NULL
  PROVE  /\ row' \in [Rows -> RowType]
         /\ \A q \in Rows : row'[q].status = "in_progress" <=> row'[q].lease # NULL
  BY DEF TypeOK

LEMMA InitType == Init => TypeOK
<1>1. NoRow \in RowType /\ NoRow.status # "in_progress" /\ NoRow.lease = NULL
  BY DEF NoRow, RowType
<1> QED
  BY <1>1, DispatchAssumption DEF Init, TypeOK

LEMMA NextType == TypeOK /\ [Next]_vars => TypeOK'
<1> SUFFICES ASSUME TypeOK, [Next]_vars
             PROVE  TypeOK'
  OBVIOUS
<1>1. ASSUME NEW e \in Events, Enqueue(e)
      PROVE  TypeOK'
  <2>1. Pending \in RowType /\ Pending.status # "in_progress" /\ Pending.lease = NULL
    BY DEF Pending, NoRow, RowType
  <2> QED
    BY <1>1, <2>1 DEF TypeOK, Enqueue, loop, history
<1>2. ASSUME NEW w \in Workers, BeginTick(w)
      PROVE  TypeOK'
  <2>1. UnknownKeys(w) \subseteq Keys
    BY DEF UnknownKeys, Rows
  <2>2. faults' \in Nat
    BY <1>2, FaultType DEF TypeOK, BeginTick
  <2>3. alerted' \in [Workers -> SUBSET Keys]
    BY <1>2, <2>1 DEF TypeOK, BeginTick
  <2> QED
    BY <1>2, <2>2, <2>3 DEF TypeOK, BeginTick, history
<1>3. ASSUME NEW w \in Workers, NEW r \in Rows, ClaimDispatch(w, r)
      PROVE  TypeOK'
  <2> DEFINE new == ClaimedRow(w, r)
  <2>1. /\ new \in RowType
        /\ new.status = "in_progress" <=> new.lease # NULL
        /\ new.fence \in Nat
        /\ new.attempts \in Nat \ {0}
    BY <1>3, ClaimedRowType DEF ClaimDispatch
  <2>2. /\ row' \in [Rows -> RowType]
        /\ \A q \in Rows : row'[q].status = "in_progress" <=> row'[q].lease # NULL
    BY <1>3, <2>1, TableType DEF ClaimDispatch, ClaimRow
  <2>3. [row |-> r, fence |-> new.fence, attempts |-> new.attempts] \in JobType
    BY <2>1 DEF JobType
  <2>4. NULL \notin JobType
    BY DispatchAssumption DEF JobType, Rows
  <2>5. /\ job' \in [Workers -> JobType \cup {NULL}]
        /\ \A v \in Workers : pc'[v] \in {"run", "resolve"} <=> job'[v] # NULL
    BY <1>3, <2>3, <2>4 DEF TypeOK, ClaimDispatch
  <2>6. asOf' \in [Workers -> Int]
    <3>1. Skew[w] \in Int
      BY DispatchAssumption
    <3> QED
      BY <1>3, <3>1 DEF TypeOK, ClaimDispatch
  <2>8. runs' \in [Workers -> [Rows -> Nat]] /\ began' \in [Rows -> Nat]
    <3>1. runs[w] \in [Rows -> Nat]
      BY DEF TypeOK
    <3>2. [runs[w] EXCEPT ![r] = @ + 1] \in [Rows -> Nat]
      BY <3>1
    <3> QED
      BY <1>3, <3>2 DEF TypeOK, ClaimDispatch
  <2>7. taken' \in [Workers -> SUBSET Rows] /\ parked' \subseteq Rows
    BY <1>3 DEF TypeOK, ClaimDispatch, ClaimRow, Remember
  <2> QED
    BY <1>3, <2>2, <2>5, <2>6, <2>7, <2>8 DEF TypeOK, ClaimDispatch
<1>4. ASSUME NEW w \in Workers, NEW r \in Rows, ClaimPoison(w, r)
      PROVE  TypeOK'
  <2>1. /\ row' \in [Rows -> RowType]
        /\ \A q \in Rows : row'[q].status = "in_progress" <=> row'[q].lease # NULL
    BY <1>4, ClaimedRowType, TableType DEF ClaimPoison, ClaimRow
  <2>2. pc[w] = "claim" /\ parked' \subseteq Rows
    BY <1>4 DEF ClaimPoison, ClaimRow, Claimable, TypeOK
  <2> QED
    BY <1>4, <2>1, <2>2, NextSlotType, FreeLoopType DEF TypeOK, ClaimPoison
<1>5. ASSUME NEW w \in Workers, ClaimNothing(w)
      PROVE  TypeOK'
  BY <1>5, EndTickType, FreeLoopType DEF TypeOK, ClaimNothing
<1>6. ASSUME NEW w \in Workers, ClaimError(w)
      PROVE  TypeOK'
  BY <1>6, EndTickType, FreeLoopType, FaultType DEF TypeOK, ClaimError
<1>7. ASSUME NEW w \in Workers, NEW r \in Rows, ClaimReplyLost(w, r)
      PROVE  TypeOK'
  <2>1. /\ row' \in [Rows -> RowType]
        /\ \A q \in Rows : row'[q].status = "in_progress" <=> row'[q].lease # NULL
    BY <1>7, ClaimedRowType, TableType DEF ClaimReplyLost, ClaimRow
  <2>2. pc[w] = "claim" /\ parked' \subseteq Rows
    BY <1>7 DEF ClaimReplyLost, ClaimRow, Claimable, TypeOK
  <2>3. burned' \in [Rows -> Nat]
    BY <1>7 DEF TypeOK, ClaimReplyLost
  <2> QED
    BY <1>7, <2>1, <2>2, <2>3, EndTickType, FreeLoopType, FaultType DEF TypeOK, ClaimReplyLost
<1>8. ASSUME NEW w \in Workers, Beat(w)
      PROVE  TypeOK'
  <2>1. job[w] \in JobType
    BY <1>8 DEF TypeOK, Beat
  <2>2. [row |-> job[w].row, fence |-> job[w].fence, asOf |-> Skew[w]] \in [row : Rows, fence : Nat, asOf : Int]
    BY <2>1, DispatchAssumption DEF JobType
  <2> QED
    BY <1>8, <2>2 DEF TypeOK, Beat, loop, history
<1>9. ASSUME NEW w \in Workers, BeatLands(w)
      PROVE  TypeOK'
  <2>1. /\ row' \in [Rows -> RowType]
        /\ \A q \in Rows : row'[q].status = "in_progress" <=> row'[q].lease # NULL
    BY <1>9, RenewedRowType, TableType DEF BeatLands
  <2> QED
    BY <1>9, <2>1 DEF TypeOK, BeatLands, history
<1>10. ASSUME NEW w \in Workers, NEW executed \in BOOLEAN, BeatFails(w, executed)
       PROVE  TypeOK'
  <2>1. /\ row' \in [Rows -> RowType]
        /\ \A q \in Rows : row'[q].status = "in_progress" <=> row'[q].lease # NULL
    <3>1. CASE executed
      BY <1>10, <3>1, RenewedRowType, TableType DEF BeatFails
    <3>2. CASE ~executed
      BY <1>10, <3>2 DEF BeatFails, TypeOK
    <3> QED
      BY <3>1, <3>2
  <2> QED
    BY <1>10, <2>1 DEF TypeOK, BeatFails, Fault, history
<1>11. ASSUME NEW w \in Workers, NEW raw \in Raw, SettleAborted(w, raw)
       PROVE  TypeOK'
  <2>1. job[w] \in JobType
    BY <1>11 DEF TypeOK, SettleAborted, Settled
  <2>2. accepted' \in [Rows -> SUBSET Nat] /\ rejected' \in [Rows -> SUBSET Nat]
    BY <1>11, <2>1 DEF TypeOK, SettleAborted, Settled, JobType
  <2> QED
    BY <1>11, <2>2, NextSlotType, FreeLoopType DEF TypeOK, SettleAborted
<1>12. ASSUME NEW w \in Workers, NEW raw \in Raw, Settle(w, raw)
       PROVE  TypeOK'
  <2>1. job[w] \in JobType /\ pc[w] = "run"
    BY <1>12 DEF TypeOK, Settle, Settled
  <2>2. accepted' \in [Rows -> SUBSET Nat] /\ rejected' \in [Rows -> SUBSET Nat]
    BY <1>12, <2>1 DEF TypeOK, Settle, Settled, JobType
  <2>3. Normalize(raw) \in {"complete", "poison", "reschedule"}
    BY DEF Normalize
  <2> QED
    BY <1>12, <2>1, <2>2, <2>3, DispatchAssumption DEF TypeOK, Settle
<1>13. ASSUME NEW w \in Workers, Resolve(w)
       PROVE  TypeOK'
  <2>1. /\ job[w] \in JobType
        /\ row' \in [Rows -> RowType]
        /\ \A q \in Rows : row'[q].status = "in_progress" <=> row'[q].lease # NULL
    BY <1>13, ResolvedRowType, TableType DEF Resolve, ResolveRow, JobType
  <2>2. parked' \subseteq Rows
    BY <1>13, <2>1 DEF TypeOK, Resolve, ResolveRow, JobType
  <2> QED
    BY <1>13, <2>1, <2>2, NextSlotType, FreeLoopType DEF TypeOK, Resolve
<1>14. ASSUME NEW w \in Workers, NEW executed \in BOOLEAN, ResolveError(w, executed)
       PROVE  TypeOK'
  <2>1. /\ row' \in [Rows -> RowType]
        /\ \A q \in Rows : row'[q].status = "in_progress" <=> row'[q].lease # NULL
        /\ parked' \subseteq Rows
    <3>1. CASE executed
      <4>1. job[w] \in JobType
        BY <1>14, ResolvedRowType DEF ResolveError
      <4>2. ResolveRow(w)
        BY <1>14, <3>1 DEF ResolveError
      <4> QED
        BY <1>14, <4>1, <4>2, ResolvedRowType, TableType DEF ResolveError, ResolveRow, JobType, TypeOK
    <3>2. CASE ~executed
      BY <1>14, <3>2 DEF ResolveError, TypeOK
    <3> QED
      BY <3>1, <3>2
  <2> QED
    BY <1>14, <2>1, EndTickType, FreeLoopType, FaultType DEF TypeOK, ResolveError
<1>15. ASSUME NEW w \in Workers, Crash(w)
       PROVE  TypeOK'
  <2>1. runs' \in [Workers -> [Rows -> Nat]] /\ asOf' \in [Workers -> Int]
    BY <1>15, DispatchAssumption DEF TypeOK, Crash
  <2> QED
    BY <1>15, <2>1, FreeLoopType, FaultType DEF TypeOK, Crash
<1>16. ASSUME NEW w \in Workers, Restart(w) \/ Stop(w) \/ Exit(w)
       PROVE  TypeOK'
  <2>1. CASE Restart(w)
    BY <2>1 DEF TypeOK, Restart, history
  <2>2. CASE Stop(w)
    BY <2>2 DEF TypeOK, Stop, Fault, loop, history
  <2>3. CASE Exit(w)
    BY <2>3, FreeLoopType DEF TypeOK, Exit, history
  <2> QED
    BY <1>16, <2>1, <2>2, <2>3
<1>17. ASSUME Tick
       PROVE  TypeOK'
  <2>1. \A r \in Rows : row[r] \in RowType /\ (row[r].status = "in_progress" => row[r].lease \in Int)
    BY DEF TypeOK, RowType
  <2>2. \A r \in Rows : row[r].status = "in_progress" =>
          [row[r] EXCEPT !.lease = Aged(@)] \in RowType /\ Aged(row[r].lease) # NULL
    BY <2>1, DispatchAssumption DEF Aged, RowType
  <2>3. /\ row' \in [Rows -> RowType]
        /\ \A q \in Rows : row'[q].status = "in_progress" <=> row'[q].lease # NULL
    BY <1>17, <2>1, <2>2 DEF Tick, TypeOK, RowType
  <2>4. asOf' \in [Workers -> Int]
    BY <1>17 DEF Tick, TypeOK
  <2>5. beat' \in [Workers -> [row : Rows, fence : Nat, asOf : Int] \cup {NULL}]
    <3>1. \A w \in Workers : beat[w] # NULL => [beat[w] EXCEPT !.asOf = @ - 1] \in [row : Rows, fence : Nat, asOf : Int]
      <4> SUFFICES ASSUME NEW b \in [row : Rows, fence : Nat, asOf : Int]
                   PROVE  [b EXCEPT !.asOf = @ - 1] \in [row : Rows, fence : Nat, asOf : Int]
        BY DEF TypeOK
      <4>1. b.asOf - 1 \in Int
        OBVIOUS
      <4> QED
        BY <4>1
    <3> QED
      BY <1>17, <3>1 DEF Tick, TypeOK
  <2> QED
    BY <1>17, <2>3, <2>4, <2>5 DEF TypeOK, Tick, history
<1>18. CASE UNCHANGED vars
  BY <1>18 DEF TypeOK, vars, loop, history
<1> QED
  BY <1>1, <1>2, <1>3, <1>4, <1>5, <1>6, <1>7, <1>8, <1>9, <1>10, <1>11, <1>12, <1>13, <1>14, <1>15,
     <1>16, <1>17, <1>18 DEF Next, LoopStep, FaultStep

(* The store, the loops and the history keep their shape: in particular a  *)
(* row has a lease exactly while it is in_progress.                        *)
THEOREM TypeCorrect == Spec => []TypeOK
  BY InitType, NextType, PTL DEF Spec

-----------------------------------------------------------------------------
(* What a step can do to one row, to one job and to the history            *)

(* The only ways a row changes: enqueued, claimed, its lease moved, or     *)
(* resolved by the worker that processes it.                               *)
RowStep(r) ==
  \/ row'[r] = row[r]
  \/ row[r].status = "absent" /\ row'[r] = Pending
  \/ \E w \in Workers : Claimable(w, r) /\ row'[r] = ClaimedRow(w, r)
  \/ row[r].status = "in_progress" /\ \E l \in Int : row'[r] = [row[r] EXCEPT !.lease = l]
  \/ \E w \in Workers : pc[w] = "resolve" /\ job[w].row = r /\ row'[r] = ResolvedRow(w)

LEMMA RenewStep ==
  ASSUME TypeOK, NEW w \in Workers, beat[w] # NULL, NEW r \in Rows,
         row' = [row EXCEPT ![beat[w].row] = RenewedRow(beat[w])]
  PROVE  RowStep(r)
<1> DEFINE b == beat[w]
<1>1. b.row \in Rows /\ b.asOf + LeaseTime \in Int
  BY DispatchAssumption DEF TypeOK
<1>2. CASE r = b.row /\ HoldsToken(b.row, b.fence)
  <2>1. row'[r] = [row[r] EXCEPT !.lease = b.asOf + LeaseTime]
    BY <1>1, <1>2 DEF TypeOK, RenewedRow
  <2>2. row[r].status = "in_progress"
    BY <1>2 DEF HoldsToken
  <2> QED
    BY <1>1, <2>1, <2>2 DEF RowStep
<1>3. CASE ~(r = b.row /\ HoldsToken(b.row, b.fence))
  <2>1. row'[r] = row[r]
    BY <1>1, <1>3 DEF TypeOK, RenewedRow
  <2> QED
    BY <2>1 DEF RowStep
<1> QED
  BY <1>2, <1>3

LEMMA ClaimStep ==
  ASSUME TypeOK, NEW w \in Workers, NEW q \in Rows, NEW r \in Rows, Claimable(w, q), ClaimRow(w, q)
  PROVE  RowStep(r)
<1>1. row'[r] = IF r = q THEN ClaimedRow(w, q) ELSE row[r]
  BY DEF TypeOK, ClaimRow
<1> QED
  BY <1>1 DEF RowStep

LEMMA ResolveStep ==
  ASSUME TypeOK, NEW w \in Workers, pc[w] = "resolve", ResolveRow(w), NEW r \in Rows
  PROVE  RowStep(r)
<1>1. job[w].row \in Rows
  BY DEF TypeOK, JobType
<1>2. row'[r] = IF r = job[w].row THEN ResolvedRow(w) ELSE row[r]
  BY <1>1 DEF TypeOK, ResolveRow
<1> QED
  BY <1>2 DEF RowStep

LEMMA RowEffects ==
  ASSUME TypeOK, [Next]_vars, NEW r \in Rows
  PROVE  RowStep(r)
<1>1. ASSUME NEW e \in Events, Enqueue(e)
      PROVE  RowStep(r)
  <2>1. CASE r[1] = e /\ r[2] \in Routes[e]
    <3>1. row'[r] = Pending
      BY <1>1, <2>1 DEF Enqueue
    <3>2. r = <<r[1], r[2]>> /\ r[2] \in Keys
      BY DEF Rows
    <3>3. row[r].status = "absent"
      BY <1>1, <2>1, <3>2 DEF Enqueue
    <3> QED
      BY <3>1, <3>3 DEF RowStep
  <2>2. CASE ~(r[1] = e /\ r[2] \in Routes[e])
    BY <1>1, <2>2 DEF Enqueue, RowStep
  <2> QED
    BY <2>1, <2>2
<1>2. ASSUME NEW w \in Workers, NEW q \in Rows,
             ClaimDispatch(w, q) \/ ClaimPoison(w, q) \/ ClaimReplyLost(w, q)
      PROVE  RowStep(r)
  BY <1>2, ClaimStep DEF ClaimDispatch, ClaimPoison, ClaimReplyLost
<1>3. ASSUME NEW w \in Workers, BeatLands(w)
      PROVE  RowStep(r)
  BY <1>3, RenewStep DEF BeatLands
<1>4. ASSUME NEW w \in Workers, NEW executed \in BOOLEAN, BeatFails(w, executed)
      PROVE  RowStep(r)
  <2>1. CASE executed
    BY <1>4, <2>1, RenewStep DEF BeatFails
  <2>2. CASE ~executed
    BY <1>4, <2>2 DEF BeatFails, RowStep
  <2> QED
    BY <2>1, <2>2
<1>5. ASSUME NEW w \in Workers, Resolve(w)
      PROVE  RowStep(r)
  BY <1>5, ResolveStep DEF Resolve
<1>6. ASSUME NEW w \in Workers, NEW executed \in BOOLEAN, ResolveError(w, executed)
      PROVE  RowStep(r)
  <2>1. CASE executed
    BY <1>6, <2>1, ResolveStep DEF ResolveError
  <2>2. CASE ~executed
    BY <1>6, <2>2 DEF ResolveError, RowStep
  <2> QED
    BY <2>1, <2>2
<1>7. ASSUME Tick
      PROVE  RowStep(r)
  <2>1. CASE row[r].status = "in_progress"
    <3>1. row[r].lease \in Int
      BY <2>1 DEF TypeOK, RowType
    <3>2. Aged(row[r].lease) \in Int
      BY <3>1 DEF Aged
    <3>3. row'[r] = [row[r] EXCEPT !.lease = Aged(row[r].lease)]
      BY <1>7, <2>1 DEF Tick
    <3> QED
      BY <2>1, <3>2, <3>3 DEF RowStep
  <2>2. CASE row[r].status # "in_progress"
    BY <1>7, <2>2 DEF Tick, RowStep
  <2> QED
    BY <2>1, <2>2
<1>8. ASSUME UNCHANGED row
      PROVE  RowStep(r)
  BY <1>8 DEF RowStep
<1>9. ASSUME NEW w \in Workers,
             \/ BeginTick(w) \/ ClaimNothing(w) \/ ClaimError(w) \/ Beat(w) \/ Crash(w) \/ Restart(w)
             \/ Stop(w) \/ Exit(w)
             \/ \E raw \in Raw : SettleAborted(w, raw) \/ Settle(w, raw)
      PROVE  UNCHANGED row
  BY <1>9 DEF BeginTick, ClaimNothing, ClaimError, Beat, Crash, Restart, Stop, Exit, SettleAborted, Settle
<1>10. CASE UNCHANGED vars
  BY <1>8, <1>10 DEF vars
<1> QED
  BY <1>1, <1>2, <1>3, <1>4, <1>5, <1>6, <1>7, <1>8, <1>9, <1>10 DEF Next, LoopStep, FaultStep

(* A job is kept, dropped, or taken with a claim.                          *)
JobStep(w) == job'[w] \in {job[w], NULL} \/ \E r \in Rows : ClaimDispatch(w, r)

LEMMA JobEffects ==
  ASSUME TypeOK, [Next]_vars, NEW w \in Workers
  PROVE  JobStep(w)
<1>1. ASSUME NEW v \in Workers, NEW r \in Rows, ClaimDispatch(v, r)
      PROVE  JobStep(w)
  BY <1>1 DEF TypeOK, ClaimDispatch, JobStep
<1>2. ASSUME NEW v \in Workers, job' = [job EXCEPT ![v] = NULL]
      PROVE  JobStep(w)
  BY <1>2 DEF TypeOK, JobStep
<1>3. ASSUME UNCHANGED job
      PROVE  JobStep(w)
  BY <1>3 DEF JobStep
<1>4. ASSUME NEW v \in Workers, NEW executed \in BOOLEAN,
             \/ ResolveError(v, executed) \/ Resolve(v) \/ Crash(v)
             \/ \E raw \in Raw : SettleAborted(v, raw)
      PROVE  job' = [job EXCEPT ![v] = NULL]
  BY <1>4 DEF ResolveError, Resolve, Crash, SettleAborted
<1>5. ASSUME NEW v \in Workers, NEW executed \in BOOLEAN,
             \/ BeginTick(v) \/ ClaimNothing(v) \/ ClaimError(v) \/ Beat(v) \/ BeatLands(v)
             \/ BeatFails(v, executed) \/ Restart(v) \/ Stop(v) \/ Exit(v)
             \/ \E r \in Rows : ClaimPoison(v, r) \/ ClaimReplyLost(v, r)
             \/ \E raw \in Raw : Settle(v, raw)
      PROVE  UNCHANGED job
  BY <1>5 DEF BeginTick, ClaimNothing, ClaimError, Beat, BeatLands, BeatFails, Restart, Stop, Exit,
              ClaimPoison, ClaimReplyLost, Settle, loop
<1>6. ASSUME Tick \/ \E e \in Events : Enqueue(e)
      PROVE  UNCHANGED job
  BY <1>6 DEF Tick, Enqueue, loop
<1>7. CASE UNCHANGED vars
  BY <1>3, <1>7 DEF vars, loop
<1> QED
  BY <1>1, <1>2, <1>3, <1>4, <1>5, <1>6, <1>7 DEF Next, LoopStep, FaultStep

(* Whatever one step does to a row, its fence never goes back, and only a  *)
(* claim hands out a token: a new one.                                     *)
LEMMA FenceGrows ==
  ASSUME TypeOK, NEW r \in Rows, RowStep(r), row[r].status = "absent" => row[r] = NoRow
  PROVE  row'[r].fence \in Nat /\ row[r].fence <= row'[r].fence
<1>1. row[r] \in RowType
  BY DEF TypeOK
<1>2. row[r].fence \in Nat /\ row[r].fence + 1 \in Nat
  BY <1>1 DEF RowType
<1> DEFINE Kept == row'[r].fence \in {row[r].fence, row[r].fence + 1}
<1>3. ASSUME row'[r] = row[r]
      PROVE  Kept
  BY <1>3
<1>4. ASSUME row[r].status = "absent", row'[r] = Pending
      PROVE  Kept
  BY <1>4 DEF Pending, NoRow
<1>5. ASSUME NEW w \in Workers, row'[r] = ClaimedRow(w, r)
      PROVE  Kept
  BY <1>1, <1>5 DEF ClaimedRow, RowType
<1>6. ASSUME NEW l \in Int, row'[r] = [row[r] EXCEPT !.lease = l]
      PROVE  Kept
  BY <1>1, <1>6 DEF RowType
<1>7. ASSUME NEW w \in Workers, job[w].row = r, row'[r] = ResolvedRow(w)
      PROVE  Kept
  BY <1>1, <1>7 DEF ResolvedRow, CompletedRow, PoisonedRow, RescheduledRow, RowType
<1>8. Kept
  <2> HIDE DEF Kept
  <2> QED
    BY <1>3, <1>4, <1>5, <1>6, <1>7 DEF RowStep
<1> QED
  BY <1>2, <1>8

LEMMA ClaimTakesNewToken ==
  ASSUME TypeOK, NEW w \in Workers, NEW r \in Rows, ClaimDispatch(w, r)
  PROVE  /\ row'[r].fence = row[r].fence + 1
         /\ job'[w].row = r /\ job'[w].fence = row[r].fence + 1
         /\ \A v \in Workers \ {w} : job'[v] = job[v]
<1>1. row[r] \in RowType
  BY DEF TypeOK
<1>2. ClaimedRow(w, r).fence = row[r].fence + 1
  BY <1>1 DEF ClaimDispatch, ClaimedRow, RowType
<1> QED
  BY <1>2 DEF TypeOK, ClaimDispatch, ClaimRow

(* Before it is enqueued a row is the empty one.                           *)
Unborn == \A r \in Rows : row[r].status = "absent" => row[r] = NoRow

LEMMA UnbornNext ==
  ASSUME TypeOK, Unborn, [Next]_vars
  PROVE  Unborn'
<1> SUFFICES ASSUME NEW r \in Rows, row'[r].status = "absent"
             PROVE  row'[r] = NoRow
  BY DEF Unborn
<1>1. row[r] \in RowType /\ RowStep(r)
  BY RowEffects DEF TypeOK
<1>2. CASE row'[r] = row[r]
  BY <1>2 DEF Unborn
<1>3. CASE row'[r] = Pending
  BY <1>3 DEF Pending, NoRow
<1>4. ASSUME NEW w \in Workers, row'[r] = ClaimedRow(w, r)
      PROVE  FALSE
  BY <1>1, <1>4 DEF ClaimedRow, RowType
<1>5. ASSUME row[r].status = "in_progress", NEW l \in Int, row'[r] = [row[r] EXCEPT !.lease = l]
      PROVE  FALSE
  BY <1>1, <1>5 DEF RowType
<1>6. ASSUME NEW w \in Workers, job[w].row = r, row'[r] = ResolvedRow(w)
      PROVE  row'[r] = row[r]
  BY <1>1, <1>6 DEF ResolvedRow, CompletedRow, PoisonedRow, RescheduledRow, HoldsLease, HoldsToken, RowType
<1> QED
  BY <1>1, <1>2, <1>3, <1>4, <1>5, <1>6 DEF RowStep, Unborn

-----------------------------------------------------------------------------
(* Ownership                                                               *)

LEMMA SingleOwnerNext ==
  ASSUME TypeOK, Unborn, SingleOwner, [Next]_vars
  PROVE  SingleOwner'
<1>1. \A r \in Rows : row[r].fence \in Nat /\ row'[r].fence \in Nat /\ row[r].fence <= row'[r].fence
  BY RowEffects, FenceGrows DEF Unborn, TypeOK, RowType
<1>2. \A w \in Workers : job[w] # NULL =>
        job[w].row \in Rows /\ job[w].fence \in Nat /\ job[w].fence <= row[job[w].row].fence
  BY DEF TypeOK, JobType, SingleOwner
<1>3. ASSUME NEW w \in Workers, job'[w] # NULL
      PROVE  job'[w].fence <= row'[job'[w].row].fence
  <2>1. CASE job'[w] = job[w]
    BY <1>1, <1>2, <1>3, <2>1
  <2>2. ASSUME NEW r \in Rows, ClaimDispatch(w, r)
        PROVE  job'[w].fence <= row'[job'[w].row].fence
    BY <1>1, <2>2, ClaimTakesNewToken
  <2> QED
    BY <1>3, <2>1, <2>2, JobEffects DEF JobStep
<1>4. ASSUME NEW v \in Workers, NEW w \in Workers \ {v}, NEW r \in Rows, ClaimDispatch(v, r),
             job'[w] # NULL, job'[w].row = r
      PROVE  job'[v].fence # job'[w].fence
  <2>1. job'[v].fence = row[r].fence + 1 /\ job'[w] = job[w]
    BY <1>4, ClaimTakesNewToken
  <2> QED
    BY <1>1, <1>2, <1>4, <2>1
<1>5. ASSUME NEW v \in Workers, NEW w \in Workers, v # w, job'[v] # NULL, job'[w] # NULL,
             job'[v].row = job'[w].row
      PROVE  job'[v].fence # job'[w].fence
  <2>1. CASE job'[v] = job[v] /\ job'[w] = job[w]
    BY <1>5, <2>1 DEF SingleOwner
  <2>2. ASSUME NEW r \in Rows, ClaimDispatch(v, r)
        PROVE  job'[v].fence # job'[w].fence
    BY <1>4, <1>5, <2>2, ClaimTakesNewToken
  <2>3. ASSUME NEW r \in Rows, ClaimDispatch(w, r)
        PROVE  job'[v].fence # job'[w].fence
    BY <1>4, <1>5, <2>3, ClaimTakesNewToken
  <2> QED
    BY <1>5, <2>1, <2>2, <2>3, JobEffects DEF JobStep
<1> QED
  BY <1>3, <1>5 DEF SingleOwner

-----------------------------------------------------------------------------
(* A verdict about to be written was given under the token that writes it  *)

VerdictSound ==
  \A w \in Workers : pc[w] = "resolve" =>
    /\ verdict[w] = "complete" => job[w].fence \in accepted[job[w].row]
    /\ verdict[w] = "poison" => job[w].fence \in rejected[job[w].row]

LEMMA HistoryGrows ==
  ASSUME TypeOK, [Next]_vars, NEW r \in Rows
  PROVE  accepted[r] \subseteq accepted'[r] /\ rejected[r] \subseteq rejected'[r]
<1>1. ASSUME NEW w \in Workers, NEW raw \in Raw, Settled(w, raw)
      PROVE  accepted[r] \subseteq accepted'[r] /\ rejected[r] \subseteq rejected'[r]
  <2>1. job[w].row \in Rows
    BY <1>1 DEF TypeOK, Settled, JobType
  <2> QED
    BY <1>1, <2>1 DEF TypeOK, Settled
<1>2. ASSUME NEW w \in Workers, LoopStep(w), ~\E raw \in Raw : Settled(w, raw)
      PROVE  UNCHANGED <<accepted, rejected>>
  BY <1>2 DEF LoopStep, BeginTick, ClaimNothing, ClaimDispatch, ClaimPoison, SettleAborted, Settle, Resolve, history
<1>3. ASSUME NEW w \in Workers, Beat(w) \/ BeatLands(w) \/ FaultStep(w) \/ Restart(w) \/ Exit(w)
      PROVE  UNCHANGED <<accepted, rejected>>
  BY <1>3 DEF Beat, BeatLands, FaultStep, ClaimError, Crash, Stop, ClaimReplyLost, BeatFails, ResolveError,
              Restart, Exit, history
<1>4. ASSUME Tick \/ (\E e \in Events : Enqueue(e)) \/ UNCHANGED vars
      PROVE  UNCHANGED <<accepted, rejected>>
  BY <1>4 DEF Tick, Enqueue, vars, history
<1> QED
  BY <1>1, <1>2, <1>3, <1>4 DEF Next

(* A worker reaches its resolve statement only by settling the adapter.    *)
LEMMA ResolveEntered ==
  ASSUME TypeOK, [Next]_vars, NEW w \in Workers, pc'[w] = "resolve"
  PROVE  \/ pc[w] = "resolve" /\ job'[w] = job[w] /\ verdict'[w] = verdict[w]
         \/ \E raw \in Raw : Settle(w, raw)
<1> DEFINE Kept == pc[w] = "resolve" /\ job'[w] = job[w] /\ verdict'[w] = verdict[w]
<1>1. ASSUME NEW v \in Workers, NEW p \in {"idle", "claim", "run", "down"}, pc' = [pc EXCEPT ![v] = p],
             \E j : job' = [job EXCEPT ![v] = j],
             \E x : verdict' = [verdict EXCEPT ![v] = x]
      PROVE  Kept
  BY <1>1 DEF TypeOK
<1>2. ASSUME UNCHANGED <<pc, job, verdict>>
      PROVE  Kept
  BY <1>2
<1>3. \A v \in Workers : /\ job = [job EXCEPT ![v] = job[v]]
                         /\ verdict = [verdict EXCEPT ![v] = verdict[v]]
  BY DEF TypeOK
<1> HIDE DEF Kept
<1>4. ASSUME NEW v \in Workers, NextSlot(v) \/ EndTick(v)
      PROVE  \E p \in {"idle", "claim", "run", "down"} : pc' = [pc EXCEPT ![v] = p]
  BY <1>4 DEF NextSlot, EndTick
<1>5. ASSUME NEW v \in Workers, BeginTick(v) \/ Restart(v) \/ Exit(v)
      PROVE  Kept
  BY <1>1, <1>3, <1>5 DEF BeginTick, Restart, Exit
<1>6. ASSUME NEW v \in Workers, NEW r \in Rows, ClaimDispatch(v, r)
      PROVE  Kept
  BY <1>1, <1>3, <1>6 DEF ClaimDispatch
<1>7. ASSUME NEW v \in Workers,
             \/ ClaimNothing(v) \/ ClaimError(v)
             \/ \E r \in Rows : ClaimPoison(v, r) \/ ClaimReplyLost(v, r)
      PROVE  Kept
  <2>1. UNCHANGED <<job, verdict>> /\ (NextSlot(v) \/ EndTick(v))
    BY <1>7 DEF ClaimPoison, ClaimReplyLost, ClaimNothing, ClaimError
  <2> QED
    BY <1>1, <1>3, <1>4, <2>1
<1>8. ASSUME NEW v \in Workers,
             \/ Resolve(v)
             \/ \E raw \in Raw : SettleAborted(v, raw)
             \/ \E executed \in BOOLEAN : ResolveError(v, executed)
      PROVE  Kept
  <2>1. (NextSlot(v) \/ EndTick(v)) /\ job' = [job EXCEPT ![v] = NULL]
    BY <1>8 DEF SettleAborted, Resolve, ResolveError
  <2>2. \E x : verdict' = [verdict EXCEPT ![v] = x]
    BY <1>3, <1>8 DEF SettleAborted, Resolve, ResolveError
  <2> QED
    BY <1>1, <1>4, <2>1, <2>2
<1>9. ASSUME NEW v \in Workers, Crash(v)
      PROVE  Kept
  BY <1>1, <1>9 DEF Crash
<1>10. ASSUME NEW v \in Workers,
              Beat(v) \/ BeatLands(v) \/ Stop(v) \/ \E executed \in BOOLEAN : BeatFails(v, executed)
       PROVE  Kept
  BY <1>2, <1>10 DEF Beat, BeatLands, BeatFails, Stop, loop
<1>11. ASSUME NEW v \in Workers \ {w}, NEW raw \in Raw, Settle(v, raw)
       PROVE  Kept
  BY <1>11 DEF TypeOK, Settle, Kept
<1>12. ASSUME Tick \/ (\E e \in Events : Enqueue(e)) \/ UNCHANGED vars
       PROVE  Kept
  BY <1>2, <1>12 DEF Tick, Enqueue, vars, loop
<1>13. \/ Tick \/ (\E e \in Events : Enqueue(e)) \/ UNCHANGED vars
       \/ \E v \in Workers : LoopStep(v) \/ FaultStep(v) \/ Beat(v) \/ BeatLands(v) \/ Restart(v) \/ Exit(v)
  BY DEF Next
<1>14. ASSUME NEW v \in Workers, LoopStep(v)
       PROVE  Kept \/ \E raw \in Raw : Settle(w, raw)
  BY <1>5, <1>6, <1>7, <1>8, <1>11, <1>14 DEF LoopStep
<1>15. ASSUME NEW v \in Workers, FaultStep(v)
       PROVE  Kept
  BY <1>7, <1>8, <1>9, <1>10, <1>15 DEF FaultStep
<1> QED
  BY <1>5, <1>10, <1>12, <1>13, <1>14, <1>15 DEF Kept

LEMMA VerdictSoundNext ==
  ASSUME TypeOK, VerdictSound, [Next]_vars
  PROVE  VerdictSound'
<1> SUFFICES ASSUME NEW w \in Workers, pc'[w] = "resolve"
             PROVE  /\ verdict'[w] = "complete" => job'[w].fence \in accepted'[job'[w].row]
                    /\ verdict'[w] = "poison" => job'[w].fence \in rejected'[job'[w].row]
  BY DEF VerdictSound
<1>1. CASE pc[w] = "resolve" /\ job'[w] = job[w] /\ verdict'[w] = verdict[w]
  <2>1. job[w].row \in Rows
    BY <1>1 DEF TypeOK, JobType
  <2> QED
    BY <1>1, <2>1, HistoryGrows DEF VerdictSound
<1>2. ASSUME NEW raw \in Raw, Settle(w, raw)
      PROVE  /\ verdict'[w] = "complete" => job'[w].fence \in accepted'[job'[w].row]
             /\ verdict'[w] = "poison" => job'[w].fence \in rejected'[job'[w].row]
  <2>1. job[w].row \in Rows /\ job' = job
    BY <1>2 DEF TypeOK, Settle, Settled, JobType
  <2>2. verdict'[w] = Normalize(raw)
    BY <1>2 DEF TypeOK, Settle
  <2>3. CASE raw = "success"
    BY <1>2, <2>1, <2>2, <2>3 DEF TypeOK, Settle, Settled, Normalize
  <2>4. CASE raw = "permanent_rejection"
    BY <1>2, <2>1, <2>2, <2>4 DEF TypeOK, Settle, Settled, Normalize
  <2>5. CASE raw \notin {"success", "permanent_rejection"}
    BY <2>2, <2>5 DEF Normalize
  <2> QED
    BY <2>3, <2>4, <2>5
<1> QED
  BY <1>1, <1>2, ResolveEntered

-----------------------------------------------------------------------------
(* The outcome of a row                                                    *)

(* A resolve statement settles a row only for its holder and its verdict.  *)
LEMMA ResolveOutcome ==
  ASSUME TypeOK, VerdictSound, NEW w \in Workers, pc[w] = "resolve"
  PROVE  LET r == job[w].row
             new == ResolvedRow(w)
         IN  \/ new = row[r]
             \/ new.status = "done" /\ new.fence \in accepted[r]
             \/ new.status = "dead_letter" /\ new.error = "permanent_rejection" /\ new.fence \in rejected[r]
             \/ new.status = "in_progress"
<1> DEFINE r == job[w].row
           new == ResolvedRow(w)
<1>1. job[w] \in JobType /\ row[r] \in RowType
  BY DEF TypeOK, JobType
<1>2. CASE verdict[w] = "complete" /\ HoldsLease(w)
  <2>1. new = CompletedRow(w)
    BY <1>2 DEF ResolvedRow
  <2>2. new.status = "done" /\ new.fence = row[r].fence
    BY <1>1, <2>1 DEF CompletedRow, RowType
  <2> QED
    BY <1>2, <2>2 DEF VerdictSound, HoldsLease, HoldsToken
<1>3. CASE verdict[w] = "poison" /\ HoldsLease(w)
  <2>1. new = PoisonedRow(w)
    BY <1>3 DEF ResolvedRow
  <2>2. new.status = "dead_letter" /\ new.error = "permanent_rejection" /\ new.fence = row[r].fence
    BY <1>1, <2>1 DEF PoisonedRow, RowType
  <2> QED
    BY <1>3, <2>2 DEF VerdictSound, HoldsLease, HoldsToken
<1>4. CASE verdict[w] = "reschedule" /\ HoldsToken(r, job[w].fence)
  <2>1. new = RescheduledRow(w)
    BY <1>4 DEF ResolvedRow
  <2> QED
    BY <1>1, <1>4, <2>1 DEF RescheduledRow, HoldsToken, RowType
<1>5. CASE /\ ~(verdict[w] = "complete" /\ HoldsLease(w))
           /\ ~(verdict[w] = "poison" /\ HoldsLease(w))
           /\ ~(verdict[w] = "reschedule" /\ HoldsToken(r, job[w].fence))
  BY <1>5 DEF ResolvedRow
<1> QED
  BY <1>2, <1>3, <1>4, <1>5

LEMMA DoneIsDeliveredNext ==
  ASSUME TypeOK, VerdictSound, DoneIsDelivered, [Next]_vars
  PROVE  DoneIsDelivered'
<1> SUFFICES ASSUME NEW r \in Rows, row'[r].status = "done"
             PROVE  row'[r].fence \in accepted'[r]
  BY DEF DoneIsDelivered
<1>1. row[r] \in RowType /\ RowStep(r) /\ accepted[r] \subseteq accepted'[r]
  BY RowEffects, HistoryGrows DEF TypeOK
<1>2. CASE row'[r] = row[r]
  BY <1>1, <1>2 DEF DoneIsDelivered
<1>3. ASSUME row'[r] = Pending
      PROVE  FALSE
  BY <1>3 DEF Pending, NoRow
<1>4. ASSUME NEW w \in Workers, row'[r] = ClaimedRow(w, r)
      PROVE  FALSE
  BY <1>1, <1>4 DEF ClaimedRow, RowType
<1>5. ASSUME row[r].status = "in_progress", NEW l \in Int, row'[r] = [row[r] EXCEPT !.lease = l]
      PROVE  FALSE
  BY <1>1, <1>5 DEF RowType
<1>6. ASSUME NEW w \in Workers, pc[w] = "resolve", job[w].row = r, row'[r] = ResolvedRow(w)
      PROVE  row'[r].fence \in accepted'[r]
  BY <1>1, <1>2, <1>6, ResolveOutcome
<1> QED
  BY <1>1, <1>2, <1>3, <1>4, <1>5, <1>6 DEF RowStep

LEMMA DroppedForCauseNext ==
  ASSUME TypeOK, VerdictSound, AttemptsAccounted, DroppedForCause, [Next]_vars
  PROVE  DroppedForCause'
<1> DEFINE Cause(r) == \/ row'[r].error = "permanent_rejection" /\ row'[r].fence \in rejected'[r]
                       \/ row'[r].error = "max_attempts_exhausted" /\ row'[r].attempts = MaxAttempts
<1> SUFFICES ASSUME NEW r \in Rows, row'[r].status = "dead_letter"
             PROVE  Cause(r)
  BY DEF DroppedForCause
<1>1. row[r] \in RowType /\ RowStep(r) /\ rejected[r] \subseteq rejected'[r]
  BY RowEffects, HistoryGrows DEF TypeOK
<1>2. ASSUME row'[r] = row[r]
      PROVE  Cause(r)
  BY <1>1, <1>2 DEF DroppedForCause
<1>3. ASSUME row'[r] = Pending
      PROVE  FALSE
  BY <1>3 DEF Pending, NoRow
<1>4. ASSUME NEW w \in Workers, row'[r] = ClaimedRow(w, r)
      PROVE  Cause(r)
  <2>1. Exhausted(r)
    BY <1>1, <1>4 DEF ClaimedRow, RowType
  <2>2. row[r].attempts = MaxAttempts
    <3>1. row[r].attempts <= MaxAttempts
      BY DEF AttemptsAccounted
    <3>2. row[r].attempts \in Nat /\ MaxAttempts \in Nat
      BY <1>1, DispatchAssumption DEF RowType
    <3> QED
      BY <2>1, <3>1, <3>2 DEF Exhausted
  <2> QED
    BY <1>1, <1>4, <2>1, <2>2 DEF ClaimedRow, RowType
<1>5. ASSUME row[r].status = "in_progress", NEW l \in Int, row'[r] = [row[r] EXCEPT !.lease = l]
      PROVE  FALSE
  BY <1>1, <1>5 DEF RowType
<1>6. ASSUME NEW w \in Workers, pc[w] = "resolve", job[w].row = r, row'[r] = ResolvedRow(w)
      PROVE  Cause(r)
  BY <1>1, <1>2, <1>6, ResolveOutcome
<1> QED
  BY <1>1, <1>2, <1>3, <1>4, <1>5, <1>6 DEF RowStep

-----------------------------------------------------------------------------
(* Attempts                                                                *)

Kept(r) == row'[r].attempts = row[r].attempts /\ began'[r] = began[r] /\ burned'[r] = burned[r]

Spent(r) ==
  /\ row[r].attempts < MaxAttempts
  /\ row'[r].attempts = row[r].attempts + 1
  /\ \/ began'[r] = began[r] + 1 /\ burned'[r] = burned[r]
     \/ began'[r] = began[r] /\ burned'[r] = burned[r] + 1

LEMMA ClaimedAttempts ==
  ASSUME TypeOK, NEW w \in Workers, NEW r \in Rows
  PROVE  ClaimedRow(w, r).attempts = IF Exhausted(r) THEN row[r].attempts ELSE row[r].attempts + 1
<1>1. row[r] \in RowType
  BY DEF TypeOK
<1> QED
  BY <1>1 DEF ClaimedRow, RowType

LEMMA ResolvedAttempts ==
  ASSUME TypeOK, NEW w \in Workers, pc[w] = "resolve"
  PROVE  ResolvedRow(w).attempts = row[job[w].row].attempts
<1>1. job[w].row \in Rows
  BY DEF TypeOK, JobType
<1>2. row[job[w].row] \in RowType
  BY <1>1 DEF TypeOK
<1> QED
  BY <1>2 DEF ResolvedRow, CompletedRow, PoisonedRow, RescheduledRow, RowType

LEMMA AttemptEffects ==
  ASSUME TypeOK, Unborn, [Next]_vars, NEW r \in Rows
  PROVE  Kept(r) \/ Spent(r)
<1>0. row[r].attempts \in Nat /\ MaxAttempts \in Nat
  BY DispatchAssumption DEF TypeOK, RowType
<1>1. ASSUME row'[r] = row[r], UNCHANGED <<began, burned>>
      PROVE  Kept(r)
  BY <1>1 DEF Kept
<1>2. ASSUME NEW e \in Events, Enqueue(e)
      PROVE  Kept(r)
  <2>1. CASE r[1] = e /\ r[2] \in Routes[e]
    <3>1. row'[r] = Pending
      BY <1>2, <2>1 DEF Enqueue
    <3>2. r = <<r[1], r[2]>> /\ r[2] \in Keys
      BY DEF Rows
    <3>3. row[r] = NoRow
      BY <1>2, <2>1, <3>2 DEF Enqueue, Unborn
    <3> QED
      BY <1>2, <3>1, <3>3 DEF Enqueue, Kept, Pending, NoRow, history
  <2>2. CASE ~(r[1] = e /\ r[2] \in Routes[e])
    BY <1>2, <2>2 DEF Enqueue, Kept, history
  <2> QED
    BY <2>1, <2>2
<1>3. ASSUME NEW w \in Workers, NEW q \in Rows, ClaimDispatch(w, q)
      PROVE  Kept(r) \/ Spent(r)
  <2>1. row'[r] = (IF r = q THEN ClaimedRow(w, q) ELSE row[r]) /\ burned' = burned
    BY <1>3 DEF TypeOK, ClaimDispatch, ClaimRow
  <2>2. began'[r] = IF r = q THEN began[r] + 1 ELSE began[r]
    BY <1>3 DEF TypeOK, ClaimDispatch
  <2>3. ~Exhausted(q)
    BY <1>3 DEF ClaimDispatch
  <2> QED
    BY <1>0, <2>1, <2>2, <2>3, ClaimedAttempts DEF Kept, Spent, Exhausted
<1>4. ASSUME NEW w \in Workers, NEW q \in Rows, ClaimReplyLost(w, q)
      PROVE  Kept(r) \/ Spent(r)
  <2>1. row'[r] = (IF r = q THEN ClaimedRow(w, q) ELSE row[r]) /\ began' = began
    BY <1>4 DEF TypeOK, ClaimReplyLost, ClaimRow
  <2>2. burned'[r] = IF r = q /\ ~Exhausted(q) THEN burned[r] + 1 ELSE burned[r]
    BY <1>4 DEF TypeOK, ClaimReplyLost
  <2> QED
    BY <1>0, <2>1, <2>2, ClaimedAttempts DEF Kept, Spent, Exhausted
<1>5. ASSUME NEW w \in Workers, NEW q \in Rows, ClaimPoison(w, q)
      PROVE  Kept(r)
  <2>1. row'[r] = (IF r = q THEN ClaimedRow(w, q) ELSE row[r]) /\ UNCHANGED <<began, burned>>
    BY <1>5 DEF TypeOK, ClaimPoison, ClaimRow
  <2>2. Exhausted(q)
    BY <1>5 DEF ClaimPoison
  <2> QED
    BY <2>1, <2>2, ClaimedAttempts DEF Kept
<1>6. ASSUME NEW w \in Workers, beat[w] # NULL, UNCHANGED <<began, burned>>,
             row' = [row EXCEPT ![beat[w].row] = RenewedRow(beat[w])]
      PROVE  Kept(r)
  <2>1. beat[w].row \in Rows
    BY <1>6 DEF TypeOK
  <2>2. row[beat[w].row] \in RowType
    BY <2>1 DEF TypeOK
  <2>3. RenewedRow(beat[w]).attempts = row[beat[w].row].attempts
    BY <2>2 DEF RenewedRow, RowType
  <2> QED
    BY <1>6, <2>1, <2>3 DEF TypeOK, Kept
<1>7. ASSUME NEW w \in Workers, pc[w] = "resolve", ResolveRow(w), UNCHANGED <<began, burned>>
      PROVE  Kept(r)
  <2>1. job[w].row \in Rows
    BY <1>7 DEF TypeOK, JobType
  <2> QED
    BY <1>7, <2>1, ResolvedAttempts DEF TypeOK, ResolveRow, Kept
<1>8. ASSUME NEW w \in Workers,
             BeatLands(w) \/ \E executed \in BOOLEAN : BeatFails(w, executed)
      PROVE  Kept(r)
  BY <1>1, <1>6, <1>8 DEF BeatLands, BeatFails, history
<1>9. ASSUME NEW w \in Workers,
             Resolve(w) \/ \E executed \in BOOLEAN : ResolveError(w, executed)
      PROVE  Kept(r)
  BY <1>1, <1>7, <1>9 DEF Resolve, ResolveError
<1>10. ASSUME Tick
       PROVE  Kept(r)
  <2>1. row'[r].attempts = row[r].attempts
    BY <1>10 DEF Tick, TypeOK, RowType
  <2> QED
    BY <1>10, <2>1 DEF Tick, Kept, history
<1>11. ASSUME NEW w \in Workers,
              \/ BeginTick(w) \/ ClaimNothing(w) \/ ClaimError(w) \/ Beat(w) \/ Crash(w) \/ Restart(w)
              \/ Stop(w) \/ Exit(w)
              \/ \E raw \in Raw : SettleAborted(w, raw) \/ Settle(w, raw)
       PROVE  Kept(r)
  BY <1>1, <1>11 DEF BeginTick, ClaimNothing, ClaimError, Beat, Crash, Restart, Stop, Exit, SettleAborted,
                     Settle, history
<1>12. CASE UNCHANGED vars
  BY <1>1, <1>12 DEF vars, history
<1>13. ASSUME NEW w \in Workers, LoopStep(w)
       PROVE  Kept(r) \/ Spent(r)
  BY <1>3, <1>5, <1>9, <1>11, <1>13 DEF LoopStep
<1>14. ASSUME NEW w \in Workers, FaultStep(w)
       PROVE  Kept(r) \/ Spent(r)
  BY <1>4, <1>8, <1>9, <1>11, <1>14 DEF FaultStep
<1> QED
  BY <1>2, <1>8, <1>10, <1>11, <1>12, <1>13, <1>14 DEF Next

LEMMA AttemptsAccountedNext ==
  ASSUME TypeOK, Unborn, AttemptsAccounted, [Next]_vars
  PROVE  AttemptsAccounted'
<1> SUFFICES ASSUME NEW r \in Rows
             PROVE  row'[r].attempts = began'[r] + burned'[r] /\ row'[r].attempts <= MaxAttempts
  BY DEF AttemptsAccounted
<1>1. row[r].attempts \in Nat /\ began[r] \in Nat /\ burned[r] \in Nat /\ MaxAttempts \in Nat
  BY DispatchAssumption DEF TypeOK, RowType
<1>2. row[r].attempts = began[r] + burned[r] /\ row[r].attempts <= MaxAttempts
  BY DEF AttemptsAccounted
<1>3. CASE Kept(r)
  BY <1>2, <1>3 DEF Kept
<1>4. CASE Spent(r)
  BY <1>1, <1>2, <1>4 DEF Spent
<1> QED
  BY <1>3, <1>4, AttemptEffects

-----------------------------------------------------------------------------
(* The inductive invariant and what follows from it                        *)

(* The safety invariants with what they rest on: rows not yet enqueued are *)
(* empty, and a pending verdict was earned under the token it will use.    *)
IInv ==
  /\ TypeOK
  /\ Unborn
  /\ VerdictSound
  /\ SingleOwner
  /\ AttemptsAccounted
  /\ DoneIsDelivered
  /\ DroppedForCause

LEMMA InitIInv == Init => IInv
<1> SUFFICES ASSUME Init
             PROVE  IInv
  OBVIOUS
<1>1. \A r \in Rows : row[r] = NoRow /\ began[r] = 0 /\ burned[r] = 0
  BY DEF Init
<1>2. \A w \in Workers : job[w] = NULL /\ pc[w] = "idle"
  BY DEF Init
<1>3. Unborn /\ VerdictSound /\ SingleOwner /\ DoneIsDelivered /\ DroppedForCause
  BY <1>1, <1>2 DEF Unborn, VerdictSound, SingleOwner, DoneIsDelivered, DroppedForCause, NoRow
<1>4. AttemptsAccounted
  BY <1>1, DispatchAssumption DEF AttemptsAccounted, NoRow
<1> QED
  BY <1>3, <1>4, InitType DEF IInv

LEMMA NextIInv == IInv /\ [Next]_vars => IInv'
  BY NextType, UnbornNext, VerdictSoundNext, SingleOwnerNext, AttemptsAccountedNext, DoneIsDeliveredNext,
     DroppedForCauseNext DEF IInv

THEOREM Invariance == Spec => []IInv
  BY InitIInv, NextIInv, PTL DEF Spec

(* claimDueConsumers bumps the fence: no two workers ever hold the same    *)
(* token of a row, and none holds a token the row has not reached.         *)
THEOREM OneOwner == Spec => []SingleOwner
<1>1. IInv => SingleOwner
  BY DEF IInv
<1> QED
  BY <1>1, Invariance, PTL

(* completeConsumer: a row is done only if the adapter succeeded under the *)
(* fence that completed it.                                                *)
THEOREM DoneOnlyIfDelivered == Spec => []DoneIsDelivered
<1>1. IInv => DoneIsDelivered
  BY DEF IInv
<1> QED
  BY <1>1, Invariance, PTL

(* poisonConsumer and the attempt ceiling are the only ways to drop a row. *)
THEOREM DroppedOnlyForCause == Spec => []DroppedForCause
<1>1. IInv => DroppedForCause
  BY DEF IInv
<1> QED
  BY <1>1, Invariance, PTL

(* Attempts are bounded and each one was a call or a lost reply.           *)
THEOREM AttemptsBounded == Spec => []AttemptsAccounted
<1>1. IInv => AttemptsAccounted
  BY DEF IInv
<1> QED
  BY <1>1, Invariance, PTL

-----------------------------------------------------------------------------
(* Terminal rows                                                           *)

LEMMA TerminalStep ==
  ASSUME TypeOK, [Next]_vars, NEW r \in Rows, row[r].status \in Terminal
  PROVE  row'[r] = row[r]
<1>1. ASSUME NEW w \in Workers, Claimable(w, r)
      PROVE  FALSE
  BY <1>1 DEF Claimable, Reclaimable
<1>2. ASSUME NEW w \in Workers, job[w].row = r
      PROVE  ResolvedRow(w) = row[r]
  BY <1>2 DEF ResolvedRow, HoldsLease, HoldsToken
<1> QED
  BY <1>1, <1>2, RowEffects DEF RowStep

(* No statement, however late it executes, touches a done or dead_letter   *)
(* row.                                                                    *)
THEOREM SettledForGood == Spec => TerminalIsFinal
<1>1. TypeOK /\ [Next]_vars => [\A r \in Rows : row[r].status \in Terminal => row'[r] = row[r]]_vars
  BY TerminalStep
<1> QED
  BY <1>1, TypeCorrect, PTL DEF Spec, TerminalIsFinal

-----------------------------------------------------------------------------
(* The refinement of DeliveryPromise                                       *)

(* A row in progress has been tried.                                       *)
Tried == \A r \in Rows : row[r].status = "in_progress" => row[r].attempts > 0

LEMMA TriedNext ==
  ASSUME TypeOK, Tried, [Next]_vars
  PROVE  Tried'
<1> SUFFICES ASSUME NEW r \in Rows, row'[r].status = "in_progress"
             PROVE  row'[r].attempts > 0
  BY DEF Tried
<1>1. row[r] \in RowType /\ RowStep(r)
  BY RowEffects DEF TypeOK
<1>2. row[r].attempts \in Nat
  BY <1>1 DEF RowType
<1>3. ASSUME row'[r] = row[r]
      PROVE  row'[r].attempts > 0
  BY <1>3 DEF Tried
<1>4. ASSUME row'[r] = Pending
      PROVE  FALSE
  BY <1>4 DEF Pending, NoRow
<1>5. ASSUME NEW w \in Workers, row'[r] = ClaimedRow(w, r)
      PROVE  row'[r].attempts > 0
  BY <1>1, <1>2, <1>5, ClaimedAttempts, DispatchAssumption DEF Exhausted
<1>6. ASSUME row[r].status = "in_progress", NEW l \in Int, row'[r] = [row[r] EXCEPT !.lease = l]
      PROVE  row'[r].attempts > 0
  BY <1>1, <1>6 DEF RowType, Tried
<1>7. ASSUME NEW w \in Workers, pc[w] = "resolve", job[w].row = r, row'[r] = ResolvedRow(w)
      PROVE  row'[r].attempts > 0
  <2>1. row'[r].attempts = row[r].attempts
    BY <1>7, ResolvedAttempts
  <2>2. row[r].status = "in_progress"
    BY <1>1, <1>7 DEF ResolvedRow, CompletedRow, PoisonedRow, HoldsLease, HoldsToken, RowType
  <2> QED
    BY <2>1, <2>2 DEF Tried
<1> QED
  BY <1>1, <1>3, <1>4, <1>5, <1>6, <1>7 DEF RowStep

(* What a step looks like to the promise, row by row.                      *)
Out(r) == OutcomeOf(row[r].status)
Same(r) == Out(r)' = Out(r) /\ row'[r].attempts = row[r].attempts
Owed(r) == Out(r) = "absent" /\ Out(r)' = "owed" /\ row'[r].attempts = row[r].attempts
TriedNow(r) ==
  /\ Out(r) = "owed" /\ Out(r)' = "owed"
  /\ row[r].attempts < MaxAttempts /\ row'[r].attempts = row[r].attempts + 1
SettledNow(r) ==
  /\ Out(r) = "owed" /\ Out(r)' \in {"delivered", "dropped"}
  /\ row[r].attempts > 0 /\ row'[r].attempts = row[r].attempts

LEMMA RowPromise ==
  ASSUME TypeOK, Unborn, Tried, NEW r \in Rows, RowStep(r)
  PROVE  Same(r) \/ Owed(r) \/ TriedNow(r) \/ SettledNow(r)
<1> DEFINE Goal == Same(r) \/ Owed(r) \/ TriedNow(r) \/ SettledNow(r)
<1>1. row[r] \in RowType /\ row[r].attempts \in Nat /\ MaxAttempts \in Nat \ {0}
  BY DispatchAssumption DEF TypeOK, RowType
<1>2. ASSUME row'[r] = row[r]
      PROVE  Goal
  BY <1>2 DEF Same, Out
<1>3. ASSUME row[r].status = "absent", row'[r] = Pending
      PROVE  Goal
  BY <1>3 DEF Unborn, Owed, Out, OutcomeOf, Pending, NoRow
<1>4. ASSUME NEW w \in Workers, Claimable(w, r), row'[r] = ClaimedRow(w, r)
      PROVE  Goal
  <2>1. Out(r) = "owed"
    BY <1>4 DEF Claimable, Reclaimable, Out, OutcomeOf
  <2>2. CASE Exhausted(r)
    <3>1. row'[r].status = "dead_letter"
      BY <1>1, <1>4, <2>2 DEF ClaimedRow, RowType
    <3>2. Out(r)' = "dropped"
      BY <3>1 DEF Out, OutcomeOf
    <3>3. row'[r].attempts = row[r].attempts /\ row[r].attempts > 0
      BY <1>1, <1>4, <2>2, ClaimedAttempts DEF Exhausted
    <3> QED
      BY <2>1, <3>2, <3>3 DEF SettledNow
  <2>3. CASE ~Exhausted(r)
    <3>1. row'[r].status = "in_progress"
      BY <1>1, <1>4, <2>3 DEF ClaimedRow, RowType
    <3>2. Out(r)' = "owed"
      BY <3>1 DEF Out, OutcomeOf
    <3>3. row'[r].attempts = row[r].attempts + 1 /\ row[r].attempts < MaxAttempts
      BY <1>1, <1>4, <2>3, ClaimedAttempts DEF Exhausted
    <3> QED
      BY <2>1, <3>2, <3>3 DEF TriedNow
  <2> QED
    BY <2>2, <2>3
<1>5. ASSUME row[r].status = "in_progress", NEW l \in Int, row'[r] = [row[r] EXCEPT !.lease = l]
      PROVE  Goal
  BY <1>1, <1>5 DEF Same, Out, RowType
<1>6. ASSUME NEW w \in Workers, pc[w] = "resolve", job[w].row = r, row'[r] = ResolvedRow(w)
      PROVE  Goal
  <2>1. row'[r].attempts = row[r].attempts
    BY <1>6, ResolvedAttempts
  <2>2. \/ row'[r] = row[r]
        \/ row[r].status = "in_progress" /\ row'[r].status \in {"done", "dead_letter", "in_progress"}
    BY <1>1, <1>6 DEF ResolvedRow, CompletedRow, PoisonedRow, RescheduledRow, HoldsLease, HoldsToken, RowType
  <2> QED
    BY <1>2, <2>1, <2>2 DEF Same, SettledNow, Tried, Out, OutcomeOf
<1> QED
  BY <1>2, <1>3, <1>4, <1>5, <1>6 DEF RowStep

(* Apart from enqueue, a step changes what the promise sees of one row.    *)
LEMMA OneRow ==
  ASSUME TypeOK, [Next]_vars, ~\E e \in Events : Enqueue(e), NEW p \in Rows
  PROVE  \E q \in Rows : \A r \in Rows \ {q} : Same(r)
<1>1. ASSUME NEW q \in Rows, NEW x, row' = [row EXCEPT ![q] = x]
      PROVE  \A r \in Rows \ {q} : Same(r)
  BY <1>1 DEF TypeOK, Same, Out
<1>2. ASSUME UNCHANGED row
      PROVE  \A r \in Rows \ {p} : Same(r)
  BY <1>2 DEF Same, Out
<1>3. ASSUME Tick
      PROVE  \A r \in Rows \ {p} : Same(r)
  <2>1. \A r \in Rows : row'[r].status = row[r].status /\ row'[r].attempts = row[r].attempts
    BY <1>3 DEF Tick, TypeOK, RowType
  <2> QED
    BY <2>1 DEF Same, Out
<1>4. ASSUME NEW w \in Workers, ~UNCHANGED row, LoopStep(w) \/ BeatLands(w) \/ FaultStep(w)
      PROVE  \E q \in Rows : \E x : row' = [row EXCEPT ![q] = x]
  <2>1. ASSUME NEW q \in Rows, ClaimDispatch(w, q) \/ ClaimPoison(w, q) \/ ClaimReplyLost(w, q)
        PROVE  \E x : row' = [row EXCEPT ![q] = x]
    BY <2>1 DEF ClaimDispatch, ClaimPoison, ClaimReplyLost, ClaimRow
  <2>2. ASSUME BeatLands(w) \/ \E executed \in BOOLEAN : BeatFails(w, executed)
        PROVE  beat[w].row \in Rows /\ \E x : row' = [row EXCEPT ![beat[w].row] = x]
    <3> DEFINE renewed == [row EXCEPT ![beat[w].row] = RenewedRow(beat[w])]
    <3>1. beat[w] # NULL /\ row' \in {renewed, row}
      BY <2>2 DEF BeatLands, BeatFails
    <3>2. row' = renewed
      BY <1>4, <3>1
    <3> QED
      BY <3>1, <3>2 DEF TypeOK
  <2>3. ASSUME Resolve(w) \/ \E executed \in BOOLEAN : ResolveError(w, executed)
        PROVE  job[w].row \in Rows /\ \E x : row' = [row EXCEPT ![job[w].row] = x]
    <3> DEFINE resolved == [row EXCEPT ![job[w].row] = ResolvedRow(w)]
    <3>1. pc[w] = "resolve" /\ row' \in {resolved, row}
      BY <2>3 DEF Resolve, ResolveError, ResolveRow
    <3>2. row' = resolved
      BY <1>4, <3>1
    <3> QED
      BY <3>1, <3>2 DEF TypeOK, JobType
  <2>4. ~(BeginTick(w) \/ ClaimNothing(w) \/ ClaimError(w) \/ Crash(w) \/ Stop(w))
    BY <1>4 DEF BeginTick, ClaimNothing, ClaimError, Crash, Stop
  <2>5. ~\E raw \in Raw : SettleAborted(w, raw) \/ Settle(w, raw)
    BY <1>4 DEF SettleAborted, Settle
  <2> QED
    BY <1>4, <2>1, <2>2, <2>3, <2>4, <2>5 DEF LoopStep, FaultStep
<1>5. ASSUME NEW w \in Workers, Beat(w) \/ Restart(w) \/ Exit(w)
      PROVE  UNCHANGED row
  BY <1>5 DEF Beat, Restart, Exit
<1>6. CASE UNCHANGED vars
  BY <1>2, <1>6 DEF vars
<1> QED
  BY <1>1, <1>2, <1>3, <1>4, <1>5, <1>6 DEF Next

LEMMA StepImplements ==
  ASSUME TypeOK, Unborn, Tried, [Next]_vars
  PROVE  [Promise!Next]_(Promise!vars)
<1> DEFINE out == [r \in Rows |-> Out(r)]
           tries == [r \in Rows |-> row[r].attempts]
<1>0. \A r \in Rows : row'[r].attempts = tries'[r] /\ Out(r)' = out'[r]
  OBVIOUS
<1>1. ASSUME NEW e \in Events, Enqueue(e)
      PROVE  Promise!Owe({r \in Rows : r[1] = e /\ r[2] \in Routes[e]})
  <2> DEFINE rs == {r \in Rows : r[1] = e /\ r[2] \in Routes[e]}
  <2>1. \A r \in Rows : r \in rs => row[r] = NoRow /\ row'[r] = Pending
    <3> SUFFICES ASSUME NEW r \in Rows, r \in rs
                 PROVE  row[r] = NoRow /\ row'[r] = Pending
      OBVIOUS
    <3>1. r = <<e, r[2]>> /\ r[2] \in Keys
      BY DEF Rows
    <3>2. row[r].status = "absent"
      BY <1>1, <3>1 DEF Enqueue
    <3> QED
      BY <1>1, <3>2 DEF Enqueue, Unborn
  <2>2. \A r \in Rows : r \notin rs => row'[r] = row[r]
    BY <1>1 DEF Enqueue
  <2>3. \A r \in Rows : r \in rs => Out(r) = "absent" /\ Out(r)' = "owed" /\ row'[r].attempts = row[r].attempts
    BY <2>1 DEF Out, OutcomeOf, NoRow, Pending
  <2>4. \A r \in Rows : r \notin rs => Same(r)
    BY <2>2 DEF Same, Out
  <2>5. \A r \in rs : out[r] = "absent"
    BY <2>3
  <2>6. out' = [r \in Rows |-> IF r \in rs THEN "owed" ELSE out[r]]
    BY <2>3, <2>4 DEF Same
  <2>7. tries' = tries
    BY <2>3, <2>4 DEF Same
  <2> QED
    BY <2>5, <2>6, <2>7 DEF Promise!Owe, Out
<1>2. CASE Rows = {}
  <2>1. out' = out /\ tries' = tries
    BY <1>2
  <2> QED
    BY <2>1 DEF Promise!vars, Out
<1>3. ASSUME NEW q \in Rows, \A r \in Rows \ {q} : Same(r)
      PROVE  [Promise!Next]_(Promise!vars)
  <2>1. \A r \in Rows \ {q} : out'[r] = out[r] /\ tries'[r] = tries[r]
    BY <1>3 DEF Same
  <2>2. CASE Same(q)
    <3>1. out' = out /\ tries' = tries
      BY <2>1, <2>2 DEF Same
    <3> QED
      BY <3>1 DEF Promise!vars, Out
  <2>3. CASE Owed(q)
    <3>1. out[q] = "absent" /\ tries' = tries /\ out' = [r \in Rows |-> IF r \in {q} THEN "owed" ELSE out[r]]
      BY <2>1, <2>3 DEF Owed
    <3>2. Promise!Owe({q})
      BY <3>1 DEF Promise!Owe, Out
    <3> QED
      BY <3>2 DEF Promise!Next
  <2>4. CASE TriedNow(q)
    <3>1. /\ out[q] = "owed" /\ tries[q] < MaxAttempts
          /\ out' = out /\ tries' = [tries EXCEPT ![q] = @ + 1]
      BY <2>1, <2>4 DEF TriedNow
    <3>2. Promise!Try(q)
      BY <3>1 DEF Promise!Try, Out
    <3> QED
      BY <3>2 DEF Promise!Next
  <2>5. CASE SettledNow(q)
    <3>1. PICK v \in {"delivered", "dropped"} : Out(q)' = v
      BY <2>5 DEF SettledNow
    <3>2. /\ out[q] = "owed" /\ tries[q] > 0
          /\ out' = [out EXCEPT ![q] = v] /\ tries' = tries
      BY <2>1, <2>5, <3>1 DEF SettledNow
    <3>3. Promise!Settle(q, v)
      BY <3>2 DEF Promise!Settle, Out
    <3> QED
      BY <3>3 DEF Promise!Next
  <2>6. RowStep(q)
    BY RowEffects
  <2> QED
    BY <2>2, <2>3, <2>4, <2>5, <2>6, RowPromise
<1>4. ASSUME NEW e \in Events, Enqueue(e)
      PROVE  Promise!Next
  BY <1>1, <1>4 DEF Promise!Next
<1> QED
  BY <1>2, <1>3, <1>4, OneRow

(* OutboxDispatch implements DeliveryPromise: a row is tried at most       *)
(* MaxAttempts times and settled at most once, after a try, whatever       *)
(* happens to leases, fences, clocks and workers.                          *)
THEOREM Implements == Spec => KeepsPromise
<1>1. Init => Promise!Init
  BY DEF Init, Promise!Init, OutcomeOf, NoRow
<1>2. Init => Tried
  BY DEF Init, Tried, NoRow
<1>3. Spec => []Tried
  BY <1>2, TriedNext, TypeCorrect, PTL DEF Spec
<1>4. IInv => TypeOK /\ Unborn
  BY DEF IInv
<1>5. TypeOK /\ Unborn /\ Tried /\ [Next]_vars => [Promise!Next]_(Promise!vars)
  BY StepImplements
<1> QED
  BY <1>1, <1>3, <1>4, <1>5, Invariance, PTL DEF Spec, KeepsPromise, Promise!Spec

-----------------------------------------------------------------------------
(* Rolling deploys                                                         *)

LEMMA UnknownKeysWaitNext ==
  ASSUME TypeOK, UnknownKeysWait, [Next]_vars
  PROVE  UnknownKeysWait'
<1> SUFFICES ASSUME NEW r \in Rows, \A w \in Workers : r[2] \notin Known[w]
             PROVE  row'[r] \in {NoRow, Pending}
  BY DEF UnknownKeysWait
<1>1. row[r] \in {NoRow, Pending} /\ row[r].status # "in_progress"
  BY DEF UnknownKeysWait, NoRow, Pending
<1>2. ASSUME NEW w \in Workers, Claimable(w, r)
      PROVE  FALSE
  BY <1>2 DEF Claimable
<1>3. ASSUME NEW w \in Workers, job[w].row = r
      PROVE  ResolvedRow(w) = row[r]
  BY <1>1, <1>3 DEF ResolvedRow, HoldsLease, HoldsToken
<1> QED
  BY <1>1, <1>2, <1>3, RowEffects DEF RowStep

(* A row whose key no registry knows stays pending and costs no attempt.   *)
THEOREM UnknownKeysUntouched == Spec => []UnknownKeysWait
<1>1. Init => UnknownKeysWait
  BY DEF Init, UnknownKeysWait
<1> QED
  BY <1>1, UnknownKeysWaitNext, TypeCorrect, PTL DEF Spec

-----------------------------------------------------------------------------
(* Backoff                                                                 *)

(* A renew in flight carries a token the row has reached, and for a        *)
(* rescheduled row every token in circulation is stale.                    *)
BeatBehind == \A w \in Workers : beat[w] # NULL => beat[w].fence <= row[beat[w].row].fence

ParkedStale ==
  \A r \in parked :
    /\ row[r].status = "in_progress"
    /\ \A w \in Workers : job[w] # NULL /\ job[w].row = r => job[w].fence < row[r].fence
    /\ \A w \in Workers : beat[w] # NULL /\ beat[w].row = r => beat[w].fence < row[r].fence

LEMMA BeatEffects ==
  ASSUME TypeOK, [Next]_vars, NEW w \in Workers, beat'[w] # NULL
  PROVE  \/ beat[w] # NULL /\ beat'[w].row = beat[w].row /\ beat'[w].fence = beat[w].fence
         \/ job[w] # NULL /\ beat'[w].row = job[w].row /\ beat'[w].fence = job[w].fence /\ UNCHANGED row
<1> DEFINE Goal ==
      \/ beat[w] # NULL /\ beat'[w].row = beat[w].row /\ beat'[w].fence = beat[w].fence
      \/ job[w] # NULL /\ beat'[w].row = job[w].row /\ beat'[w].fence = job[w].fence /\ UNCHANGED row
<1>1. ASSUME UNCHANGED beat
      PROVE  Goal
  BY <1>1
<1>2. ASSUME NEW v \in Workers, beat' = [beat EXCEPT ![v] = NULL]
      PROVE  Goal
  BY <1>2 DEF TypeOK
<1>3. ASSUME NEW v \in Workers, Beat(v)
      PROVE  Goal
  BY <1>3 DEF TypeOK, Beat
<1>4. ASSUME Tick
      PROVE  Goal
  <2>1. beat[w] # NULL /\ beat'[w] = [beat[w] EXCEPT !.asOf = @ - 1]
    BY <1>4 DEF Tick
  <2>2. beat[w] \in [row : Rows, fence : Nat, asOf : Int]
    BY <2>1 DEF TypeOK
  <2> QED
    BY <2>1, <2>2
<1>5. ASSUME NEW v \in Workers, BeatLands(v) \/ \E executed \in BOOLEAN : BeatFails(v, executed)
      PROVE  beat' = [beat EXCEPT ![v] = NULL]
  BY <1>5 DEF BeatLands, BeatFails
<1>6. ASSUME NEW v \in Workers, LoopStep(v) \/ Restart(v) \/ Exit(v)
      PROVE  UNCHANGED beat
  BY <1>6 DEF LoopStep, BeginTick, ClaimNothing, ClaimDispatch, ClaimPoison, SettleAborted, Settle, Resolve,
              Restart, Exit
<1>7. ASSUME NEW v \in Workers, FaultStep(v), ~\E executed \in BOOLEAN : BeatFails(v, executed)
      PROVE  UNCHANGED beat
  BY <1>7 DEF FaultStep, ClaimError, Crash, Stop, ClaimReplyLost, ResolveError
<1>8. ASSUME (\E e \in Events : Enqueue(e)) \/ UNCHANGED vars
      PROVE  UNCHANGED beat
  BY <1>8 DEF Enqueue, vars
<1> HIDE DEF Goal
<1>9. Goal
  BY <1>1, <1>2, <1>3, <1>4, <1>5, <1>6, <1>7, <1>8 DEF Next
<1> QED
  BY <1>9 DEF Goal

LEMMA BeatBehindNext ==
  ASSUME TypeOK, Unborn, SingleOwner, BeatBehind, [Next]_vars
  PROVE  BeatBehind'
<1> SUFFICES ASSUME NEW w \in Workers, beat'[w] # NULL
             PROVE  beat'[w].fence <= row'[beat'[w].row].fence
  BY DEF BeatBehind
<1>1. \A r \in Rows : row[r].fence \in Nat /\ row'[r].fence \in Nat /\ row[r].fence <= row'[r].fence
  BY RowEffects, FenceGrows DEF Unborn, TypeOK, RowType
<1>2. CASE beat[w] # NULL /\ beat'[w].row = beat[w].row /\ beat'[w].fence = beat[w].fence
  <2>1. beat[w].row \in Rows /\ beat[w].fence \in Nat
    BY <1>2 DEF TypeOK
  <2> QED
    BY <1>1, <1>2, <2>1 DEF BeatBehind
<1>3. CASE job[w] # NULL /\ beat'[w].row = job[w].row /\ beat'[w].fence = job[w].fence /\ UNCHANGED row
  BY <1>3 DEF SingleOwner
<1> QED
  BY <1>2, <1>3, BeatEffects

(* What a step does to a rescheduled row: nothing, unless a worker whose   *)
(* clock has passed its lease claims it, or time passes.                   *)
Waits(r) ==
  \/ r \in parked' /\ row'[r] \in {row[r], [row[r] EXCEPT !.lease = Aged(@)]}
  \/ r \notin parked' /\ \E w \in Workers : pc[w] = "claim" /\ row[r].lease <= asOf[w]

LEMMA ParkedStep ==
  ASSUME TypeOK, ParkedStale, [Next]_vars, NEW r \in parked
  PROVE  Waits(r)
<1>1. r \in Rows /\ row[r].status = "in_progress"
  BY DEF TypeOK, ParkedStale
<1>2. ASSUME UNCHANGED parked, row'[r] = row[r]
      PROVE  Waits(r)
  BY <1>2 DEF Waits
<1>3. ASSUME NEW w \in Workers, NEW q \in Rows, Claimable(w, q), ClaimRow(w, q)
      PROVE  Waits(r)
  <2>1. CASE q = r
    BY <1>1, <1>3, <2>1 DEF ClaimRow, Claimable, Reclaimable, Waits
  <2>2. CASE q # r
    BY <1>1, <1>3, <2>2 DEF TypeOK, ClaimRow, Waits
  <2> QED
    BY <2>1, <2>2
<1>4. ASSUME NEW w \in Workers, beat[w] # NULL, UNCHANGED parked,
             row' = [row EXCEPT ![beat[w].row] = RenewedRow(beat[w])]
      PROVE  Waits(r)
  <2>1. beat[w].row \in Rows /\ beat[w].fence \in Nat /\ row[r].fence \in Nat
    BY <1>1, <1>4 DEF TypeOK, RowType
  <2>2. beat[w].row = r => RenewedRow(beat[w]) = row[r]
    BY <1>4, <2>1 DEF ParkedStale, RenewedRow, HoldsToken
  <2> QED
    BY <1>1, <1>2, <1>4, <2>1, <2>2 DEF TypeOK
<1>5. ASSUME NEW w \in Workers, pc[w] = "resolve", ResolveRow(w)
      PROVE  Waits(r)
  <2>1. job[w] # NULL /\ job[w].row \in Rows /\ job[w].fence \in Nat /\ row[r].fence \in Nat
    BY <1>1, <1>5 DEF TypeOK, JobType, RowType
  <2>2. job[w].row = r => ResolvedRow(w) = row[r]
    BY <1>1, <2>1 DEF ParkedStale, ResolvedRow, HoldsLease, HoldsToken
  <2>3. row'[r] = row[r]
    BY <1>1, <1>5, <2>1, <2>2 DEF TypeOK, ResolveRow
  <2>4. r \in parked'
    BY <1>5 DEF ResolveRow
  <2> QED
    BY <2>3, <2>4 DEF Waits
<1>6. ASSUME Tick
      PROVE  Waits(r)
  <2>1. row'[r] = [row[r] EXCEPT !.lease = Aged(@)] /\ parked' = parked
    BY <1>1, <1>6 DEF Tick, history
  <2> QED
    BY <2>1 DEF Waits
<1>7. ASSUME NEW e \in Events, Enqueue(e)
      PROVE  Waits(r)
  <2>1. r = <<r[1], r[2]>> /\ r[2] \in Keys
    BY <1>1 DEF Rows
  <2>2. r[1] # e
    BY <1>1, <1>7, <2>1 DEF Enqueue
  <2> QED
    BY <1>1, <1>2, <1>7, <2>2 DEF Enqueue, history
<1>8. ASSUME NEW w \in Workers, LoopStep(w) \/ FaultStep(w)
      PROVE  Waits(r)
  <2>1. ASSUME NEW q \in Rows, ClaimDispatch(w, q) \/ ClaimPoison(w, q) \/ ClaimReplyLost(w, q)
        PROVE  Waits(r)
    BY <1>3, <2>1 DEF ClaimDispatch, ClaimPoison, ClaimReplyLost
  <2>2. ASSUME Resolve(w) \/ \E executed \in BOOLEAN : ResolveError(w, executed)
        PROVE  Waits(r)
    <3>1. pc[w] = "resolve" /\ (ResolveRow(w) \/ UNCHANGED <<row, parked>>)
      BY <2>2 DEF Resolve, ResolveError
    <3> QED
      BY <1>2, <1>5, <3>1
  <2>3. ASSUME NEW executed \in BOOLEAN, BeatFails(w, executed)
        PROVE  Waits(r)
    BY <1>2, <1>4, <2>3 DEF BeatFails, history
  <2>4. ASSUME \/ BeginTick(w) \/ ClaimNothing(w) \/ ClaimError(w) \/ Crash(w) \/ Stop(w)
               \/ \E raw \in Raw : SettleAborted(w, raw) \/ Settle(w, raw)
        PROVE  UNCHANGED <<row, parked>>
    BY <2>4 DEF BeginTick, ClaimNothing, ClaimError, Crash, Stop, SettleAborted, Settle, history
  <2> QED
    BY <1>2, <1>8, <2>1, <2>2, <2>3, <2>4 DEF LoopStep, FaultStep
<1>9. ASSUME NEW w \in Workers, Beat(w) \/ BeatLands(w) \/ Restart(w) \/ Exit(w)
      PROVE  Waits(r)
  <2>1. CASE BeatLands(w)
    BY <1>4, <2>1 DEF BeatLands, history
  <2>2. ASSUME Beat(w) \/ Restart(w) \/ Exit(w)
        PROVE  UNCHANGED <<row, parked>>
    BY <2>2 DEF Beat, Restart, Exit, history
  <2> QED
    BY <1>2, <1>9, <2>1, <2>2
<1>10. CASE UNCHANGED vars
  BY <1>2, <1>10 DEF vars, history
<1> QED
  BY <1>6, <1>7, <1>8, <1>9, <1>10 DEF Next

(* A row is newly parked only by the reschedule of its holder.             *)
LEMMA ParkedEntered ==
  ASSUME TypeOK, [Next]_vars, NEW r \in parked' \ parked
  PROVE  /\ r \in Rows
         /\ row'[r].status = "in_progress" /\ row'[r].fence = row[r].fence + 1
<1> DEFINE Goal == /\ r \in Rows
                   /\ row'[r].status = "in_progress" /\ row'[r].fence = row[r].fence + 1
<1>1. ASSUME parked' \subseteq parked
      PROVE  FALSE
  BY <1>1
<1>2. ASSUME NEW w \in Workers, pc[w] = "resolve", ResolveRow(w)
      PROVE  Goal
  <2>1. verdict[w] = "reschedule" /\ HoldsToken(job[w].row, job[w].fence) /\ r = job[w].row
    BY <1>2 DEF ResolveRow
  <2>2. r \in Rows
    BY <1>2, <2>1 DEF TypeOK, JobType
  <2>3. row[r] \in RowType /\ row[r].status = "in_progress"
    BY <2>1, <2>2 DEF TypeOK, HoldsToken
  <2>4. row'[r] = RescheduledRow(w)
    BY <1>2, <2>1, <2>2 DEF TypeOK, ResolveRow, ResolvedRow
  <2> QED
    BY <2>1, <2>2, <2>3, <2>4 DEF RescheduledRow, RowType
<1>3. ASSUME NEW w \in Workers, LoopStep(w), ~Resolve(w)
      PROVE  parked' \subseteq parked
  BY <1>3 DEF LoopStep, BeginTick, ClaimNothing, ClaimDispatch, ClaimPoison, ClaimRow, SettleAborted, Settle, history
<1>4. ASSUME NEW w \in Workers, FaultStep(w), ~\E executed \in BOOLEAN : ResolveError(w, executed)
      PROVE  parked' \subseteq parked
  BY <1>4 DEF FaultStep, ClaimError, Crash, Stop, ClaimReplyLost, ClaimRow, BeatFails, history
<1>5. ASSUME NEW w \in Workers, Resolve(w) \/ \E executed \in BOOLEAN : ResolveError(w, executed)
      PROVE  Goal
  <2>1. pc[w] = "resolve" /\ (ResolveRow(w) \/ parked' = parked)
    BY <1>5 DEF Resolve, ResolveError
  <2> HIDE DEF Goal
  <2> QED
    BY <1>1, <1>2, <2>1
<1>6. ASSUME NEW w \in Workers, Beat(w) \/ BeatLands(w) \/ Restart(w) \/ Exit(w)
      PROVE  parked' \subseteq parked
  BY <1>6 DEF Beat, BeatLands, Restart, Exit, history
<1>7. ASSUME Tick \/ (\E e \in Events : Enqueue(e)) \/ UNCHANGED vars
      PROVE  parked' \subseteq parked
  BY <1>7 DEF Tick, Enqueue, vars, history
<1> HIDE DEF Goal
<1>8. Goal
  BY <1>1, <1>3, <1>4, <1>5, <1>6, <1>7 DEF Next
<1> QED
  BY <1>8 DEF Goal

LEMMA ParkedStaleNext ==
  ASSUME TypeOK, Unborn, SingleOwner, BeatBehind, ParkedStale, [Next]_vars
  PROVE  ParkedStale'
<1>0. \A w \in Workers : /\ job[w] # NULL => job[w].row \in Rows /\ job[w].fence \in Nat
                         /\ beat[w] # NULL => beat[w].row \in Rows /\ beat[w].fence \in Nat
  BY DEF TypeOK, JobType
<1>1. ASSUME NEW r \in Rows, r \in parked',
             \A w \in Workers : job[w] # NULL /\ job[w].row = r => job[w].fence < row'[r].fence,
             \A w \in Workers : beat[w] # NULL /\ beat[w].row = r => beat[w].fence < row'[r].fence
      PROVE  /\ \A w \in Workers : job'[w] # NULL /\ job'[w].row = r => job'[w].fence < row'[r].fence
             /\ \A w \in Workers : beat'[w] # NULL /\ beat'[w].row = r => beat'[w].fence < row'[r].fence
  <2>1. ASSUME NEW w \in Workers, job'[w] # NULL, job'[w].row = r
        PROVE  job'[w].fence < row'[r].fence
    <3>1. ASSUME NEW q \in Rows, ClaimDispatch(w, q)
          PROVE  FALSE
      <4>1. job'[w].row = q
        BY <3>1, ClaimTakesNewToken
      <4>2. q \notin parked'
        BY <3>1 DEF ClaimDispatch, ClaimRow
      <4> QED
        BY <1>1, <2>1, <4>1, <4>2
    <3> QED
      BY <1>1, <2>1, <3>1, JobEffects DEF JobStep
  <2>2. ASSUME NEW w \in Workers, beat'[w] # NULL, beat'[w].row = r
        PROVE  beat'[w].fence < row'[r].fence
    BY <1>1, <2>2, BeatEffects
  <2> QED
    BY <2>1, <2>2
<1>2. ASSUME NEW r \in parked, r \in parked'
      PROVE  /\ r \in Rows /\ row'[r].status = "in_progress"
             /\ \A w \in Workers : job[w] # NULL /\ job[w].row = r => job[w].fence < row'[r].fence
             /\ \A w \in Workers : beat[w] # NULL /\ beat[w].row = r => beat[w].fence < row'[r].fence
  <2>1. r \in Rows /\ row[r] \in RowType /\ row'[r] \in {row[r], [row[r] EXCEPT !.lease = Aged(@)]}
    BY <1>2, ParkedStep DEF TypeOK, Waits
  <2>2. row'[r].status = row[r].status /\ row'[r].fence = row[r].fence
    BY <2>1 DEF RowType
  <2> QED
    BY <1>2, <2>1, <2>2 DEF ParkedStale
<1>3. ASSUME NEW r \in parked' \ parked
      PROVE  /\ r \in Rows /\ row'[r].status = "in_progress"
             /\ \A w \in Workers : job[w] # NULL /\ job[w].row = r => job[w].fence < row'[r].fence
             /\ \A w \in Workers : beat[w] # NULL /\ beat[w].row = r => beat[w].fence < row'[r].fence
  <2>1. r \in Rows /\ row'[r].status = "in_progress" /\ row'[r].fence = row[r].fence + 1
    BY ParkedEntered
  <2>2. row[r].fence \in Nat
    BY <2>1 DEF TypeOK, RowType
  <2>3. \A w \in Workers : job[w] # NULL /\ job[w].row = r => job[w].fence < row'[r].fence
    BY <1>0, <2>1, <2>2 DEF SingleOwner
  <2>4. \A w \in Workers : beat[w] # NULL /\ beat[w].row = r => beat[w].fence < row'[r].fence
    BY <1>0, <2>1, <2>2 DEF BeatBehind
  <2> QED
    BY <2>1, <2>3, <2>4
<1>4. ASSUME NEW r \in parked'
      PROVE  /\ r \in Rows /\ row'[r].status = "in_progress"
             /\ \A w \in Workers : job[w] # NULL /\ job[w].row = r => job[w].fence < row'[r].fence
             /\ \A w \in Workers : beat[w] # NULL /\ beat[w].row = r => beat[w].fence < row'[r].fence
  BY <1>2, <1>3
<1> QED
  BY <1>1, <1>4 DEF ParkedStale

(* rescheduleConsumer bumps the fence: until its backoff has passed on     *)
(* some worker's clock, nothing but time moves the lease of a rescheduled  *)
(* row, late renews and late resolves included.                            *)
THEOREM BackoffHolds == Spec => BackoffKept
<1>1. Init => BeatBehind /\ ParkedStale
  BY DEF Init, BeatBehind, ParkedStale
<1>2. IInv => TypeOK /\ Unborn /\ SingleOwner
  BY DEF IInv
<1>3. IInv /\ BeatBehind /\ ParkedStale /\ [Next]_vars => BeatBehind' /\ ParkedStale'
  BY <1>2, BeatBehindNext, ParkedStaleNext
<1>4. Spec => []ParkedStale
  BY <1>1, <1>3, Invariance, PTL DEF Spec
<1>5. TypeOK /\ ParkedStale /\ [Next]_vars =>
        [\A r \in parked :
           \/ r \in parked' /\ row'[r] \in {row[r], [row[r] EXCEPT !.lease = Aged(@)]}
           \/ r \notin parked' /\ \E w \in Workers : pc[w] = "claim" /\ row[r].lease <= asOf[w]]_vars
  BY ParkedStep DEF Waits
<1> QED
  BY <1>4, <1>5, TypeCorrect, PTL DEF Spec, BackoffKept

-----------------------------------------------------------------------------
(* One call of a row in a tick                                             *)

(* A tick remembers the rows whose adapter it called, until its end.       *)
Remembered == \A w \in Workers, r \in Rows : runs[w][r] <= IF r \in taken[w] THEN 1 ELSE 0

(* w forgets the rows of the tick, and how often it called their adapters. *)
Forgets(w) ==
  /\ taken' = [taken EXCEPT ![w] = {}]
  /\ runs' = [runs EXCEPT ![w] = [r \in Rows |-> 0]]

LEMMA SlotForgets ==
  ASSUME NEW w, NextSlot(w)
  PROVE  UNCHANGED <<taken, runs>> \/ Forgets(w)
BY DEF NextSlot, EndTick, Forgets

LEMMA TickEffects ==
  ASSUME [Next]_vars
  PROVE  \/ UNCHANGED <<taken, runs>>
         \/ \E w \in Workers : Forgets(w)
         \/ \E w \in Workers, r \in Rows : ClaimDispatch(w, r)
<1>1. ASSUME NEW w \in Workers, LoopStep(w)
      PROVE  \/ UNCHANGED <<taken, runs>>
             \/ Forgets(w)
             \/ \E r \in Rows : ClaimDispatch(w, r)
  <2>1. CASE BeginTick(w) \/ \E raw \in Raw : Settle(w, raw)
    BY <2>1 DEF BeginTick, Settle, history
  <2>2. CASE Resolve(w) \/ (\E r \in Rows : ClaimPoison(w, r)) \/ (\E raw \in Raw : SettleAborted(w, raw))
    BY <2>2, SlotForgets DEF Resolve, ClaimPoison, SettleAborted
  <2>3. CASE ClaimNothing(w)
    BY <2>3 DEF ClaimNothing, EndTick, Forgets
  <2> QED
    BY <1>1, <2>1, <2>2, <2>3 DEF LoopStep
<1>2. ASSUME NEW w \in Workers, FaultStep(w)
      PROVE  UNCHANGED <<taken, runs>> \/ Forgets(w)
  <2>1. CASE ClaimError(w) \/ Crash(w) \/ \E r \in Rows : ClaimReplyLost(w, r)
    BY <2>1 DEF ClaimError, Crash, ClaimReplyLost, EndTick, Forgets
  <2>2. CASE Stop(w) \/ \E executed \in BOOLEAN : BeatFails(w, executed)
    BY <2>2 DEF Stop, BeatFails, loop, history
  <2>3. CASE \E executed \in BOOLEAN : ResolveError(w, executed)
    BY <2>3 DEF ResolveError, EndTick, Forgets
  <2> QED
    BY <1>2, <2>1, <2>2, <2>3 DEF FaultStep
<1>3. ASSUME NEW w \in Workers, Beat(w) \/ BeatLands(w) \/ Restart(w) \/ Exit(w)
      PROVE  UNCHANGED <<taken, runs>>
  BY <1>3 DEF Beat, BeatLands, Restart, Exit, loop, history
<1>4. CASE Tick \/ (\E e \in Events : Enqueue(e)) \/ UNCHANGED vars
  BY <1>4 DEF Tick, Enqueue, vars, loop, history
<1> QED
  BY <1>1, <1>2, <1>3, <1>4 DEF Next

LEMMA RememberedNext ==
  ASSUME TypeOK, Remembered, [Next]_vars
  PROVE  Remembered'
<1>1. taken \in [Workers -> SUBSET Rows] /\ runs \in [Workers -> [Rows -> Nat]]
  BY DEF TypeOK
<1>2. CASE UNCHANGED <<taken, runs>>
  BY <1>2 DEF Remembered
<1>3. ASSUME NEW w \in Workers, Forgets(w)
      PROVE  Remembered'
  <2>1. \A r \in Rows : runs'[w][r] = 0
    BY <1>1, <1>3 DEF Forgets
  <2>2. \A v \in Workers \ {w} : runs'[v] = runs[v] /\ taken'[v] = taken[v]
    BY <1>1, <1>3 DEF Forgets
  <2> QED
    BY <2>1, <2>2 DEF Remembered
<1>4. ASSUME NEW w \in Workers, NEW r \in Rows, ClaimDispatch(w, r)
      PROVE  Remembered'
  <2>1. /\ r \notin taken[w] /\ taken' = [taken EXCEPT ![w] = taken[w] \cup {r}]
        /\ runs' = [runs EXCEPT ![w][r] = @ + 1]
    BY <1>4 DEF ClaimDispatch, Claimable, Remember
  <2>2. runs[w][r] = 0
    BY <1>1, <2>1 DEF Remembered
  <2>3. runs'[w][r] = 1 /\ r \in taken'[w]
    BY <1>1, <2>1, <2>2
  <2>4. \A v \in Workers, q \in Rows : v # w \/ q # r =>
          runs'[v][q] = runs[v][q] /\ (q \in taken[v] => q \in taken'[v])
    BY <1>1, <2>1
  <2>5. ASSUME NEW v \in Workers, NEW q \in Rows
        PROVE  runs'[v][q] <= IF q \in taken'[v] THEN 1 ELSE 0
    <3>1. CASE v = w /\ q = r
      BY <2>3, <3>1
    <3>2. CASE v # w \/ q # r
      BY <1>1, <2>4, <3>2 DEF Remembered
    <3> QED
      BY <3>1, <3>2
  <2> QED
    BY <2>5 DEF Remembered
<1> QED
  BY <1>2, <1>3, <1>4, TickEffects

(* A tick starts the adapter of a row at most once, however often its      *)
(* lease expires or its retry falls due meanwhile (claimedThisTick).       *)
THEOREM CalledOncePerTick == Spec => []OncePerTick
<1>1. Init => Remembered
  <2>1. Init => \A w \in Workers, r \in Rows : runs[w][r] = 0
    BY DEF Init
  <2> QED
    BY <2>1 DEF Remembered
<1>2. TypeOK /\ Remembered /\ [Next]_vars => Remembered'
  BY RememberedNext
<1>3. TypeOK /\ Remembered => OncePerTick
  <2>1. TypeOK => \A w \in Workers, r \in Rows : runs[w][r] \in Nat
    BY DEF TypeOK
  <2> QED
    BY <2>1 DEF Remembered, OncePerTick
<1> QED
  BY <1>1, <1>2, <1>3, TypeCorrect, PTL DEF Spec

-----------------------------------------------------------------------------
(* What a tick leaves behind                                               *)

(* A tick that is not stopped and has slots left never ends between slots. *)
LEMMA SlotGoesOn ==
  ASSUME TypeOK, NEW w \in Workers, slot[w] < BatchSize, w \notin stopping,
         pc[w] \notin {"idle", "down"}, NEW v \in Workers, NextSlot(v)
  PROVE  pc'[w] # "idle"
<1>1. pc \in [Workers -> {"idle", "claim", "run", "resolve", "down"}] /\ slot[w] \in Nat /\ BatchSize \in Nat
  BY DispatchAssumption DEF TypeOK
<1>2. CASE v = w
  BY <1>1, <1>2 DEF NextSlot
<1>3. CASE v # w
  BY <1>1, <1>3 DEF NextSlot, EndTick
<1> QED
  BY <1>2, <1>3

LEMMA DrainsStep ==
  ASSUME TypeOK, [Next]_vars, NEW w \in Workers, pc[w] \notin {"idle", "down"}, pc'[w] = "idle",
         slot[w] < BatchSize, w \notin stopping, faults' = faults
  PROVE  pc[w] = "claim" /\ \A r \in Rows : ~Claimable(w, r)
<1>1. pc \in [Workers -> {"idle", "claim", "run", "resolve", "down"}] /\ faults \in Nat
  BY DEF TypeOK
<1>2. ~Fault
  BY <1>1 DEF Fault
<1>3. \A v \in Workers : ~NextSlot(v)
  BY SlotGoesOn
<1>4. ASSUME NEW v \in Workers, LoopStep(v)
      PROVE  v = w /\ ClaimNothing(w)
  <2>1. CASE ClaimNothing(v)
    BY <1>1, <1>4, <2>1 DEF ClaimNothing, EndTick
  <2>2. CASE BeginTick(v)
    BY <1>1, <1>4, <2>2 DEF BeginTick
  <2>3. CASE \E r \in Rows : ClaimDispatch(v, r)
    BY <1>1, <1>4, <2>3 DEF ClaimDispatch
  <2>4. CASE \E raw \in Raw : Settle(v, raw)
    BY <1>1, <1>4, <2>4 DEF Settle
  <2>5. CASE Resolve(v) \/ (\E r \in Rows : ClaimPoison(v, r)) \/ (\E raw \in Raw : SettleAborted(v, raw))
    BY <1>3, <1>4, <2>5 DEF Resolve, ClaimPoison, SettleAborted
  <2> QED
    BY <1>4, <2>1, <2>2, <2>3, <2>4, <2>5 DEF LoopStep
<1>5. \A v \in Workers : ~FaultStep(v)
  BY <1>2 DEF FaultStep, ClaimError, Crash, Stop, ClaimReplyLost, BeatFails, ResolveError
<1>6. ASSUME NEW v \in Workers PROVE ~Beat(v) /\ ~BeatLands(v) /\ ~Restart(v) /\ ~Exit(v)
  BY <1>1, <1>6 DEF Beat, BeatLands, Restart, Exit, loop
<1>7. ~Tick /\ (\A e \in Events : ~Enqueue(e)) /\ ~UNCHANGED vars
  BY DEF Tick, Enqueue, vars, loop
<1>8. ClaimNothing(w)
  BY <1>4, <1>5, <1>6, <1>7 DEF Next
<1> QED
  BY <1>8 DEF ClaimNothing

(* A tick that is neither stopped nor hit by a fault ends with slots left  *)
(* only when the store holds nothing more that it may claim: a row that is *)
(* poisoned at claim costs its slot and no more.                           *)
THEOREM TicksDrain == Spec => TickDrains
<1>1. TypeOK /\ [Next]_vars =>
        [\A w \in Workers :
           pc[w] \notin {"idle", "down"} /\ pc'[w] = "idle" /\ slot[w] < BatchSize
             /\ w \notin stopping /\ faults' = faults
           => pc[w] = "claim" /\ \A r \in Rows : ~Claimable(w, r)]_vars
  BY DrainsStep
<1> QED
  BY <1>1, TypeCorrect, PTL DEF Spec, TickDrains
=============================================================================
