----------------------- MODULE ExecutionRetry_proofs -----------------------
(***************************************************************************)
(* Proofs about ExecutionRetry, for any rule, any number of executions and *)
(* of faults, and any depth of the lineage walk: what is claimed happens   *)
(* once, and a success stands for what it says.                            *)
(***************************************************************************)
EXTENDS ExecutionRetry, SequenceTheorems, WellFoundedInduction, TLAPS

Started(e) == run[e].pc # "idle"
StepKey(e, a) == <<run[e].root, a>>
Requested(k) == \E s \in sends : StepKey(s.by, s.action) = k

(* The claims of class A: each stands for one commit, and each commit has  *)
(* its own; only an update passes over a record that is not there.         *)
Claims ==
  /\ \A k \in applied : \E w \in commits : StepKey(w[1], w[2]) = k
  /\ \A w \in commits : Started(w[1]) /\ StepKey(w[1], w[2]) \in applied
  /\ \A v, w \in commits : StepKey(v[1], v[2]) = StepKey(w[1], w[2]) => v = w
  /\ \A w \in missed : Kinds[w[2]] = "update"

(* The intents of class B, whoever runs beside whom.                       *)
Intents ==
  /\ \A e \in Execs : run[e].pc \in {"consult", "flip", "send", "record"}
       => intent[Key(e)] # "none" /\ Kinds[run[e].action] \in Outbound
  /\ \A e \in Execs : /\ run[e].pc = "flip" => run[e].seen \in {"pending", "failed"}
                      /\ run[e].pc = "record" => run[e].seen \in Settled \cup {"failed"}
  /\ \A s \in sends : Started(s.by) /\ intent[StepKey(s.by, s.action)] # "none"
  /\ \A k \in Keys : intent[k] = "sent"
       => \E s \in sends : s.delivered /\ StepKey(s.by, s.action) = k
  /\ \A e \in Execs : run[e].pc = "record" /\ run[e].seen = "sent"
       => \E s \in sends : s.delivered /\ StepKey(s.by, s.action) = Key(e)
  /\ \A k \in Keys : intent[k] = "failed" => Requested(k)
  /\ \A e \in Execs : run[e].pc = "record" => Requested(Key(e))

(* An email is never found or left retryable, so only the run that wrote   *)
(* its intent hands it over.                                               *)
Emails ==
  /\ \A k \in Keys : Kinds[k[2]] = "email" => intent[k] # "failed"
  /\ \A e \in Execs : run[e].pc \in {"flip", "record"} /\ Kinds[run[e].action] = "email"
       => run[e].seen # "failed"
  /\ \A e, f \in Execs :
       run[e].pc = "send" /\ run[f].pc = "send" /\ Key(e) = Key(f) /\ Kinds[run[e].action] = "email" => e = f
  /\ \A e \in Execs, s \in sends :
       run[e].pc = "send" /\ Kinds[run[e].action] = "email" => StepKey(s.by, s.action) # Key(e)
  /\ \A s, t \in sends :
       Kinds[s.action] = "email" /\ StepKey(s.by, s.action) = StepKey(t.by, t.action) => s = t

(* While no two runs have been under way at once, what a run has read of   *)
(* an intent is still true, and what was delivered is not retryable.       *)
Alone ==
  ~ overlapped =>
    /\ \A e, f \in Execs : run[e].pc \notin Stopped /\ run[f].pc \notin Stopped => e = f
    /\ \A e \in Execs : /\ run[e].pc = "flip" => intent[Key(e)] = run[e].seen
                        /\ run[e].pc \in {"send", "record"} => intent[Key(e)] = "pending"
    /\ \A s \in sends : s.delivered =>
         /\ intent[StepKey(s.by, s.action)] # "failed"
         /\ \A e \in Execs : Key(e) = StepKey(s.by, s.action)
              => run[e].pc # "send" /\ (run[e].pc = "record" => run[e].seen # "failed")
    /\ \A s, t \in sends :
         s.delivered /\ t.delivered /\ StepKey(s.by, s.action) = StepKey(t.by, t.action) => s = t

(* A step that was passed took effect, or is on record as ambiguous.       *)
Explained(e, root, a) ==
  IF Kinds[a] \in Records THEN \E w \in commits : StepKey(w[1], w[2]) = <<root, a>>
  ELSE \/ intent[<<root, a>>] = "outcome_unknown"
       \/ \E s \in sends : (s.delivered \/ <<e, a>> \in stale) /\ StepKey(s.by, s.action) = <<root, a>>
Passed ==
  \A e \in Execs : Started(e) =>
    /\ \A a \in Actions : a < run[e].action \/ run[e].status = "success" => Explained(e, run[e].root, a)
    /\ log[e].status = "success" => \A a \in Actions : Explained(e, run[e].root, a)

(* The executions of the lineage form a tree, stored as it is; runs within *)
(* the reach of the walk carry its root.                                   *)
Stored(e) == log[e].status # "none"
Tree ==
  /\ Started(First) /\ run[First].parent = NoParent /\ run[First].root = First
  /\ \A e \in Execs : Started(e) => \A f \in 1 .. e : Started(f)
  /\ \A e \in Execs : Started(e) /\ e # First
       => run[e].parent \in 1 .. e - 1 /\ Stored(run[e].parent)
  /\ \A e \in Execs : /\ log[e].parent = IF Stored(e) THEN run[e].parent ELSE NoParent
                      /\ Stored(e) => Started(e)
                      /\ run[e].pc = "persist" => run[e].status # "none"
Rooted == \A e \in Execs : Started(e) /\ InReach(e) => run[e].root = First
RetryInv == RetryTypeOK /\ Claims /\ Intents /\ Emails /\ Alone /\ Passed /\ Tree /\ Rooted

-----------------------------------------------------------------------------
(* Induction over the natural numbers, for a set.                          *)
Below == {p \in Nat \X Nat : p[1] < p[2]}

LEMMA BelowWellFounded == IsWellFoundedOn(Below, Nat)
<1>1. OpToRel(<, Nat) = Below
  BY DEF OpToRel, Below
<1> QED
  BY <1>1, NatLessThanWellFounded

LEMMA Induction ==
  ASSUME NEW S \in SUBSET Nat, 0 \in S, \A n \in S : n + 1 \in S
  PROVE  S = Nat
<1> DEFINE T == Nat \ S
<1>1. SUFFICES ASSUME T # {} PROVE FALSE
  OBVIOUS
<1>2. PICK x \in T : \A y \in T : ~ (<<y, x>> \in Below)
  <2>1. T \subseteq Nat
    OBVIOUS
  <2> HIDE DEF T
  <2> QED
    BY <1>1, <2>1, BelowWellFounded, WFMin
<1>3. x \in Nat /\ x # 0 /\ x - 1 \in Nat /\ (x - 1) + 1 = x
  BY <1>2
<1>4. <<x - 1, x>> \in Below
  BY <1>3 DEF Below
<1> QED
  BY <1>2, <1>3, <1>4

-----------------------------------------------------------------------------
(* The walks of Ancestor and DepthOf: n steps of g from e.                 *)
IsWalk(f, g, e, n) == f = [k \in 0 .. n |-> IF k = 0 THEN e ELSE g[f[k - 1]]]

LEMMA WalkSteps ==
  ASSUME NEW f, NEW g, NEW e, NEW n \in Nat, IsWalk(f, g, e, n)
  PROVE  f[0] = e /\ \A k \in 0 .. n - 1 : f[k + 1] = g[f[k]]
<1>1. f[0] = e
  <2>1. 0 \in 0 .. n
    OBVIOUS
  <2> QED
    BY <2>1 DEF IsWalk
<1>2. ASSUME NEW k \in 0 .. n - 1 PROVE f[k + 1] = g[f[k]]
  <2>1. k + 1 \in 0 .. n /\ k + 1 # 0 /\ (k + 1) - 1 = k
    OBVIOUS
  <2>2. f[k + 1] = IF k + 1 = 0 THEN e ELSE g[f[(k + 1) - 1]]
    BY <2>1 DEF IsWalk
  <2> QED
    BY <2>1, <2>2
<1> QED
  BY <1>1, <1>2

LEMMA WalkOf ==
  ASSUME NEW f, NEW g, NEW e, NEW n \in Nat, NEW D, f \in [0 .. n -> D],
         f[0] = e, \A k \in 0 .. n - 1 : f[k + 1] = g[f[k]]
  PROVE  IsWalk(f, g, e, n)
<1>1. ASSUME NEW k \in 0 .. n PROVE f[k] = IF k = 0 THEN e ELSE g[f[k - 1]]
  <2>1. CASE k = 0
    BY <2>1
  <2>2. CASE k # 0
    <3>1. k - 1 \in 0 .. n - 1 /\ (k - 1) + 1 = k
      BY <2>2
    <3> QED
      BY <2>2, <3>1
  <2> QED
    BY <2>1, <2>2
<1> QED
  BY <1>1 DEF IsWalk

LEMMA WalkExists ==
  ASSUME NEW D, NEW g \in [D -> D], NEW e \in D, NEW n \in Nat
  PROVE  \E f \in [0 .. n -> D] : IsWalk(f, g, e, n)
<1> DEFINE S == {m \in Nat : \E f \in [0 .. m -> D] : f[0] = e /\ \A k \in 0 .. m - 1 : f[k + 1] = g[f[k]]}
<1>1. 0 \in S
  <2> DEFINE f == [k \in 0 .. 0 |-> e]
  <2>1. f \in [0 .. 0 -> D] /\ f[0] = e
    OBVIOUS
  <2>2. \A k \in 0 .. 0 - 1 : FALSE
    OBVIOUS
  <2> QED
    BY <2>1, <2>2
<1>2. ASSUME NEW m \in S PROVE m + 1 \in S
  <2>1. PICK f \in [0 .. m -> D] : f[0] = e /\ \A k \in 0 .. m - 1 : f[k + 1] = g[f[k]]
    OBVIOUS
  <2> DEFINE h == [k \in 0 .. m + 1 |-> IF k = m + 1 THEN g[f[m]] ELSE f[k]]
  <2>2. m \in Nat /\ m \in 0 .. m /\ 0 \in 0 .. m + 1 /\ m + 1 \in 0 .. m + 1 /\ m + 1 # 0
    OBVIOUS
  <2>3. h \in [0 .. m + 1 -> D]
    <3>1. \A k \in 0 .. m + 1 : k # m + 1 => k \in 0 .. m
      BY <2>2
    <3> QED
      BY <2>1, <2>2, <3>1
  <2>4. h[0] = e /\ h[m + 1] = g[f[m]]
    BY <2>1, <2>2
  <2>5. \A k \in 0 .. m : h[k] = f[k]
    <3>1. \A k \in 0 .. m : k \in 0 .. m + 1 /\ k # m + 1
      BY <2>2
    <3> QED
      BY <3>1
  <2> HIDE DEF h
  <2>6. ASSUME NEW k \in 0 .. (m + 1) - 1 PROVE h[k + 1] = g[h[k]]
    <3>1. CASE k = m
      BY <2>2, <2>4, <2>5, <3>1
    <3>2. CASE k # m
      <4>1. k \in 0 .. m - 1 /\ k \in 0 .. m /\ k + 1 \in 0 .. m
        BY <2>2, <3>2
      <4> QED
        BY <2>1, <2>5, <4>1
    <3> QED
      BY <3>1, <3>2
  <2> QED
    BY <2>2, <2>3, <2>4, <2>6
<1>3. S = Nat
  <2>1. S \in SUBSET Nat
    OBVIOUS
  <2> HIDE DEF S
  <2> QED
    BY <1>1, <1>2, <2>1, Induction
<1>4. PICK f \in [0 .. n -> D] : f[0] = e /\ \A k \in 0 .. n - 1 : f[k + 1] = g[f[k]]
  BY <1>3
<1> QED
  BY <1>4, WalkOf

(* A walk goes on from its first step as the walk from there.              *)
LEMMA WalkShift ==
  ASSUME NEW f, NEW h, NEW g, NEW e, NEW d, NEW n \in Nat, NEW m \in Nat, d = g[e],
         IsWalk(f, g, e, n), IsWalk(h, g, d, m)
  PROVE  \A k \in 0 .. m : k + 1 <= n => f[k + 1] = h[k]
<1> DEFINE S == {k \in Nat : k <= m /\ k + 1 <= n => f[k + 1] = h[k]}
<1>1. /\ f[0] = e /\ \A k \in 0 .. n - 1 : f[k + 1] = g[f[k]]
      /\ h[0] = d /\ \A k \in 0 .. m - 1 : h[k + 1] = g[h[k]]
  BY WalkSteps
<1>2. 0 \in S
  <2>1. ASSUME 0 + 1 <= n PROVE f[0 + 1] = h[0]
    <3>1. 0 \in 0 .. n - 1
      BY <2>1
    <3> QED
      BY <1>1, <3>1
  <2> QED
    BY <2>1
<1>3. ASSUME NEW k \in S PROVE k + 1 \in S
  <2>1. ASSUME k + 1 <= m, (k + 1) + 1 <= n PROVE f[(k + 1) + 1] = h[k + 1]
    <3>1. k \in Nat /\ k <= m /\ k + 1 <= n /\ k + 1 \in 0 .. n - 1 /\ k \in 0 .. m - 1
      BY <2>1
    <3>2. f[k + 1] = h[k]
      BY <3>1
    <3> QED
      BY <1>1, <3>1, <3>2
  <2> QED
    BY <2>1
<1>4. S = Nat
  <2>1. S \in SUBSET Nat
    OBVIOUS
  <2> HIDE DEF S
  <2> QED
    BY <1>2, <1>3, <2>1, Induction
<1> QED
  BY <1>4

(* What the model's recursive functions compute. *)
Above == [x \in Execs |-> IF log[x].parent = NoParent THEN x ELSE log[x].parent]
Up == [x \in Execs \cup {NoParent} |-> IF x = NoParent THEN NoParent ELSE run[x].parent]

LEMMA AncestorWalk ==
  ASSUME \A x \in Execs : log[x].parent \in Execs \cup {NoParent}, NEW e \in Execs, NEW n \in Nat
  PROVE  \E f \in [0 .. n -> Execs] : IsWalk(f, Above, e, n) /\ Ancestor(e, n) = f[n]
<1> DEFINE IsUp(f) == f = [k \in 0 .. n |-> IF k = 0 THEN e
                                           ELSE IF log[f[k - 1]].parent = NoParent THEN f[k - 1]
                                                ELSE log[f[k - 1]].parent]
           up == CHOOSE f : IsUp(f)
<1>1. Above \in [Execs -> Execs]
  BY DEF Above
<1>2. PICK f \in [0 .. n -> Execs] : IsWalk(f, Above, e, n)
  BY <1>1, WalkExists
<1>3. IsUp(f)
  <2>1. ASSUME NEW k \in 0 .. n
        PROVE  f[k] = IF k = 0 THEN e ELSE IF log[f[k - 1]].parent = NoParent THEN f[k - 1] ELSE log[f[k - 1]].parent
    <3>1. f[k] = IF k = 0 THEN e ELSE Above[f[k - 1]]
      BY <1>2 DEF IsWalk
    <3>2. k # 0 => k - 1 \in 0 .. n
      OBVIOUS
    <3>3. k # 0 => f[k - 1] \in Execs
      BY <3>2
    <3> QED
      BY <3>1, <3>3 DEF Above
  <2> QED
    BY <2>1
<1>4. IsUp(up)
  BY <1>3
<1>5. Ancestor(e, n) = up[n]
  BY DEF Ancestor
<1> HIDE DEF up
<1>6. up[0] = e /\ \A k \in 0 .. n - 1 : up[k + 1] = IF log[up[k]].parent = NoParent THEN up[k] ELSE log[up[k]].parent
  <2>1. up[0] = e
    <3>1. 0 \in 0 .. n
      OBVIOUS
    <3> QED
      BY <1>4, <3>1
  <2>2. ASSUME NEW k \in 0 .. n - 1
        PROVE  up[k + 1] = IF log[up[k]].parent = NoParent THEN up[k] ELSE log[up[k]].parent
    <3>1. k + 1 \in 0 .. n /\ k + 1 # 0 /\ (k + 1) - 1 = k
      OBVIOUS
    <3>2. up[k + 1] = IF k + 1 = 0 THEN e
                      ELSE IF log[up[(k + 1) - 1]].parent = NoParent THEN up[(k + 1) - 1]
                           ELSE log[up[(k + 1) - 1]].parent
      BY <1>4, <3>1
    <3> QED
      BY <3>1, <3>2
  <2> QED
    BY <2>1, <2>2
<1>7. \A k \in 0 .. n : up[k] \in Execs
  <2> DEFINE S == {k \in Nat : k <= n => up[k] \in Execs}
  <2>1. 0 \in S
    BY <1>6
  <2>2. ASSUME NEW k \in S PROVE k + 1 \in S
    <3>1. ASSUME k + 1 <= n PROVE up[k + 1] \in Execs
      <4>1. k \in 0 .. n - 1 /\ up[k] \in Execs
        BY <3>1
      <4> QED
        BY <1>6, <4>1
    <3> QED
      BY <3>1
  <2>3. S = Nat
    <3>1. S \in SUBSET Nat
      OBVIOUS
    <3> HIDE DEF S
    <3> QED
      BY <2>1, <2>2, <3>1, Induction
  <2> QED
    BY <2>3
<1>8. up \in [0 .. n -> Execs]
  <2>1. up = [k \in 0 .. n |-> up[k]]
    BY <1>4
  <2> QED
    BY <1>7, <2>1
<1>9. \A k \in 0 .. n - 1 : up[k + 1] = Above[up[k]]
  <2>1. \A k \in 0 .. n - 1 : k \in 0 .. n
    OBVIOUS
  <2> QED
    BY <1>6, <1>7, <2>1 DEF Above
<1>10. IsWalk(up, Above, e, n)
  BY <1>6, <1>8, <1>9, WalkOf
<1> QED
  BY <1>5, <1>8, <1>10

LEMMA DepthWalk ==
  ASSUME \A x \in Execs : run[x].parent \in Execs \cup {NoParent}, NEW e \in Execs
  PROVE  \E f \in [0 .. MaxRuns -> Execs \cup {NoParent}] :
           IsWalk(f, Up, e, MaxRuns) /\ DepthOf(e) = CHOOSE n \in 0 .. MaxRuns : f[n] = First
<1> DEFINE IsUp(f) == f = [k \in 0 .. MaxRuns |-> IF k = 0 THEN e
                                                 ELSE IF f[k - 1] = NoParent THEN NoParent ELSE ParentOf(f[k - 1])]
           up == CHOOSE f : IsUp(f)
           D == Execs \cup {NoParent}
<1>1. Up \in [D -> D] /\ MaxRuns \in Nat /\ e \in D
  BY RunsAssumption DEF Up
<1>2. PICK f \in [0 .. MaxRuns -> D] : IsWalk(f, Up, e, MaxRuns)
  <2> HIDE DEF D
  <2> QED
    BY <1>1, WalkExists
<1>3. IsUp(f)
  <2>1. ASSUME NEW k \in 0 .. MaxRuns
        PROVE  f[k] = IF k = 0 THEN e ELSE IF f[k - 1] = NoParent THEN NoParent ELSE ParentOf(f[k - 1])
    <3>1. f[k] = IF k = 0 THEN e ELSE Up[f[k - 1]]
      BY <1>2 DEF IsWalk
    <3>2. k # 0 => k - 1 \in 0 .. MaxRuns
      BY <1>1
    <3>3. k # 0 => f[k - 1] \in D
      BY <3>2
    <3> QED
      BY <3>1, <3>3 DEF Up, ParentOf
  <2> QED
    BY <2>1
<1>4. IsUp(up)
  BY <1>3
<1>5. DepthOf(e) = CHOOSE n \in 0 .. MaxRuns : up[n] = First
  BY DEF DepthOf
<1> HIDE DEF up
<1>6. /\ up[0] = e
      /\ \A k \in 0 .. MaxRuns - 1 : up[k + 1] = IF up[k] = NoParent THEN NoParent ELSE run[up[k]].parent
  <2>1. up[0] = e
    <3>1. 0 \in 0 .. MaxRuns
      BY <1>1
    <3> QED
      BY <1>4, <3>1
  <2>2. ASSUME NEW k \in 0 .. MaxRuns - 1
        PROVE  up[k + 1] = IF up[k] = NoParent THEN NoParent ELSE run[up[k]].parent
    <3>1. k + 1 \in 0 .. MaxRuns /\ k + 1 # 0 /\ (k + 1) - 1 = k
      BY <1>1
    <3>2. up[k + 1] = IF k + 1 = 0 THEN e
                      ELSE IF up[(k + 1) - 1] = NoParent THEN NoParent ELSE ParentOf(up[(k + 1) - 1])
      BY <1>4, <3>1
    <3> QED
      BY <3>1, <3>2 DEF ParentOf
  <2> QED
    BY <2>1, <2>2
<1>7. \A k \in 0 .. MaxRuns : up[k] \in D
  <2> DEFINE S == {k \in Nat : k <= MaxRuns => up[k] \in D}
  <2>1. 0 \in S
    BY <1>1, <1>6
  <2>2. ASSUME NEW k \in S PROVE k + 1 \in S
    <3>1. ASSUME k + 1 <= MaxRuns PROVE up[k + 1] \in D
      <4>1. k \in 0 .. MaxRuns - 1 /\ up[k] \in D
        BY <1>1, <3>1
      <4> QED
        BY <1>6, <4>1
    <3> QED
      BY <3>1
  <2>3. S = Nat
    <3>1. S \in SUBSET Nat
      OBVIOUS
    <3> HIDE DEF S
    <3> QED
      BY <2>1, <2>2, <3>1, Induction
  <2> QED
    BY <1>1, <2>3
<1>8. up \in [0 .. MaxRuns -> D]
  <2>1. up = [k \in 0 .. MaxRuns |-> up[k]]
    BY <1>4
  <2> QED
    BY <1>7, <2>1
<1>9. \A k \in 0 .. MaxRuns - 1 : up[k + 1] = Up[up[k]]
  <2>1. \A k \in 0 .. MaxRuns - 1 : k \in 0 .. MaxRuns
    BY <1>1
  <2> QED
    BY <1>6, <1>7, <2>1 DEF Up
<1>10. IsWalk(up, Up, e, MaxRuns)
  <2> HIDE DEF D
  <2> QED
    BY <1>1, <1>6, <1>8, <1>9, WalkOf
<1> QED
  BY <1>5, <1>8, <1>10

-----------------------------------------------------------------------------
(* The depth of an execution is one more than that of the one it retries.  *)
Parents == \A x \in Execs : run[x].parent \in Execs \cup {NoParent}
Reaches(e, m) ==
  \E f \in [0 .. MaxRuns -> Execs \cup {NoParent}] : IsWalk(f, Up, e, MaxRuns) /\ f[m] = First

LEMMA ExecNumbers ==
  /\ MaxRuns \in Nat /\ MaxRuns >= 1 /\ LineageDepth \in Nat /\ LineageDepth >= 1
  /\ First \in Execs /\ NoParent \notin Execs /\ \A e \in Execs : e \in Nat /\ e >= 1 /\ e <= MaxRuns
BY RunsAssumption DEF Execs, First, NoParent

LEMMA UpType ==
  ASSUME Parents
  PROVE  Up \in [Execs \cup {NoParent} -> Execs \cup {NoParent}] /\ Up[NoParent] = NoParent
BY DEF Up, Parents

LEMMA WalkUnique ==
  ASSUME NEW f, NEW h, NEW g, NEW e, NEW n \in Nat, IsWalk(f, g, e, n), IsWalk(h, g, e, n)
  PROVE  \A k \in 0 .. n : f[k] = h[k]
<1> DEFINE S == {k \in Nat : k <= n => f[k] = h[k]}
<1>1. /\ f[0] = e /\ \A k \in 0 .. n - 1 : f[k + 1] = g[f[k]]
      /\ h[0] = e /\ \A k \in 0 .. n - 1 : h[k + 1] = g[h[k]]
  BY WalkSteps
<1>2. 0 \in S
  BY <1>1
<1>3. ASSUME NEW k \in S PROVE k + 1 \in S
  <2>1. ASSUME k + 1 <= n PROVE f[k + 1] = h[k + 1]
    <3>1. k \in 0 .. n - 1 /\ f[k] = h[k]
      BY <2>1
    <3> QED
      BY <1>1, <3>1
  <2> QED
    BY <2>1
<1>4. S = Nat
  <2>1. S \in SUBSET Nat
    OBVIOUS
  <2> HIDE DEF S
  <2> QED
    BY <1>2, <1>3, <2>1, Induction
<1> QED
  BY <1>4

(* Above the first execution there is nothing: it is met once. *)
LEMMA FirstOnce ==
  ASSUME Parents, run[First].parent = NoParent, NEW e, NEW f, IsWalk(f, Up, e, MaxRuns),
         NEW m \in 0 .. MaxRuns, f[m] = First, NEW k \in 0 .. MaxRuns, m < k
  PROVE  f[k] = NoParent
<1> DEFINE S == {j \in Nat : (m + 1) + j <= MaxRuns => f[(m + 1) + j] = NoParent}
<1>1. MaxRuns \in Nat /\ \A i \in 0 .. MaxRuns - 1 : f[i + 1] = Up[f[i]]
  BY ExecNumbers, WalkSteps
<1>2. Up[First] = NoParent /\ Up[NoParent] = NoParent
  BY UpType, ExecNumbers DEF Up
<1>3. 0 \in S
  <2>1. ASSUME (m + 1) + 0 <= MaxRuns PROVE f[(m + 1) + 0] = NoParent
    <3>1. m \in 0 .. MaxRuns - 1 /\ (m + 1) + 0 = m + 1
      BY <1>1, <2>1
    <3> QED
      BY <1>1, <1>2, <3>1
  <2> QED
    BY <2>1
<1>4. ASSUME NEW j \in S PROVE j + 1 \in S
  <2>1. ASSUME (m + 1) + (j + 1) <= MaxRuns PROVE f[(m + 1) + (j + 1)] = NoParent
    <3>1. /\ (m + 1) + j \in 0 .. MaxRuns - 1 /\ ((m + 1) + j) + 1 = (m + 1) + (j + 1)
          /\ f[(m + 1) + j] = NoParent
      BY <1>1, <2>1
    <3> QED
      BY <1>1, <1>2, <3>1
  <2> QED
    BY <2>1
<1>5. S = Nat
  <2>1. S \in SUBSET Nat
    OBVIOUS
  <2> HIDE DEF S
  <2> QED
    BY <1>3, <1>4, <2>1, Induction
<1>6. m \in Int /\ k \in Int /\ m < k /\ k <= MaxRuns
  BY <1>1
<1>7. PICK j \in Nat : (m + 1) + j = k
  <2>1. k - (m + 1) \in Nat /\ (m + 1) + (k - (m + 1)) = k
    BY <1>6
  <2> QED
    BY <2>1
<1> QED
  BY <1>5, <1>6, <1>7

LEMMA DepthIs ==
  ASSUME Parents, run[First].parent = NoParent, NEW e \in Execs, NEW m \in 0 .. MaxRuns, Reaches(e, m)
  PROVE  DepthOf(e) = m
<1>1. PICK f \in [0 .. MaxRuns -> Execs \cup {NoParent}] :
        IsWalk(f, Up, e, MaxRuns) /\ DepthOf(e) = CHOOSE n \in 0 .. MaxRuns : f[n] = First
  BY DepthWalk DEF Parents
<1>2. PICK h : IsWalk(h, Up, e, MaxRuns) /\ h[m] = First
  BY DEF Reaches
<1>3. f[m] = First
  BY <1>1, <1>2, WalkUnique, ExecNumbers
<1>4. \A n \in 0 .. MaxRuns : f[n] = First => n = m
  <2>1. ASSUME NEW n \in 0 .. MaxRuns, f[n] = First, n # m PROVE FALSE
    <3>1. CASE m < n
      BY <1>1, <1>3, <2>1, <3>1, FirstOnce, ExecNumbers
    <3>2. CASE n < m
      BY <1>1, <1>3, <2>1, <3>2, FirstOnce, ExecNumbers
    <3> QED
      BY <2>1, <3>1, <3>2, ExecNumbers
  <2> QED
    BY <2>1
<1> QED
  BY <1>1, <1>3, <1>4

LEMMA ReachFirst ==
  ASSUME Parents
  PROVE  Reaches(First, 0)
<1>1. PICK f \in [0 .. MaxRuns -> Execs \cup {NoParent}] : IsWalk(f, Up, First, MaxRuns)
  BY UpType, WalkExists, ExecNumbers
<1>2. f[0] = First
  BY <1>1, WalkSteps, ExecNumbers
<1> QED
  BY <1>1, <1>2 DEF Reaches

LEMMA ReachStep ==
  ASSUME Parents, NEW e \in Execs, run[e].parent \in Execs, NEW m \in 0 .. MaxRuns - 1,
         Reaches(run[e].parent, m)
  PROVE  Reaches(e, m + 1)
<1>1. PICK h \in [0 .. MaxRuns -> Execs \cup {NoParent}] :
        IsWalk(h, Up, run[e].parent, MaxRuns) /\ h[m] = First
  BY DEF Reaches
<1>2. PICK f \in [0 .. MaxRuns -> Execs \cup {NoParent}] : IsWalk(f, Up, e, MaxRuns)
  BY UpType, WalkExists, ExecNumbers
<1>3. run[e].parent = Up[e]
  BY ExecNumbers DEF Up
<1>4. f[m + 1] = h[m]
  <2>1. m \in 0 .. MaxRuns /\ m + 1 <= MaxRuns /\ MaxRuns \in Nat
    BY ExecNumbers
  <2> QED
    BY <1>1, <1>2, <1>3, <2>1, WalkShift
<1> QED
  BY <1>1, <1>2, <1>4 DEF Reaches

LEMMA TreeReaches ==
  ASSUME Parents, Tree
  PROVE  \A x \in Execs : Started(x) => \E m \in 0 .. x - 1 : Reaches(x, m)
<1> DEFINE Good(x) == \E m \in 0 .. x - 1 : Reaches(x, m)
           S == {n \in Nat : \A x \in Execs : x <= n /\ Started(x) => Good(x)}
<1>1. 0 \in S
  BY ExecNumbers
<1>2. ASSUME NEW n \in S PROVE n + 1 \in S
  <2>1. ASSUME NEW x \in Execs, x <= n + 1, Started(x) PROVE Good(x)
    <3>1. CASE x = First
      BY <3>1, ReachFirst DEF First
    <3>2. CASE x # First
      <4> DEFINE p == run[x].parent
      <4>1. p \in 1 .. x - 1 /\ p \in Execs /\ x \in Nat /\ x <= MaxRuns /\ MaxRuns \in Nat
        BY <2>1, <3>2, ExecNumbers DEF Tree, Execs
      <4>2. Started(p)
        BY <2>1, <4>1 DEF Tree
      <4>3. p <= n
        BY <2>1, <4>1
      <4>4. PICK m \in 0 .. p - 1 : Reaches(p, m)
        BY <4>1, <4>2, <4>3
      <4>5. m \in 0 .. MaxRuns - 1 /\ m + 1 \in 0 .. x - 1
        BY <4>1
      <4>6. Reaches(x, m + 1)
        BY <4>1, <4>4, <4>5, ReachStep
      <4> QED
        BY <4>5, <4>6
    <3> QED
      BY <3>1, <3>2
  <2> QED
    BY <2>1
<1>3. S = Nat
  <2>1. S \in SUBSET Nat
    OBVIOUS
  <2> HIDE DEF S
  <2> QED
    BY <1>1, <1>2, <2>1, Induction
<1> QED
  BY <1>3, ExecNumbers

Depths ==
  /\ DepthOf(First) = 0
  /\ \A x \in Execs : Started(x) =>
       /\ DepthOf(x) \in Nat
       /\ x # First => /\ run[x].parent \in Execs /\ Started(run[x].parent) /\ run[x].parent < x
                       /\ DepthOf(x) = DepthOf(run[x].parent) + 1

LEMMA DepthFacts == Parents /\ Tree => Depths
<1> SUFFICES ASSUME Parents, Tree PROVE Depths
  OBVIOUS
<1>1. run[First].parent = NoParent
  BY DEF Tree
<1>2. DepthOf(First) = 0
  BY <1>1, ReachFirst, DepthIs, ExecNumbers
<1>3. ASSUME NEW x \in Execs, Started(x) PROVE DepthOf(x) \in Nat
  <2>1. PICK m \in 0 .. x - 1 : Reaches(x, m)
    BY <1>3, TreeReaches
  <2>2. m \in 0 .. MaxRuns
    BY <2>1, ExecNumbers
  <2> QED
    BY <1>1, <2>1, <2>2, DepthIs
<1>4. ASSUME NEW x \in Execs, Started(x), x # First
      PROVE  /\ run[x].parent \in Execs /\ Started(run[x].parent) /\ run[x].parent < x
             /\ DepthOf(x) = DepthOf(run[x].parent) + 1
  <2> DEFINE p == run[x].parent
  <2>1. p \in 1 .. x - 1 /\ p \in Execs /\ x \in Nat /\ x <= MaxRuns /\ MaxRuns \in Nat
    BY <1>4, ExecNumbers DEF Tree, Execs
  <2>2. Started(p) /\ p < x
    BY <1>4, <2>1 DEF Tree
  <2>3. PICK m \in 0 .. p - 1 : Reaches(p, m)
    BY <2>1, <2>2, TreeReaches
  <2>4. m \in 0 .. MaxRuns - 1 /\ m \in 0 .. MaxRuns /\ m + 1 \in 0 .. MaxRuns
    BY <2>1
  <2>5. Reaches(x, m + 1)
    BY <2>1, <2>3, <2>4, ReachStep
  <2>6. DepthOf(p) = m /\ DepthOf(x) = m + 1
    BY <1>1, <2>1, <2>3, <2>4, <2>5, DepthIs
  <2> QED
    BY <2>1, <2>2, <2>6
<1> QED
  BY <1>2, <1>3, <1>4 DEF Depths

(* The depths of the executions started do not change. *)
LEMMA DepthKept ==
  ASSUME Parents, Tree, Parents', Tree',
         \A x \in Execs : Started(x) => Started(x)' /\ run'[x].parent = run[x].parent
  PROVE  \A x \in Execs : Started(x) => DepthOf(x)' = DepthOf(x)
<1>1. Depths /\ Depths'
  BY DepthFacts, PTL
<1> DEFINE S == {n \in Nat : \A x \in Execs : x <= n /\ Started(x) => DepthOf(x)' = DepthOf(x)}
<1>2. 0 \in S
  BY ExecNumbers
<1>3. ASSUME NEW n \in S PROVE n + 1 \in S
  <2>1. ASSUME NEW x \in Execs, x <= n + 1, Started(x) PROVE DepthOf(x)' = DepthOf(x)
    <3>1. CASE x = First
      BY <1>1, <3>1 DEF Depths
    <3>2. CASE x # First
      <4>1. PICK p \in Execs : p = run[x].parent /\ Started(p) /\ p < x /\ DepthOf(x) = DepthOf(p) + 1
        BY <1>1, <2>1, <3>2 DEF Depths
      <4>2. run'[x].parent = p /\ Started(x)'
        BY <2>1, <4>1
      <4>3. p <= n
        BY <2>1, <4>1, ExecNumbers
      <4>4. DepthOf(p)' = DepthOf(p)
        BY <4>1, <4>3
      <4>5. DepthOf(x)' = DepthOf(p)' + 1
        BY <1>1, <2>1, <3>2, <4>2 DEF Depths
      <4> QED
        BY <4>1, <4>4, <4>5
    <3> QED
      BY <3>1, <3>2
  <2> QED
    BY <2>1
<1>4. S = Nat
  <2>1. S \in SUBSET Nat
    OBVIOUS
  <2> HIDE DEF S
  <2> QED
    BY <1>2, <1>3, <2>1, Induction
<1> QED
  BY <1>4, ExecNumbers

-----------------------------------------------------------------------------
(* The walk of retryExecution finds the first execution from every stored  *)
(* one that is near enough.                                                *)
LogParents == \A x \in Execs : log[x].parent \in Execs \cup {NoParent}

LEMMA AncestorType ==
  ASSUME LogParents, NEW e \in Execs, NEW n \in Nat
  PROVE  Ancestor(e, n) \in Execs
<1>1. PICK f \in [0 .. n -> Execs] : Ancestor(e, n) = f[n]
  BY AncestorWalk DEF LogParents
<1> QED
  BY <1>1

LEMMA AncestorSteps ==
  ASSUME LogParents, NEW e \in Execs, NEW n \in Nat
  PROVE  Ancestor(e, 0) = e /\ Ancestor(e, n + 1) = Ancestor(Above[e], n)
<1>1. PICK f0 \in [0 .. 0 -> Execs] : IsWalk(f0, Above, e, 0) /\ Ancestor(e, 0) = f0[0]
  BY AncestorWalk DEF LogParents
<1>2. f0[0] = e
  BY <1>1, WalkSteps
<1>3. Above[e] \in Execs
  BY DEF Above, LogParents
<1>4. n + 1 \in Nat
  OBVIOUS
<1>5. PICK f \in [0 .. n + 1 -> Execs] : IsWalk(f, Above, e, n + 1) /\ Ancestor(e, n + 1) = f[n + 1]
  BY <1>4, AncestorWalk DEF LogParents
<1>6. PICK h \in [0 .. n -> Execs] : IsWalk(h, Above, Above[e], n) /\ Ancestor(Above[e], n) = h[n]
  BY <1>3, AncestorWalk DEF LogParents
<1>7. f[n + 1] = h[n]
  <2>1. n \in 0 .. n /\ n + 1 <= n + 1
    OBVIOUS
  <2> QED
    BY <1>4, <1>5, <1>6, <2>1, WalkShift
<1> QED
  BY <1>1, <1>2, <1>5, <1>6, <1>7

LEMMA AncestorFirst ==
  ASSUME LogParents, Parents, Tree, NEW p \in Execs, Stored(p), NEW n \in Nat, DepthOf(p) <= n
  PROVE  Ancestor(p, n) = First
<1> DEFINE S == {k \in Nat : \A x \in Execs : (Stored(x) \/ x = First) /\ DepthOf(x) <= k => Ancestor(x, k) = First}
<1>1. Depths
  BY DepthFacts
<1>2. ASSUME NEW x \in Execs, Stored(x), x # First
      PROVE  /\ Above[x] = run[x].parent /\ run[x].parent \in Execs /\ Stored(run[x].parent)
             /\ DepthOf(x) = DepthOf(run[x].parent) + 1 /\ DepthOf(run[x].parent) \in Nat
  <2>1. Started(x) /\ log[x].parent = run[x].parent
    BY <1>2 DEF Tree
  <2>2. Stored(run[x].parent)
    BY <1>2, <2>1 DEF Tree
  <2> QED
    BY <1>1, <1>2, <2>1, <2>2, ExecNumbers DEF Depths, Above
<1>3. Above[First] = First /\ DepthOf(First) = 0 /\ First \in Execs
  BY <1>1, ExecNumbers DEF Above, Tree, Depths
<1>4. 0 \in S
  <2>1. ASSUME NEW x \in Execs, Stored(x) \/ x = First, DepthOf(x) <= 0 PROVE Ancestor(x, 0) = First
    <3>1. x = First
      BY <1>2, <2>1
    <3> QED
      BY <3>1, <1>3, AncestorSteps
  <2> QED
    BY <2>1
<1>5. ASSUME NEW k \in S PROVE k + 1 \in S
  <2>1. ASSUME NEW x \in Execs, Stored(x) \/ x = First, DepthOf(x) <= k + 1 PROVE Ancestor(x, k + 1) = First
    <3>1. Ancestor(x, k + 1) = Ancestor(Above[x], k) /\ k \in Nat
      BY AncestorSteps
    <3>2. CASE x = First
      BY <1>3, <3>1, <3>2
    <3>3. CASE x # First
      BY <1>2, <2>1, <3>1, <3>3
    <3> QED
      BY <3>2, <3>3
  <2> QED
    BY <2>1
<1>6. S = Nat
  <2>1. S \in SUBSET Nat
    OBVIOUS
  <2> HIDE DEF S
  <2> QED
    BY <1>4, <1>5, <2>1, Induction
<1> QED
  BY <1>6

-----------------------------------------------------------------------------
(* What a step of an execution does, from x, where its run stands, to y.   *)
Beside == overlapped' = overlapped /\ stale' = stale
Stati == {"none", "success", "failed", "skipped"}
IntentStati == {"none", "pending", "failed"} \cup Settled
RunType == [pc : Phases, parent : Execs \cup {NoParent}, root : Execs, action : Actions,
            seen : IntentStati, status : Stati]
LogType == [status : Stati, parent : Execs \cup {NoParent}]

(* The run ends without success; the step of x is passed; it goes on at pc. *)
Stop(y) == /\ y.pc \in {"persist", "crashed"} /\ y.action = 1 /\ y.seen = "none" /\ y.status # "success"
           /\ y.pc = "persist" => y.status # "none"
Pass(x, y) ==
  \/ x.action = Len(Kinds) /\ y.pc = "persist" /\ y.action = 1 /\ y.seen = "none" /\ y.status = "success"
  \/ x.action < Len(Kinds) /\ y.pc = "act" /\ y.action = x.action + 1 /\ y.seen = "none" /\ y.status = x.status
GoOn(x, y, pc) == y.pc = pc /\ y.action = x.action /\ y.status = x.status

NoIntent == intent' = intent
NoWrite == applied' = applied /\ commits' = commits /\ missed' = missed
NoSend == sends' = sends
NoLog == log' = log

MFail(e, x, y) == x.pc \notin Stopped /\ NoIntent /\ NoWrite /\ NoSend /\ NoLog /\ Stop(y)
MStore(e, x, y) ==
  /\ x.pc = "persist" /\ GoOn(x, y, "done") /\ NoIntent /\ NoWrite /\ NoSend
  /\ NoLog \/ log' = [log EXCEPT ![e] = [status |-> x.status, parent |-> x.parent]]
MWrite(e, x, y) ==
  /\ x.pc = "act" /\ Kinds[x.action] \in Records /\ Key(e) \notin applied
  /\ applied' = applied \cup {Key(e)} /\ commits' = commits \cup {<<e, x.action>>}
  /\ missed' = missed \/ (missed' = missed \cup {<<e, x.action>>} /\ Kinds[x.action] = "update")
  /\ NoIntent /\ NoSend /\ NoLog /\ (Pass(x, y) \/ Stop(y))
MHeld(e, x, y) ==
  /\ x.pc = "act" /\ Kinds[x.action] \in Records /\ Key(e) \in applied
  /\ NoIntent /\ NoWrite /\ NoSend /\ NoLog /\ Pass(x, y)
MInsert(e, x, y) ==
  /\ x.pc = "act" /\ Kinds[x.action] \in Outbound /\ intent[Key(e)] = "none"
  /\ intent' = [intent EXCEPT ![Key(e)] = "pending"]
  /\ NoWrite /\ NoSend /\ NoLog /\ (GoOn(x, y, "send") \/ Stop(y))
MLook(e, x, y) ==
  /\ x.pc = "act" /\ Kinds[x.action] \in Outbound /\ intent[Key(e)] # "none"
  /\ NoIntent /\ NoWrite /\ NoSend /\ NoLog /\ GoOn(x, y, "consult")
MConsult(e, x, y) ==
  /\ x.pc = "consult" /\ NoIntent /\ NoWrite /\ NoSend /\ NoLog
  /\ \/ intent[Key(e)] \in Settled /\ Pass(x, y)
     \/ intent[Key(e)] \notin Settled /\ GoOn(x, y, "flip") /\ y.seen = intent[Key(e)]
MFlip(e, x, y) ==
  /\ x.pc = "flip" /\ NoWrite /\ NoSend /\ NoLog
  /\ IF x.seen = "failed" THEN SetIntent(e, "failed", "pending") ELSE SetIntent(e, "pending", "outcome_unknown")
  /\ \/ x.seen \in Settled \cup {"pending"} /\ Pass(x, y) /\ (intent[Key(e)] = "pending" \/ <<e, x.action>> \in stale')
     \/ x.seen \notin Settled \cup {"pending"} /\ GoOn(x, y, "send")
     \/ Stop(y)
MSend(e, x, y) ==
  /\ x.pc = "send" /\ GoOn(x, y, "record") /\ NoIntent /\ NoWrite /\ NoLog
  /\ \E d \in BOOLEAN : /\ sends' = sends \cup {[by |-> e, action |-> x.action, delivered |-> d]}
                        /\ y.seen \in Outcomes(Kinds[x.action], d)
MRecord(e, x, y) ==
  /\ x.pc = "record" /\ SetIntent(e, "pending", x.seen) /\ NoWrite /\ NoSend /\ NoLog
  /\ (x.seen = "sent" /\ Pass(x, y)) \/ Stop(y)

MoveOf(e, x, y) ==
  \/ MFail(e, x, y) \/ MStore(e, x, y) \/ MWrite(e, x, y) \/ MHeld(e, x, y) \/ MInsert(e, x, y) \/ MLook(e, x, y)
  \/ MConsult(e, x, y) \/ MFlip(e, x, y) \/ MSend(e, x, y) \/ MRecord(e, x, y)
Moves(e, y) ==
  /\ run' = [run EXCEPT ![e] = y] /\ y \in RunType /\ y.root = run[e].root /\ y.parent = run[e].parent
  /\ run[e].pc \notin Stopped /\ y.pc # "idle" /\ overlapped' = overlapped
  /\ stale \subseteq stale' /\ stale' \in SUBSET Keys
  /\ MoveOf(e, run[e], y)
Starts(p, e, y) ==
  /\ log[p].status \in {"failed", "skipped"}
  /\ run[e].pc = "idle" /\ \A f \in 1 .. e - 1 : run[f].pc # "idle"
  /\ run' = [run EXCEPT ![e] = y] /\ y.pc = "act" /\ y.parent = p /\ y.root = RootOf(p) /\ y.action = 1
  /\ y.seen = "none" /\ y.status = "none"
  /\ overlapped' = (overlapped \/ \E f \in Execs : run[f].pc \notin Stopped) /\ stale' = stale
  /\ NoIntent /\ NoWrite /\ NoSend /\ NoLog

LEMMA RetryFuns ==
  ASSUME RetryTypeOK
  PROVE  /\ log \in [Execs -> LogType] /\ run \in [Execs -> RunType] /\ intent \in [Keys -> IntentStati]
         /\ applied \in SUBSET Keys /\ commits \in SUBSET Keys
         /\ sends \in SUBSET [by : Execs, action : Actions, delivered : BOOLEAN]
         /\ overlapped \in BOOLEAN /\ faults \in 0 .. MaxFaults
         /\ missed \in SUBSET commits /\ stale \in SUBSET Keys
         /\ \A e \in Execs : log[e].status # "none" => run[e].pc = "done"
         /\ \A e \in Execs : Key(e) \in Keys /\ run[e] \in RunType
BY DEF RetryTypeOK, LogType, RunType, Stati, IntentStati, Key, Keys

(* Ways to leave a step. *)
EndOf(r, pc, status) == [r EXCEPT !.pc = pc, !.status = status, !.action = 1, !.seen = "none"]
LEMMA EndForm ==
  ASSUME NEW r \in RunType, NEW pc \in {"persist", "crashed"}, NEW status \in Stati
  PROVE  /\ EndOf(r, pc, status) \in RunType /\ EndOf(r, pc, status).root = r.root
         /\ EndOf(r, pc, status).parent = r.parent /\ EndOf(r, pc, status).pc = pc
         /\ EndOf(r, pc, status).action = 1 /\ EndOf(r, pc, status).seen = "none"
         /\ EndOf(r, pc, status).status = status
<1>1. 1 \in Actions /\ "none" \in IntentStati /\ pc \in Phases
  BY KindsAssumption DEF Actions, IntentStati, Phases
<1> QED
  BY <1>1 DEF RunType, EndOf

Placed(e, y) == /\ run' = [run EXCEPT ![e] = y] /\ y \in RunType
                /\ y.root = run[e].root /\ y.parent = run[e].parent /\ y.pc # "idle"

LEMMA StopForm ==
  ASSUME RetryTypeOK, NEW e \in Execs,
         run' = Failed(e) \/ run' = Ended(e, "skipped") \/ run' = Left(e, "crashed", "none")
  PROVE  \E y : Placed(e, y) /\ Stop(y)
<1>1. run[e] \in RunType
  BY RetryFuns
<1>2. PICK pc \in {"persist", "crashed"}, status \in {"failed", "skipped", "none"} :
        run' = Left(e, pc, status) /\ (pc = "persist" => status # "none")
  BY DEF Failed, Ended
<1> DEFINE y == EndOf(run[e], pc, status)
<1>3. run' = [run EXCEPT ![e] = y]
  BY <1>2 DEF Left, EndOf
<1>4. /\ y \in RunType /\ y.root = run[e].root /\ y.parent = run[e].parent /\ y.pc = pc /\ y.action = 1
      /\ y.seen = "none" /\ y.status = status
  <2>1. status \in Stati
    BY <1>2 DEF Stati
  <2> QED
    BY <1>1, <2>1, EndForm
<1> HIDE DEF y
<1> QED
  BY <1>2, <1>3, <1>4 DEF Placed, Stop

LEMMA PassForm ==
  ASSUME RetryTypeOK, NEW e \in Execs, run' = Succeeded(e)
  PROVE  \E y : Placed(e, y) /\ Pass(run[e], y)
<1>1. run[e] \in RunType /\ run[e].action \in 1 .. Len(Kinds)
  BY RetryFuns DEF RunType, Actions
<1>2. CASE run[e].action = Len(Kinds)
  <2> DEFINE y == EndOf(run[e], "persist", "success")
  <2>1. run' = [run EXCEPT ![e] = y]
    BY <1>2 DEF Succeeded, Ended, Left, EndOf
  <2>2. /\ y \in RunType /\ y.root = run[e].root /\ y.parent = run[e].parent /\ y.pc = "persist" /\ y.action = 1
        /\ y.seen = "none" /\ y.status = "success"
    BY <1>1, EndForm DEF Stati
  <2> HIDE DEF y
  <2> QED
    BY <1>2, <2>1, <2>2 DEF Placed, Pass
<1>3. CASE run[e].action # Len(Kinds)
  <2> DEFINE y == [run[e] EXCEPT !.pc = "act", !.action = run[e].action + 1, !.seen = "none"]
  <2>1. run' = [run EXCEPT ![e] = y]
    BY <1>3 DEF Succeeded
  <2>2. run[e].action < Len(Kinds) /\ run[e].action + 1 \in Actions
    <3>1. Len(Kinds) \in Nat
      BY KindsAssumption, LenProperties
    <3> QED
      BY <1>1, <1>3, <3>1 DEF Actions
  <2>3. /\ y \in RunType /\ y.root = run[e].root /\ y.parent = run[e].parent /\ y.pc = "act"
        /\ y.action = run[e].action + 1 /\ y.seen = "none" /\ y.status = run[e].status
    BY <1>1, <2>2 DEF RunType, Phases, IntentStati
  <2> HIDE DEF y
  <2> QED
    BY <2>1, <2>2, <2>3 DEF Placed, Pass
<1> QED
  BY <1>2, <1>3

LEMMA GoForm ==
  ASSUME RetryTypeOK, NEW e \in Execs, NEW pc \in Phases, pc # "idle", NEW seen \in IntentStati,
         \/ run' = [run EXCEPT ![e] = [@ EXCEPT !.pc = pc, !.seen = seen]]
         \/ run' = [run EXCEPT ![e] = [@ EXCEPT !.pc = pc]] /\ seen = run[e].seen
  PROVE  \E y : Placed(e, y) /\ GoOn(run[e], y, pc) /\ y.seen = seen
<1>1. run[e] \in RunType
  BY RetryFuns
<1> DEFINE y == [run[e] EXCEPT !.pc = pc, !.seen = seen]
<1>2. y \in RunType
  BY <1>1 DEF RunType
<1>3. /\ y.root = run[e].root /\ y.parent = run[e].parent /\ y.pc = pc /\ y.seen = seen
      /\ y.action = run[e].action /\ y.status = run[e].status
  BY <1>1 DEF RunType
<1>4. run' = [run EXCEPT ![e] = y]
  <2>1. seen = run[e].seen => y = [run[e] EXCEPT !.pc = pc]
    BY <1>1 DEF RunType
  <2> QED
    BY <2>1
<1> HIDE DEF y
<1> QED
  BY <1>2, <1>3, <1>4 DEF Placed, GoOn

LEMMA MoveSteps ==
  ASSUME RetryTypeOK, NEW e \in Execs, Proceeds(e)
  PROVE  \E y : Moves(e, y)
<1> DEFINE x == run[e]
<1>1. x \in RunType /\ Key(e) \in Keys /\ x.seen \in IntentStati /\ intent[Key(e)] \in IntentStati
      /\ x.pc \in Phases
  BY RetryFuns DEF RunType
<1>2. ASSUME NEW y, Placed(e, y), MoveOf(e, x, y), x.pc \notin Stopped, Beside
      PROVE  \E z : Moves(e, z)
  BY <1>2, RetryFuns DEF Placed, Moves, Beside
<1>3. CASE SkipConditions(e) \/ Crash(e)
  <2>1. /\ run' = Ended(e, "skipped") \/ run' = Left(e, "crashed", "none")
        /\ x.pc \notin Stopped /\ NoIntent /\ NoWrite /\ NoSend /\ NoLog /\ Beside
    BY <1>3 DEF SkipConditions, Crash, NoIntent, NoWrite, NoSend, NoLog, Beside, Stopped
  <2>2. PICK y : Placed(e, y) /\ Stop(y)
    BY <2>1, StopForm
  <2> QED
    BY <1>2, <2>1, <2>2 DEF MoveOf, MFail
<1>4. CASE Persist(e)
  <2>1. PICK y : Placed(e, y) /\ GoOn(x, y, "done") /\ y.seen = x.seen
    <3>1. "done" \in Phases /\ run' = [run EXCEPT ![e] = [@ EXCEPT !.pc = "done"]]
      BY <1>4 DEF Phases, Persist, At
    <3> QED
      BY <1>1, <3>1, GoForm
  <2> QED
    BY <1>2, <1>4, <2>1 DEF Persist, MoveOf, MStore, NoIntent, NoWrite, NoSend, NoLog, Beside, Stopped
<1>5. ASSUME NEW found \in BOOLEAN, ApplyRecord(e, found) PROVE \E z : Moves(e, z)
  <2>1. \E y : Placed(e, y) /\ (Pass(x, y) \/ Stop(y))
    BY <1>5, PassForm, StopForm DEF ApplyRecord
  <2> QED
    BY <1>2, <1>5, <2>1 DEF ApplyRecord, Acting, Records, Step, MoveOf, MWrite, NoIntent, NoSend, NoLog, Beside, Stopped
<1>6. CASE ApplyThrows(e)
  <2>1. PICK y : Placed(e, y) /\ Stop(y)
    BY <1>6, StopForm DEF ApplyThrows
  <2> QED
    BY <1>2, <1>6, <2>1
    DEF ApplyThrows, RolledBack, Acting, MoveOf, MFail, NoIntent, NoWrite, NoSend, NoLog, Beside, Stopped
<1>7. CASE AlreadyApplied(e)
  <2>1. PICK y : Placed(e, y) /\ Pass(x, y)
    BY <1>7, PassForm DEF AlreadyApplied
  <2> QED
    BY <1>2, <1>7, <2>1 DEF AlreadyApplied, Acting, MoveOf, MHeld, NoIntent, NoWrite, NoSend, NoLog, Beside, Stopped
<1>8. CASE InsertIntent(e)
  <2> DEFINE pc == IF intent[Key(e)] = "none" THEN "send" ELSE "consult"
  <2>1. pc \in Phases /\ pc # "idle" /\ run' = [run EXCEPT ![e] = [@ EXCEPT !.pc = pc]]
    BY <1>8 DEF Phases, InsertIntent, At
  <2>2. PICK y : Placed(e, y) /\ GoOn(x, y, pc)
    <3> HIDE DEF pc
    <3> QED
      BY <1>1, <2>1, GoForm
  <2>3. /\ x.pc = "act" /\ Kinds[x.action] \in Outbound /\ NoWrite /\ NoSend /\ NoLog /\ Beside
        /\ intent' = IF intent[Key(e)] = "none" THEN [intent EXCEPT ![Key(e)] = "pending"] ELSE intent
    BY <1>8 DEF InsertIntent, Acting, SetIntent, NoWrite, NoSend, NoLog, Beside
  <2> QED
    BY <1>2, <2>2, <2>3 DEF MoveOf, MInsert, MLook, NoIntent, Stopped
<1>9. CASE Consult(e)
  <2>1. /\ x.pc = "consult" /\ NoIntent /\ NoWrite /\ NoSend /\ NoLog /\ Beside
        /\ x.pc \notin Stopped
    BY <1>9 DEF Consult, NoIntent, NoWrite, NoSend, NoLog, Beside, Stopped
  <2>2. CASE intent[Key(e)] \in Settled
    <3>1. PICK y : Placed(e, y) /\ Pass(x, y)
      BY <1>9, <2>2, PassForm DEF Consult
    <3> QED
      BY <1>2, <2>1, <2>2, <3>1 DEF MoveOf, MConsult
  <2>3. CASE intent[Key(e)] \notin Settled
    <3>1. "flip" \in Phases /\ run' = [run EXCEPT ![e] = [@ EXCEPT !.pc = "flip", !.seen = intent[Key(e)]]]
      BY <1>9, <2>3 DEF Phases, Consult
    <3>2. PICK y : Placed(e, y) /\ GoOn(x, y, "flip") /\ y.seen = intent[Key(e)]
      BY <1>1, <3>1, GoForm
    <3> QED
      BY <1>2, <2>1, <2>3, <3>2 DEF MoveOf, MConsult
  <2> QED
    BY <2>2, <2>3
<1>10. CASE Flip(e)
  <2>1. /\ x.pc = "flip" /\ NoWrite /\ NoSend /\ NoLog /\ overlapped' = overlapped /\ x.pc \notin Stopped
        /\ IF x.seen = "failed" THEN SetIntent(e, "failed", "pending") ELSE SetIntent(e, "pending", "outcome_unknown")
    BY <1>10 DEF Flip, FlipSeen, FlipPending, FlipUnknown, NoWrite, NoSend, NoLog, Stopped
  <2>2. CASE x.seen \in Settled \cup {"pending"}
    <3>1. PICK y : Placed(e, y) /\ Pass(x, y)
      BY <1>10, <2>2, PassForm DEF Flip, SkipsOn
    <3>2. stale' = IF intent[Key(e)] = "pending" THEN stale ELSE stale \cup {<<e, x.action>>}
      BY <1>10, <2>2 DEF Flip, SkipsOn, Step
    <3>3. stale \subseteq stale' /\ stale' \in SUBSET Keys /\ (intent[Key(e)] = "pending" \/ <<e, x.action>> \in stale')
      <4>1. <<e, x.action>> \in Keys
        BY <1>1 DEF Keys, RunType
      <4> QED
        BY <3>2, <4>1, RetryFuns
    <3>4. MFlip(e, x, y)
      BY <2>1, <2>2, <3>1, <3>3 DEF MFlip
    <3> QED
      BY <2>1, <3>1, <3>3, <3>4 DEF Moves, MoveOf, Placed
  <2>3. CASE x.seen \notin Settled \cup {"pending"}
    <3>1. "send" \in Phases /\ run' = [run EXCEPT ![e] = [@ EXCEPT !.pc = "send"]] /\ Beside
      BY <1>10, <2>3 DEF Phases, Flip, SkipsOn, At, Beside
    <3>2. PICK y : Placed(e, y) /\ GoOn(x, y, "send")
      BY <1>1, <3>1, GoForm
    <3> QED
      BY <1>2, <2>1, <2>3, <3>1, <3>2 DEF MoveOf, MFlip
  <2> QED
    BY <2>2, <2>3
<1>11. ASSUME NEW d \in BOOLEAN, Send(e, d) PROVE \E z : Moves(e, z)
  <2>1. PICK outcome \in Outcomes(Kinds[x.action], d) :
          run' = [run EXCEPT ![e] = [@ EXCEPT !.pc = "record", !.seen = outcome]]
    BY <1>11 DEF Send
  <2>2. outcome \in IntentStati /\ "record" \in Phases
    BY <2>1 DEF Outcomes, IntentStati, Settled, Phases
  <2>3. PICK y : Placed(e, y) /\ GoOn(x, y, "record") /\ y.seen = outcome
    BY <2>1, <2>2, GoForm
  <2>4. MSend(e, x, y)
    BY <1>11, <2>1, <2>3 DEF Send, MSend, NoIntent, NoWrite, NoLog
  <2> QED
    BY <1>2, <1>11, <2>3, <2>4 DEF Send, Beside, MoveOf, Stopped
<1>12. CASE RecordOutcome(e)
  <2>1. PICK y : Placed(e, y) /\ ((x.seen = "sent" /\ Pass(x, y)) \/ Stop(y))
    BY <1>12, PassForm, StopForm DEF RecordOutcome
  <2> QED
    BY <1>2, <1>12, <2>1 DEF RecordOutcome, WriteOutcome, MoveOf, MRecord, NoWrite, NoSend, NoLog, Beside, Stopped
<1>13. CASE StatementFails(e)
  <2>1. PICK y : Placed(e, y) /\ Stop(y)
    BY <1>13, StopForm DEF StatementFails
  <2>2. NoWrite /\ NoSend /\ NoLog /\ Beside
    BY <1>13 DEF StatementFails, NoWrite, NoSend, NoLog, Beside
  <2>3. CASE Acting(e, Outbound) /\ (SetIntent(e, "none", "pending") \/ UNCHANGED intent)
    BY <1>2, <2>1, <2>2, <2>3 DEF Acting, SetIntent, MoveOf, MInsert, MFail, NoIntent, Stopped
  <2>4. CASE run[e].pc = "consult" /\ UNCHANGED intent
    BY <1>2, <2>1, <2>2, <2>4 DEF MoveOf, MFail, NoIntent, Stopped
  <2>5. CASE run[e].pc = "flip" /\ (FlipSeen(e) \/ UNCHANGED intent)
    BY <1>2, <2>1, <2>2, <2>5 DEF FlipSeen, FlipPending, FlipUnknown, MoveOf, MFlip, MFail, NoIntent, Stopped
  <2>6. CASE run[e].pc = "record" /\ (WriteOutcome(e) \/ UNCHANGED intent)
    BY <1>2, <2>1, <2>2, <2>6 DEF WriteOutcome, MoveOf, MRecord, MFail, NoIntent, Stopped
  <2> QED
    BY <1>13, <2>3, <2>4, <2>5, <2>6 DEF StatementFails
<1> QED
  BY <1>3, <1>4, <1>5, <1>6, <1>7, <1>8, <1>9, <1>10, <1>11, <1>12, <1>13 DEF Proceeds

LEMMA StartForm ==
  ASSUME NEW parent \in Execs, NEW root \in Execs
  PROVE  /\ StartedFrom(parent, root) \in RunType
         /\ StartedFrom(parent, root).pc = "act" /\ StartedFrom(parent, root).parent = parent
         /\ StartedFrom(parent, root).root = root /\ StartedFrom(parent, root).action = 1
         /\ StartedFrom(parent, root).seen = "none" /\ StartedFrom(parent, root).status = "none"
<1>1. Idle \in [pc : Phases, parent : Execs \cup {NoParent}, root : Execs, action : Actions,
                seen : IntentStati, status : Stati]
      /\ Idle.action = 1 /\ Idle.seen = "none" /\ Idle.status = "none"
  <2>1. 1 \in Actions /\ First \in Execs
    BY KindsAssumption, ExecNumbers DEF Actions
  <2> QED
    BY <2>1 DEF Idle, Phases, IntentStati, Stati
<1>2. "act" \in Phases /\ parent \in Execs \cup {NoParent}
  BY DEF Phases
<1> QED
  BY <1>1, <1>2 DEF StartedFrom, RunType

LEMMA RetryStarts ==
  ASSUME RetryTypeOK, NEW p \in Execs, NEW e \in Execs, Retry(p, e)
  PROVE  \E y : Starts(p, e, y) /\ y \in RunType
<1>1. PICK root \in Execs : root = RootOf(p)
  <2>1. LogParents
    BY RetryFuns DEF LogParents, LogType
  <2>2. LineageDepth - 1 \in Nat
    BY ExecNumbers
  <2> QED
    BY <2>1, <2>2, AncestorType DEF RootOf
<1>2. PICK y \in RunType :
        /\ y = StartedFrom(p, root) /\ y.pc = "act" /\ y.parent = p /\ y.root = root /\ y.action = 1
        /\ y.seen = "none" /\ y.status = "none"
  BY StartForm
<1>3. Starts(p, e, y)
  BY <1>1, <1>2 DEF Retry, Starts, NoIntent, NoWrite, NoSend, NoLog
<1> QED
  BY <1>3

-----------------------------------------------------------------------------
(* What a move and a start leave as it was.                                *)
LEMMA MoveFrame ==
  ASSUME RetryTypeOK, NEW e \in Execs, NEW y, Moves(e, y)
  PROVE  /\ run'[e] = y /\ \A f \in Execs : f # e => run'[f] = run[f]
         /\ \A f \in Execs : /\ run'[f].root = run[f].root /\ run'[f].parent = run[f].parent
                             /\ Started(f)' <=> Started(f)
                             /\ \A a : StepKey(f, a)' = StepKey(f, a)
<1>1. run'[e] = y /\ \A f \in Execs : f # e => run'[f] = run[f]
  BY RetryFuns DEF Moves
<1>2. y.root = run[e].root /\ y.parent = run[e].parent /\ y.pc # "idle" /\ run[e].pc # "idle"
  BY DEF Moves, Stopped
<1> QED
  BY <1>1, <1>2 DEF Started, StepKey

LEMMA StartFrame ==
  ASSUME RetryTypeOK, NEW p \in Execs, NEW e \in Execs, NEW y, Starts(p, e, y)
  PROVE  /\ run'[e] = y /\ ~ Started(e) /\ Started(e)' /\ Started(p) /\ run[p].pc = "done"
         /\ \A f \in Execs : f # e => run'[f] = run[f] /\ (Started(f)' <=> Started(f))
                                     /\ \A a : StepKey(f, a)' = StepKey(f, a)
<1>1. run'[e] = y /\ \A f \in Execs : f # e => run'[f] = run[f]
  BY RetryFuns DEF Starts
<1>2. run[e].pc = "idle" /\ y.pc = "act" /\ run[p].pc = "done"
  BY RetryFuns DEF Starts
<1> QED
  BY <1>1, <1>2 DEF Started, StepKey

(* Every step is a move or a start, or changes nothing.                    *)
LEMMA RetrySteps ==
  ASSUME RetryTypeOK, [Next]_vars
  PROVE  \/ \E e \in Execs, y \in RunType : Moves(e, y)
         \/ \E p, e \in Execs, y \in RunType : Starts(p, e, y)
         \/ UNCHANGED vars
<1>1. ASSUME NEW e \in Execs, Proceeds(e) PROVE \E y \in RunType : Moves(e, y)
  BY <1>1, MoveSteps DEF Moves
<1>2. ASSUME NEW p \in Execs, NEW e \in Execs, Retry(p, e) PROVE \E y \in RunType : Starts(p, e, y)
  BY <1>2, RetryStarts
<1> QED
  BY <1>1, <1>2 DEF Next

LEMMA FaultsCounted ==
  ASSUME RetryTypeOK, [Next]_vars
  PROVE  faults' \in 0 .. MaxFaults
<1>1. faults' = faults \/ Fault
  <2>1. ASSUME NEW e \in Execs, Proceeds(e) PROVE faults' = faults \/ Fault
    BY <2>1 DEF Proceeds, SkipConditions, Persist, Crash, ApplyRecord, ApplyThrows, AlreadyApplied, InsertIntent,
                Consult, Flip, Send, RecordOutcome, StatementFails
  <2> QED
    BY <2>1 DEF Next, Retry, vars
<1>2. MaxFaults \in Nat /\ faults \in 0 .. MaxFaults
  BY RunsAssumption, RetryFuns
<1> QED
  BY <1>1, <1>2 DEF Fault

(* Types *)
LEMMA SetIntentType ==
  ASSUME RetryTypeOK, NEW e \in Execs, NEW from, NEW to \in IntentStati, SetIntent(e, from, to)
  PROVE  intent' \in [Keys -> IntentStati]
BY RetryFuns DEF SetIntent

LEMMA MoveType ==
  ASSUME RetryTypeOK, NEW e \in Execs, NEW y, Moves(e, y), faults' \in 0 .. MaxFaults
  PROVE  RetryTypeOK'
<1> DEFINE x == run[e]
<1>1. /\ log \in [Execs -> LogType] /\ run \in [Execs -> RunType] /\ intent \in [Keys -> IntentStati]
      /\ applied \in SUBSET Keys /\ commits \in SUBSET Keys /\ missed \in SUBSET commits /\ stale \in SUBSET Keys
      /\ sends \in SUBSET [by : Execs, action : Actions, delivered : BOOLEAN]
      /\ \A f \in Execs : log[f].status # "none" => run[f].pc = "done"
      /\ Key(e) \in Keys /\ x \in RunType /\ overlapped \in BOOLEAN
  BY RetryFuns
<1>2. x.action \in Actions /\ x.status \in Stati /\ x.seen \in IntentStati /\ x.parent \in Execs \cup {NoParent}
  BY <1>1 DEF RunType
<1>3. run' \in [Execs -> RunType] /\ overlapped' \in BOOLEAN
  BY <1>1 DEF Moves
<1>4. intent' \in [Keys -> IntentStati]
  <2>1. NoIntent => intent' \in [Keys -> IntentStati]
    BY <1>1 DEF NoIntent
  <2>2. {"none", "pending", "failed", "outcome_unknown"} \subseteq IntentStati
    BY DEF IntentStati, Settled
  <2>3. ASSUME NEW to \in IntentStati, NEW from, SetIntent(e, from, to) PROVE intent' \in [Keys -> IntentStati]
    BY <2>3, SetIntentType
  <2>4. MFlip(e, x, y) => intent' \in [Keys -> IntentStati]
    BY <2>2, <2>3 DEF MFlip
  <2>5. MRecord(e, x, y) => intent' \in [Keys -> IntentStati]
    BY <1>2, <2>3 DEF MRecord
  <2>6. MInsert(e, x, y) => intent' \in [Keys -> IntentStati]
    BY <1>1, <2>2 DEF MInsert
  <2> QED
    BY <2>1, <2>4, <2>5, <2>6 DEF Moves, MoveOf, MFail, MStore, MWrite, MHeld, MLook, MConsult, MSend
<1>5. /\ applied' \in SUBSET Keys /\ commits' \in SUBSET Keys /\ missed' \in SUBSET commits'
      /\ stale' \in SUBSET Keys
  <2>1. <<e, x.action>> \in Keys
    BY <1>2 DEF Keys
  <2> QED
    BY <1>1, <2>1 DEF Moves, MoveOf, MFail, MStore, MWrite, MHeld, MInsert, MLook, MConsult, MFlip, MSend, MRecord,
                      NoWrite
<1>6. sends' \in SUBSET [by : Execs, action : Actions, delivered : BOOLEAN]
  <2>1. NoSend \/ MSend(e, x, y)
    BY DEF Moves, MoveOf, MFail, MStore, MWrite, MHeld, MInsert, MLook, MConsult, MFlip, MRecord
  <2> QED
    BY <1>1, <1>2, <2>1 DEF NoSend, MSend
<1>7. log' \in [Execs -> LogType] /\ \A f \in Execs : log'[f].status # "none" => run'[f].pc = "done"
  <2>1. CASE NoLog
    <3>1. ASSUME NEW f \in Execs, log[f].status # "none" PROVE run'[f].pc = "done"
      BY <1>1, <3>1, MoveFrame DEF Moves, Stopped
    <3> QED
      BY <1>1, <2>1, <3>1 DEF NoLog
  <2>2. CASE ~ NoLog
    <3>1. MStore(e, x, y)
      BY <2>2 DEF Moves, MoveOf, MFail, MWrite, MHeld, MInsert, MLook, MConsult, MFlip, MSend, MRecord
    <3>2. log' = [log EXCEPT ![e] = [status |-> x.status, parent |-> x.parent]] /\ y.pc = "done"
      BY <2>2, <3>1 DEF MStore, GoOn
    <3>3. [status |-> x.status, parent |-> x.parent] \in LogType
      BY <1>2 DEF LogType
    <3>4. ASSUME NEW f \in Execs, log'[f].status # "none" PROVE run'[f].pc = "done"
      BY <1>1, <3>2, <3>4, MoveFrame
    <3> QED
      BY <1>1, <3>2, <3>3, <3>4
  <2> QED
    BY <2>1, <2>2
<1> QED
  BY <1>3, <1>4, <1>5, <1>6, <1>7 DEF RetryTypeOK, LogType, RunType, Stati, IntentStati

LEMMA StartType ==
  ASSUME RetryTypeOK, NEW p \in Execs, NEW e \in Execs, NEW y \in RunType, Starts(p, e, y), faults' \in 0 .. MaxFaults
  PROVE  RetryTypeOK'
<1>1. /\ log \in [Execs -> LogType] /\ run \in [Execs -> RunType] /\ intent \in [Keys -> IntentStati]
      /\ applied \in SUBSET Keys /\ commits \in SUBSET Keys /\ missed \in SUBSET commits /\ stale \in SUBSET Keys
      /\ sends \in SUBSET [by : Execs, action : Actions, delivered : BOOLEAN]
      /\ \A f \in Execs : log[f].status # "none" => run[f].pc = "done"
      /\ overlapped \in BOOLEAN
  BY RetryFuns
<1>2. run' \in [Execs -> RunType] /\ overlapped' \in BOOLEAN
  BY <1>1 DEF Starts
<1>3. log' = log /\ intent' = intent /\ applied' = applied /\ commits' = commits /\ missed' = missed
      /\ sends' = sends /\ stale' = stale
  BY DEF Starts, NoLog, NoIntent, NoWrite, NoSend
<1>4. ASSUME NEW f \in Execs, log'[f].status # "none" PROVE run'[f].pc = "done"
  BY <1>1, <1>3, <1>4, StartFrame DEF Started
<1> QED
  BY <1>1, <1>2, <1>3, <1>4 DEF RetryTypeOK, LogType, RunType, Stati, IntentStati

LEMMA TypeNext ==
  ASSUME RetryTypeOK, [Next]_vars
  PROVE  RetryTypeOK'
<1>1. faults' \in 0 .. MaxFaults
  BY FaultsCounted
<1>2. CASE UNCHANGED vars
  BY <1>2 DEF vars, RetryTypeOK
<1> QED
  BY <1>1, <1>2, RetrySteps, MoveType, StartType

-----------------------------------------------------------------------------
(* The claims of class A *)
LEMMA ClaimsKept ==
  ASSUME RetryTypeOK, Claims, NoWrite,
         \A f \in Execs : Started(f) => Started(f)' /\ \A a : StepKey(f, a)' = StepKey(f, a)
  PROVE  Claims'
<1>1. \A w \in commits : w[1] \in Execs /\ Started(w[1]) /\ Started(w[1])' /\ StepKey(w[1], w[2])' = StepKey(w[1], w[2])
  BY RetryFuns DEF Keys, Claims
<1>2. applied' = applied /\ commits' = commits /\ missed' = missed
  BY DEF NoWrite
<1>3. \A k \in applied' : \E w \in commits' : StepKey(w[1], w[2])' = k
  BY <1>1, <1>2 DEF Claims, Started, StepKey
<1>4. \A w \in commits' : Started(w[1])' /\ StepKey(w[1], w[2])' \in applied'
  BY <1>1, <1>2 DEF Claims, Started, StepKey
<1>5. \A v, w \in commits' : StepKey(v[1], v[2])' = StepKey(w[1], w[2])' => v = w
  BY <1>1, <1>2 DEF Claims, Started, StepKey
<1>6. \A w \in missed' : Kinds[w[2]] = "update"
  BY <1>2 DEF Claims
<1> QED
  BY <1>3, <1>4, <1>5, <1>6 DEF Claims

LEMMA ClaimsWrite ==
  ASSUME RetryTypeOK, Claims, NEW e \in Execs, NEW y, Moves(e, y), MWrite(e, run[e], y)
  PROVE  Claims'
<1>0. PICK new : new = <<e, run[e].action>>
  OBVIOUS
<1>1. \A w \in commits : w[1] \in Execs /\ Started(w[1])' /\ StepKey(w[1], w[2])' = StepKey(w[1], w[2])
  BY RetryFuns, MoveFrame DEF Keys, Claims
<1>2. new[1] = e /\ StepKey(new[1], new[2])' = Key(e) /\ Started(new[1])'
  <2>1. new[1] = e /\ new[2] = run[e].action
    BY <1>0
  <2> QED
    BY <2>1, MoveFrame DEF StepKey, Key, Moves, Started, Stopped
<1>3. applied' = applied \cup {Key(e)} /\ commits' = commits \cup {new} /\ Key(e) \notin applied
  BY <1>0 DEF MWrite
<1>4. \A k \in applied' : \E w \in commits' : StepKey(w[1], w[2])' = k
  BY <1>1, <1>2, <1>3 DEF Claims, Started, StepKey
<1>5. \A w \in commits' : Started(w[1])' /\ StepKey(w[1], w[2])' \in applied'
  BY <1>1, <1>2, <1>3 DEF Claims, Started, StepKey
<1>6. \A v, w \in commits' : StepKey(v[1], v[2])' = StepKey(w[1], w[2])' => v = w
  <2>1. \A w \in commits : StepKey(w[1], w[2])' # Key(e)
    BY <1>1, <1>3 DEF Claims, Started, StepKey
  <2>2. \A v, w \in commits : StepKey(v[1], v[2])' = StepKey(w[1], w[2])' => v = w
    BY <1>1 DEF Claims, Started, StepKey
  <2> QED
    BY <1>2, <1>3, <2>1, <2>2 DEF StepKey
<1>7. \A w \in missed' : Kinds[w[2]] = "update"
  <2>1. new[2] = run[e].action
    BY <1>0
  <2>2. missed' = missed \/ (missed' = missed \cup {new} /\ Kinds[run[e].action] = "update")
    BY <1>0 DEF MWrite
  <2> QED
    BY <2>1, <2>2 DEF Claims
<1> QED
  BY <1>4, <1>5, <1>6, <1>7 DEF Claims

LEMMA ClaimsMove ==
  ASSUME RetryTypeOK, Claims, NEW e \in Execs, NEW y, Moves(e, y)
  PROVE  Claims'
<1>1. CASE MWrite(e, run[e], y)
  BY <1>1, ClaimsWrite
<1>2. CASE NoWrite
  BY <1>2, MoveFrame, ClaimsKept
<1> QED
  BY <1>1, <1>2 DEF Moves, MoveOf, MFail, MStore, MHeld, MInsert, MLook, MConsult, MFlip, MSend, MRecord

LEMMA ClaimsStart ==
  ASSUME RetryTypeOK, Claims, NEW p \in Execs, NEW e \in Execs, NEW y, Starts(p, e, y)
  PROVE  Claims'
<1>1. NoWrite
  BY DEF Starts
<1>2. \A f \in Execs : Started(f) => Started(f)' /\ \A a : StepKey(f, a)' = StepKey(f, a)
  BY StartFrame
<1> QED
  BY <1>1, <1>2, ClaimsKept

-----------------------------------------------------------------------------
(* The intents of class B.  What a move does to the intent of its own step *)
(* and to no other.                                                        *)
LEMMA IntentMoves ==
  ASSUME RetryTypeOK, Intents, NEW e \in Execs, NEW y, Moves(e, y)
  PROVE  /\ \A k \in Keys : k # Key(e) => intent'[k] = intent[k]
         /\ \A k \in Keys : intent[k] # "none" => intent'[k] # "none"
         /\ \A k \in Keys : intent[k] = "outcome_unknown" => intent'[k] = "outcome_unknown"
         /\ \/ intent' = intent
            \/ MInsert(e, run[e], y) /\ intent[Key(e)] = "none" /\ intent'[Key(e)] = "pending"
            \/ MFlip(e, run[e], y) /\ run[e].seen = "failed" /\ intent[Key(e)] = "failed" /\ intent'[Key(e)] = "pending"
            \/ MFlip(e, run[e], y) /\ run[e].seen # "failed" /\ intent[Key(e)] = "pending"
                 /\ intent'[Key(e)] = "outcome_unknown"
            \/ MRecord(e, run[e], y) /\ intent[Key(e)] = "pending" /\ intent'[Key(e)] = run[e].seen
<1> DEFINE x == run[e]
           k0 == Key(e)
<1>1. intent \in [Keys -> IntentStati] /\ k0 \in Keys
  BY RetryFuns
<1>2. \/ intent' = intent
      \/ MInsert(e, x, y) /\ intent[k0] = "none" /\ intent' = [intent EXCEPT ![k0] = "pending"]
      \/ MFlip(e, x, y) /\ x.seen = "failed" /\ intent[k0] = "failed" /\ intent' = [intent EXCEPT ![k0] = "pending"]
      \/ MFlip(e, x, y) /\ x.seen # "failed" /\ intent[k0] = "pending"
           /\ intent' = [intent EXCEPT ![k0] = "outcome_unknown"]
      \/ MRecord(e, x, y) /\ intent[k0] = "pending" /\ intent' = [intent EXCEPT ![k0] = x.seen]
  <2>1. CASE NoIntent
    BY <2>1 DEF NoIntent
  <2>2. CASE MInsert(e, x, y)
    BY <2>2 DEF MInsert
  <2>3. CASE MFlip(e, x, y)
    BY <2>3 DEF MFlip, SetIntent
  <2>4. CASE MRecord(e, x, y)
    BY <2>4 DEF MRecord, SetIntent
  <2> QED
    BY <2>1, <2>2, <2>3, <2>4 DEF Moves, MoveOf, MFail, MStore, MWrite, MHeld, MLook, MConsult, MSend
<1> HIDE DEF k0
<1>3. \/ intent' = intent
      \/ intent[k0] = "none" /\ intent' = [intent EXCEPT ![k0] = "pending"]
      \/ intent[k0] = "failed" /\ intent' = [intent EXCEPT ![k0] = "pending"]
      \/ intent[k0] = "pending" /\ intent' = [intent EXCEPT ![k0] = "outcome_unknown"]
      \/ intent[k0] = "pending" /\ intent' = [intent EXCEPT ![k0] = x.seen]
  BY <1>2
<1>4. \A k \in Keys : k # k0 => intent'[k] = intent[k]
  BY <1>1, <1>3
<1>5. MRecord(e, x, y) => x.seen # "none"
  BY DEF MRecord, Intents, Settled
<1>6. intent' = intent \/ (intent[k0] # "outcome_unknown" /\ intent'[k0] # "none")
  BY <1>1, <1>2, <1>5
<1>7. \A k \in Keys : intent[k] # "none" => intent'[k] # "none"
  BY <1>4, <1>6
<1>8. \A k \in Keys : intent[k] = "outcome_unknown" => intent'[k] = "outcome_unknown"
  BY <1>4, <1>6
<1>9. /\ intent' = [intent EXCEPT ![k0] = "pending"] => intent'[k0] = "pending"
      /\ intent' = [intent EXCEPT ![k0] = "outcome_unknown"] => intent'[k0] = "outcome_unknown"
      /\ intent' = [intent EXCEPT ![k0] = x.seen] => intent'[k0] = x.seen
  BY <1>1
<1> QED
  BY <1>2, <1>4, <1>7, <1>8, <1>9 DEF k0

(* How a run gets to each stage of the two-phase path. *)
Staged == {"consult", "flip", "send", "record"}
LEMMA Arrivals ==
  ASSUME RetryTypeOK, NEW e \in Execs, NEW y, Moves(e, y)
  PROVE  /\ y.pc = "consult" => MLook(e, run[e], y)
         /\ y.pc = "flip" => MConsult(e, run[e], y) /\ intent[Key(e)] \notin Settled /\ y.seen = intent[Key(e)]
         /\ y.pc = "send" => \/ MInsert(e, run[e], y)
                             \/ MFlip(e, run[e], y) /\ run[e].seen \notin Settled \cup {"pending"}
         /\ y.pc = "record" => MSend(e, run[e], y)
         /\ y.pc \in Staged => y.action = run[e].action /\ Key(e)' = Key(e)
<1> DEFINE x == run[e]
<1>1. MoveOf(e, x, y)
  BY DEF Moves
<1>2. y.pc = "consult" => MLook(e, x, y) /\ GoOn(x, y, "consult")
  BY <1>1 DEF MoveOf, MFail, MStore, MWrite, MHeld, MInsert, MLook, MConsult, MFlip, MSend, MRecord, Stop, Pass, GoOn
<1>3. y.pc = "flip" => /\ MConsult(e, x, y) /\ GoOn(x, y, "flip")
                       /\ intent[Key(e)] \notin Settled /\ y.seen = intent[Key(e)]
  BY <1>1 DEF MoveOf, MFail, MStore, MWrite, MHeld, MInsert, MLook, MConsult, MFlip, MSend, MRecord, Stop, Pass, GoOn
<1>4. y.pc = "send" => /\ GoOn(x, y, "send")
                       /\ MInsert(e, x, y) \/ (MFlip(e, x, y) /\ x.seen \notin Settled \cup {"pending"})
  BY <1>1 DEF MoveOf, MFail, MStore, MWrite, MHeld, MInsert, MLook, MConsult, MFlip, MSend, MRecord, Stop, Pass, GoOn
<1>5. y.pc = "record" => MSend(e, x, y) /\ GoOn(x, y, "record")
  BY <1>1 DEF MoveOf, MFail, MStore, MWrite, MHeld, MInsert, MLook, MConsult, MFlip, MSend, MRecord, Stop, Pass, GoOn
<1>6. y.pc \in Staged => y.action = x.action
  BY <1>2, <1>3, <1>4, <1>5 DEF Staged, GoOn
<1>7. y.action = x.action => Key(e)' = Key(e)
  BY MoveFrame DEF Key
<1> QED
  BY <1>2, <1>3, <1>4, <1>5, <1>6, <1>7

(* What leaves the process leaves it in one move. *)
LEMMA SendMoves ==
  ASSUME RetryTypeOK, NEW e \in Execs, NEW y, Moves(e, y)
  PROVE  \/ sends' = sends /\ ~ MSend(e, run[e], y)
         \/ /\ MSend(e, run[e], y) /\ intent' = intent /\ run[e].pc = "send" /\ y.pc = "record"
            /\ \E t : /\ sends' = sends \cup {t} /\ t.by = e /\ t.action = run[e].action /\ t.delivered \in BOOLEAN
                      /\ y.seen \in Outcomes(Kinds[run[e].action], t.delivered)
<1>1. CASE MSend(e, run[e], y)
  <2>1. PICK d \in BOOLEAN : /\ sends' = sends \cup {[by |-> e, action |-> run[e].action, delivered |-> d]}
                             /\ y.seen \in Outcomes(Kinds[run[e].action], d)
    BY <1>1 DEF MSend
  <2>2. PICK t : t = [by |-> e, action |-> run[e].action, delivered |-> d]
    OBVIOUS
  <2>3. t.by = e /\ t.action = run[e].action /\ t.delivered = d
    BY <2>2
  <2>4. sends' = sends \cup {t}
    BY <2>1, <2>2
  <2>5. intent' = intent /\ run[e].pc = "send" /\ y.pc = "record"
    BY <1>1 DEF MSend, NoIntent, GoOn
  <2> QED
    BY <1>1, <2>1, <2>3, <2>4, <2>5
<1>2. CASE ~ MSend(e, run[e], y)
  BY <1>2 DEF Moves, MoveOf, MFail, MStore, MWrite, MHeld, MInsert, MLook, MConsult, MFlip, MRecord, NoSend
<1> QED
  BY <1>1, <1>2

LEMMA SendFrame ==
  ASSUME RetryTypeOK, Intents, NEW e \in Execs, NEW y, Moves(e, y)
  PROVE  \A s \in sends : /\ s.by \in Execs /\ s.action \in Actions
                          /\ StepKey(s.by, s.action) \in Keys /\ Started(s.by)'
                          /\ run'[s.by].root = run[s.by].root /\ StepKey(s.by, s.action)' = StepKey(s.by, s.action)
<1>1. ASSUME NEW s \in sends
      PROVE  s.by \in Execs /\ s.action \in Actions /\ StepKey(s.by, s.action) \in Keys
  <2>1. s \in [by : Execs, action : Actions, delivered : BOOLEAN]
    BY RetryFuns
  <2>2. s.by \in Execs /\ s.action \in Actions
    BY <2>1
  <2>3. run[s.by].root \in Execs
    BY <2>2, RetryFuns DEF RunType
  <2> QED
    BY <2>2, <2>3 DEF StepKey, Keys
<1> QED
  BY <1>1, MoveFrame DEF Intents

LEMMA IntentsMove ==
  ASSUME RetryTypeOK, Intents, NEW e \in Execs, NEW y, Moves(e, y)
  PROVE  Intents'
<1> DEFINE x == run[e]
<1>1. /\ run'[e] = y /\ \A f \in Execs : f # e => run'[f] = run[f] /\ Key(f)' = Key(f)
  BY MoveFrame DEF Key
<1>2. \A f \in Execs : Key(f) \in Keys
  BY RetryFuns
<1>3. /\ \A k \in Keys : k # Key(e) => intent'[k] = intent[k]
      /\ \A k \in Keys : intent[k] # "none" => intent'[k] # "none"
  BY IntentMoves
<1>4. ASSUME NEW f \in Execs, run'[f].pc \in Staged
      PROVE  intent'[Key(f)'] # "none" /\ Kinds[run'[f].action] \in Outbound
  <2>1. CASE f # e
    BY <1>1, <1>2, <1>3, <1>4, <2>1 DEF Intents, Staged
  <2>2. CASE f = e
    <3>1. y.action = x.action /\ Key(e)' = Key(e) /\ y.pc \in Staged
      BY <1>1, <1>4, <2>2, Arrivals
    <3>2. CASE x.pc \in Staged
      BY <1>1, <1>2, <1>3, <2>2, <3>1, <3>2 DEF Intents, Staged
    <3>3. CASE x.pc \notin Staged
      <4>1. MInsert(e, x, y) \/ MLook(e, x, y)
        BY <3>1, <3>3, Arrivals DEF Staged, MConsult, MFlip, MSend
      <4>2. Kinds[x.action] \in Outbound
        BY <4>1 DEF MInsert, MLook
      <4>3. intent'[Key(e)] # "none"
        <5>1. CASE MInsert(e, x, y)
          BY <1>2, <5>1, RetryFuns DEF MInsert
        <5>2. CASE MLook(e, x, y)
          BY <1>2, <1>3, <5>2 DEF MLook
        <5> QED
          BY <4>1, <5>1, <5>2
      <4> QED
        BY <1>1, <2>2, <3>1, <4>2, <4>3
    <3> QED
      BY <3>2, <3>3
  <2> QED
    BY <2>1, <2>2
<1>5. ASSUME NEW f \in Execs
      PROVE  /\ run'[f].pc = "flip" => run'[f].seen \in {"pending", "failed"}
             /\ run'[f].pc = "record" => run'[f].seen \in Settled \cup {"failed"}
  <2>1. CASE f # e
    BY <1>1, <2>1 DEF Intents
  <2>2. CASE f = e
    <3>1. ASSUME y.pc = "flip" PROVE y.seen \in {"pending", "failed"}
      <4>1. x.pc = "consult" /\ intent[Key(e)] \notin Settled /\ y.seen = intent[Key(e)]
        BY <3>1, Arrivals DEF MConsult
      <4>2. intent[Key(e)] # "none" /\ intent[Key(e)] \in IntentStati
        BY <1>2, <4>1, RetryFuns DEF Intents
      <4> QED
        BY <4>1, <4>2 DEF IntentStati
    <3>2. ASSUME y.pc = "record" PROVE y.seen \in Settled \cup {"failed"}
      BY <3>2, Arrivals DEF MSend, Outcomes, Settled
    <3> QED
      BY <1>1, <2>2, <3>1, <3>2
  <2> QED
    BY <2>1, <2>2
<1>6. ASSUME NEW s \in sends' PROVE Started(s.by)' /\ intent'[StepKey(s.by, s.action)'] # "none"
  <2>1. CASE s \in sends
    BY <1>3, <2>1, SendFrame DEF Intents
  <2>2. CASE s \notin sends
    <3>1. s.by = e /\ s.action = x.action /\ x.pc = "send" /\ intent' = intent
      BY <2>2, SendMoves
    <3>2. Started(s.by)' /\ StepKey(s.by, s.action)' = Key(e)
      BY <1>1, <3>1, MoveFrame DEF StepKey, Key, Moves, Started
    <3> QED
      BY <3>1, <3>2 DEF Intents
  <2> QED
    BY <2>1, <2>2
<1>7. ASSUME NEW k \in Keys, \E s \in sends : s.delivered /\ StepKey(s.by, s.action) = k
      PROVE  \E s \in sends' : s.delivered /\ StepKey(s.by, s.action)' = k
  <2>1. PICK s \in sends : s.delivered /\ StepKey(s.by, s.action) = k
    BY <1>7
  <2>2. s \in sends'
    BY SendMoves
  <2>3. StepKey(s.by, s.action)' = k
    BY <2>1, SendFrame
  <2> QED
    BY <2>1, <2>2, <2>3
<1>8. ASSUME NEW k \in Keys, intent'[k] = "sent" PROVE \E s \in sends' : s.delivered /\ StepKey(s.by, s.action)' = k
  <2>1. CASE intent[k] = "sent"
    BY <1>7, <2>1 DEF Intents
  <2>2. CASE intent[k] # "sent"
    <3>1. k = Key(e) /\ MRecord(e, x, y) /\ x.seen = "sent"
      BY <1>8, <1>3, <2>2, IntentMoves
    <3> QED
      BY <1>7, <3>1 DEF Intents, MRecord
  <2> QED
    BY <2>1, <2>2
<1>9. ASSUME NEW f \in Execs, run'[f].pc = "record", run'[f].seen = "sent"
      PROVE  \E s \in sends' : s.delivered /\ StepKey(s.by, s.action)' = Key(f)'
  <2>1. CASE f # e
    BY <1>1, <1>2, <1>7, <1>9, <2>1 DEF Intents
  <2>2. CASE f = e
    <3>1. MSend(e, x, y) /\ Key(e)' = Key(e) /\ y.seen = "sent"
      BY <1>1, <1>9, <2>2, Arrivals DEF Staged
    <3>2. PICK t : t \in sends' /\ t.by = e /\ t.action = x.action /\ t.delivered \in BOOLEAN
                   /\ y.seen \in Outcomes(Kinds[x.action], t.delivered)
      BY <3>1, SendMoves
    <3>3. t.delivered
      BY <3>1, <3>2 DEF Outcomes
    <3>4. StepKey(t.by, t.action)' = Key(e)'
      BY <1>1, <3>1, <3>2, MoveFrame DEF StepKey, Key
    <3> QED
      BY <2>2, <3>2, <3>3, <3>4
  <2> QED
    BY <2>1, <2>2
<1>10. ASSUME NEW k \in Keys, Requested(k) PROVE Requested(k)'
  <2>1. PICK s \in sends : StepKey(s.by, s.action) = k
    BY <1>10 DEF Requested
  <2>2. s \in sends' /\ StepKey(s.by, s.action)' = k
    BY <2>1, SendMoves, SendFrame
  <2> QED
    BY <2>2 DEF Requested
<1>11. ASSUME NEW k \in Keys, intent'[k] = "failed" PROVE Requested(k)'
  <2>1. CASE intent[k] = "failed"
    BY <1>10, <2>1 DEF Intents
  <2>2. CASE intent[k] # "failed"
    <3>1. k = Key(e) /\ MRecord(e, x, y)
      BY <1>11, <1>3, <2>2, IntentMoves
    <3> QED
      BY <1>10, <3>1 DEF Intents, MRecord
  <2> QED
    BY <2>1, <2>2
<1>12. ASSUME NEW f \in Execs, run'[f].pc = "record" PROVE Requested(Key(f))'
  <2>1. CASE f # e
    BY <1>1, <1>2, <1>10, <1>12, <2>1 DEF Intents, Requested
  <2>2. CASE f = e
    <3>1. MSend(e, x, y) /\ Key(e)' = Key(e)
      BY <1>1, <1>12, <2>2, Arrivals DEF Staged
    <3>2. PICK t : t \in sends' /\ t.by = e /\ t.action = x.action
      BY <3>1, SendMoves
    <3>3. StepKey(t.by, t.action)' = Key(e)'
      BY <1>1, <3>1, <3>2, MoveFrame DEF StepKey, Key
    <3> QED
      BY <2>2, <3>2, <3>3 DEF Requested
  <2> QED
    BY <2>1, <2>2
<1> QED
  BY <1>4, <1>5, <1>6, <1>8, <1>9, <1>11, <1>12 DEF Intents, Staged

LEMMA IntentsStart ==
  ASSUME RetryTypeOK, Intents, NEW p \in Execs, NEW e \in Execs, NEW y, Starts(p, e, y)
  PROVE  Intents'
<1>1. /\ run'[e] = y /\ y.pc = "act" /\ ~ Started(e) /\ Started(e)'
      /\ \A f \in Execs : f # e => run'[f] = run[f] /\ Key(f)' = Key(f) /\ (Started(f)' <=> Started(f))
  <2>1. y.pc = "act"
    BY DEF Starts
  <2> QED
    BY <2>1, StartFrame DEF Key
<1>2. intent' = intent /\ sends' = sends
  BY DEF Starts, NoIntent, NoSend
<1>3. ASSUME NEW s \in sends
      PROVE  s.by \in Execs /\ Started(s.by)' /\ StepKey(s.by, s.action)' = StepKey(s.by, s.action)
  <2>1. s \in [by : Execs, action : Actions, delivered : BOOLEAN]
    BY RetryFuns
  <2>2. s.by \in Execs /\ Started(s.by)
    BY <2>1 DEF Intents
  <2> QED
    BY <1>1, <2>2, StartFrame
<1>4. ASSUME NEW f \in Execs, run'[f].pc \in Staged
      PROVE  intent'[Key(f)'] # "none" /\ Kinds[run'[f].action] \in Outbound
  BY <1>1, <1>2, <1>4 DEF Intents, Staged
<1>5. ASSUME NEW f \in Execs
      PROVE  /\ run'[f].pc = "flip" => run'[f].seen \in {"pending", "failed"}
             /\ run'[f].pc = "record" => run'[f].seen \in Settled \cup {"failed"}
  BY <1>1 DEF Intents
<1>6. ASSUME NEW s \in sends' PROVE Started(s.by)' /\ intent'[StepKey(s.by, s.action)'] # "none"
  BY <1>2, <1>3 DEF Intents
<1>7. ASSUME NEW k, \E s \in sends : s.delivered /\ StepKey(s.by, s.action) = k
      PROVE  \E s \in sends' : s.delivered /\ StepKey(s.by, s.action)' = k
  <2>1. PICK s \in sends : s.delivered /\ StepKey(s.by, s.action) = k
    BY <1>7
  <2> QED
    BY <1>2, <1>3, <2>1
<1>8. ASSUME NEW k \in Keys, intent'[k] = "sent" PROVE \E s \in sends' : s.delivered /\ StepKey(s.by, s.action)' = k
  BY <1>2, <1>7, <1>8 DEF Intents
<1>9. ASSUME NEW f \in Execs, run'[f].pc = "record", run'[f].seen = "sent"
      PROVE  \E s \in sends' : s.delivered /\ StepKey(s.by, s.action)' = Key(f)'
  BY <1>1, <1>7, <1>9 DEF Intents
<1>10. ASSUME NEW k, Requested(k) PROVE \E s \in sends' : StepKey(s.by, s.action)' = k
  <2>1. PICK s \in sends : StepKey(s.by, s.action) = k
    BY <1>10 DEF Requested
  <2> QED
    BY <1>2, <1>3, <2>1
<1>11. ASSUME NEW k \in Keys, intent'[k] = "failed" PROVE Requested(k)'
  BY <1>2, <1>10, <1>11 DEF Intents, Requested
<1>12. ASSUME NEW f \in Execs, run'[f].pc = "record" PROVE Requested(Key(f))'
  BY <1>1, <1>10, <1>12 DEF Intents, Requested
<1> QED
  BY <1>4, <1>5, <1>6, <1>8, <1>9, <1>11, <1>12 DEF Intents, Staged

-----------------------------------------------------------------------------
(* Emails *)
IsEmail(e) == Kinds[run[e].action] = "email"

LEMMA EmailArrives ==
  ASSUME RetryTypeOK, Intents, Emails, NEW e \in Execs, NEW y, Moves(e, y), y.pc = "send", IsEmail(e)
  PROVE  MInsert(e, run[e], y) /\ intent[Key(e)] = "none" /\ sends' = sends
<1>1. MFlip(e, run[e], y) /\ run[e].seen \notin Settled \cup {"pending"} => FALSE
  BY DEF MFlip, Intents, Emails, IsEmail
<1>2. MInsert(e, run[e], y)
  BY <1>1, Arrivals
<1> QED
  BY <1>2 DEF MInsert, NoSend

LEMMA EmailsMove ==
  ASSUME RetryTypeOK, Intents, Emails, NEW e \in Execs, NEW y, Moves(e, y)
  PROVE  Emails'
<1> DEFINE x == run[e]
<1>1. /\ run'[e] = y /\ \A f \in Execs : f # e => run'[f] = run[f] /\ Key(f)' = Key(f)
  BY MoveFrame DEF Key
<1>2. \A f \in Execs : Key(f) \in Keys /\ Key(f)[2] = run[f].action
  BY RetryFuns DEF Key
<1>3. ASSUME NEW k \in Keys, Kinds[k[2]] = "email" PROVE intent'[k] # "failed"
  <2>1. CASE intent'[k] = intent[k]
    BY <1>3, <2>1 DEF Emails
  <2>2. CASE intent'[k] # intent[k]
    <3>1. k = Key(e)
      BY <2>2, IntentMoves
    <3>2. IsEmail(e)
      BY <1>2, <1>3, <3>1 DEF IsEmail
    <3>3. MRecord(e, x, y) => x.seen # "failed"
      BY <3>2 DEF MRecord, Emails, IsEmail
    <3> QED
      BY <2>2, <3>1, <3>3, IntentMoves
  <2> QED
    BY <2>1, <2>2
<1>4. ASSUME NEW f \in Execs, run'[f].pc \in {"flip", "record"}, Kinds[run'[f].action] = "email"
      PROVE  run'[f].seen # "failed"
  <2>1. CASE f # e
    BY <1>1, <1>4, <2>1 DEF Emails
  <2>2. CASE f = e
    <3>1. y.action = x.action /\ IsEmail(e)
      BY <1>1, <1>4, <2>2, Arrivals DEF Staged, IsEmail
    <3>2. CASE y.pc = "flip"
      BY <1>1, <1>2, <2>2, <3>1, <3>2, Arrivals DEF Emails, IsEmail
    <3>3. CASE y.pc = "record"
      <4>1. \E d : y.seen \in Outcomes("email", d)
        BY <3>1, <3>3, Arrivals, SendMoves DEF IsEmail
      <4> QED
        BY <1>1, <2>2, <4>1 DEF Outcomes
    <3> QED
      BY <1>1, <1>4, <2>2, <3>2, <3>3
  <2> QED
    BY <2>1, <2>2
<1>5. ASSUME NEW f \in Execs, NEW g \in Execs, run'[f].pc = "send", run'[g].pc = "send", Key(f)' = Key(g)',
             Kinds[run'[f].action] = "email", g # e
      PROVE  f = g
  <2>1. run[g].pc = "send" /\ Key(g)' = Key(g)
    BY <1>1, <1>5
  <2>2. CASE f # e
    BY <1>1, <1>5, <2>1, <2>2 DEF Emails
  <2>3. CASE f = e
    <3>1. y.pc = "send" /\ Key(e)' = Key(e) /\ y.action = x.action
      BY <1>1, <1>5, <2>3, Arrivals DEF Staged
    <3>2. intent[Key(e)] = "none"
      BY <1>1, <1>5, <2>3, <3>1, EmailArrives DEF IsEmail
    <3> QED
      BY <1>5, <2>1, <2>3, <3>1, <3>2 DEF Intents
  <2> QED
    BY <2>2, <2>3
<1>6. ASSUME NEW f \in Execs, NEW g \in Execs, run'[f].pc = "send", run'[g].pc = "send", Key(f)' = Key(g)',
             Kinds[run'[f].action] = "email"
      PROVE  f = g
  <2>1. run'[g].action = run'[f].action
    BY <1>6 DEF Key
  <2> QED
    BY <1>5, <1>6, <2>1
<1>7. ASSUME NEW f \in Execs, NEW s \in sends', run'[f].pc = "send", Kinds[run'[f].action] = "email"
      PROVE  StepKey(s.by, s.action)' # Key(f)'
  <2>1. CASE f = e
    <3>1. y.pc = "send" /\ Key(e)' = Key(e) /\ y.action = x.action
      BY <1>1, <1>7, <2>1, Arrivals DEF Staged
    <3>2. intent[Key(e)] = "none" /\ sends' = sends
      BY <1>1, <1>7, <2>1, <3>1, EmailArrives DEF IsEmail
    <3> QED
      BY <1>7, <2>1, <3>1, <3>2, SendFrame DEF Intents
  <2>2. CASE f # e /\ s \in sends
    BY <1>1, <1>7, <2>2, SendFrame DEF Emails
  <2>3. CASE f # e /\ s \notin sends
    <3>1. s.by = e /\ s.action = x.action /\ x.pc = "send"
      BY <2>3, SendMoves
    <3>2. StepKey(s.by, s.action)' = Key(e)
      BY <3>1, MoveFrame DEF StepKey, Key
    <3>3. Key(e) # Key(f)
      BY <1>1, <1>7, <2>3, <3>1 DEF Emails
    <3> QED
      BY <1>1, <2>3, <3>2, <3>3
  <2> QED
    BY <2>1, <2>2, <2>3
<1>8. ASSUME NEW s \in sends', NEW t \in sends', Kinds[s.action] = "email",
             StepKey(s.by, s.action)' = StepKey(t.by, t.action)'
      PROVE  s = t
  <2>1. s.action = t.action
    BY <1>8 DEF StepKey
  <2>2. ASSUME NEW a \in sends', NEW b \in sends, Kinds[a.action] = "email",
               StepKey(a.by, a.action)' = StepKey(b.by, b.action)'
        PROVE  a = b
    <3>1. CASE a \in sends
      BY <2>2, <3>1, SendFrame DEF Emails
    <3>2. CASE a \notin sends
      <4>1. a.by = e /\ a.action = x.action /\ x.pc = "send"
        BY <3>2, SendMoves
      <4>2. StepKey(a.by, a.action)' = Key(e)
        BY <4>1, MoveFrame DEF StepKey, Key
      <4>3. StepKey(b.by, b.action) = Key(e)
        BY <2>2, <4>2, SendFrame
      <4> QED
        BY <2>2, <4>1, <4>3 DEF Emails
    <3> QED
      BY <3>1, <3>2
  <2>3. CASE t \in sends
    BY <1>8, <2>2, <2>3
  <2>4. CASE s \in sends
    BY <1>8, <2>1, <2>2, <2>4
  <2>5. CASE s \notin sends /\ t \notin sends
    BY <2>5, SendMoves
  <2> QED
    BY <2>3, <2>4, <2>5
<1> QED
  BY <1>3, <1>4, <1>6, <1>7, <1>8 DEF Emails

LEMMA EmailsStart ==
  ASSUME RetryTypeOK, Intents, Emails, NEW p \in Execs, NEW e \in Execs, NEW y, Starts(p, e, y)
  PROVE  Emails'
<1>1. /\ run'[e].pc = "act" /\ \A f \in Execs : f # e => run'[f] = run[f] /\ Key(f)' = Key(f)
  <2>1. y.pc = "act"
    BY DEF Starts
  <2> QED
    BY <2>1, StartFrame DEF Key
<1>2. intent' = intent /\ sends' = sends
  BY DEF Starts, NoIntent, NoSend
<1>3. ASSUME NEW s \in sends PROVE StepKey(s.by, s.action)' = StepKey(s.by, s.action)
  <2>1. s \in [by : Execs, action : Actions, delivered : BOOLEAN]
    BY RetryFuns
  <2>2. s.by \in Execs /\ Started(s.by)
    BY <2>1 DEF Intents
  <2> QED
    BY <2>2, StartFrame
<1>4. \A f \in Execs : run'[f].pc \in {"flip", "record"} /\ Kinds[run'[f].action] = "email" => run'[f].seen # "failed"
  BY <1>1 DEF Emails
<1>5. ASSUME NEW f \in Execs, NEW g \in Execs, run'[f].pc = "send", run'[g].pc = "send", Key(f)' = Key(g)',
             Kinds[run'[f].action] = "email"
      PROVE  f = g
  BY <1>1, <1>5 DEF Emails
<1>6. ASSUME NEW f \in Execs, NEW s \in sends, run'[f].pc = "send", Kinds[run'[f].action] = "email"
      PROVE  StepKey(s.by, s.action)' # Key(f)'
  BY <1>1, <1>3, <1>6 DEF Emails
<1>7. ASSUME NEW s \in sends, NEW t \in sends, Kinds[s.action] = "email",
             StepKey(s.by, s.action)' = StepKey(t.by, t.action)'
      PROVE  s = t
  BY <1>3, <1>7 DEF Emails
<1> QED
  BY <1>2, <1>4, <1>5, <1>6, <1>7 DEF Emails

-----------------------------------------------------------------------------
(* One run at a time.  The conjuncts of Alone, each under ~ overlapped:    *)
OneActive == \A e, f \in Execs : run[e].pc \notin Stopped /\ run[f].pc \notin Stopped => e = f
ReadTrue == \A e \in Execs : /\ run[e].pc = "flip" => intent[Key(e)] = run[e].seen
                             /\ run[e].pc \in {"send", "record"} => intent[Key(e)] = "pending"
NotAgain(s) ==
  /\ intent[StepKey(s.by, s.action)] # "failed"
  /\ \A e \in Execs : Key(e) = StepKey(s.by, s.action)
       => run[e].pc # "send" /\ (run[e].pc = "record" => run[e].seen # "failed")
OnceOnly ==
  \A s, t \in sends : s.delivered /\ t.delivered /\ StepKey(s.by, s.action) = StepKey(t.by, t.action) => s = t

LEMMA AloneParts ==
  Alone <=> (~ overlapped => OneActive /\ ReadTrue /\ (\A s \in sends : s.delivered => NotAgain(s)) /\ OnceOnly)
BY DEF Alone, OneActive, ReadTrue, NotAgain, OnceOnly

LEMMA AloneMove ==
  ASSUME RetryTypeOK, Intents, OneActive, ReadTrue, \A s \in sends : s.delivered => NotAgain(s), OnceOnly,
         NEW e \in Execs, NEW y, Moves(e, y)
  PROVE  OneActive' /\ ReadTrue' /\ (\A s \in sends' : s.delivered => NotAgain(s)') /\ OnceOnly'
<1> DEFINE x == run[e]
<1>1. /\ run'[e] = y /\ \A f \in Execs : f # e => run'[f] = run[f] /\ Key(f)' = Key(f)
  BY MoveFrame DEF Key
<1>2. \A f \in Execs : Key(f) \in Keys
  BY RetryFuns
<1>3. \A f \in Execs : f # e => run'[f].pc \in Stopped
  BY <1>1 DEF Moves, OneActive
<1>4. OneActive'
  BY <1>3 DEF OneActive
<1>5. y.pc = "send" => \/ MInsert(e, x, y) /\ intent[Key(e)] = "none" /\ intent'[Key(e)] = "pending" /\ NoSend
                       \/ MFlip(e, x, y) /\ intent[Key(e)] = "failed" /\ intent'[Key(e)] = "pending" /\ NoSend
  <2>1. ASSUME MInsert(e, x, y)
        PROVE  intent[Key(e)] = "none" /\ intent'[Key(e)] = "pending" /\ NoSend
    BY <1>2, <2>1, RetryFuns DEF MInsert
  <2>2. ASSUME MFlip(e, x, y), x.seen \notin Settled \cup {"pending"}
        PROVE  intent[Key(e)] = "failed" /\ intent'[Key(e)] = "pending" /\ NoSend
    <3>1. x.seen = "failed" /\ intent[Key(e)] = "failed"
      BY <2>2 DEF MFlip, Intents, ReadTrue
    <3>2. intent' = [intent EXCEPT ![Key(e)] = "pending"] /\ NoSend
      BY <2>2, <3>1 DEF MFlip, SetIntent
    <3> QED
      BY <1>2, <3>1, <3>2, RetryFuns
  <2> QED
    BY <2>1, <2>2, Arrivals
<1>6. ASSUME NEW f \in Execs
      PROVE  /\ run'[f].pc = "flip" => intent'[Key(f)'] = run'[f].seen
             /\ run'[f].pc \in {"send", "record"} => intent'[Key(f)'] = "pending"
  <2>1. CASE f # e
    BY <1>3, <2>1 DEF Stopped
  <2>2. CASE f = e
    <3>1. y.pc \in Staged => Key(e)' = Key(e)
      BY Arrivals
    <3>2. y.pc = "flip" => intent'[Key(e)'] = y.seen
      BY <3>1, Arrivals DEF Staged, MConsult, NoIntent
    <3>3. y.pc = "send" => intent'[Key(e)'] = "pending"
      BY <1>5, <3>1 DEF Staged
    <3>4. y.pc = "record" => intent'[Key(e)'] = "pending"
      BY <3>1, Arrivals DEF Staged, MSend, NoIntent, ReadTrue
    <3> QED
      BY <1>1, <2>2, <3>2, <3>3, <3>4
  <2> QED
    BY <2>1, <2>2
<1>7. ReadTrue'
  BY <1>6 DEF ReadTrue
<1>8. ASSUME NEW s \in sends', s.delivered, s \notin sends
      PROVE  /\ x.pc = "send" /\ y.pc = "record" /\ y.seen # "failed"
             /\ intent' = intent /\ s.by = e /\ s.action = x.action
             /\ StepKey(s.by, s.action)' = Key(e) /\ Key(e)' = Key(e) /\ intent[Key(e)] = "pending"
  <2>1. /\ x.pc = "send" /\ y.pc = "record" /\ intent' = intent /\ s.by = e /\ s.action = x.action
        /\ y.seen \in Outcomes(Kinds[x.action], s.delivered)
    <3>1. sends' # sends
      BY <1>8
    <3>2. PICK t : /\ sends' = sends \cup {t} /\ t.by = e /\ t.action = x.action
                   /\ y.seen \in Outcomes(Kinds[x.action], t.delivered)
      BY <3>1, SendMoves
    <3>3. s = t
      BY <1>8, <3>2
    <3> QED
      BY <3>1, <3>2, <3>3, SendMoves
  <2>2. y.seen # "failed"
    BY <1>8, <2>1 DEF Outcomes
  <2>3. StepKey(s.by, s.action)' = Key(e) /\ Key(e)' = Key(e)
    BY <2>1, MoveFrame, Arrivals DEF StepKey, Key, Staged
  <2> QED
    BY <2>1, <2>2, <2>3 DEF ReadTrue
<1>9. ASSUME NEW s \in sends', s.delivered PROVE intent'[StepKey(s.by, s.action)'] # "failed"
  <2>1. CASE s \in sends
    <3>1. PICK k \in Keys : k = StepKey(s.by, s.action) /\ StepKey(s.by, s.action)' = k
      BY <2>1, SendFrame
    <3>2. intent[k] # "failed"
      BY <1>9, <2>1, <3>1 DEF NotAgain
    <3>3. ASSUME intent'[k] = "failed" PROVE FALSE
      <4>1. k = Key(e) /\ MRecord(e, x, y) /\ x.seen = "failed"
        BY <3>2, <3>3, IntentMoves
      <4> QED
        BY <1>9, <2>1, <3>1, <4>1 DEF NotAgain, MRecord
    <3> QED
      BY <3>1, <3>3
  <2>2. CASE s \notin sends
    BY <1>8, <1>9, <2>2
  <2> QED
    BY <2>1, <2>2
<1>10. ASSUME NEW s \in sends', s.delivered, NEW f \in Execs, Key(f)' = StepKey(s.by, s.action)'
       PROVE  run'[f].pc # "send" /\ (run'[f].pc = "record" => run'[f].seen # "failed")
  <2>1. CASE f # e
    BY <1>3, <2>1 DEF Stopped
  <2>2. CASE f = e
    <3>1. y.pc # "send"
      <4>1. ASSUME y.pc = "send" PROVE FALSE
        <5>1. s \in sends /\ Key(e)' = Key(e)
          BY <1>5, <4>1, Arrivals DEF Staged, NoSend
        <5>2. StepKey(s.by, s.action) = Key(e)
          BY <1>10, <2>2, <5>1, SendFrame
        <5>3. intent[Key(e)] # "none" /\ intent[Key(e)] # "failed"
          BY <1>10, <5>1, <5>2 DEF Intents, NotAgain
        <5> QED
          BY <1>5, <4>1, <5>3
      <4> QED
        BY <4>1
    <3>2. ASSUME y.pc = "record" PROVE y.seen # "failed"
      <4>1. CASE s \in sends
        <5>1. x.pc = "send" /\ Key(e)' = Key(e)
          BY <3>2, Arrivals DEF Staged, MSend
        <5>2. StepKey(s.by, s.action) = Key(e)
          BY <1>10, <2>2, <4>1, <5>1, SendFrame
        <5> QED
          BY <1>10, <4>1, <5>1, <5>2 DEF NotAgain
      <4>2. CASE s \notin sends
        BY <1>8, <1>10, <4>2
      <4> QED
        BY <4>1, <4>2
    <3> QED
      BY <1>1, <2>2, <3>1, <3>2
  <2> QED
    BY <2>1, <2>2
<1>11. ASSUME NEW s \in sends', s.delivered PROVE NotAgain(s)'
  BY <1>9, <1>10, <1>11 DEF NotAgain
<1>12. ASSUME NEW s \in sends', NEW t \in sends', s.delivered, t.delivered,
              StepKey(s.by, s.action)' = StepKey(t.by, t.action)'
       PROVE  s = t
  <2>1. ASSUME NEW a \in sends', NEW b \in sends, a.delivered, b.delivered,
               StepKey(a.by, a.action)' = StepKey(b.by, b.action)'
        PROVE  a = b
    <3>1. CASE a \in sends
      BY <2>1, <3>1, SendFrame DEF OnceOnly
    <3>2. CASE a \notin sends
      <4>1. StepKey(b.by, b.action) = Key(e) /\ x.pc = "send"
        BY <1>8, <2>1, <3>2, SendFrame
      <4> QED
        BY <2>1, <4>1 DEF NotAgain
    <3> QED
      BY <3>1, <3>2
  <2>2. CASE s \in sends \/ t \in sends
    BY <1>12, <2>1, <2>2
  <2>3. CASE s \notin sends /\ t \notin sends
    BY <2>3, SendMoves
  <2> QED
    BY <2>2, <2>3
<1> QED
  BY <1>4, <1>7, <1>11, <1>12 DEF OnceOnly

LEMMA AloneStart ==
  ASSUME RetryTypeOK, Intents, Alone, NEW p \in Execs, NEW e \in Execs, NEW y, Starts(p, e, y)
  PROVE  Alone'
<1> SUFFICES ASSUME ~ overlapped'
             PROVE  OneActive' /\ ReadTrue' /\ (\A s \in sends' : s.delivered => NotAgain(s)') /\ OnceOnly'
  BY DEF Alone, OneActive, ReadTrue, NotAgain, OnceOnly
<1>1. ~ overlapped /\ (\A f \in Execs : run[f].pc \in Stopped) /\ intent' = intent /\ sends' = sends /\ y.pc = "act"
  BY RetryFuns DEF Starts, NoIntent, NoSend
<1>2. OneActive /\ ReadTrue /\ (\A s \in sends : s.delivered => NotAgain(s)) /\ OnceOnly
  BY <1>1, AloneParts
<1>3. run'[e].pc = "act" /\ \A f \in Execs : f # e => run'[f] = run[f] /\ Key(f)' = Key(f)
  BY <1>1, StartFrame DEF Key
<1>4. \A f \in Execs : f # e => run'[f].pc \in Stopped
  BY <1>1, <1>3
<1>5. OneActive' /\ ReadTrue'
  BY <1>3, <1>4 DEF OneActive, ReadTrue, Stopped
<1>6. ASSUME NEW s \in sends PROVE StepKey(s.by, s.action)' = StepKey(s.by, s.action)
  <2>1. s \in [by : Execs, action : Actions, delivered : BOOLEAN]
    BY RetryFuns
  <2>2. s.by \in Execs /\ Started(s.by)
    BY <2>1 DEF Intents
  <2> QED
    BY <2>2, StartFrame
<1>7. ASSUME NEW s \in sends, s.delivered PROVE NotAgain(s)'
  <2>1. intent'[StepKey(s.by, s.action)'] # "failed"
    BY <1>1, <1>2, <1>6, <1>7 DEF NotAgain
  <2>2. \A f \in Execs : run'[f].pc # "send" /\ run'[f].pc # "record"
    BY <1>3, <1>4 DEF Stopped
  <2> QED
    BY <2>1, <2>2 DEF NotAgain
<1>8. ASSUME NEW s \in sends, NEW t \in sends, s.delivered, t.delivered,
             StepKey(s.by, s.action)' = StepKey(t.by, t.action)'
      PROVE  s = t
  BY <1>2, <1>6, <1>8 DEF OnceOnly
<1> QED
  BY <1>1, <1>5, <1>7, <1>8 DEF OnceOnly

-----------------------------------------------------------------------------
(* What was passed stays explained. *)
LEMMA ExplainedKept ==
  ASSUME RetryTypeOK, Claims, Intents, commits \subseteq commits', sends \subseteq sends', stale \subseteq stale',
         \A k \in Keys : intent[k] = "outcome_unknown" => intent'[k] = "outcome_unknown",
         \A f \in Execs : Started(f) => \A a : StepKey(f, a)' = StepKey(f, a),
         NEW e \in Execs, NEW r \in Execs, NEW a \in Actions, Explained(e, r, a)
  PROVE  Explained(e, r, a)'
<1>1. \A w \in commits : StepKey(w[1], w[2])' = StepKey(w[1], w[2])
  BY RetryFuns DEF Keys, Claims
<1>2. ASSUME NEW s \in sends PROVE StepKey(s.by, s.action)' = StepKey(s.by, s.action)
  <2>1. s \in [by : Execs, action : Actions, delivered : BOOLEAN]
    BY RetryFuns
  <2>2. s.by \in Execs /\ Started(s.by)
    BY <2>1 DEF Intents
  <2> QED
    BY <2>2
<1>3. <<r, a>> \in Keys
  BY DEF Keys
<1>4. CASE Kinds[a] \in Records
  <2>1. PICK w \in commits : StepKey(w[1], w[2]) = <<r, a>>
    BY <1>4 DEF Explained
  <2>2. w \in commits' /\ StepKey(w[1], w[2])' = <<r, a>>
    BY <1>1, <2>1
  <2> QED
    BY <1>4, <2>2 DEF Explained
<1>5. CASE Kinds[a] \notin Records
  <2>1. CASE intent[<<r, a>>] = "outcome_unknown"
    BY <1>3, <1>5, <2>1 DEF Explained
  <2>2. CASE \E s \in sends : (s.delivered \/ <<e, a>> \in stale) /\ StepKey(s.by, s.action) = <<r, a>>
    <3>1. PICK s \in sends : (s.delivered \/ <<e, a>> \in stale) /\ StepKey(s.by, s.action) = <<r, a>>
      BY <2>2
    <3>2. s \in sends' /\ StepKey(s.by, s.action)' = <<r, a>>
      BY <1>2, <3>1
    <3> QED
      BY <1>5, <3>1, <3>2 DEF Explained
  <2> QED
    BY <1>5, <2>1, <2>2 DEF Explained
<1> QED
  BY <1>4, <1>5

(* A step is passed only when it is explained. *)
LEMMA PassExplains ==
  ASSUME RetryTypeOK, Claims, Intents, Alone, NEW e \in Execs, NEW y, Moves(e, y),
         NEW r \in Execs, NEW a \in Actions, r = run[e].root, a = run[e].action
  PROVE  \/ Pass(run[e], y) /\ Explained(e, r, a)'
         \/ y.action = 1 /\ y.status # "success"
         \/ y.action = run[e].action /\ y.status = run[e].status
<1> DEFINE x == run[e]
<1>1. Key(e) = <<r, a>> /\ Key(e) \in Keys
  BY RetryFuns DEF Key
<1>2. StepKey(e, a)' = <<r, a>>
  BY MoveFrame DEF StepKey
<1>3. ASSUME NEW s \in sends, s.delivered \/ <<e, a>> \in stale', StepKey(s.by, s.action) = <<r, a>>,
             Kinds[a] \notin Records
      PROVE  Explained(e, r, a)'
  <2>1. s \in sends' /\ StepKey(s.by, s.action)' = <<r, a>>
    BY <1>3, SendMoves, SendFrame
  <2> QED
    BY <1>3, <2>1 DEF Explained
<1>4. CASE MFail(e, x, y) \/ MStore(e, x, y) \/ MInsert(e, x, y) \/ MLook(e, x, y) \/ MSend(e, x, y)
  BY <1>4 DEF MFail, MStore, MInsert, MLook, MSend, GoOn, Stop
<1>5. CASE MWrite(e, x, y)
  <2>1. PICK w : w = <<e, a>>
    OBVIOUS
  <2>2. w \in commits' /\ w[1] = e /\ w[2] = a
    BY <1>5, <2>1 DEF MWrite
  <2>3. StepKey(w[1], w[2])' = <<r, a>>
    BY <1>2, <2>2
  <2>4. Explained(e, r, a)'
    BY <1>5, <2>2, <2>3 DEF Explained, MWrite
  <2> QED
    BY <1>5, <2>4 DEF MWrite, Stop
<1>6. CASE MHeld(e, x, y)
  <2>1. PICK w \in commits : StepKey(w[1], w[2]) = <<r, a>>
    BY <1>1, <1>6 DEF MHeld, Claims
  <2>2. w[1] \in Execs
    BY RetryFuns DEF Keys
  <2>3. w \in commits' /\ StepKey(w[1], w[2])' = <<r, a>>
    BY <1>6, <2>1, <2>2, MoveFrame DEF MHeld, NoWrite
  <2> QED
    BY <1>6, <2>3 DEF Explained, MHeld
<1>7. CASE MConsult(e, x, y)
  <2>1. Kinds[a] \notin Records
    BY <1>7 DEF MConsult, Intents, Outbound, Records
  <2>2. CASE intent[Key(e)] = "sent"
    <3>1. Explained(e, r, a)'
      BY <1>1, <1>3, <2>1, <2>2 DEF Intents
    <3> QED
      BY <1>7, <3>1 DEF MConsult, GoOn
  <2>3. CASE intent[Key(e)] = "outcome_unknown"
    <3>1. Explained(e, r, a)'
      BY <1>1, <1>7, <2>1, <2>3 DEF MConsult, NoIntent, Explained
    <3> QED
      BY <1>7, <3>1 DEF MConsult, GoOn
  <2>4. CASE intent[Key(e)] \notin Settled
    BY <1>7, <2>4 DEF MConsult, GoOn
  <2> QED
    BY <2>2, <2>3, <2>4 DEF Settled
<1>8. CASE MFlip(e, x, y)
  <2>1. Kinds[a] \notin Records /\ x.seen \in {"pending", "failed"}
    BY <1>8 DEF MFlip, Intents, Outbound, Records
  <2>2. CASE x.seen = "pending"
    <3>1. CASE intent[Key(e)] = "pending"
      <4>1. intent' = [intent EXCEPT ![Key(e)] = "outcome_unknown"]
        BY <1>8, <2>2, <3>1 DEF MFlip, SetIntent
      <4>2. intent'[<<r, a>>] = "outcome_unknown"
        BY <1>1, <4>1, RetryFuns
      <4> QED
        BY <1>8, <2>1, <4>2 DEF MFlip, Explained, GoOn, Stop
    <3>2. CASE intent[Key(e)] = "outcome_unknown"
      <4>1. intent'[<<r, a>>] = "outcome_unknown"
        BY <1>1, <3>2, IntentMoves
      <4> QED
        BY <1>8, <2>1, <4>1 DEF MFlip, Explained, GoOn, Stop
    <3>3. CASE intent[Key(e)] \in {"sent", "failed"}
      <4>1. PICK s \in sends : StepKey(s.by, s.action) = <<r, a>>
        BY <1>1, <3>3 DEF Intents, Requested
      <4>2. Pass(x, y) => Explained(e, r, a)'
        <5>1. Pass(x, y) => <<e, a>> \in stale'
          BY <1>8, <2>2, <3>3 DEF MFlip, Stop, Pass, GoOn
        <5> QED
          BY <1>3, <2>1, <4>1, <5>1
      <4> QED
        BY <1>8, <2>2, <4>2 DEF MFlip, GoOn, Stop, Settled
    <3>4. intent[Key(e)] \in {"pending", "outcome_unknown", "sent", "failed"}
      BY <1>1, <1>8, RetryFuns DEF MFlip, Intents, IntentStati, Settled
    <3> QED
      BY <3>1, <3>2, <3>3, <3>4
  <2>3. CASE x.seen = "failed"
    BY <1>8, <2>3 DEF MFlip, GoOn, Stop, Settled
  <2> QED
    BY <2>1, <2>2, <2>3
<1>9. CASE MRecord(e, x, y)
  <2>1. Kinds[a] \notin Records
    BY <1>9 DEF MRecord, Intents, Outbound, Records
  <2>2. CASE x.seen = "sent"
    <3>1. Explained(e, r, a)'
      BY <1>1, <1>3, <1>9, <2>1, <2>2 DEF Intents, MRecord
    <3> QED
      BY <1>9, <3>1 DEF MRecord, Stop
  <2>3. CASE x.seen # "sent"
    BY <1>9, <2>3 DEF MRecord, Stop
  <2> QED
    BY <2>2, <2>3
<1> QED
  BY <1>4, <1>5, <1>6, <1>7, <1>8, <1>9 DEF Moves, MoveOf

LEMMA LogMoves ==
  ASSUME RetryTypeOK, NEW e \in Execs, NEW y, Moves(e, y)
  PROVE  /\ \A f \in Execs : f # e => log'[f] = log[f]
         /\ log[e].status = "none"
         /\ \/ log' = log
            \/ MStore(e, run[e], y) /\ log'[e].status = run[e].status /\ log'[e].parent = run[e].parent
<1>1. log \in [Execs -> LogType] /\ log[e].status = "none"
  BY RetryFuns DEF Moves, Stopped
<1>2. \/ log' = log
      \/ /\ MStore(e, run[e], y)
         /\ log' = [log EXCEPT ![e] = [status |-> run[e].status, parent |-> run[e].parent]]
  BY DEF Moves, MoveOf, MFail, MStore, MWrite, MHeld, MInsert, MLook, MConsult, MFlip, MSend, MRecord, NoLog
<1> QED
  BY <1>1, <1>2

LEMMA PassedMove ==
  ASSUME RetryTypeOK, Claims, Intents, Alone, Passed, NEW e \in Execs, NEW y, Moves(e, y)
  PROVE  Passed'
<1> DEFINE x == run[e]
<1>1. run'[e] = y /\ \A f \in Execs : f # e => run'[f] = run[f]
  BY MoveFrame
<1>2. x \in RunType /\ y \in RunType /\ Started(e) /\ y.root = x.root
  BY RetryFuns DEF Moves, Started, Stopped
<1>3. PICK r \in Execs, b \in Actions : r = x.root /\ b = x.action
  BY <1>2 DEF RunType
<1>4. ASSUME NEW f \in Execs, NEW q \in Execs, NEW a \in Actions, Explained(f, q, a) PROVE Explained(f, q, a)'
  <2>1. commits \subseteq commits'
    BY DEF Moves, MoveOf, MFail, MStore, MWrite, MHeld, MInsert, MLook, MConsult, MFlip, MSend, MRecord, NoWrite
  <2>2. sends \subseteq sends' /\ stale \subseteq stale'
    <3>1. sends \subseteq sends'
      BY SendMoves
    <3> QED
      BY <3>1 DEF Moves
  <2>3. \A k \in Keys : intent[k] = "outcome_unknown" => intent'[k] = "outcome_unknown"
    BY IntentMoves
  <2>4. \A g \in Execs : Started(g) => \A c : StepKey(g, c)' = StepKey(g, c)
    BY MoveFrame
  <2> QED
    BY <1>4, <2>1, <2>2, <2>3, <2>4, ExplainedKept
<1>5. ASSUME NEW f \in Execs, Started(f)', f # e, NEW a \in Actions,
             a < run'[f].action \/ run'[f].status = "success" \/ log'[f].status = "success"
      PROVE  Explained(f, run[f].root, a)'
  <2>1. PICK q \in Execs : q = run[f].root /\ q = run'[f].root
    BY <1>1, <1>5, RetryFuns DEF RunType
  <2>2. Started(f) /\ run'[f] = run[f] /\ log'[f] = log[f]
    BY <1>1, <1>5, LogMoves, MoveFrame
  <2>3. Explained(f, q, a)
    BY <1>5, <2>1, <2>2 DEF Passed
  <2> QED
    BY <1>4, <2>1, <2>3
<1>6. ASSUME NEW a \in Actions, a < x.action \/ x.status = "success" PROVE Explained(e, r, a)'
  <2>1. Explained(e, r, a)
    BY <1>2, <1>3, <1>6 DEF Passed
  <2> QED
    BY <1>4, <2>1
<1>7. ASSUME NEW a \in Actions, a < y.action \/ y.status = "success" PROVE Explained(e, r, a)'
  <2>1. Len(Kinds) \in Nat /\ a \in 1 .. Len(Kinds) /\ b \in 1 .. Len(Kinds) /\ b = x.action
    BY <1>3, KindsAssumption, LenProperties DEF Actions
  <2>2. CASE Pass(x, y) /\ Explained(e, r, b)'
    <3>1. a < x.action \/ x.status = "success" \/ a = b
      BY <1>7, <2>1, <2>2 DEF Pass
    <3> QED
      BY <1>6, <2>2, <3>1
  <2>3. CASE y.action = 1 /\ y.status # "success"
    BY <1>7, <2>1, <2>3
  <2>4. CASE y.action = x.action /\ y.status = x.status
    BY <1>6, <1>7, <2>4
  <2> QED
    BY <1>3, <2>2, <2>3, <2>4, PassExplains
<1>8. ASSUME log'[e].status = "success", NEW a \in Actions PROVE Explained(e, r, a)'
  <2>1. x.status = "success"
    BY <1>8, LogMoves
  <2> QED
    BY <1>6, <2>1
<1>9. ASSUME NEW f \in Execs, Started(f)', NEW a \in Actions
      PROVE  /\ a < run'[f].action \/ run'[f].status = "success" => Explained(f, run[f].root, a)'
             /\ log'[f].status = "success" => Explained(f, run[f].root, a)'
  <2>1. CASE f # e
    BY <1>5, <1>9, <2>1
  <2>2. CASE f = e
    <3>1. run'[f].root = r
      BY <1>1, <1>2, <1>3, <2>2
    <3> QED
      BY <1>1, <1>7, <1>8, <2>2, <3>1
  <2> QED
    BY <2>1, <2>2
<1> QED
  BY <1>9 DEF Passed

LEMMA PassedStart ==
  ASSUME RetryTypeOK, Claims, Intents, Passed, NEW p \in Execs, NEW e \in Execs, NEW y, Starts(p, e, y)
  PROVE  Passed'
<1>1. /\ y.action = 1 /\ y.status = "none" /\ log' = log /\ commits' = commits /\ sends' = sends /\ intent' = intent
      /\ stale' = stale
  BY DEF Starts, NoLog, NoWrite, NoSend, NoIntent
<1>2. run'[e] = y /\ log[e].status = "none" /\ \A f \in Execs : f # e => run'[f] = run[f] /\ (Started(f)' => Started(f))
  BY StartFrame, RetryFuns DEF Started
<1>3. ASSUME NEW f \in Execs, NEW q \in Execs, NEW a \in Actions, Explained(f, q, a) PROVE Explained(f, q, a)'
  <2>1. \A g \in Execs : Started(g) => \A c : StepKey(g, c)' = StepKey(g, c)
    BY StartFrame
  <2> QED
    BY <1>1, <1>3, <2>1, ExplainedKept
<1>4. ASSUME NEW f \in Execs, Started(f)', NEW a \in Actions,
             a < run'[f].action \/ run'[f].status = "success" \/ log'[f].status = "success"
      PROVE  Explained(f, run[f].root, a)'
  <2>1. CASE f = e
    <3>1. ~ (a < 1)
      BY DEF Actions
    <3> QED
      BY <1>1, <1>2, <1>4, <2>1, <3>1
  <2>2. CASE f # e
    <3>1. PICK q \in Execs : q = run[f].root /\ q = run'[f].root
      BY <1>2, <2>2, RetryFuns DEF RunType
    <3>2. Explained(f, q, a)
      BY <1>1, <1>2, <1>4, <2>2, <3>1 DEF Passed
    <3> QED
      BY <1>3, <3>1, <3>2
  <2> QED
    BY <2>1, <2>2
<1> QED
  BY <1>4 DEF Passed

-----------------------------------------------------------------------------
(* The lineage *)
LEMMA TreeMove ==
  ASSUME RetryTypeOK, Tree, NEW e \in Execs, NEW y, Moves(e, y)
  PROVE  Tree'
<1> DEFINE x == run[e]
<1>1. /\ run'[e] = y
      /\ \A f \in Execs : /\ run'[f].root = run[f].root /\ run'[f].parent = run[f].parent
                          /\ Started(f)' <=> Started(f)
                          /\ f # e => run'[f] = run[f]
  BY MoveFrame
<1>2. /\ \A f \in Execs : f # e => log'[f] = log[f]
      /\ log[e].status = "none"
      /\ log' = log \/ (x.pc = "persist" /\ log'[e].status = x.status /\ log'[e].parent = x.parent)
  BY LogMoves DEF MStore
<1>3. Started(First)' /\ run'[First].parent = NoParent /\ run'[First].root = First
  BY <1>1, ExecNumbers DEF Tree
<1>4. ASSUME NEW f \in Execs, Stored(f) PROVE Stored(f)'
  BY <1>2, <1>4 DEF Stored
<1>5. ASSUME NEW f \in Execs, Started(f)', NEW g \in 1 .. f PROVE Started(g)'
  <2>1. g \in Execs
    BY ExecNumbers DEF Execs
  <2> QED
    BY <1>1, <1>5, <2>1 DEF Tree
<1>6. ASSUME NEW f \in Execs, Started(f)', f # First
      PROVE  run'[f].parent \in 1 .. f - 1 /\ Stored(run[f].parent)'
  <2>1. PICK p \in 1 .. f - 1 : p = run[f].parent /\ Stored(p) /\ run'[f].parent = p
    BY <1>1, <1>6 DEF Tree
  <2>2. p \in Execs
    BY ExecNumbers DEF Execs
  <2>3. Stored(p)'
    BY <1>4, <2>1, <2>2
  <2> QED
    BY <2>1, <2>3 DEF Stored
<1>7. x.pc = "persist" => x.status # "none"
  BY DEF Tree
<1>8. y.pc = "persist" => y.status # "none"
  BY DEF Moves, MoveOf, MFail, MStore, MWrite, MHeld, MInsert, MLook, MConsult, MFlip, MSend, MRecord, Stop, Pass, GoOn
<1>9. ASSUME NEW f \in Execs
      PROVE  /\ log'[f].parent = IF Stored(f)' THEN run'[f].parent ELSE NoParent
             /\ Stored(f)' => Started(f)'
             /\ run'[f].pc = "persist" => run'[f].status # "none"
  <2>1. CASE f # e
    BY <1>1, <1>2, <2>1 DEF Tree, Stored
  <2>2. CASE f = e
    <3>1. Started(e)'
      BY <1>1 DEF Moves, Started, Stopped
    <3>2. log'[e].parent = IF Stored(e)' THEN run'[e].parent ELSE NoParent
      BY <1>1, <1>2, <1>7 DEF Tree, Stored
    <3> QED
      BY <1>1, <1>8, <2>2, <3>1, <3>2
  <2> QED
    BY <2>1, <2>2
<1> QED
  BY <1>3, <1>5, <1>6, <1>9 DEF Tree

LEMMA StartsBelow ==
  ASSUME RetryTypeOK, Tree, NEW p \in Execs, NEW e \in Execs, NEW y, Starts(p, e, y)
  PROVE  e # First /\ p \in 1 .. e - 1 /\ Stored(p)
<1>1. ~ Started(e) /\ Started(p) /\ Stored(p)
  BY StartFrame DEF Starts, Stored
<1>2. e \notin 1 .. p
  BY <1>1 DEF Tree
<1> QED
  BY <1>1, <1>2, ExecNumbers DEF Tree

LEMMA TreeStart ==
  ASSUME RetryTypeOK, Tree, NEW p \in Execs, NEW e \in Execs, NEW y, Starts(p, e, y)
  PROVE  Tree'
<1>1. /\ run'[e] = y /\ ~ Started(e) /\ Started(e)'
      /\ \A f \in Execs : f # e => run'[f] = run[f] /\ (Started(f)' <=> Started(f))
  BY StartFrame
<1>2. e # First /\ p \in 1 .. e - 1 /\ Stored(p)
  BY StartsBelow
<1>3. y.parent = p /\ y.pc = "act" /\ log' = log /\ \A f \in 1 .. e - 1 : Started(f)
  BY DEF Starts, NoLog, Started
<1>4. Started(First)' /\ run'[First].parent = NoParent /\ run'[First].root = First
  BY <1>1, <1>2, ExecNumbers DEF Tree
<1>5. ASSUME NEW f \in Execs, Started(f)', NEW g \in 1 .. f PROVE Started(g)'
  <2>1. g \in Execs
    BY ExecNumbers DEF Execs
  <2>2. CASE g = e
    BY <1>1, <2>2
  <2>3. CASE g # e /\ f = e
    <3>1. g \in 1 .. e - 1
      BY <2>3, ExecNumbers
    <3> QED
      BY <1>1, <1>3, <2>1, <2>3, <3>1
  <2>4. CASE g # e /\ f # e
    BY <1>1, <1>5, <2>1, <2>4 DEF Tree
  <2> QED
    BY <2>2, <2>3, <2>4
<1>6. ASSUME NEW f \in Execs, Started(f)', f # First
      PROVE  run'[f].parent \in 1 .. f - 1 /\ Stored(run[f].parent)'
  <2>1. CASE f = e
    BY <1>1, <1>2, <1>3, <2>1 DEF Stored
  <2>2. CASE f # e
    BY <1>1, <1>3, <1>6, <2>2 DEF Tree, Stored
  <2> QED
    BY <2>1, <2>2
<1>7. ASSUME NEW f \in Execs
      PROVE  /\ log'[f].parent = IF Stored(f)' THEN run'[f].parent ELSE NoParent
             /\ Stored(f)' => Started(f)'
             /\ run'[f].pc = "persist" => run'[f].status # "none"
  <2>1. CASE f = e
    BY <1>1, <1>3, <2>1 DEF Tree, Stored
  <2>2. CASE f # e
    BY <1>1, <1>3, <2>2 DEF Tree, Stored
  <2> QED
    BY <2>1, <2>2
<1> QED
  BY <1>4, <1>5, <1>6, <1>7 DEF Tree

LEMMA TypedParents ==
  ASSUME RetryTypeOK
  PROVE  Parents /\ LogParents
BY RetryFuns DEF Parents, LogParents, RunType, LogType

LEMMA ParentsTyped == RetryTypeOK => Parents
BY TypedParents

LEMMA RootedMove ==
  ASSUME RetryTypeOK, Tree, Rooted, RetryTypeOK', NEW e \in Execs, NEW y, Moves(e, y)
  PROVE  Rooted'
<1>1. Parents /\ Parents' /\ Tree'
  BY ParentsTyped, TreeMove, PTL
<1>2. \A f \in Execs : /\ run'[f].root = run[f].root /\ run'[f].parent = run[f].parent
                       /\ Started(f)' <=> Started(f)
  BY MoveFrame
<1>3. \A f \in Execs : Started(f) => DepthOf(f)' = DepthOf(f)
  BY <1>1, <1>2, DepthKept
<1> QED
  BY <1>2, <1>3 DEF Rooted, InReach

LEMMA RootedStart ==
  ASSUME RetryTypeOK, Tree, Rooted, RetryTypeOK', NEW p \in Execs, NEW e \in Execs, NEW y, Starts(p, e, y)
  PROVE  Rooted'
<1>1. Parents /\ LogParents
  BY TypedParents
<1>2. Parents' /\ Tree'
  BY ParentsTyped, TreeStart, PTL
<1>3. /\ run'[e] = y /\ ~ Started(e) /\ Started(e)' /\ Started(p)
      /\ \A f \in Execs : f # e => run'[f] = run[f] /\ (Started(f)' <=> Started(f))
  BY StartFrame
<1>4. \A f \in Execs : Started(f) => DepthOf(f)' = DepthOf(f)
  <2>1. \A f \in Execs : Started(f) => Started(f)' /\ run'[f].parent = run[f].parent
    BY <1>3
  <2> QED
    BY <1>1, <1>2, <2>1, DepthKept
<1>5. Depths' /\ Depths
  <2>1. Depths
    BY <1>1, DepthFacts
  <2>2. Depths'
    BY <1>2, DepthFacts, PTL
  <2> QED
    BY <2>1, <2>2
<1>6. e # First /\ Stored(p) /\ y.parent = p /\ y.root = RootOf(p)
  BY StartsBelow DEF Starts
<1>7. DepthOf(e)' = DepthOf(p) + 1 /\ DepthOf(p) \in Nat
  <2>1. DepthOf(e)' = DepthOf(p)' + 1
    BY <1>3, <1>5, <1>6 DEF Depths
  <2> QED
    BY <1>3, <1>4, <1>5, <2>1 DEF Depths
<1>8. ASSUME DepthOf(e)' <= LineageDepth PROVE run'[e].root = First
  <2>1. DepthOf(p) <= LineageDepth - 1 /\ LineageDepth - 1 \in Nat
    BY <1>7, <1>8, ExecNumbers
  <2>2. Ancestor(p, LineageDepth - 1) = First
    BY <1>1, <1>6, <2>1, AncestorFirst
  <2> QED
    BY <1>3, <1>6, <2>2 DEF RootOf
<1>9. ASSUME NEW f \in Execs, Started(f)', DepthOf(f)' <= LineageDepth PROVE run'[f].root = First
  <2>1. CASE f = e
    BY <1>8, <1>9, <2>1
  <2>2. CASE f # e
    BY <1>3, <1>4, <1>9, <2>2 DEF Rooted, InReach
  <2> QED
    BY <2>1, <2>2
<1> QED
  BY <1>9 DEF Rooted, InReach

-----------------------------------------------------------------------------
(* The inductive invariant *)
LEMMA RetryInit == Init => RetryInv
<1> SUFFICES ASSUME Init PROVE RetryInv
  OBVIOUS
<1>1. 1 \in Actions /\ First \in Execs /\ MaxFaults \in Nat
  BY KindsAssumption, RunsAssumption, ExecNumbers DEF Actions
<1>2. PICK idle \in RunType, first \in RunType :
        /\ run = [e \in Execs |-> IF e = First THEN first ELSE idle]
        /\ idle.pc = "idle" /\ idle.action = 1 /\ idle.status = "none"
        /\ first.pc = "act" /\ first.parent = NoParent /\ first.root = First /\ first.action = 1
        /\ first.status = "none"
  <2>1. Idle \in RunType /\ Idle.pc = "idle" /\ Idle.action = 1 /\ Idle.status = "none"
    BY <1>1 DEF Idle, RunType, Phases, IntentStati, Stati
  <2>2. /\ StartedFrom(NoParent, First) \in RunType
        /\ StartedFrom(NoParent, First).pc = "act" /\ StartedFrom(NoParent, First).parent = NoParent
        /\ StartedFrom(NoParent, First).root = First /\ StartedFrom(NoParent, First).action = 1
        /\ StartedFrom(NoParent, First).status = "none"
    <3>1. Idle \in RunType /\ Idle.action = 1 /\ Idle.status = "none" /\ "act" \in Phases
      BY <2>1 DEF Phases
    <3> QED
      BY <1>1, <3>1 DEF StartedFrom, RunType
  <2> QED
    BY <2>1, <2>2 DEF Init
<1>3. /\ run[First] = first /\ \A e \in Execs : e # First => run[e] = idle
      /\ \A e \in Execs : run[e].pc \in {"idle", "act"} /\ run[e].action = 1 /\ run[e].status = "none"
      /\ \A e \in Execs : Started(e) => e = First
  BY <1>1, <1>2 DEF Started
<1>4. /\ \A e \in Execs : log[e].status = "none" /\ log[e].parent = NoParent
      /\ applied = {} /\ commits = {} /\ missed = {} /\ sends = {} /\ stale = {} /\ overlapped = FALSE /\ faults = 0
      /\ \A k \in Keys : intent[k] = "none"
  BY DEF Init
<1>5. RetryTypeOK
  <2>1. log \in [Execs -> LogType] /\ intent \in [Keys -> IntentStati]
    BY DEF Init, LogType, Stati, IntentStati
  <2>2. run \in [Execs -> RunType]
    BY <1>2
  <2>3. faults \in 0 .. MaxFaults
    BY <1>1, <1>4
  <2> QED
    BY <1>4, <2>1, <2>2, <2>3 DEF RetryTypeOK, LogType, RunType, Stati, IntentStati
<1>6. Claims
  BY <1>4 DEF Claims
<1>7. Intents /\ Emails
  BY <1>3, <1>4 DEF Intents, Emails
<1>8. Alone
  BY <1>2, <1>3, <1>4 DEF Alone, Stopped
<1>9. Passed
  BY <1>3, <1>4 DEF Passed, Actions
<1>10. Tree
  <2>1. Started(First) /\ run[First].parent = NoParent /\ run[First].root = First
    BY <1>2, <1>3 DEF Started
  <2>2. \A e \in Execs : Started(e) => \A f \in 1 .. e : Started(f)
    BY <1>3, <2>1 DEF First
  <2> QED
    BY <1>3, <1>4, <2>1, <2>2 DEF Tree, Stored
<1>11. Rooted
  BY <1>3, <1>10 DEF Rooted, Tree
<1> QED
  BY <1>5, <1>6, <1>7, <1>8, <1>9, <1>10, <1>11 DEF RetryInv

LEMMA RetryMoveKeeps ==
  ASSUME RetryInv, RetryTypeOK', NEW e \in Execs, NEW y, Moves(e, y)
  PROVE  RetryInv'
<1>1. RetryTypeOK /\ Claims /\ Intents /\ Emails /\ Alone /\ Passed /\ Tree /\ Rooted
  BY DEF RetryInv
<1>2. Alone'
  <2>1. overlapped' = overlapped
    BY DEF Moves
  <2>2. CASE overlapped
    BY <2>1, <2>2 DEF Alone
  <2>3. CASE ~ overlapped
    <3>1. OneActive /\ ReadTrue /\ (\A s \in sends : s.delivered => NotAgain(s)) /\ OnceOnly
      BY <1>1, <2>3, AloneParts
    <3>2. OneActive' /\ ReadTrue' /\ (\A s \in sends' : s.delivered => NotAgain(s)') /\ OnceOnly'
      BY <1>1, <3>1, AloneMove
    <3> QED
      BY <3>2 DEF Alone, OneActive, ReadTrue, NotAgain, OnceOnly
  <2> QED
    BY <2>2, <2>3
<1> QED
  BY <1>1, <1>2, ClaimsMove, IntentsMove, EmailsMove, PassedMove, TreeMove, RootedMove DEF RetryInv

LEMMA RetryStartKeeps ==
  ASSUME RetryInv, RetryTypeOK', NEW p \in Execs, NEW e \in Execs, NEW y, Starts(p, e, y)
  PROVE  RetryInv'
<1>1. RetryTypeOK /\ Claims /\ Intents /\ Emails /\ Alone /\ Passed /\ Tree /\ Rooted
  BY DEF RetryInv
<1> QED
  BY <1>1, ClaimsStart, IntentsStart, EmailsStart, AloneStart, PassedStart, TreeStart, RootedStart DEF RetryInv

LEMMA RetryNext ==
  ASSUME RetryInv, [Next]_vars
  PROVE  RetryInv'
<1>1. RetryTypeOK /\ RetryTypeOK'
  BY TypeNext DEF RetryInv
<1>2. CASE UNCHANGED vars
  <2>1. /\ log' = log /\ run' = run /\ applied' = applied /\ intent' = intent /\ commits' = commits /\ sends' = sends
        /\ overlapped' = overlapped /\ missed' = missed /\ stale' = stale
    BY <1>2 DEF vars
  <2>2. Claims' /\ Intents' /\ Emails' /\ Alone'
    BY <2>1 DEF RetryInv, Claims, Intents, Requested, Emails, Alone, Started, StepKey, Key
  <2>3. Passed'
    BY <2>1 DEF RetryInv, Passed, Explained, Started, StepKey
  <2>4. Tree'
    BY <2>1 DEF RetryInv, Tree, Started, Stored
  <2>5. Rooted'
    <3>1. Parents /\ Parents' /\ Tree
      BY <1>1, ParentsTyped, PTL DEF RetryInv
    <3>2. \A f \in Execs : Started(f) => DepthOf(f)' = DepthOf(f)
      <4>1. \A f \in Execs : Started(f) => Started(f)' /\ run'[f].parent = run[f].parent
        BY <2>1 DEF Started
      <4> QED
        BY <2>4, <3>1, <4>1, DepthKept
    <3> QED
      BY <2>1, <3>2 DEF RetryInv, Rooted, InReach, Started
  <2> QED
    BY <1>1, <2>2, <2>3, <2>4, <2>5 DEF RetryInv
<1> QED
  BY <1>1, <1>2, RetrySteps, RetryMoveKeeps, RetryStartKeeps

LEMMA RetryInvAlways == Spec => []RetryInv
<1>1. RetryInv /\ [Next]_vars => RetryInv'
  BY RetryNext
<1> QED
  BY <1>1, RetryInit, PTL DEF Spec

-----------------------------------------------------------------------------
(* In every behaviour of the lineage's executions the variables have the   *)
(* shape of the tables and of the executor's locals, and an execution is   *)
(* stored only when its run has ended.                                     *)
THEOREM RetryTyped == Spec => []RetryTypeOK
<1>1. RetryInv => RetryTypeOK
  BY DEF RetryInv
<1> QED
  BY <1>1, RetryInvAlways, PTL

LEMMA ReachIsRooted ==
  ASSUME RetryInv
  PROVE  /\ \A w \in commits : InReach(w[1]) => StepKey(w[1], w[2]) = <<First, w[2]>>
         /\ \A s \in sends : InReach(s.by) => StepKey(s.by, s.action) = <<First, s.action>>
<1>1. RetryTypeOK /\ Claims /\ Intents /\ Rooted
  BY DEF RetryInv
<1>2. \A w \in commits : w[1] \in Execs /\ Started(w[1])
  BY <1>1, RetryFuns DEF Keys, Claims
<1>3. ASSUME NEW s \in sends PROVE s.by \in Execs /\ Started(s.by)
  <2>1. s \in [by : Execs, action : Actions, delivered : BOOLEAN]
    BY <1>1, RetryFuns
  <2> QED
    BY <1>1, <2>1 DEF Intents
<1> QED
  BY <1>1, <1>2, <1>3 DEF Rooted, StepKey

(* A record write takes effect at most once in a lineage, and an email is  *)
(* handed over at most once, for executions the lineage walk reaches,      *)
(* however many retries of however many executions run beside each other,  *)
(* crash or lose their replies.                                            *)
THEOREM AtMostOnce_Always == Spec => []AtMostOnce
<1>1. ASSUME RetryInv PROVE AtMostOnce
  <2>1. ASSUME NEW v \in commits, NEW w \in commits, v[2] = w[2], InReach(v[1]), InReach(w[1]) PROVE v = w
    <3>1. StepKey(v[1], v[2]) = StepKey(w[1], w[2])
      BY <1>1, <2>1, ReachIsRooted
    <3> QED
      BY <1>1, <3>1 DEF RetryInv, Claims
  <2>2. ASSUME NEW s \in sends, NEW t \in sends, Kinds[s.action] = "email", s.action = t.action,
               InReach(s.by), InReach(t.by)
        PROVE  s = t
    <3>1. StepKey(s.by, s.action) = StepKey(t.by, t.action)
      BY <1>1, <2>2, ReachIsRooted
    <3> QED
      BY <1>1, <2>2, <3>1 DEF RetryInv, Emails
  <2> QED
    BY <2>1, <2>2 DEF AtMostOnce
<1>2. RetryInv => AtMostOnce
  BY <1>1
<1> QED
  BY <1>2, RetryInvAlways, PTL

(* As long as no two runs of the lineage have been under way at once,      *)
(* nothing is delivered twice: a run that finds the intent of a send whose *)
(* outcome was lost never sends it again, and one whose outcome is         *)
(* recorded as failed was not delivered.                                   *)
THEOREM OnceWithoutOverlap_Always == Spec => []OnceWithoutOverlap
<1>1. ASSUME RetryInv, ~ overlapped, NEW s \in sends, NEW t \in sends, s.delivered, t.delivered,
             s.action = t.action, InReach(s.by), InReach(t.by)
      PROVE  s = t
  <2>1. StepKey(s.by, s.action) = StepKey(t.by, t.action)
    BY <1>1, ReachIsRooted
  <2>2. OnceOnly
    BY <1>1, AloneParts DEF RetryInv
  <2> QED
    BY <1>1, <2>1, <2>2 DEF OnceOnly
<1>2. RetryInv => OnceWithoutOverlap
  BY <1>1 DEF OnceWithoutOverlap
<1> QED
  BY <1>2, RetryInvAlways, PTL

(* An execution stored as success stands for what it says: the records it  *)
(* creates are written; those it updates, deletes or locks are, or were    *)
(* missing; each request was delivered or is on record as ambiguous, or    *)
(* was made and then settled behind the back of a retry that had read it   *)
(* as pending.                                                             *)
THEOREM SuccessIsExplained_Always == Spec => []SuccessIsExplained
<1> DEFINE Mine(e, a, f, b) == run[f].root = run[e].root /\ b = a
<1>1. ASSUME RetryInv, NEW e \in Execs, log[e].status = "success", NEW a \in Actions
      PROVE  /\ Kinds[a] \in Records => \E w \in commits : Mine(e, a, w[1], w[2])
             /\ Kinds[a] = "create" => \E w \in commits \ missed : Mine(e, a, w[1], w[2])
             /\ Kinds[a] \notin Records =>
                  \/ intent[<<run[e].root, a>>] = "outcome_unknown"
                  \/ \E s \in sends : Mine(e, a, s.by, s.action) /\ (s.delivered \/ <<e, a>> \in stale)
  <2>1. Explained(e, run[e].root, a)
    BY <1>1 DEF RetryInv, Passed, Tree, Stored
  <2>2. CASE Kinds[a] \in Records
    <3>1. PICK w \in commits : StepKey(w[1], w[2]) = <<run[e].root, a>>
      BY <2>1, <2>2 DEF Explained
    <3>2. Mine(e, a, w[1], w[2])
      BY <3>1 DEF StepKey
    <3>3. w \in missed => Kinds[a] = "update"
      BY <1>1, <3>2 DEF RetryInv, Claims
    <3> QED
      BY <2>2, <3>2, <3>3
  <2>3. CASE Kinds[a] \notin Records
    BY <2>1, <2>3 DEF Explained, StepKey, Records
  <2> QED
    BY <2>2, <2>3
<1>2. RetryInv => SuccessIsExplained
  BY <1>1 DEF SuccessIsExplained, Records
<1> QED
  BY <1>2, RetryInvAlways, PTL
=============================================================================
