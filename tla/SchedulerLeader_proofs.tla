----------------------- MODULE SchedulerLeader_proofs -----------------------
(***************************************************************************)
(* Proofs about SchedulerLeader, for any replicas, TTL, delays, edits and  *)
(* faults: of two leaders one has not heard from Redis for a TTL, no       *)
(* leader is that long without word when the delays leave the renewals     *)
(* their margin, the leader and the key part for a bounded time only, and  *)
(* the timers follow the leader and the rule.                              *)
(***************************************************************************)
EXTENDS SchedulerLeader, SequenceTheorems, TLAPS

LEMMA Timing ==
  /\ RenewEvery \in Nat /\ RenewEvery >= 1 /\ MaxDelay \in Nat /\ TTL \in Nat /\ TTL >= 3
BY TimingAssumption DEF RenewEvery

-----------------------------------------------------------------------------
(* The queue of a replica, one change at a time.                           *)
CmdType == [op : Ops, done : BOOLEAN, ok : BOOLEAN, age : 0 .. MaxDelay]

QSent(s, t, op) ==
  /\ t \in Seq(CmdType) /\ Len(t) = Len(s) + 1
  /\ \A i \in 1 .. Len(s) : t[i] = s[i]
  /\ t[Len(t)].op = op /\ ~ t[Len(t)].done /\ t[Len(t)].age = 0
QAnswered(s, t, i, verdict) ==
  /\ t \in Seq(CmdType) /\ Len(t) = Len(s) /\ i \in 1 .. Len(s) /\ ~ s[i].done
  /\ \A j \in 1 .. Len(s) : j # i => t[j] = s[j]
  /\ t[i].op = s[i].op /\ t[i].done /\ t[i].ok = verdict /\ t[i].age = 0
QTaken(s, t) ==
  /\ s # <<>> /\ s[1] = Head(s) /\ s[1].done /\ Len(s) >= 1
  /\ t \in Seq(CmdType) /\ Len(t) = Len(s) - 1
  /\ \A i \in 1 .. Len(t) : t[i] = s[i + 1]
QAged(s, t) ==
  /\ t \in Seq(CmdType) /\ Len(t) = Len(s)
  /\ \A i \in 1 .. Len(s) : /\ s[i].age < MaxDelay /\ t[i].age = s[i].age + 1
                            /\ t[i].op = s[i].op /\ t[i].done = s[i].done /\ t[i].ok = s[i].ok

LEMMA SentAt ==
  ASSUME NEW s \in Seq(CmdType), NEW op \in Ops
  PROVE  QSent(s, Append(s, Command(op)), op)
<1>1. 0 \in 0 .. MaxDelay
  BY Timing
<1>2. Command(op) \in CmdType /\ Command(op).op = op /\ ~ Command(op).done /\ Command(op).age = 0
  BY <1>1 DEF Command, CmdType
<1> HIDE DEF Command
<1>3. /\ Append(s, Command(op)) \in Seq(CmdType) /\ Len(Append(s, Command(op))) = Len(s) + 1
      /\ \A i \in 1 .. Len(s) : Append(s, Command(op))[i] = s[i]
      /\ Append(s, Command(op))[Len(s) + 1] = Command(op)
  BY <1>2, AppendProperties
<1> QED
  BY <1>2, <1>3 DEF QSent

LEMMA AnsweredAt ==
  ASSUME NEW s \in Seq(CmdType), NEW i \in 1 .. Len(s), ~ s[i].done, NEW verdict \in BOOLEAN
  PROVE  QAnswered(s, [s EXCEPT ![i] = [s[i] EXCEPT !.done = TRUE, !.ok = verdict, !.age = 0]], i, verdict)
<1> DEFINE c == [s[i] EXCEPT !.done = TRUE, !.ok = verdict, !.age = 0]
           t == [s EXCEPT ![i] = c]
<1>1. s[i] \in CmdType
  BY ElementOfSeq
<1>2. c \in CmdType /\ c.op = s[i].op /\ c.done /\ c.ok = verdict /\ c.age = 0
  <2>1. 0 \in 0 .. MaxDelay
    BY Timing
  <2> QED
    BY <1>1, <2>1 DEF CmdType
<1> HIDE DEF c
<1>3. t \in Seq(CmdType) /\ Len(t) = Len(s) /\ \A j \in 1 .. Len(s) : t[j] = IF j = i THEN c ELSE s[j]
  BY <1>2, ExceptSeq
<1> HIDE DEF t
<1>4. QAnswered(s, t, i, verdict)
  BY <1>2, <1>3 DEF QAnswered
<1> QED
  BY <1>4 DEF t, c

LEMMA TakenAt ==
  ASSUME NEW s \in Seq(CmdType), s # <<>>, Head(s).done
  PROVE  QTaken(s, Tail(s))
BY HeadTailProperties DEF QTaken

LEMMA AgedAt ==
  ASSUME NEW s \in Seq(CmdType), \A i \in 1 .. Len(s) : s[i].age < MaxDelay
  PROVE  QAged(s, [i \in 1 .. Len(s) |-> [s[i] EXCEPT !.age = @ + 1]])
<1> DEFINE t == [i \in 1 .. Len(s) |-> [s[i] EXCEPT !.age = @ + 1]]
<1>1. Len(s) \in Nat
  BY LenProperties
<1>2. ASSUME NEW i \in 1 .. Len(s)
      PROVE  /\ t[i] \in CmdType /\ t[i].age = s[i].age + 1
             /\ t[i].op = s[i].op /\ t[i].done = s[i].done /\ t[i].ok = s[i].ok
  <2>1. s[i] \in CmdType /\ s[i].age < MaxDelay
    BY ElementOfSeq
  <2>2. s[i].age + 1 \in 0 .. MaxDelay
    BY <2>1, Timing DEF CmdType
  <2> QED
    BY <2>1, <2>2 DEF CmdType
<1>3. t \in [1 .. Len(s) -> CmdType]
  BY <1>2
<1>4. t \in Seq(CmdType) /\ Len(t) = Len(s)
  BY <1>1, <1>3, SeqDef, LenProperties
<1> HIDE DEF t
<1>5. QAged(s, t)
  BY <1>2, <1>4 DEF QAged
<1> QED
  BY <1>5 DEF t

-----------------------------------------------------------------------------
(* What a step does to the lock and to the part of a replica that deals    *)
(* with it.                                                                *)
Keeps(x) == /\ leads'[x] = leads[x] /\ renewal'[x] = renewal[x]
            /\ stale'[x] = stale[x] /\ idle'[x] = idle[x] /\ silence'[x] = silence[x]
KeyStays == now'.key = now.key /\ flushed' = flushed

(* Nothing happens to x, but another replica or Redis may move the key.    *)
KeyElsewhere(x) ==
  /\ now.key.owner = x => now'.key = now.key \/ (flushed' /\ now'.key.owner = NULL)
  /\ now.key.owner # x => now'.key.owner # x
  /\ flushed => flushed'
LStill(x) ==
  /\ Keeps(x) /\ conn'[x] = conn[x] /\ KeyElsewhere(x)
  /\ \/ phase'[x] = phase[x]
     \/ phase[x] = "ready" /\ phase'[x] = "loading"
     \/ phase[x] = "loading" /\ phase'[x] = "serving"
LBoot(x) ==
  /\ phase[x] = "new" /\ phase'[x] = "electing"
  /\ QSent(conn[x], conn'[x], "acquire") /\ Keeps(x) /\ KeyStays
LRenew(x) ==
  /\ renewal[x] = 0 /\ renewal'[x] = RenewEvery
  /\ QSent(conn[x], conn'[x], "renew")
  /\ leads'[x] = leads[x] /\ stale'[x] = stale[x] /\ idle'[x] = idle[x] /\ silence'[x] = silence[x]
  /\ phase'[x] = phase[x] /\ KeyStays
LRun(x) ==
  /\ Keeps(x) /\ phase'[x] = phase[x] /\ flushed' = flushed
  /\ \E i \in 1 .. Len(conn[x]), verdict \in BOOLEAN :
       /\ QAnswered(conn[x], conn'[x], i, verdict)
       /\ \/ /\ conn[x][i].op = "acquire" /\ now.key.owner = NULL
             /\ now'.key.owner = x /\ now'.key.ttl = TTL
          \/ /\ conn[x][i].op = "renew" /\ now.key.owner = x
             /\ now'.key.owner = x /\ now'.key.ttl = TTL
          \/ conn[x][i].op = "release" /\ now'.key.owner = NULL
          \/ ~ verdict /\ now'.key = now.key
LReply(x) ==
  /\ QTaken(conn[x], conn'[x]) /\ idle'[x] = idle[x] /\ KeyStays
  /\ stale'[x] = IF leads'[x] THEN stale[x] ELSE 0
  /\ leads'[x] => silence'[x] = IF conn[x][1].ok THEN conn[x][1].age ELSE silence[x]
  /\ \/ /\ Alive(x) /\ conn[x][1].op = "acquire" /\ leads'[x] = conn[x][1].ok
        /\ renewal'[x] = IF conn[x][1].ok THEN RenewEvery ELSE renewal[x]
        /\ phase'[x] = IF phase[x] = "electing" THEN "ready" ELSE phase[x]
     \/ /\ conn[x][1].op = "renew" /\ ~ leads'[x] /\ renewal'[x] = NULL /\ phase'[x] = phase[x]
     \/ /\ conn[x][1].op = "renew" /\ (conn[x][1].ok \/ ~ leads[x])
        /\ leads'[x] = leads[x] /\ renewal'[x] = renewal[x] /\ phase'[x] = phase[x]
     \/ /\ ~ Alive(x) \/ conn[x][1].op = "release"
        /\ leads'[x] = leads[x] /\ renewal'[x] = renewal[x] /\ phase'[x] = phase[x]
LEnd(x) ==
  /\ ~ leads'[x] /\ renewal'[x] = NULL /\ stale'[x] = 0 /\ idle'[x] = idle[x] /\ KeyStays
  /\ \/ phase[x] \in {"electing", "ready", "loading"} /\ phase'[x] = "degraded"
     \/ phase[x] = "serving" /\ phase'[x] = "stopping"
     \/ phase[x] # "new" /\ phase'[x] = "gone"
  /\ conn'[x] = conn[x] \/ (leads[x] /\ QSent(conn[x], conn'[x], "release"))
LTick(x) ==
  /\ QAged(conn[x], conn'[x]) /\ renewal[x] # 0
  /\ leads'[x] = leads[x] /\ phase'[x] = phase[x] /\ flushed' = flushed /\ now'.key = Aged(now.key)
  /\ renewal'[x] = IF renewal[x] = NULL THEN NULL ELSE renewal[x] - 1
  /\ stale'[x] = IF leads[x] /\ now.key.owner # x THEN stale[x] + 1 ELSE 0
  /\ idle'[x] = IF now.key.owner = x /\ Unaware(x) THEN idle[x] + 1 ELSE 0
  /\ silence'[x] = IF leads[x] THEN silence[x] + 1 ELSE 0
LockStep(x) ==
  LStill(x) \/ LBoot(x) \/ LRenew(x) \/ LRun(x) \/ LReply(x) \/ LEnd(x) \/ LTick(x)

LEMMA LockFuns ==
  ASSUME LeaderTypeOK
  PROVE  /\ phase \in [Replica -> Phases] /\ leads \in [Replica -> BOOLEAN]
         /\ renewal \in [Replica -> 0 .. RenewEvery \cup {NULL}] /\ conn \in [Replica -> Seq(CmdType)]
         /\ stale \in [Replica -> Nat] /\ idle \in [Replica -> Nat] /\ silence \in [Replica -> Nat]
         /\ now.key.owner \in Replica \cup {NULL} /\ now.key.ttl \in 0 .. TTL
         /\ now.key \in [owner : Replica \cup {NULL}, ttl : 0 .. TTL]
         /\ DOMAIN now = {"key", "version", "rule"} /\ flushed \in BOOLEAN
BY DEF LeaderTypeOK, CmdType

(* x is another replica than the one that moves. *)
Apart(x) ==
  /\ phase'[x] = phase[x] /\ leads'[x] = leads[x] /\ renewal'[x] = renewal[x] /\ conn'[x] = conn[x]
  /\ stale'[x] = stale[x] /\ idle'[x] = idle[x] /\ silence'[x] = silence[x]

LEMMA ApartStill ==
  ASSUME NEW x \in Replica, Apart(x), KeyElsewhere(x)
  PROVE  LockStep(x)
BY DEF Apart, LockStep, LStill, Keeps

LEMMA KeyStaysElsewhere ==
  ASSUME NEW x \in Replica, now'.key = now.key, flushed' = flushed
  PROVE  KeyElsewhere(x) /\ KeyStays
BY DEF KeyElsewhere, KeyStays

LEMMA ExecuteSteps ==
  ASSUME LeaderTypeOK, NEW r \in Replica, Execute(r) \/ CommandFails(r), NEW x \in Replica
  PROVE  LockStep(x)
<1>1. /\ conn[r] \in Seq(CmdType) /\ conn \in [Replica -> Seq(CmdType)] /\ NULL \notin Replica
      /\ UNCHANGED <<phase, leads, renewal, stale, idle, silence, flushed>>
  BY LockFuns, NullAssumption DEF Execute, CommandFails, History
<1>2. PICK i \in 1 .. Len(conn[r]), verdict \in BOOLEAN :
        /\ Oldest(r, i) /\ Answered(r, i, verdict)
        /\ \/ /\ now' = [now EXCEPT !.key = Applied(now.key, r, conn[r][i].op).key]
              /\ verdict => Applied(now.key, r, conn[r][i].op).ok
           \/ now' = now /\ ~ verdict
  <2>1. CASE CommandFails(r)
    BY <2>1 DEF CommandFails
  <2>2. CASE Execute(r)
    <3>1. PICK i \in 1 .. Len(conn[r]) :
            /\ Oldest(r, i)
            /\ now' = [now EXCEPT !.key = Applied(now.key, r, conn[r][i].op).key]
            /\ \/ Answered(r, i, Applied(now.key, r, conn[r][i].op).ok)
               \/ Answered(r, i, FALSE)
      <4> HIDE DEF Applied, Oldest, Answered, Fault
      <4> QED
        BY <2>2 DEF Execute
    <3>2. conn[r][i].op \in Ops
      <4>1. conn[r][i] \in CmdType
        BY <1>1, ElementOfSeq
      <4> QED
        BY <4>1 DEF CmdType
    <3>3. Applied(now.key, r, conn[r][i].op).ok \in BOOLEAN
      <4>1. /\ Acquired(now.key, r).ok \in BOOLEAN /\ Renewed(now.key, r).ok \in BOOLEAN
            /\ Released(now.key, r).ok \in BOOLEAN
        BY DEF Acquired, Renewed, Released
      <4> QED
        BY <3>2, <4>1 DEF Applied, Ops
    <3> QED
      BY <3>1, <3>3
  <2> QED
    BY <2>1, <2>2
<1>3. now.key \in [owner : Replica \cup {NULL}, ttl : 0 .. TTL] /\ DOMAIN now = {"key", "version", "rule"}
  BY LockFuns
<1>4. conn[r][i].op \in Ops /\ ~ conn[r][i].done
  <2>1. conn[r][i] \in CmdType
    BY <1>1, ElementOfSeq
  <2> QED
    BY <1>2, <2>1 DEF CmdType, Oldest
<1>5. QAnswered(conn[r], conn'[r], i, verdict) /\ \A y \in Replica \ {r} : conn'[y] = conn[y]
  <2> DEFINE c == [conn[r][i] EXCEPT !.done = TRUE, !.ok = verdict, !.age = 0]
  <2>1. conn' = [conn EXCEPT ![r] = [conn[r] EXCEPT ![i] = c]]
    BY <1>2 DEF Answered
  <2>2. QAnswered(conn[r], [conn[r] EXCEPT ![i] = c], i, verdict)
    BY <1>1, <1>4, AnsweredAt
  <2> HIDE DEF c
  <2> QED
    BY <1>1, <2>1, <2>2
<1>6. now' = [now EXCEPT !.key = Applied(now.key, r, conn[r][i].op).key]
        => now'.key = Applied(now.key, r, conn[r][i].op).key
  BY <1>3, LockFuns DEF LeaderTypeOK
<1>7. /\ \/ /\ conn[r][i].op = "acquire" /\ now.key.owner = NULL
            /\ now'.key.owner = r /\ now'.key.ttl = TTL
         \/ /\ conn[r][i].op = "renew" /\ now.key.owner = r
            /\ now'.key.owner = r /\ now'.key.ttl = TTL
         \/ conn[r][i].op = "release" /\ now'.key.owner = NULL
         \/ ~ verdict /\ now'.key = now.key
      /\ now'.key = now.key \/ now.key.owner \in {NULL, r}
      /\ now'.key = now.key \/ now'.key.owner \in {NULL, r}
  <2>1. CASE now' = now /\ ~ verdict
    BY <2>1
  <2>2. CASE /\ now'.key = Applied(now.key, r, conn[r][i].op).key
             /\ verdict => Applied(now.key, r, conn[r][i].op).ok
    <3>1. CASE conn[r][i].op = "acquire"
      BY <2>2, <3>1 DEF Applied, Acquired
    <3>2. CASE conn[r][i].op = "renew"
      BY <1>3, <2>2, <3>2 DEF Applied, Renewed, Owned
    <3>3. CASE conn[r][i].op = "release"
      BY <2>2, <3>3 DEF Applied, Released, Owned, Free
    <3> QED
      BY <1>4, <3>1, <3>2, <3>3 DEF Ops
  <2> QED
    BY <1>2, <1>6, <2>1, <2>2
<1>8. CASE x = r
  BY <1>1, <1>5, <1>7, <1>8 DEF LockStep, LRun, Keeps
<1>9. CASE x # r
  <2>1. KeyElsewhere(x)
    BY <1>1, <1>7, <1>9 DEF KeyElsewhere
  <2> QED
    BY <1>1, <1>5, <1>9, <2>1, ApartStill DEF Apart
<1> QED
  BY <1>8, <1>9

LEMMA ReplySteps ==
  ASSUME LeaderTypeOK, NEW r \in Replica, Reply(r), NEW x \in Replica
  PROVE  LockStep(x)
<1>1. /\ phase \in [Replica -> Phases] /\ leads \in [Replica -> BOOLEAN]
      /\ renewal \in [Replica -> 0 .. RenewEvery \cup {NULL}] /\ conn \in [Replica -> Seq(CmdType)]
      /\ stale \in [Replica -> Nat] /\ silence \in [Replica -> Nat]
  BY LockFuns
<1>2. UNCHANGED <<now, idle, flushed>> /\ conn' = [conn EXCEPT ![r] = Tail(conn[r])]
  BY DEF Reply
<1>7. /\ \A y \in Replica \ {r} : stale'[y] = stale[y] /\ silence'[y] = silence[y]
      /\ stale'[r] = IF leads'[r] THEN stale[r] ELSE 0
      /\ leads'[r] => silence'[r] = IF Head(conn[r]).ok THEN Head(conn[r]).age ELSE silence[r]
  <2>1. /\ stale' = [stale EXCEPT ![r] = IF leads'[r] THEN @ ELSE 0]
        /\ silence' = [silence EXCEPT ![r] = CASE ~ leads'[r] -> 0
                                               [] leads'[r] /\ Head(conn[r]).ok -> Head(conn[r]).age
                                               [] OTHER -> @]
    BY DEF Reply
  <2>2. stale'[r] = IF leads'[r] THEN stale[r] ELSE 0
    BY <1>1, <2>1
  <2>3. leads'[r] => silence'[r] = IF Head(conn[r]).ok THEN Head(conn[r]).age ELSE silence[r]
    BY <1>1, <2>1
  <2> QED
    BY <1>1, <2>1, <2>2, <2>3
<1>3. QTaken(conn[r], conn'[r]) /\ conn[r][1] = Head(conn[r])
  BY <1>1, <1>2, TakenAt DEF Reply, QTaken
<1> DEFINE a == Head(conn[r])
<1>4. CASE Alive(r) /\ a.op = "acquire" /\ Elected(r, a.ok)
  <2>1. \A y \in Replica \ {r} : Apart(y)
    BY <1>1, <1>2, <1>4, <1>7 DEF Elected, Apart
  <2>2. leads'[r] = a.ok /\ renewal'[r] = IF a.ok THEN RenewEvery ELSE renewal[r]
    BY <1>1, <1>4 DEF Elected
  <2>3. phase'[r] = IF phase[r] = "electing" THEN "ready" ELSE phase[r]
    BY <1>1, <1>4 DEF Elected
  <2> QED
    BY <1>2, <1>3, <1>4, <1>7, <2>1, <2>2, <2>3, ApartStill, KeyStaysElsewhere DEF LockStep, LReply
<1>5. CASE Alive(r) /\ a.op = "renew" /\ RenewAnswered(r, a.ok)
  <2>1. \A y \in Replica \ {r} : Apart(y)
    BY <1>1, <1>2, <1>5, <1>7 DEF RenewAnswered, Relinquished, Apart
  <2>2. \/ ~ leads'[r] /\ renewal'[r] = NULL /\ phase'[r] = phase[r]
        \/ (a.ok \/ ~ leads[r]) /\ leads'[r] = leads[r] /\ renewal'[r] = renewal[r] /\ phase'[r] = phase[r]
    BY <1>1, <1>5 DEF RenewAnswered, Relinquished
  <2> QED
    BY <1>2, <1>3, <1>5, <1>7, <2>1, <2>2, ApartStill, KeyStaysElsewhere DEF LockStep, LReply
<1>6. CASE (~ Alive(r) \/ a.op = "release") /\ UNCHANGED <<leads, renewal, handles, phase>>
  <2>1. \A y \in Replica \ {r} : Apart(y)
    BY <1>1, <1>2, <1>6, <1>7 DEF Apart
  <2> QED
    BY <1>2, <1>3, <1>6, <1>7, <2>1, ApartStill, KeyStaysElsewhere DEF LockStep, LReply
<1> QED
  BY <1>4, <1>5, <1>6 DEF Reply

LEMMA SendSteps ==
  ASSUME LeaderTypeOK, NEW r \in Replica, Boot(r) \/ RenewFires(r), NEW x \in Replica
  PROVE  LockStep(x)
<1>1. /\ phase \in [Replica -> Phases] /\ renewal \in [Replica -> 0 .. RenewEvery \cup {NULL}]
      /\ conn \in [Replica -> Seq(CmdType)] /\ UNCHANGED <<now, leads, stale, idle, silence, flushed>>
  BY LockFuns DEF Boot, RenewFires, History
<1>2. ASSUME NEW op \in Ops, conn' = [conn EXCEPT ![r] = Sent(r, op)]
      PROVE  QSent(conn[r], conn'[r], op) /\ \A y \in Replica \ {r} : conn'[y] = conn[y]
  BY <1>1, <1>2, SentAt DEF Sent
<1>3. CASE Boot(r)
  <2>1. "acquire" \in Ops
    BY DEF Ops
  <2>2. QSent(conn[r], conn'[r], "acquire") /\ \A y \in Replica \ {r} : conn'[y] = conn[y]
    BY <1>2, <1>3, <2>1 DEF Boot
  <2>3. /\ phase[r] = "new" /\ phase'[r] = "electing" /\ renewal' = renewal
        /\ \A y \in Replica \ {r} : phase'[y] = phase[y]
    BY <1>1, <1>3 DEF Boot
  <2> QED
    BY <1>1, <2>2, <2>3, ApartStill, KeyStaysElsewhere DEF LockStep, LBoot, Keeps, Apart
<1>4. CASE RenewFires(r)
  <2>1. "renew" \in Ops
    BY DEF Ops
  <2>2. QSent(conn[r], conn'[r], "renew") /\ \A y \in Replica \ {r} : conn'[y] = conn[y]
    BY <1>2, <1>4, <2>1 DEF RenewFires
  <2>3. /\ renewal[r] = 0 /\ renewal'[r] = RenewEvery /\ phase' = phase
        /\ \A y \in Replica \ {r} : renewal'[y] = renewal[y]
    BY <1>1, <1>4 DEF RenewFires
  <2> QED
    BY <1>1, <2>2, <2>3, ApartStill, KeyStaysElsewhere DEF LockStep, LRenew, Apart
<1> QED
  BY <1>3, <1>4

LEMMA QuietSteps ==
  ASSUME LeaderTypeOK, NEW r \in Replica, NEW x \in Replica,
         \/ Select(r) \/ Load(r) \/ EditResumes(r) \/ EditFails(r)
         \/ \E s \in {"on", "off", "deleted"} : Commit(r, s)
  PROVE  LockStep(x)
<1>1. phase \in [Replica -> Phases] /\ DOMAIN now = {"key", "version", "rule"}
  BY LockFuns
<1>2. UNCHANGED <<leads, renewal, conn, stale, idle, silence, flushed>>
  BY DEF Select, Load, EditResumes, EditFails, Commit, History
<1>3. now'.key = now.key
  <2>1. CASE Select(r) \/ Load(r) \/ EditResumes(r) \/ EditFails(r)
    BY <2>1 DEF Select, Load, EditResumes, EditFails
  <2>2. ASSUME NEW s \in {"on", "off", "deleted"}, Commit(r, s) PROVE now'.key = now.key
    BY <1>1, <2>2 DEF Commit
  <2> QED
    BY <2>1, <2>2
<1>4. \/ phase'[x] = phase[x]
      \/ phase[x] = "ready" /\ phase'[x] = "loading"
      \/ phase[x] = "loading" /\ phase'[x] = "serving"
  BY <1>1 DEF Select, Load, EditResumes, EditFails, Commit
<1> QED
  BY <1>2, <1>3, <1>4, KeyStaysElsewhere DEF LockStep, LStill, Keeps

LEMMA EndSteps ==
  ASSUME LeaderTypeOK, NEW r \in Replica, BootFails(r) \/ Shutdown(r) \/ Exit(r) \/ Crash(r), NEW x \in Replica
  PROVE  LockStep(x)
<1>1. /\ phase \in [Replica -> Phases] /\ renewal \in [Replica -> 0 .. RenewEvery \cup {NULL}]
      /\ leads \in [Replica -> BOOLEAN] /\ conn \in [Replica -> Seq(CmdType)]
      /\ stale \in [Replica -> Nat] /\ silence \in [Replica -> Nat] /\ UNCHANGED <<now, idle, flushed>>
  BY LockFuns DEF BootFails, Shutdown, Exit, Crash, Ended, Destroy, Stopped
<1>7. stale'[r] = 0 /\ \A y \in Replica \ {r} : stale'[y] = stale[y] /\ silence'[y] = silence[y]
  BY <1>1 DEF BootFails, Shutdown, Exit, Crash, Ended, Destroy, Stopped
<1>2. leads' = [leads EXCEPT ![r] = FALSE] /\ renewal' = [renewal EXCEPT ![r] = NULL]
  BY DEF BootFails, Shutdown, Exit, Crash, Ended, Destroy
<1>3. /\ \/ phase[r] \in {"electing", "ready", "loading"} /\ phase'[r] = "degraded"
         \/ phase[r] = "serving" /\ phase'[r] = "stopping"
         \/ phase[r] # "new" /\ phase'[r] = "gone"
      /\ \A y \in Replica \ {r} : phase'[y] = phase[y]
  BY <1>1 DEF BootFails, Shutdown, Exit, Crash, Ended, Alive
<1>4. /\ conn'[r] = conn[r] \/ (leads[r] /\ QSent(conn[r], conn'[r], "release"))
      /\ \A y \in Replica \ {r} : conn'[y] = conn[y]
  <2>1. conn' = conn \/ (leads[r] /\ conn' = [conn EXCEPT ![r] = Sent(r, "release")])
    <3>1. CASE Exit(r) \/ Crash(r)
      BY <3>1 DEF Exit, Crash, Ended
    <3>2. CASE Destroy(r)
      BY <3>2 DEF Destroy
    <3> QED
      BY <3>1, <3>2 DEF BootFails, Shutdown
  <2>2. QSent(conn[r], Sent(r, "release"), "release")
    <3>1. "release" \in Ops /\ conn[r] \in Seq(CmdType)
      BY <1>1 DEF Ops
    <3> QED
      BY <3>1, SentAt DEF Sent
  <2> QED
    BY <1>1, <2>1, <2>2
<1>5. CASE x = r
  BY <1>1, <1>2, <1>3, <1>4, <1>5, <1>7, KeyStaysElsewhere DEF LockStep, LEnd
<1>6. CASE x # r
  BY <1>1, <1>2, <1>3, <1>4, <1>6, <1>7, ApartStill, KeyStaysElsewhere DEF Apart
<1> QED
  BY <1>5, <1>6

LEMMA LockSteps ==
  ASSUME LeaderTypeOK, [Next]_vars, NEW x \in Replica
  PROVE  LockStep(x)
<1>1. CASE Tick
  <2>1. /\ conn[x] \in Seq(CmdType) /\ \A i \in 1 .. Len(conn[x]) : conn[x][i].age < MaxDelay
        /\ renewal[x] # 0
    BY <1>1, LockFuns DEF Tick
  <2>2. conn'[x] = [i \in 1 .. Len(conn[x]) |-> [conn[x][i] EXCEPT !.age = @ + 1]]
    BY <1>1 DEF Tick
  <2>3. QAged(conn[x], conn'[x])
    BY <2>1, <2>2, AgedAt
  <2>4. now'.key = Aged(now.key)
    BY <1>1, LockFuns DEF Tick, LeaderTypeOK
  <2>5. /\ leads' = leads /\ phase' = phase /\ flushed' = flushed
        /\ renewal'[x] = IF renewal[x] = NULL THEN NULL ELSE renewal[x] - 1
        /\ stale'[x] = IF leads[x] /\ now.key.owner # x THEN stale[x] + 1 ELSE 0
        /\ idle'[x] = IF now.key.owner = x /\ Unaware(x) THEN idle[x] + 1 ELSE 0
        /\ silence'[x] = IF leads[x] THEN silence[x] + 1 ELSE 0
    BY <1>1 DEF Tick, Owned
  <2> QED
    BY <2>1, <2>3, <2>4, <2>5 DEF LockStep, LTick
<1>2. CASE KeyLost
  <2>1. now'.key.owner = NULL /\ flushed'
    BY <1>2, LockFuns DEF KeyLost, LeaderTypeOK, Free
  <2>2. UNCHANGED <<phase, leads, renewal, conn, stale, idle, silence>>
    BY <1>2 DEF KeyLost
  <2> QED
    BY <2>1, <2>2, ApartStill, NullAssumption DEF Apart, KeyElsewhere
<1>3. CASE UNCHANGED vars
  BY <1>3, ApartStill, KeyStaysElsewhere DEF vars, Apart
<1> QED
  BY <1>1, <1>2, <1>3, ExecuteSteps, ReplySteps, SendSteps, QuietSteps, EndSteps DEF Next, Works

-----------------------------------------------------------------------------
(* Types                                                                   *)
KeyType == [owner : Replica \cup {NULL}, ttl : 0 .. TTL]
Rules == {"on", "off", "deleted"}
NowType == [key : KeyType, version : Versions, rule : Rules]
HandleType == {NoTimer} \cup {[entry |-> v, live |-> {v}] : v \in Versions}
EditType == [version : Versions, on : BOOLEAN]

LEMMA KeyTypes ==
  ASSUME NEW key \in KeyType, NEW r \in Replica
  PROVE  /\ Free \in KeyType /\ Aged(key) \in KeyType
         /\ \A op \in Ops : Applied(key, r, op).key \in KeyType
<1>1. Free \in KeyType /\ TTL \in 0 .. TTL
  BY Timing DEF KeyType, Free
<1>2. Aged(key) \in KeyType
  <2>1. CASE key.ttl <= 1
    BY <1>1, <2>1 DEF Aged
  <2>2. CASE ~ (key.ttl <= 1)
    <3>1. key.ttl - 1 \in 0 .. TTL
      BY <2>2, Timing DEF KeyType
    <3> QED
      BY <2>2, <3>1 DEF Aged, KeyType
  <2> QED
    BY <2>1, <2>2
<1>3. /\ Acquired(key, r).key \in KeyType /\ Renewed(key, r).key \in KeyType
      /\ Released(key, r).key \in KeyType
  BY <1>1 DEF Acquired, Renewed, Released, KeyType, Free
<1> QED
  BY <1>1, <1>2, <1>3 DEF Applied, Ops

LEMMA NowTypeNext ==
  ASSUME LeaderTypeOK, [Next]_vars
  PROVE  now' \in NowType
<1>1. now \in NowType
  BY DEF LeaderTypeOK, NowType, KeyType, Rules
<1>2. ASSUME NEW key \in KeyType, now' = [now EXCEPT !.key = key] PROVE now' \in NowType
  BY <1>1, <1>2 DEF NowType
<1>3. now.key \in KeyType
  BY <1>1 DEF NowType
<1>4. ASSUME NEW r \in Replica, Execute(r) PROVE now' \in NowType
  <2>1. PICK i \in 1 .. Len(conn[r]) : now' = [now EXCEPT !.key = Applied(now.key, r, conn[r][i].op).key]
    BY <1>4 DEF Execute
  <2>2. conn[r] \in Seq(CmdType)
    BY LockFuns
  <2>3. conn[r][i] \in CmdType
    BY <2>2, ElementOfSeq
  <2>4. conn[r][i].op \in Ops
    BY <2>3 DEF CmdType
  <2> QED
    BY <1>2, <1>3, <2>1, <2>4, KeyTypes
<1>5. CASE KeyLost
  <2>1. Free \in KeyType
    BY Timing DEF KeyType, Free
  <2> QED
    BY <1>2, <1>5, <2>1 DEF KeyLost
<1>6. CASE Tick
  <2>1. Aged(now.key) \in KeyType
    <3>1. CASE Replica = {}
      BY <1>3, <3>1, Timing DEF Aged, KeyType, Free
    <3>2. CASE Replica # {}
      BY <1>3, <3>2, KeyTypes
    <3> QED
      BY <3>1, <3>2
  <2>2. now' = [now EXCEPT !.key = Aged(now.key)]
    BY <1>6 DEF Tick
  <2> HIDE DEF Aged
  <2> QED
    BY <1>2, <2>1, <2>2
<1>7. ASSUME NEW r \in Replica, NEW s \in Rules, Commit(r, s) PROVE now' \in NowType
  <2>1. now.version + 1 \in Versions
    BY <1>1, <1>7, BoundsAssumption DEF Commit, NowType, Versions
  <2> QED
    BY <1>1, <1>7, <2>1 DEF Commit, NowType
<1>8. CASE UNCHANGED now
  BY <1>1, <1>8
<1> QED
  BY <1>4, <1>5, <1>6, <1>7, <1>8
  DEF Next, Works, RenewFires, Reply, Select, Load, EditResumes, Exit, Ended, Boot, Shutdown, CommandFails,
      BootFails, Crash, EditFails, vars, Rules

LEMMA ConnTypeNext ==
  ASSUME LeaderTypeOK, [Next]_vars
  PROVE  conn' \in [Replica -> Seq(CmdType)]
<1>1. conn \in [Replica -> Seq(CmdType)]
  BY LockFuns
<1>2. \A x \in Replica : conn'[x] \in Seq(CmdType)
  <2>1. ASSUME NEW x \in Replica PROVE conn'[x] \in Seq(CmdType)
    BY <1>1, LockSteps
    DEF LockStep, LStill, LBoot, LRenew, LRun, LReply, LEnd, LTick, QSent, QAnswered, QTaken, QAged
  <2> QED
    BY <2>1
<1>3. ASSUME NEW r \in Replica, NEW q, conn' = [conn EXCEPT ![r] = q] PROVE conn' \in [Replica -> Seq(CmdType)]
  BY <1>1, <1>2, <1>3
<1>4. CASE Tick
  BY <1>2, <1>4 DEF Tick
<1>5. ASSUME NEW r \in Replica, Execute(r) \/ CommandFails(r) PROVE conn' \in [Replica -> Seq(CmdType)]
  <2>0. PICK i \in 1 .. Len(conn[r]) : \E verdict : Answered(r, i, verdict)
    BY <1>5 DEF Execute, CommandFails
  <2>1. PICK verdict : Answered(r, i, verdict)
    BY <2>0
  <2> DEFINE c == [conn[r][i] EXCEPT !.done = TRUE, !.ok = verdict, !.age = 0]
             q == [conn[r] EXCEPT ![i] = c]
  <2>2. conn' = [conn EXCEPT ![r] = q]
    BY <2>1 DEF Answered
  <2> HIDE DEF q
  <2> QED
    BY <1>3, <2>2
<1>6. ASSUME NEW r \in Replica, BootFails(r) \/ Shutdown(r) PROVE conn' \in [Replica -> Seq(CmdType)]
  BY <1>1, <1>3, <1>6 DEF BootFails, Shutdown, Destroy
<1>7. CASE UNCHANGED conn
  BY <1>1, <1>7
<1> QED
  BY <1>3, <1>4, <1>5, <1>6, <1>7
  DEF Next, Works, RenewFires, Reply, Select, Load, EditResumes, Exit, Ended, Boot, Crash, EditFails, Commit,
      KeyLost, vars

LEMMA HandleFacts ==
  ASSUME NEW h \in HandleType
  PROVE  /\ Unregistered(h) = NoTimer /\ NoTimer \in HandleType /\ NoTimer.live = {}
         /\ \A v \in Versions, leader \in BOOLEAN :
              Registered(h, v, leader) = IF leader THEN [entry |-> v, live |-> {v}] ELSE NoTimer
<1>1. Unregistered(h) = NoTimer
  BY DEF Unregistered, NoTimer, HandleType
<1>2. \A v : Armed(NoTimer, v) = [entry |-> v, live |-> {v}]
  BY DEF Armed, NoTimer
<1> QED
  BY <1>1, <1>2 DEF Registered, HandleType, NoTimer

(* The timers of x: kept, cleared or registered anew.                      *)
TimersKept(x) == handles'[x] = handles[x]
TimersCleared(x) == handles'[x] = NoTimer
TimersSet(x, v) ==
  /\ leads'[x] = leads[x] /\ v \in Versions
  /\ handles'[x] = IF leads[x] THEN [entry |-> v, live |-> {v}] ELSE NoTimer

LEMMA HandleTypeNext ==
  ASSUME LeaderTypeOK, [Next]_vars
  PROVE  handles' \in [Replica -> HandleType]
<1>1. /\ handles \in [Replica -> HandleType] /\ leads \in [Replica -> BOOLEAN]
      /\ rows \in [Replica -> Versions \cup {NULL}]
  BY DEF LeaderTypeOK, HandleType
<1>2. ASSUME NEW r \in Replica, NEW h \in HandleType, handles' = [handles EXCEPT ![r] = h]
      PROVE  handles' \in [Replica -> HandleType]
  BY <1>1, <1>2
<1>3. \A r \in Replica : Unregistered(handles[r]) \in HandleType /\ NoTimer \in HandleType
  BY <1>1, HandleFacts
<1>4. \A r \in Replica, v \in Versions : Registered(handles[r], v, leads[r]) \in HandleType
  <2>1. ASSUME NEW r \in Replica, NEW v \in Versions PROVE Registered(handles[r], v, leads[r]) \in HandleType
    <3>1. handles[r] \in HandleType /\ leads[r] \in BOOLEAN
      BY <1>1
    <3>2. Registered(handles[r], v, leads[r]) = IF leads[r] THEN [entry |-> v, live |-> {v}] ELSE NoTimer
      BY <3>1, HandleFacts
    <3> QED
      BY <3>2 DEF HandleType
  <2> QED
    BY <2>1
<1> DEFINE Typed == handles' \in [Replica -> HandleType]
<1>5. ASSUME NEW r \in Replica, Reply(r) PROVE Typed
  BY <1>1, <1>2, <1>3, <1>5 DEF Reply, Elected, RenewAnswered, Relinquished
<1>6. ASSUME NEW r \in Replica, Load(r) PROVE Typed
  BY <1>1, <1>2, <1>4, <1>6 DEF Load
<1>7. ASSUME NEW r \in Replica, EditResumes(r) PROVE Typed
  <2>1. PICK e \in edits[r] : Rescheduled(r, e)
    BY <1>7 DEF EditResumes
  <2>2. e.version \in Versions
    BY <2>1 DEF LeaderTypeOK
  <2> QED
    BY <1>2, <1>3, <1>4, <2>1, <2>2 DEF Rescheduled
<1>8. ASSUME NEW r \in Replica, BootFails(r) \/ Shutdown(r) \/ Exit(r) \/ Crash(r) PROVE Typed
  BY <1>2, <1>3, <1>8 DEF BootFails, Shutdown, Destroy, Exit, Crash, Ended
<1>9. CASE UNCHANGED handles
  BY <1>1, <1>9
<1> QED
  BY <1>5, <1>6, <1>7, <1>8, <1>9
  DEF Next, Works, RenewFires, Execute, Select, Boot, CommandFails, EditFails, Commit, KeyLost, Tick, vars

LEMMA ReplicaTypeNext ==
  ASSUME LeaderTypeOK, [Next]_vars
  PROVE  /\ phase' \in [Replica -> Phases] /\ leads' \in [Replica -> BOOLEAN]
         /\ renewal' \in [Replica -> 0 .. RenewEvery \cup {NULL}]
<1>1. /\ phase \in [Replica -> Phases] /\ leads \in [Replica -> BOOLEAN]
      /\ renewal \in [Replica -> 0 .. RenewEvery \cup {NULL}] /\ conn \in [Replica -> Seq(CmdType)]
      /\ RenewEvery \in 0 .. RenewEvery
  BY LockFuns, Timing
<1>2. CASE Tick
  <2>1. \A r \in Replica : renewal[r] # NULL => renewal[r] - 1 \in 0 .. RenewEvery
    BY <1>1, <1>2, Timing DEF Tick
  <2> QED
    BY <1>1, <1>2, <2>1 DEF Tick
<1>3. ASSUME NEW r \in Replica, Reply(r)
      PROVE  /\ phase' \in [Replica -> Phases] /\ leads' \in [Replica -> BOOLEAN]
             /\ renewal' \in [Replica -> 0 .. RenewEvery \cup {NULL}]
  <2>1. Head(conn[r]).ok \in BOOLEAN
    <3>1. Head(conn[r]) \in CmdType
      BY <1>1, <1>3, HeadTailProperties DEF Reply
    <3> QED
      BY <3>1 DEF CmdType
  <2> QED
    BY <1>1, <1>3, <2>1 DEF Reply, Elected, RenewAnswered, Relinquished, Phases
<1>4. ASSUME NEW r \in Replica, RenewFires(r) \/ Boot(r) \/ Select(r) \/ Load(r)
      PROVE  /\ phase' \in [Replica -> Phases] /\ leads' \in [Replica -> BOOLEAN]
             /\ renewal' \in [Replica -> 0 .. RenewEvery \cup {NULL}]
  BY <1>1, <1>4 DEF RenewFires, Boot, Select, Load, Phases
<1>5. ASSUME NEW r \in Replica, BootFails(r) \/ Shutdown(r) \/ Exit(r) \/ Crash(r)
      PROVE  /\ phase' \in [Replica -> Phases] /\ leads' \in [Replica -> BOOLEAN]
             /\ renewal' \in [Replica -> 0 .. RenewEvery \cup {NULL}]
  BY <1>1, <1>5 DEF BootFails, Shutdown, Destroy, Exit, Crash, Ended, Phases
<1>6. CASE UNCHANGED <<phase, leads, renewal>>
  BY <1>1, <1>6
<1> QED
  BY <1>2, <1>3, <1>4, <1>5, <1>6
  DEF Next, Works, Execute, EditResumes, CommandFails, EditFails, Commit, KeyLost, vars

LEMMA EditTypeNext ==
  ASSUME LeaderTypeOK, [Next]_vars
  PROVE  /\ rows' \in [Replica -> Versions \cup {NULL}]
         /\ edits' \in [Replica -> SUBSET EditType]
         /\ raced' \in [Replica -> BOOLEAN]
<1>1. /\ rows \in [Replica -> Versions \cup {NULL}] /\ edits \in [Replica -> SUBSET EditType]
      /\ raced \in [Replica -> BOOLEAN] /\ now.version \in Versions /\ leads \in [Replica -> BOOLEAN]
  BY DEF LeaderTypeOK, EditType
<1> DEFINE Typed == /\ rows' \in [Replica -> Versions \cup {NULL}]
                    /\ edits' \in [Replica -> SUBSET EditType]
                    /\ raced' \in [Replica -> BOOLEAN]
<1>2. ASSUME NEW r \in Replica, Select(r) \/ Load(r) \/ BootFails(r) \/ Exit(r) \/ Crash(r) PROVE Typed
  <2>1. edits' = edits \/ edits' = [edits EXCEPT ![r] = {}]
    BY <1>2 DEF Select, Load, BootFails, Exit, Crash, Ended
  <2>2. UNCHANGED raced
    BY <1>2 DEF Select, Load, BootFails, Exit, Crash, Ended, Destroy, Stopped, History
  <2>3. \E v \in Versions \cup {NULL} : rows' = [rows EXCEPT ![r] = v]
    BY <1>1, <1>2 DEF Select, Load, BootFails, Exit, Crash, Ended
  <2> QED
    BY <1>1, <2>1, <2>2, <2>3
<1>3. ASSUME NEW r \in Replica, NEW s \in Rules, Commit(r, s) PROVE Typed
  <2> DEFINE e == [version |-> now.version + 1, on |-> s = "on"]
  <2>1. now.version + 1 \in Versions /\ (s = "on") \in BOOLEAN
    BY <1>1, <1>3, BoundsAssumption DEF Commit, Versions
  <2>2. e \in EditType
    BY <2>1 DEF EditType
  <2>3. rows' = rows /\ edits' = [edits EXCEPT ![r] = @ \cup {e}]
    BY <1>3 DEF Commit
  <2>4. raced' \in [Replica -> BOOLEAN]
    BY <1>3 DEF Commit
  <2> HIDE DEF e
  <2> QED
    BY <1>1, <2>2, <2>3, <2>4
<1>4. ASSUME NEW r \in Replica, EditResumes(r) \/ EditFails(r) PROVE Typed
  <2>1. PICK e \in edits[r] : edits' = [edits EXCEPT ![r] = @ \ {e}]
    BY <1>4 DEF EditResumes, EditFails
  <2>2. rows' = rows /\ (raced' = raced \/ raced' = [raced EXCEPT ![r] = raced[r] \/ leads[r]])
    BY <1>4 DEF EditResumes, EditFails, History
  <2>3. (raced[r] \/ leads[r]) \in BOOLEAN
    OBVIOUS
  <2>4. raced' \in [Replica -> BOOLEAN]
    BY <1>1, <2>2, <2>3
  <2> QED
    BY <1>1, <2>1, <2>2, <2>4
<1>5. CASE UNCHANGED <<rows, edits, raced>>
  BY <1>1, <1>5
<1> QED
  BY <1>2, <1>3, <1>4, <1>5
  DEF Next, Works, Execute, CommandFails, KeyLost, RenewFires, Boot, Reply, Shutdown, Destroy, Stopped, Tick, vars,
      History, Rules

LEMMA CountTypeNext ==
  ASSUME LeaderTypeOK, [Next]_vars
  PROVE  /\ faults' \in 0 .. MaxFaults /\ flushed' \in BOOLEAN
         /\ stale' \in [Replica -> Nat] /\ idle' \in [Replica -> Nat] /\ silence' \in [Replica -> Nat]
<1>1. /\ faults \in 0 .. MaxFaults /\ flushed \in BOOLEAN
      /\ stale \in [Replica -> Nat] /\ idle \in [Replica -> Nat] /\ silence \in [Replica -> Nat]
  BY DEF LeaderTypeOK
<1>2. CASE Tick
  BY <1>1, <1>2 DEF Tick
<1>3. CASE ~ Tick
  <2>1. UNCHANGED idle
    BY <1>3 DEF Next, Works, Execute, CommandFails, KeyLost, RenewFires, Boot, Reply, Shutdown, vars, History,
       Select, Load, EditResumes, Exit, Crash, Ended, Destroy, Stopped, BootFails, EditFails, Commit
  <2>2. \/ UNCHANGED <<stale, silence>>
        \/ \E r \in Replica : Reply(r)
        \/ \E r \in Replica : Stopped(r)
    <3>1. ASSUME NEW r \in Replica, BootFails(r) \/ Shutdown(r) \/ Exit(r) \/ Crash(r) PROVE Stopped(r)
      BY <3>1 DEF BootFails, Shutdown, Exit, Crash, Ended, Destroy
    <3>2. ASSUME NEW r \in Replica,
                 \/ RenewFires(r) \/ Execute(r) \/ Select(r) \/ Load(r) \/ EditResumes(r) \/ Boot(r)
                 \/ CommandFails(r) \/ EditFails(r) \/ KeyLost \/ UNCHANGED vars
                 \/ \E s \in {"on", "off", "deleted"} : Commit(r, s)
          PROVE  UNCHANGED <<stale, silence>>
      BY <3>2 DEF RenewFires, Execute, Select, Load, EditResumes, Boot, CommandFails, EditFails, KeyLost, vars,
         Commit, History
    <3>3. CASE KeyLost \/ UNCHANGED vars
      BY <3>3 DEF KeyLost, vars
    <3> QED
      BY <1>3, <3>1, <3>2, <3>3 DEF Next, Works
  <2>3. flushed' \in BOOLEAN
    <3>1. ASSUME NEW r \in Replica, Boot(r) \/ Shutdown(r) \/ BootFails(r) \/ Exit(r) \/ Crash(r) \/ Reply(r)
          PROVE  flushed' = flushed
      BY <3>1 DEF Boot, Shutdown, BootFails, Exit, Crash, Ended, Destroy, Stopped, Reply, History
    <3>2. ASSUME NEW r \in Replica,
                 \/ RenewFires(r) \/ Execute(r) \/ Select(r) \/ Load(r) \/ EditResumes(r)
                 \/ CommandFails(r) \/ EditFails(r) \/ \E s \in {"on", "off", "deleted"} : Commit(r, s)
          PROVE  flushed' = flushed
      BY <3>2 DEF RenewFires, Execute, Select, Load, EditResumes, CommandFails, EditFails, Commit, History
    <3>3. CASE KeyLost \/ UNCHANGED vars
      BY <1>1, <3>3 DEF KeyLost, vars
    <3> QED
      BY <1>1, <1>3, <3>1, <3>2, <3>3 DEF Next, Works
  <2>4. faults' = faults \/ Fault
    BY <1>3 DEF Next, Works, Execute, CommandFails, KeyLost, RenewFires, Boot, Reply, Shutdown, vars, History,
       Select, Load, EditResumes, Exit, Crash, Ended, BootFails, EditFails, Commit
  <2>5. faults' \in 0 .. MaxFaults
    BY <1>1, <2>4, BoundsAssumption DEF Fault
  <2>6. ASSUME NEW r \in Replica, Reply(r)
        PROVE  stale' \in [Replica -> Nat] /\ silence' \in [Replica -> Nat]
    <3>1. Head(conn[r]).age \in Nat
      <4>1. conn[r] \in Seq(CmdType) /\ conn[r] # <<>>
        BY <2>6, LockFuns DEF Reply
      <4>2. Head(conn[r]) \in CmdType
        BY <4>1, HeadTailProperties
      <4> QED
        BY <4>2, Timing DEF CmdType
    <3>2. \E n \in Nat : stale' = [stale EXCEPT ![r] = n]
      BY <1>1, <2>6 DEF Reply
    <3>3. \E n \in Nat : silence' = [silence EXCEPT ![r] = n]
      BY <1>1, <2>6, <3>1 DEF Reply
    <3> QED
      BY <1>1, <3>2, <3>3
  <2>7. stale' \in [Replica -> Nat] /\ silence' \in [Replica -> Nat]
    BY <1>1, <2>2, <2>6 DEF Stopped
  <2> QED
    BY <1>1, <2>1, <2>3, <2>5, <2>7
<1> QED
  BY <1>2, <1>3

LEMMA LeaderTypeNext == LeaderTypeOK /\ [Next]_vars => LeaderTypeOK'
<1> SUFFICES ASSUME LeaderTypeOK, [Next]_vars PROVE LeaderTypeOK'
  OBVIOUS
<1> QED
  BY NowTypeNext, ConnTypeNext, HandleTypeNext, ReplicaTypeNext, EditTypeNext, CountTypeNext
  DEF LeaderTypeOK, NowType, KeyType, Rules, HandleType, EditType, CmdType

LEMMA LeaderTypeInit == Init => LeaderTypeOK
<1> SUFFICES ASSUME Init PROVE LeaderTypeOK
  OBVIOUS
<1>1. PICK s \in {"on", "off"} : now = [key |-> Free, version |-> 0, rule |-> s]
  BY DEF Init
<1>2. 0 \in 0 .. TTL /\ 0 \in Versions /\ 0 \in 0 .. MaxFaults
  BY Timing, BoundsAssumption DEF Versions
<1>3. now \in NowType
  BY <1>1, <1>2 DEF NowType, KeyType, Free, Rules
<1>4. conn \in [Replica -> Seq(CmdType)]
  BY EmptySeq DEF Init
<1> QED
  BY <1>2, <1>3, <1>4 DEF Init, LeaderTypeOK, NowType, KeyType, Rules, CmdType, Phases

-----------------------------------------------------------------------------
(* One acquire per process, alone on its connection; renewals run exactly  *)
(* while the replica leads, and nothing else is under way then.            *)
Elects == {"electing", "degraded", "gone"}
Line(x) ==
  /\ leads[x] <=> renewal[x] # NULL
  /\ leads[x] => Alive(x) /\ phase[x] # "stopping"
  /\ \A i \in 1 .. Len(conn[x]) :
       /\ conn[x][i].op = "acquire" => Len(conn[x]) = 1 /\ ~ leads[x] /\ phase[x] \in Elects
       /\ leads[x] => conn[x][i].op = "renew"
  /\ phase[x] = "new" => Len(conn[x]) = 0 /\ stale[x] = 0 /\ idle[x] = 0 /\ now.key.owner # x

LEMMA ReplicaFacts ==
  ASSUME LeaderTypeOK, NEW x \in Replica
  PROVE  /\ phase[x] \in Phases /\ leads[x] \in BOOLEAN /\ renewal[x] \in 0 .. RenewEvery \cup {NULL}
         /\ conn[x] \in Seq(CmdType) /\ Len(conn[x]) \in Nat /\ stale[x] \in Nat /\ idle[x] \in Nat
         /\ \A i \in 1 .. Len(conn[x]) :
              /\ conn[x][i].op \in Ops /\ conn[x][i].done \in BOOLEAN /\ conn[x][i].ok \in BOOLEAN
              /\ conn[x][i].age \in 0 .. MaxDelay
         /\ now.key.owner \in Replica \cup {NULL} /\ now.key.ttl \in 0 .. TTL
<1>1. conn[x] \in Seq(CmdType)
  BY LockFuns
<1>2. \A i \in 1 .. Len(conn[x]) : conn[x][i] \in CmdType
  BY <1>1, ElementOfSeq
<1>3. Len(conn[x]) \in Nat
  BY <1>1, LenProperties
<1> QED
  BY <1>1, <1>2, <1>3, LockFuns DEF CmdType

LEMMA LineNext ==
  ASSUME LeaderTypeOK, NEW x \in Replica, Line(x), LockStep(x), LeaderTypeOK'
  PROVE  Line(x)'
<1> DEFINE q == conn[x]
           t == conn'[x]
<1>1. /\ phase[x] \in Phases /\ leads[x] \in BOOLEAN /\ leads'[x] \in BOOLEAN /\ Len(q) \in Nat
      /\ RenewEvery \in Nat /\ RenewEvery >= 1 /\ NULL \notin Nat /\ NULL \notin Replica
      /\ renewal[x] \in 0 .. RenewEvery \cup {NULL}
  BY ReplicaFacts, Timing, NullAssumption DEF LeaderTypeOK
<1>2. CASE LStill(x)
  BY <1>1, <1>2 DEF Line, LStill, Keeps, KeyElsewhere, Alive, Elects
<1>3. CASE LBoot(x)
  <2>1. Len(t) = 1 /\ t[1].op = "acquire" /\ ~ leads[x] /\ ~ leads'[x]
    BY <1>1, <1>3 DEF Line, LBoot, QSent, Keeps, Alive
  <2> QED
    BY <1>1, <1>3, <2>1 DEF Line, LBoot, Keeps, Elects
<1>4. CASE LRenew(x)
  <2>1. leads[x] /\ \A i \in 1 .. Len(t) : t[i].op = "renew"
    BY <1>1, <1>4 DEF Line, LRenew, QSent
  <2> QED
    BY <1>1, <1>4, <2>1 DEF Line, LRenew, Alive
<1>5. CASE LRun(x)
  <2>1. Len(t) = Len(q) /\ \A i \in 1 .. Len(q) : t[i].op = q[i].op
    BY <1>5 DEF LRun, QAnswered
  <2>2. phase[x] # "new"
    BY <1>5 DEF LRun, Line
  <2> QED
    BY <1>1, <1>5, <2>1, <2>2 DEF Line, LRun, Keeps, Alive
<1>6. CASE LReply(x)
  <2>1. Len(t) = Len(q) - 1 /\ Len(q) >= 1 /\ \A i \in 1 .. Len(t) : t[i] = q[i + 1]
    BY <1>6 DEF LReply, QTaken
  <2>2. phase[x] # "new" /\ phase'[x] # "new"
    BY <1>1, <1>6, <2>1 DEF LReply, Line
  <2>3. CASE q[1].op = "acquire"
    <3>1. Len(t) = 0 /\ ~ leads[x] /\ phase[x] \in Elects /\ renewal[x] = NULL
      BY <1>1, <2>1, <2>3 DEF Line
    <3> QED
      BY <1>1, <1>6, <2>2, <2>3, <3>1 DEF Line, LReply, Alive, Elects
  <2>4. CASE q[1].op # "acquire"
    <3>1. \/ ~ leads'[x] /\ renewal'[x] = NULL /\ phase'[x] = phase[x]
          \/ leads'[x] = leads[x] /\ renewal'[x] = renewal[x] /\ phase'[x] = phase[x]
      BY <1>6, <2>4 DEF LReply
    <3>2. \A i \in 1 .. Len(t) : t[i] = q[i + 1] /\ i + 1 \in 1 .. Len(q)
      BY <1>1, <2>1
    <3>3. ~ leads[x] => ~ leads'[x]
      BY <3>1
    <3>4. /\ leads'[x] <=> renewal'[x] # NULL
          /\ leads'[x] => Alive(x)' /\ phase'[x] # "stopping"
      BY <3>1 DEF Line, Alive
    <3>5. \A i \in 1 .. Len(t) :
            /\ t[i].op = "acquire" => Len(t) = 1 /\ ~ leads'[x] /\ phase'[x] \in Elects
            /\ leads'[x] => t[i].op = "renew"
      <4> SUFFICES ASSUME NEW i \in 1 .. Len(t)
                   PROVE  /\ t[i].op = "acquire" => Len(t) = 1 /\ ~ leads'[x] /\ phase'[x] \in Elects
                          /\ leads'[x] => t[i].op = "renew"
        OBVIOUS
      <4>1. t[i] = q[i + 1] /\ i + 1 \in 1 .. Len(q) /\ Len(q) >= 2
        BY <1>1, <2>1
      <4>2. t[i].op # "acquire"
        BY <1>1, <4>1 DEF Line
      <4> QED
        BY <3>3, <4>1, <4>2 DEF Line
    <3> QED
      BY <2>2, <3>4, <3>5 DEF Line
  <2> QED
    BY <2>3, <2>4
<1>7. CASE LEnd(x)
  <2>1. phase'[x] # "new" /\ ~ leads'[x] /\ renewal'[x] = NULL
    BY <1>1, <1>7 DEF LEnd
  <2>2. CASE leads[x] /\ QSent(q, t, "release")
    <3>1. \A i \in 1 .. Len(t) : t[i].op # "acquire"
      BY <1>1, <2>2 DEF QSent, Line
    <3> QED
      BY <2>1, <3>1 DEF Line
  <2>3. CASE t = q
    <3>1. phase[x] \in Elects => phase'[x] \in Elects
      BY <1>7 DEF LEnd, Elects
    <3> QED
      BY <2>1, <2>3, <3>1 DEF Line
  <2> QED
    BY <1>7, <2>2, <2>3 DEF LEnd
<1>8. CASE LTick(x)
  <2>1. Len(t) = Len(q) /\ \A i \in 1 .. Len(q) : t[i].op = q[i].op
    BY <1>8 DEF LTick, QAged
  <2>2. renewal[x] # NULL <=> renewal'[x] # NULL
    BY <1>1, <1>8 DEF LTick
  <2>3. phase[x] = "new" => now'.key.owner # x /\ stale'[x] = 0 /\ idle'[x] = 0
    BY <1>1, <1>8 DEF LTick, Line, Aged, Free, Alive
  <2> QED
    BY <1>1, <1>8, <2>1, <2>2, <2>3 DEF Line, LTick, Alive
<1> QED
  BY <1>2, <1>3, <1>4, <1>5, <1>6, <1>7, <1>8 DEF LockStep

-----------------------------------------------------------------------------
(* A verdict of V reaches a replica within less than d ticks: its answer   *)
(* is under way, a command that may still reach Redis has it as outcome,   *)
(* or the interval, n ticks away, sends one.                               *)
Covered(d, q, n, V) ==
  \/ \E i \in 1 .. Len(q) : q[i].done /\ q[i].ok \in V /\ d > MaxDelay - q[i].age
  \/ \E i \in 1 .. Len(q) : ~ q[i].done /\ d > 2 * MaxDelay - q[i].age
  \/ n \in Nat /\ d > n + 2 * MaxDelay

LEMMA CoveredSent ==
  ASSUME NEW s \in Seq(CmdType), NEW t, NEW op, QSent(s, t, op), NEW d \in Int, NEW V, NEW n
  PROVE  /\ Covered(d, s, n, V) => Covered(d, t, n, V)
         /\ d > 2 * MaxDelay => Covered(d, t, n, V)
<1>1. Len(s) \in Nat /\ Len(t) = Len(s) + 1 /\ MaxDelay \in Nat
  BY LenProperties, Timing DEF QSent
<1>2. \A i \in 1 .. Len(s) : i \in 1 .. Len(t) /\ t[i] = s[i]
  BY <1>1 DEF QSent
<1>3. Len(t) \in 1 .. Len(t) /\ ~ t[Len(t)].done /\ t[Len(t)].age = 0
  BY <1>1 DEF QSent
<1> QED
  BY <1>1, <1>2, <1>3 DEF Covered

LEMMA CoveredTaken ==
  ASSUME NEW s \in Seq(CmdType), NEW t, QTaken(s, t), NEW V, s[1].ok \notin V, NEW d \in Int, NEW n, Covered(d, s, n, V)
  PROVE  Covered(d, t, n, V)
<1>1. Len(s) \in Nat /\ Len(s) >= 1 /\ Len(t) = Len(s) - 1 /\ s[1].done
  BY LenProperties DEF QTaken
<1>2. \A i \in 1 .. Len(s) : i # 1 => i - 1 \in 1 .. Len(t) /\ t[i - 1] = s[i]
  <2>1. ASSUME NEW i \in 1 .. Len(s), i # 1 PROVE i - 1 \in 1 .. Len(t) /\ t[i - 1] = s[(i - 1) + 1] /\ (i - 1) + 1 = i
    BY <1>1, <2>1 DEF QTaken
  <2> QED
    BY <2>1
<1> QED
  BY <1>1, <1>2 DEF Covered

LEMMA CoveredAnswered ==
  ASSUME NEW s \in Seq(CmdType), NEW t, NEW i, NEW V, NEW verdict \in V,
         QAnswered(s, t, i, verdict), NEW d \in Int, NEW n, Covered(d, s, n, V)
  PROVE  Covered(d, t, n, V)
<1>1. Len(t) = Len(s) /\ MaxDelay \in Nat /\ i \in 1 .. Len(s) /\ ~ s[i].done /\ s[i].age \in 0 .. MaxDelay
  <2>1. i \in 1 .. Len(s)
    BY DEF QAnswered
  <2>2. s[i] \in CmdType
    BY <2>1, ElementOfSeq
  <2> QED
    BY <2>2, Timing DEF QAnswered, CmdType
<1>2. t[i].done /\ t[i].ok \in V /\ t[i].age = 0 /\ \A j \in 1 .. Len(s) : j # i => t[j] = s[j]
  BY DEF QAnswered
<1>3. d > 2 * MaxDelay - s[i].age => d > MaxDelay - 0
  BY <1>1
<1> QED
  BY <1>1, <1>2, <1>3 DEF Covered

LEMMA CoveredAged ==
  ASSUME NEW s \in Seq(CmdType), NEW t, QAged(s, t), NEW d \in Int, NEW V, NEW n, n # 0, Covered(d, s, n, V)
  PROVE  d > 1 /\ (n \in Nat => Covered(d - 1, t, n - 1, V)) /\ (n \notin Nat => Covered(d - 1, t, n, V))
<1>1. Len(t) = Len(s) /\ MaxDelay \in Nat
  BY Timing DEF QAged
<1>2. \A i \in 1 .. Len(s) : s[i].age \in 0 .. MaxDelay
  <2>1. ASSUME NEW i \in 1 .. Len(s) PROVE s[i].age \in 0 .. MaxDelay
    <3>1. s[i] \in CmdType
      BY ElementOfSeq
    <3> QED
      BY <3>1 DEF CmdType
  <2> QED
    BY <2>1
<1>3. CASE \E i \in 1 .. Len(s) : s[i].done /\ s[i].ok \in V /\ d > MaxDelay - s[i].age
  <2>1. PICK i \in 1 .. Len(s) : s[i].done /\ s[i].ok \in V /\ d > MaxDelay - s[i].age
    BY <1>3
  <2>2. /\ t[i].done /\ t[i].ok \in V /\ t[i].age = s[i].age + 1 /\ s[i].age < MaxDelay /\ i \in 1 .. Len(t)
        /\ s[i].age \in 0 .. MaxDelay
    BY <1>1, <1>2, <2>1 DEF QAged
  <2>3. d > 1 /\ d - 1 > MaxDelay - t[i].age
    BY <1>1, <2>1, <2>2
  <2> QED
    BY <2>2, <2>3 DEF Covered
<1>4. CASE \E i \in 1 .. Len(s) : ~ s[i].done /\ d > 2 * MaxDelay - s[i].age
  <2>1. PICK i \in 1 .. Len(s) : ~ s[i].done /\ d > 2 * MaxDelay - s[i].age
    BY <1>4
  <2>2. /\ ~ t[i].done /\ t[i].age = s[i].age + 1 /\ s[i].age < MaxDelay /\ i \in 1 .. Len(t)
        /\ s[i].age \in 0 .. MaxDelay
    BY <1>1, <1>2, <2>1 DEF QAged
  <2>3. d > 1 /\ d - 1 > 2 * MaxDelay - t[i].age
    BY <1>1, <2>1, <2>2
  <2> QED
    BY <2>2, <2>3 DEF Covered
<1>5. CASE n \in Nat /\ d > n + 2 * MaxDelay
  BY <1>1, <1>5 DEF Covered
<1> QED
  BY <1>3, <1>4, <1>5 DEF Covered

(* What is covered has some time left. *)
LEMMA CoveredPositive ==
  ASSUME NEW q, \A i \in 1 .. Len(q) : q[i].age \in 0 .. MaxDelay, NEW d \in Int, NEW n, NEW V, Covered(d, q, n, V)
  PROVE  d > 0
<1>1. MaxDelay \in Nat
  BY Timing
<1>2. \A a \in 0 .. MaxDelay : MaxDelay - a >= 0 /\ 2 * MaxDelay - a >= 0
  BY <1>1
<1>3. \A a \in 0 .. MaxDelay : MaxDelay - a \in Int /\ 2 * MaxDelay - a \in Int
  BY <1>1
<1> QED
  BY <1>1, <1>2, <1>3 DEF Covered

(* What Redis holds for x if it ran a successful acquire or renewal of x   *)
(* n ticks ago and has not lost the key.                                   *)
Lasts(n, x) == n < TTL => now.key.owner = x /\ now.key.ttl + n >= TTL

(* While Redis keeps the key, no release of x follows a success x may      *)
(* still hear of: the key outlasts what a leader heard last, and what the  *)
(* answers under way tell.                                                 *)
Held(x) ==
  ~ flushed =>
    /\ leads[x] => Lasts(silence[x], x)
    /\ \A i \in 1 .. Len(conn[x]) :
         conn[x][i].done /\ conn[x][i].ok /\ (leads[x] \/ conn[x][i].op = "acquire")
           => Lasts(conn[x][i].age, x)

LEMMA HeldNext ==
  ASSUME LeaderTypeOK, NEW x \in Replica, Line(x), Held(x), LockStep(x), LeaderTypeOK', Line(x)'
  PROVE  Held(x)'
<1> DEFINE q == conn[x]
           t == conn'[x]
           k == now.key.ttl
           Heeds(l, c) == c.done /\ c.ok /\ (l \/ c.op = "acquire")
           Goal1 == leads'[x] => Lasts(silence[x], x)'
           Goal2 == \A i \in 1 .. Len(t) : Heeds(leads'[x], t[i])
                      => (t[i].age < TTL => now'.key.owner = x /\ now'.key.ttl + t[i].age >= TTL)
<1>1. /\ leads[x] \in BOOLEAN /\ leads'[x] \in BOOLEAN /\ Len(q) \in Nat /\ k \in Nat /\ silence[x] \in Nat
      /\ \A i \in 1 .. Len(q) : q[i].age \in Nat /\ q[i].done \in BOOLEAN /\ q[i].ok \in BOOLEAN
      /\ TTL \in Nat /\ TTL >= 3 /\ NULL \notin Replica /\ phase[x] \in Phases
  <2>1. MaxDelay \in Nat /\ TTL \in Nat /\ TTL >= 3 /\ NULL \notin Replica
    BY Timing, NullAssumption
  <2>2. leads'[x] \in BOOLEAN /\ silence[x] \in Nat
    BY DEF LeaderTypeOK
  <2>3. k \in 0 .. TTL /\ \A i \in 1 .. Len(q) : q[i].age \in 0 .. MaxDelay
    BY ReplicaFacts
  <2> QED
    BY <2>1, <2>2, <2>3, ReplicaFacts
<1>2. SUFFICES ASSUME ~ flushed' PROVE Held(x)'
  BY DEF Held
<1>3. Goal1 /\ Goal2 => Held(x)'
  BY DEF Held, Lasts
<1>4. ~ flushed => /\ leads[x] /\ silence[x] < TTL => now.key.owner = x /\ k + silence[x] >= TTL
                   /\ \A i \in 1 .. Len(q) : Heeds(leads[x], q[i]) /\ q[i].age < TTL
                        => now.key.owner = x /\ k + q[i].age >= TTL
  BY DEF Held, Lasts
<1>5. CASE LStill(x)
  <2>1. leads'[x] = leads[x] /\ silence'[x] = silence[x] /\ t = q /\ ~ flushed
    BY <1>2, <1>5 DEF LStill, Keeps, KeyElsewhere
  <2>2. now.key.owner = x => now'.key = now.key
    BY <1>2, <1>5 DEF LStill, KeyElsewhere
  <2> QED
    BY <1>3, <1>4, <2>1, <2>2 DEF Lasts
<1>6. CASE LBoot(x)
  <2>1. Len(t) = 1 /\ ~ t[1].done /\ ~ leads'[x]
    BY <1>1, <1>6 DEF Line, LBoot, QSent, Keeps, Alive
  <2> QED
    BY <1>3, <2>1
<1>7. CASE LRenew(x)
  <2>1. leads'[x] = leads[x] /\ silence'[x] = silence[x] /\ now'.key = now.key /\ ~ flushed
    BY <1>2, <1>7 DEF LRenew, KeyStays
  <2>2. Len(t) = Len(q) + 1 /\ ~ t[Len(t)].done /\ \A i \in 1 .. Len(q) : t[i] = q[i]
    BY <1>7 DEF LRenew, QSent
  <2>3. \A i \in 1 .. Len(t) : i \in 1 .. Len(q) \/ i = Len(t)
    BY <1>1, <2>2
  <2> QED
    BY <1>3, <1>4, <2>1, <2>2, <2>3 DEF Lasts
<1>8. CASE LRun(x)
  <2>1. PICK i \in 1 .. Len(q), verdict \in BOOLEAN :
          /\ QAnswered(q, t, i, verdict)
          /\ \/ /\ q[i].op = "acquire" /\ now.key.owner = NULL
                /\ now'.key.owner = x /\ now'.key.ttl = TTL
             \/ /\ q[i].op = "renew" /\ now.key.owner = x
                /\ now'.key.owner = x /\ now'.key.ttl = TTL
             \/ q[i].op = "release" /\ now'.key.owner = NULL
             \/ ~ verdict /\ now'.key = now.key
    BY <1>8 DEF LRun
  <2>2. leads'[x] = leads[x] /\ silence'[x] = silence[x] /\ ~ flushed
    BY <1>2, <1>8 DEF LRun, Keeps
  <2>3. Len(t) = Len(q) /\ t[i].op = q[i].op /\ t[i].ok = verdict /\ t[i].age = 0
        /\ \A j \in 1 .. Len(q) : j # i => t[j] = q[j]
    BY <2>1 DEF QAnswered
  <2>4. CASE now'.key.owner = x /\ now'.key.ttl = TTL
    BY <1>1, <1>3, <2>2, <2>3, <2>4 DEF Lasts
  <2>5. CASE ~ verdict /\ now'.key = now.key
    BY <1>3, <1>4, <2>2, <2>3, <2>5 DEF Lasts
  <2>6. CASE q[i].op = "release"
    <3>1. ~ leads[x] /\ \A j \in 1 .. Len(q) : q[j].op # "acquire"
      <4>1. ~ leads[x]
        BY <2>6 DEF Line
      <4>2. ASSUME NEW j \in 1 .. Len(q), q[j].op = "acquire" PROVE FALSE
        <5>1. Len(q) = 1
          BY <4>2 DEF Line
        <5> QED
          BY <2>6, <4>2, <5>1
      <4> QED
        BY <4>1, <4>2
    <3>2. \A j \in 1 .. Len(q) : t[j].op = q[j].op
      BY <2>3
    <3> QED
      BY <1>3, <2>2, <2>3, <3>1, <3>2
  <2> QED
    BY <2>1, <2>4, <2>5, <2>6
<1>9. CASE LReply(x)
  <2>1. /\ Len(t) = Len(q) - 1 /\ Len(q) >= 1 /\ q[1].done /\ now'.key = now.key /\ ~ flushed
        /\ \A i \in 1 .. Len(t) : t[i] = q[i + 1] /\ i + 1 \in 1 .. Len(q)
        /\ leads'[x] => silence'[x] = IF q[1].ok THEN q[1].age ELSE silence[x]
    BY <1>1, <1>2, <1>9 DEF LReply, QTaken, KeyStays
  <2>2. CASE Alive(x) /\ q[1].op = "acquire" /\ leads'[x] = q[1].ok
    <3>1. Len(t) = 0
      BY <1>1, <2>1, <2>2 DEF Line
    <3>2. leads'[x] => Heeds(leads[x], q[1]) /\ silence'[x] = q[1].age
      BY <2>1, <2>2
    <3> QED
      BY <1>1, <1>3, <1>4, <2>1, <3>1, <3>2 DEF Lasts
  <2>3. CASE leads'[x] => leads[x]
    <3>1. \A i \in 1 .. Len(t) : Heeds(leads'[x], t[i]) => Heeds(leads[x], q[i + 1])
      BY <2>1, <2>3
    <3>2. Goal2
      BY <1>4, <2>1, <3>1
    <3>3. Goal1
      <4> SUFFICES ASSUME leads'[x] PROVE Lasts(silence[x], x)'
        OBVIOUS
      <4>1. CASE q[1].ok
        <5>1. Heeds(leads[x], q[1]) /\ silence'[x] = q[1].age
          BY <2>1, <2>3, <4>1
        <5> QED
          BY <1>1, <1>4, <2>1, <5>1 DEF Lasts
      <4>2. CASE ~ q[1].ok
        <5>1. silence'[x] = silence[x]
          BY <2>1, <4>2
        <5> QED
          BY <1>4, <2>1, <2>3, <5>1 DEF Lasts
      <4> QED
        BY <4>1, <4>2
    <3> QED
      BY <1>3, <3>2, <3>3
  <2>4. \/ Alive(x) /\ q[1].op = "acquire" /\ leads'[x] = q[1].ok
        \/ leads'[x] => leads[x]
    BY <1>9 DEF LReply
  <2> QED
    BY <2>2, <2>3, <2>4
<1>10. CASE LEnd(x)
  <2>1. ~ leads'[x] /\ now'.key = now.key /\ ~ flushed
    BY <1>2, <1>10 DEF LEnd, KeyStays
  <2>2. CASE t = q
    BY <1>3, <1>4, <2>1, <2>2
  <2>3. CASE leads[x] /\ QSent(q, t, "release")
    <3>1. \A i \in 1 .. Len(t) : t[i].op # "acquire"
      BY <1>1, <2>3 DEF QSent, Line
    <3> QED
      BY <1>3, <2>1, <3>1
  <2> QED
    BY <1>10, <2>2, <2>3 DEF LEnd
<1>11. CASE LTick(x)
  <2>1. /\ QAged(q, t) /\ leads'[x] = leads[x] /\ ~ flushed /\ now'.key = Aged(now.key)
        /\ silence'[x] = IF leads[x] THEN silence[x] + 1 ELSE 0
    BY <1>2, <1>11 DEF LTick
  <2>2. \A n \in Nat : (n < TTL => now.key.owner = x /\ k + n >= TTL)
                         => (n + 1 < TTL => now'.key.owner = x /\ now'.key.ttl + (n + 1) >= TTL)
    <3> SUFFICES ASSUME NEW n \in Nat, n + 1 < TTL, now.key.owner = x, k + n >= TTL
                 PROVE  now'.key.owner = x /\ now'.key.ttl + (n + 1) >= TTL
      BY <1>1
    <3>1. k > 1
      BY <1>1
    <3>2. now.key \in [owner : Replica \cup {NULL}, ttl : 0 .. TTL]
      BY LockFuns
    <3>3. now'.key.owner = x /\ now'.key.ttl = k - 1
      BY <1>1, <2>1, <3>1, <3>2 DEF Aged
    <3> QED
      BY <1>1, <3>3
  <2>3. Goal2
    <3> SUFFICES ASSUME NEW i \in 1 .. Len(t), Heeds(leads'[x], t[i]), t[i].age < TTL
                 PROVE  now'.key.owner = x /\ now'.key.ttl + t[i].age >= TTL
      OBVIOUS
    <3>1. i \in 1 .. Len(q) /\ Heeds(leads[x], q[i]) /\ t[i].age = q[i].age + 1 /\ q[i].age \in Nat
      BY <1>1, <2>1 DEF QAged
    <3>2. q[i].age < TTL => now.key.owner = x /\ k + q[i].age >= TTL
      BY <1>4, <2>1, <3>1
    <3> QED
      BY <2>2, <3>1, <3>2
  <2>4. Goal1
    <3> SUFFICES ASSUME leads[x] PROVE Lasts(silence[x], x)'
      BY <2>1
    <3>1. silence[x] < TTL => now.key.owner = x /\ k + silence[x] >= TTL
      BY <1>4, <2>1
    <3> QED
      BY <1>1, <2>1, <2>2, <3>1 DEF Lasts
  <2> QED
    BY <1>3, <2>3, <2>4
<1> QED
  BY <1>5, <1>6, <1>7, <1>8, <1>9, <1>10, <1>11 DEF LockStep

-----------------------------------------------------------------------------
(* A leader hears of a success again, or gives up, in time: whatever the   *)
(* verdict of its renewal, the answer is within what is left of an         *)
(* interval and the delays of the answer it heard last and of the renewal. *)
Heard(x) ==
  leads[x] => Covered(RenewEvery + 3 * MaxDelay + 1 - silence[x], conn[x], renewal[x], BOOLEAN)

LEMMA HeardNext ==
  ASSUME LeaderTypeOK, NEW x \in Replica, Line(x), Heard(x), LockStep(x), LeaderTypeOK', Line(x)'
  PROVE  Heard(x)'
<1> DEFINE q == conn[x]
           t == conn'[x]
           d == RenewEvery + 3 * MaxDelay + 1 - silence[x]
<1>1. /\ q \in Seq(CmdType) /\ Len(q) \in Nat /\ silence[x] \in Nat /\ leads[x] \in BOOLEAN
      /\ RenewEvery \in Nat /\ MaxDelay \in Nat /\ NULL \notin Nat /\ d \in Int
      /\ renewal[x] \in 0 .. RenewEvery \cup {NULL}
      /\ \A i \in 1 .. Len(q) : q[i].age \in 0 .. MaxDelay
  <2>1. silence[x] \in Nat
    BY DEF LeaderTypeOK
  <2> QED
    BY <2>1, ReplicaFacts, Timing, NullAssumption
<1>2. SUFFICES ASSUME leads'[x]
               PROVE  Covered(RenewEvery + 3 * MaxDelay + 1 - silence'[x], t, renewal'[x], BOOLEAN)
  BY DEF Heard, Covered
<1>3. renewal'[x] \in Nat /\ renewal'[x] <= RenewEvery
  <2>1. renewal'[x] \in 0 .. RenewEvery \cup {NULL}
    BY DEF LeaderTypeOK
  <2> QED
    BY <1>1, <1>2, <2>1 DEF Line
<1>4. leads[x] => Covered(d, q, renewal[x], BOOLEAN) /\ renewal[x] \in Nat
  BY <1>1 DEF Heard, Line
<1>5. CASE LStill(x)
  BY <1>2, <1>4, <1>5 DEF LStill, Keeps
<1>6. CASE LBoot(x)
  BY <1>1, <1>2, <1>6 DEF Line, LBoot, Keeps, Alive
<1>7. CASE LRenew(x)
  <2>1. leads[x] /\ silence'[x] = silence[x] /\ renewal[x] = 0 /\ renewal'[x] = RenewEvery /\ QSent(q, t, "renew")
    BY <1>2, <1>7 DEF LRenew
  <2>2. Covered(d, t, RenewEvery, BOOLEAN)
    <3> HIDE DEF d
    <3>1. CASE d > 2 * MaxDelay
      BY <1>1, <2>1, <3>1, CoveredSent
    <3>2. CASE ~ (d > 2 * MaxDelay)
      <4>1. Covered(d, q, RenewEvery, BOOLEAN)
        BY <1>1, <1>4, <2>1, <3>2 DEF Covered
      <4> QED
        BY <1>1, <2>1, <4>1, CoveredSent
    <3> QED
      BY <3>1, <3>2
  <2> QED
    BY <2>1, <2>2
<1>8. CASE LRun(x)
  <2>1. PICK i \in 1 .. Len(q), verdict \in BOOLEAN : QAnswered(q, t, i, verdict)
    BY <1>8 DEF LRun
  <2>2. leads[x] /\ renewal'[x] = renewal[x] /\ silence'[x] = silence[x]
    BY <1>2, <1>8 DEF LRun, Keeps
  <2>3. Covered(d, t, renewal[x], BOOLEAN)
    <3> HIDE DEF d
    <3> QED
      BY <1>1, <1>4, <2>1, <2>2, CoveredAnswered
  <2> QED
    BY <2>2, <2>3
<1>9. CASE LReply(x)
  <2>1. Len(q) >= 1 /\ leads'[x] => silence'[x] = IF q[1].ok THEN q[1].age ELSE silence[x]
    BY <1>9 DEF LReply
  <2>2. Len(q) >= 1 /\ 1 \in 1 .. Len(q)
    BY <1>1, <1>9 DEF LReply, QTaken
  <2>3. q[1].ok
    BY <1>2, <1>9, <2>2 DEF LReply, Line
  <2>4. silence'[x] = q[1].age /\ q[1].age \in Nat /\ q[1].age <= MaxDelay
    BY <1>1, <1>2, <2>1, <2>2, <2>3
  <2>5. RenewEvery + 3 * MaxDelay + 1 - silence'[x] > renewal'[x] + 2 * MaxDelay
    <3>1. \A a, n, m, e \in Nat : a <= m /\ n <= e => e + 3 * m + 1 - a > n + 2 * m
      OBVIOUS
    <3> QED
      BY <1>1, <1>3, <2>4, <3>1
  <2> DEFINE e == RenewEvery + 3 * MaxDelay + 1 - silence'[x]
  <2>6. e > renewal'[x] + 2 * MaxDelay
    BY <2>5
  <2> HIDE DEF e
  <2>7. Covered(e, t, renewal'[x], BOOLEAN)
    BY <1>3, <2>6 DEF Covered
  <2> QED
    BY <2>7 DEF e
<1>10. CASE LEnd(x)
  BY <1>2, <1>10 DEF LEnd
<1>11. CASE LTick(x)
  <2>1. /\ QAged(q, t) /\ renewal[x] # 0 /\ leads[x] /\ silence'[x] = silence[x] + 1
        /\ renewal'[x] = IF renewal[x] = NULL THEN NULL ELSE renewal[x] - 1
    BY <1>2, <1>11 DEF LTick
  <2>2. Covered(d - 1, t, renewal[x] - 1, BOOLEAN)
    <3> HIDE DEF d
    <3> QED
      BY <1>1, <1>4, <2>1, CoveredAged
  <2>3. RenewEvery + 3 * MaxDelay + 1 - silence'[x] = d - 1 /\ renewal'[x] = renewal[x] - 1
    BY <1>1, <1>4, <2>1
  <2> QED
    BY <2>2, <2>3
<1> QED
  BY <1>5, <1>6, <1>7, <1>8, <1>9, <1>10, <1>11 DEF LockStep

LEMMA HeardBound ==
  ASSUME LeaderTypeOK, NEW x \in Replica, Heard(x), leads[x]
  PROVE  silence[x] <= RenewEvery + 3 * MaxDelay
<1>1. /\ silence[x] \in Nat /\ RenewEvery \in Nat /\ MaxDelay \in Nat
      /\ \A i \in 1 .. Len(conn[x]) : conn[x][i].age \in 0 .. MaxDelay
  <2>1. silence[x] \in Nat
    BY DEF LeaderTypeOK
  <2> QED
    BY <2>1, ReplicaFacts, Timing
<1> DEFINE d == RenewEvery + 3 * MaxDelay + 1 - silence[x]
<1>2. Covered(d, conn[x], renewal[x], BOOLEAN) /\ d \in Int
  BY <1>1 DEF Heard
<1>3. d > 0
  <2> HIDE DEF d
  <2> QED
    BY <1>1, <1>2, CoveredPositive
<1> QED
  BY <1>1, <1>3

-----------------------------------------------------------------------------
(* A leader without the key gives up in time.  Its clock starts when the   *)
(* key is gone; from then on the interval, a renewal under way or an       *)
(* answer FALSE is within what is left of RenewEvery + 2 * MaxDelay.       *)
Late(x) ==
  /\ now.key.owner = x => stale[x] = 0
  /\ \A i \in 1 .. Len(conn[x]) : conn[x][i].op = "acquire" => stale[x] = 0
  /\ leads[x] /\ now.key.owner # x => Covered(RenewEvery + 2 * MaxDelay + 1 - stale[x], conn[x], renewal[x], {FALSE})

(* Right after the key is lost the interval alone is a sufficient cover.   *)
LEMMA CoveredAtLoss ==
  ASSUME NEW q, NEW n \in Nat, n <= RenewEvery
  PROVE  Covered(RenewEvery + 2 * MaxDelay + 1 - 0, q, n, {FALSE})
<1>1. RenewEvery + 2 * MaxDelay + 1 - 0 > n + 2 * MaxDelay
  BY Timing
<1> QED
  BY <1>1 DEF Covered

LEMMA LateNext ==
  ASSUME LeaderTypeOK, NEW x \in Replica, Line(x), Late(x), LockStep(x), LeaderTypeOK', Line(x)'
  PROVE  Late(x)'
<1> DEFINE q == conn[x]
           t == conn'[x]
           d == RenewEvery + 2 * MaxDelay + 1 - stale[x]
           Goal1 == now'.key.owner = x => stale'[x] = 0
           Goal2 == \A i \in 1 .. Len(t) : t[i].op = "acquire" => stale'[x] = 0
           Goal3 == leads'[x] /\ now'.key.owner # x
                      => Covered(RenewEvery + 2 * MaxDelay + 1 - stale'[x], t, renewal'[x], {FALSE})
<1>1. /\ q \in Seq(CmdType) /\ Len(q) \in Nat /\ stale[x] \in Nat /\ leads[x] \in BOOLEAN
      /\ RenewEvery \in Nat /\ MaxDelay \in Nat /\ NULL \notin Nat /\ NULL \notin Replica
      /\ renewal[x] \in 0 .. RenewEvery \cup {NULL}
  BY ReplicaFacts, Timing, NullAssumption
<1>2. /\ d \in Int
      /\ leads[x] => renewal[x] \in Nat /\ renewal[x] <= RenewEvery
      /\ leads'[x] => renewal'[x] \in Nat /\ renewal'[x] <= RenewEvery
  <2>1. renewal'[x] \in 0 .. RenewEvery \cup {NULL}
    BY DEF LeaderTypeOK
  <2> QED
    BY <1>1, <2>1 DEF Line
<1>3. leads'[x] /\ stale'[x] = 0 => Goal3
  BY <1>2, CoveredAtLoss
<1>4. Goal1 /\ Goal2 /\ Goal3 => Late(x)'
  BY DEF Late, Covered
<1>5. CASE LStill(x)
  <2>1. leads'[x] = leads[x] /\ renewal'[x] = renewal[x] /\ stale'[x] = stale[x] /\ t = q
    BY <1>5 DEF LStill, Keeps
  <2>2. now'.key.owner = x => now.key.owner = x
    BY <1>5 DEF LStill, KeyElsewhere
  <2>3. CASE now.key.owner = x
    BY <1>3, <1>4, <2>1, <2>3 DEF Late
  <2>4. CASE now.key.owner # x
    BY <1>4, <2>1, <2>2, <2>4 DEF Late
  <2> QED
    BY <2>3, <2>4
<1>6. CASE LBoot(x)
  <2>1. ~ leads'[x] /\ stale'[x] = 0
    BY <1>1, <1>6 DEF Line, LBoot, Keeps, Alive
  <2> QED
    BY <1>4, <2>1
<1>7. CASE LRenew(x)
  <2>1. leads[x] /\ now'.key = now.key /\ stale'[x] = stale[x] /\ renewal[x] = 0 /\ QSent(q, t, "renew")
    BY <1>1, <1>7 DEF Line, LRenew, KeyStays
  <2>2. Goal2
    BY <2>1 DEF Line, QSent
  <2>3. CASE now.key.owner = x
    BY <1>3, <1>4, <2>1, <2>2, <2>3 DEF Late
  <2>4. CASE now.key.owner # x
    <3>1. Covered(d, q, 0, {FALSE})
      BY <2>1, <2>4 DEF Late
    <3>2. Covered(d, t, RenewEvery, {FALSE})
      <4> HIDE DEF d
      <4>0. /\ Covered(d, q, RenewEvery, {FALSE}) => Covered(d, t, RenewEvery, {FALSE})
            /\ d > 2 * MaxDelay => Covered(d, t, RenewEvery, {FALSE})
        BY <1>1, <1>2, <2>1, CoveredSent
      <4>1. CASE d > 2 * MaxDelay
        BY <4>0, <4>1
      <4>2. CASE ~ (d > 2 * MaxDelay)
        <5>0. ~ (d > 0 + 2 * MaxDelay)
          BY <1>1, <1>2, <4>2
        <5>1. Covered(d, q, RenewEvery, {FALSE})
          BY <3>1, <5>0 DEF Covered
        <5> QED
          BY <4>0, <5>1
      <4> QED
        BY <4>1, <4>2
    <3> QED
      BY <1>4, <1>7, <2>1, <2>2, <2>4, <3>2 DEF LRenew
  <2> QED
    BY <2>3, <2>4
<1>8. CASE LRun(x)
  <2>1. PICK i \in 1 .. Len(q), verdict \in BOOLEAN :
          /\ QAnswered(q, t, i, verdict)
          /\ \/ q[i].op = "acquire" /\ now'.key.owner = x
             \/ q[i].op = "renew" /\ now.key.owner = x /\ now'.key.owner = x
             \/ q[i].op = "release" /\ now'.key.owner = NULL
             \/ ~ verdict /\ now'.key = now.key
    BY <1>8 DEF LRun
  <2>2. leads'[x] = leads[x] /\ renewal'[x] = renewal[x] /\ stale'[x] = stale[x]
    BY <1>8 DEF LRun, Keeps
  <2>3. Goal2
    <3>1. Len(t) = Len(q) /\ \A j \in 1 .. Len(q) : t[j].op = q[j].op
      BY <2>1 DEF QAnswered
    <3> QED
      BY <2>2, <3>1 DEF Late
  <2>4. Goal1
    BY <1>1, <2>1, <2>2 DEF Late
  <2>5. Goal3
    <3> SUFFICES ASSUME leads[x], now'.key.owner # x PROVE Covered(d, t, renewal[x], {FALSE})
      BY <2>2
    <3>1. q[i].op = "renew"
      BY DEF Line
    <3>2. ~ verdict /\ now'.key = now.key /\ Covered(d, q, renewal[x], {FALSE})
      BY <2>1, <3>1 DEF Late
    <3>3. QAnswered(q, t, i, FALSE)
      BY <2>1, <3>2
    <3> HIDE DEF d
    <3> QED
      BY <1>1, <1>2, <3>2, <3>3, CoveredAnswered
  <2> QED
    BY <1>4, <2>3, <2>4, <2>5
<1>9. CASE LReply(x)
  <2>1. /\ QTaken(q, t) /\ Len(t) = Len(q) - 1 /\ Len(q) >= 1 /\ q[1].done /\ now'.key = now.key
        /\ stale'[x] = IF leads'[x] THEN stale[x] ELSE 0
        /\ \A i \in 1 .. Len(t) : t[i] = q[i + 1] /\ i + 1 \in 1 .. Len(q)
    BY <1>1, <1>9 DEF LReply, QTaken, KeyStays
  <2>2. Goal1 /\ Goal2
    BY <2>1 DEF Late
  <2>3. CASE q[1].op = "acquire"
    <3>1. stale'[x] = 0
      BY <1>1, <2>1, <2>3 DEF Late
    <3> QED
      BY <1>3, <1>4, <2>2, <3>1
  <2>4. CASE leads'[x] /\ leads[x] /\ q[1].ok /\ renewal'[x] = renewal[x]
    <3>1. now.key.owner # x => Covered(d, q, renewal[x], {FALSE})
      BY <2>4 DEF Late
    <3>2. now.key.owner # x => Covered(d, t, renewal[x], {FALSE})
      <4> HIDE DEF d
      <4> QED
        BY <1>1, <1>2, <2>1, <2>4, <3>1, CoveredTaken
    <3> QED
      BY <1>4, <2>1, <2>2, <2>4, <3>2
  <2>5. CASE ~ leads'[x]
    BY <1>4, <2>2, <2>5
  <2>6. leads[x] => Alive(x) /\ q[1].op = "renew"
    BY <2>1 DEF Line
  <2> QED
    BY <1>9, <2>3, <2>4, <2>5, <2>6 DEF LReply
<1>10. CASE LEnd(x)
  <2>1. ~ leads'[x] /\ stale'[x] = 0
    BY <1>10 DEF LEnd
  <2> QED
    BY <1>4, <2>1
<1>11. CASE LTick(x)
  <2>1. /\ QAged(q, t) /\ renewal[x] # 0 /\ leads'[x] = leads[x] /\ now'.key = Aged(now.key)
        /\ renewal'[x] = IF renewal[x] = NULL THEN NULL ELSE renewal[x] - 1
        /\ stale'[x] = IF leads[x] /\ now.key.owner # x THEN stale[x] + 1 ELSE 0
    BY <1>11 DEF LTick
  <2>2. now'.key.owner = x => now.key.owner = x
    <3>1. now.key \in [owner : Replica \cup {NULL}, ttl : 0 .. TTL]
      BY LockFuns
    <3> QED
      BY <1>1, <2>1, <3>1 DEF Aged, Free
  <2>3. Goal2
    <3>1. Len(t) = Len(q) /\ \A j \in 1 .. Len(q) : t[j].op = q[j].op
      BY <2>1 DEF QAged
    <3> QED
      BY <2>1, <3>1 DEF Line
  <2>4. CASE leads[x] /\ now.key.owner # x
    <3>1. Covered(d, q, renewal[x], {FALSE}) /\ renewal[x] \in Nat
      BY <1>2, <2>4 DEF Late
    <3>2. Covered(d - 1, t, renewal[x] - 1, {FALSE})
      <4> HIDE DEF d
      <4> QED
        BY <1>1, <1>2, <2>1, <3>1, CoveredAged
    <3>3. d - 1 = RenewEvery + 2 * MaxDelay + 1 - (stale[x] + 1)
      BY <1>1
    <3>4. stale'[x] = stale[x] + 1 /\ renewal'[x] = renewal[x] - 1
      BY <1>1, <2>1, <2>4, <3>1
    <3> QED
      BY <1>4, <2>2, <2>3, <2>4, <3>2, <3>3, <3>4
  <2>5. CASE ~ (leads[x] /\ now.key.owner # x)
    BY <1>3, <1>4, <2>1, <2>3, <2>5
  <2> QED
    BY <2>4, <2>5
<1> QED
  BY <1>5, <1>6, <1>7, <1>8, <1>9, <1>10, <1>11 DEF LockStep

LEMMA LateBound ==
  ASSUME LeaderTypeOK, NEW x \in Replica, Late(x), leads[x]
  PROVE  stale[x] <= RenewEvery + 2 * MaxDelay
<1>1. /\ stale[x] \in Nat /\ RenewEvery \in Nat /\ MaxDelay \in Nat
      /\ \A i \in 1 .. Len(conn[x]) : conn[x][i].age \in 0 .. MaxDelay
  BY ReplicaFacts, Timing
<1>2. CASE now.key.owner = x
  BY <1>1, <1>2 DEF Late
<1>3. CASE now.key.owner # x
  <2> DEFINE d == RenewEvery + 2 * MaxDelay + 1 - stale[x]
  <2>1. Covered(d, conn[x], renewal[x], {FALSE}) /\ d \in Int
    BY <1>1, <1>3 DEF Late
  <2>2. d > 0
    <3> HIDE DEF d
    <3> QED
      BY <1>1, <2>1, CoveredPositive
  <2> QED
    BY <1>1, <2>2
<1> QED
  BY <1>2, <1>3

-----------------------------------------------------------------------------
(* A key whose owner does not lead runs out: only a renewal that was under *)
(* way when the lead ended can extend it, once, and early enough.          *)
Idle(x) ==
  /\ now.key.owner = x => now.key.ttl >= 1 /\ idle[x] + now.key.ttl <= TTL + MaxDelay
  /\ idle[x] <= TTL + MaxDelay
  /\ leads[x] => idle[x] = 0
  /\ \A i \in 1 .. Len(conn[x]) :
       /\ conn[x][i].op = "renew" /\ ~ conn[x][i].done => idle[x] <= conn[x][i].age
       /\ conn[x][i].op = "acquire" /\ Alive(x) => idle[x] = 0
       /\ conn[x][i].op = "acquire" /\ ~ conn[x][i].done => idle[x] = 0 /\ now.key.owner # x

LEMMA IdleNext ==
  ASSUME LeaderTypeOK, NEW x \in Replica, Line(x), Idle(x), LockStep(x), LeaderTypeOK', Line(x)'
  PROVE  Idle(x)'
<1> DEFINE q == conn[x]
           t == conn'[x]
           k == now.key.ttl
           OnKey == now'.key.owner = x => now'.key.ttl >= 1 /\ idle'[x] + now'.key.ttl <= TTL + MaxDelay
           OnQueue == \A i \in 1 .. Len(t) :
                        /\ t[i].op = "renew" /\ ~ t[i].done => idle'[x] <= t[i].age
                        /\ t[i].op = "acquire" /\ Alive(x)' => idle'[x] = 0
                        /\ t[i].op = "acquire" /\ ~ t[i].done => idle'[x] = 0 /\ now'.key.owner # x
           Small == idle'[x] <= TTL + MaxDelay /\ (leads'[x] => idle'[x] = 0)
<1>1. /\ q \in Seq(CmdType) /\ Len(q) \in Nat /\ idle[x] \in Nat /\ leads[x] \in BOOLEAN /\ phase[x] \in Phases
      /\ RenewEvery \in Nat /\ MaxDelay \in Nat /\ TTL \in Nat /\ TTL >= 3 /\ NULL \notin Nat /\ NULL \notin Replica
      /\ \A i \in 1 .. Len(q) : q[i].age \in 0 .. MaxDelay
  BY ReplicaFacts, Timing, NullAssumption
<1>2. k \in Nat /\ k <= TTL /\ now.key \in [owner : Replica \cup {NULL}, ttl : 0 .. TTL]
  <2>1. k \in 0 .. TTL
    BY ReplicaFacts
  <2> QED
    BY <1>1, <2>1, LockFuns
<1>3. OnKey /\ OnQueue /\ Small => Idle(x)'
  BY DEF Idle
<1>4. CASE LStill(x)
  <2>1. leads'[x] = leads[x] /\ idle'[x] = idle[x] /\ t = q /\ (Alive(x)' => Alive(x))
    BY <1>4 DEF LStill, Keeps, Alive
  <2>2. now'.key.owner = x => now'.key = now.key
    BY <1>1, <1>4 DEF LStill, KeyElsewhere
  <2> QED
    BY <1>3, <2>1, <2>2 DEF Idle
<1>5. CASE LBoot(x)
  <2>1. Len(t) = 1 /\ t[1].op = "acquire" /\ idle'[x] = 0 /\ now'.key.owner # x
    BY <1>1, <1>5 DEF Line, LBoot, QSent, Keeps, KeyStays
  <2> QED
    BY <1>1, <1>3, <2>1
<1>6. CASE LRenew(x)
  <2>1. leads[x] /\ leads'[x] = leads[x] /\ now'.key = now.key /\ idle'[x] = idle[x]
    BY <1>1, <1>6 DEF Line, LRenew, KeyStays
  <2>2. idle[x] = 0 /\ idle'[x] = 0
    BY <2>1 DEF Idle
  <2>3. OnQueue
    <3>1. \A i \in 1 .. Len(t) : t[i].op = "renew" /\ (~ t[i].done => 0 <= t[i].age)
      <4>1. \A i \in 1 .. Len(t) : t[i].op = "renew" /\ t[i] \in CmdType
        <5>1. t \in Seq(CmdType)
          BY <1>6 DEF LRenew, QSent
        <5>2. \A i \in 1 .. Len(t) : t[i] \in CmdType
          BY <5>1, ElementOfSeq
        <5> QED
          BY <2>1, <5>2 DEF Line
      <4> QED
        BY <1>1, <4>1 DEF CmdType
    <3> QED
      BY <2>2, <3>1
  <2> QED
    BY <1>3, <2>1, <2>2, <2>3 DEF Idle
<1>7. CASE LRun(x)
  <2>1. PICK i \in 1 .. Len(q), verdict \in BOOLEAN :
          /\ QAnswered(q, t, i, verdict)
          /\ \/ q[i].op = "acquire" /\ now'.key.owner = x /\ now'.key.ttl = TTL
             \/ q[i].op = "renew" /\ now'.key.owner = x /\ now'.key.ttl = TTL
             \/ q[i].op = "release" /\ now'.key.owner = NULL
             \/ ~ verdict /\ now'.key = now.key
    BY <1>7 DEF LRun
  <2>2. leads'[x] = leads[x] /\ idle'[x] = idle[x] /\ (Alive(x)' <=> Alive(x))
    BY <1>7 DEF LRun, Keeps, Alive
  <2>3. /\ Len(t) = Len(q) /\ t[i].done /\ ~ q[i].done /\ t[i].op = q[i].op
        /\ \A j \in 1 .. Len(q) : j # i => t[j] = q[j]
    BY <2>1 DEF QAnswered
  <2>4. OnQueue
    <3> SUFFICES ASSUME NEW j \in 1 .. Len(t)
                 PROVE  /\ t[j].op = "renew" /\ ~ t[j].done => idle[x] <= t[j].age
                        /\ t[j].op = "acquire" /\ Alive(x) => idle[x] = 0
                        /\ t[j].op = "acquire" /\ ~ t[j].done => idle[x] = 0 /\ now'.key.owner # x
      BY <2>2
    <3>1. CASE j = i
      BY <2>3, <3>1 DEF Idle
    <3>2. CASE j # i
      <4>1. t[j] = q[j] /\ j \in 1 .. Len(q)
        BY <2>3, <3>2
      <4>2. t[j].op # "acquire"
        <5>1. Len(q) # 1
          BY <1>1, <2>1, <3>2, <4>1
        <5> QED
          BY <4>1, <5>1 DEF Line
      <4> QED
        BY <4>1, <4>2 DEF Idle
    <3> QED
      BY <3>1, <3>2
  <2>5. OnKey
    <3>1. CASE q[i].op \in {"acquire", "renew"} /\ now'.key.owner = x /\ now'.key.ttl = TTL
      <4>1. idle[x] <= MaxDelay
        <5>1. q[i].age \in 0 .. MaxDelay
          BY <1>1
        <5>2. idle[x] = 0 \/ idle[x] <= q[i].age
          BY <2>3, <3>1 DEF Idle
        <5> QED
          BY <1>1, <5>1, <5>2
      <4> QED
        BY <1>1, <2>2, <3>1, <4>1
    <3>2. CASE now'.key.owner = NULL
      BY <1>1, <3>2
    <3>3. CASE now'.key = now.key
      BY <2>2, <3>3 DEF Idle
    <3> QED
      BY <2>1, <3>1, <3>2, <3>3
  <2> QED
    BY <1>3, <2>2, <2>4, <2>5 DEF Idle
<1>8. CASE LReply(x)
  <2>1. /\ Len(t) = Len(q) - 1 /\ Len(q) >= 1 /\ now'.key = now.key /\ idle'[x] = idle[x]
        /\ \A i \in 1 .. Len(t) : t[i] = q[i + 1] /\ i + 1 \in 1 .. Len(q)
    BY <1>1, <1>8 DEF LReply, QTaken, KeyStays
  <2>2. Alive(x)' <=> Alive(x)
    BY <1>8 DEF LReply, Alive
  <2>3. leads'[x] => idle[x] = 0
    <3>1. q[1].op = "acquire" /\ Alive(x) => idle[x] = 0
      BY <1>1, <2>1 DEF Idle
    <3>2. leads[x] => idle[x] = 0
      BY DEF Idle
    <3> QED
      BY <1>8, <3>1, <3>2 DEF LReply
  <2>4. OnQueue
    BY <2>1, <2>2 DEF Idle
  <2> QED
    BY <1>3, <2>1, <2>3, <2>4 DEF Idle
<1>9. CASE LEnd(x)
  <2>1. ~ leads'[x] /\ now'.key = now.key /\ idle'[x] = idle[x] /\ (Alive(x)' => Alive(x))
    BY <1>9 DEF LEnd, KeyStays, Alive
  <2>2. OnQueue
    <3>1. CASE t = q
      BY <2>1, <3>1 DEF Idle
    <3>2. CASE leads[x] /\ QSent(q, t, "release")
      <4>1. Len(t) = Len(q) + 1 /\ t[Len(t)].op = "release" /\ \A i \in 1 .. Len(q) : t[i] = q[i]
        BY <3>2 DEF QSent
      <4>2. ASSUME NEW i \in 1 .. Len(t), t[i].op # "release" PROVE i \in 1 .. Len(q) /\ t[i] = q[i]
        BY <1>1, <4>1, <4>2
      <4> QED
        BY <2>1, <4>2 DEF Idle
    <3> QED
      BY <1>9, <3>1, <3>2 DEF LEnd
  <2> QED
    BY <1>3, <2>1, <2>2 DEF Idle
<1>10. CASE LTick(x)
  <2>1. /\ QAged(q, t) /\ leads'[x] = leads[x] /\ now'.key = Aged(now.key)
        /\ idle'[x] = IF now.key.owner = x /\ Unaware(x) THEN idle[x] + 1 ELSE 0
        /\ (Alive(x)' <=> Alive(x))
    BY <1>10 DEF LTick, Alive
  <2>2. now'.key.owner = x => now.key.owner = x /\ k > 1 /\ now'.key.ttl = k - 1
    BY <1>1, <1>2, <2>1 DEF Aged, Free
  <2>3. \/ idle'[x] = 0
        \/ now.key.owner = x /\ Unaware(x) /\ idle'[x] = idle[x] + 1
    BY <2>1
  <2>4. OnKey
    <3> SUFFICES ASSUME now'.key.owner = x PROVE now'.key.ttl >= 1 /\ idle'[x] + now'.key.ttl <= TTL + MaxDelay
      OBVIOUS
    <3>1. idle[x] + k <= TTL + MaxDelay /\ k > 1 /\ now'.key.ttl = k - 1
      BY <2>2 DEF Idle
    <3>2. idle[x] \in Nat /\ k \in Nat /\ k <= TTL /\ TTL \in Nat /\ MaxDelay \in Nat
      BY <1>1, <1>2
    <3>3. idle'[x] = 0 \/ idle'[x] = idle[x] + 1
      BY <2>3
    <3> HIDE DEF k
    <3> QED
      BY <3>1, <3>2, <3>3
  <2>5. idle'[x] <= TTL + MaxDelay
    <3>1. now.key.owner = x => k >= 1 /\ idle[x] + k <= TTL + MaxDelay
      BY DEF Idle
    <3> QED
      BY <1>1, <1>2, <2>3, <3>1
  <2>6. leads'[x] => idle'[x] = 0
    BY <2>1 DEF Unaware
  <2>7. OnQueue
    <3> SUFFICES ASSUME NEW i \in 1 .. Len(t)
                 PROVE  /\ t[i].op = "renew" /\ ~ t[i].done => idle'[x] <= t[i].age
                        /\ t[i].op = "acquire" /\ Alive(x)' => idle'[x] = 0
                        /\ t[i].op = "acquire" /\ ~ t[i].done => idle'[x] = 0 /\ now'.key.owner # x
      OBVIOUS
    <3>1. /\ i \in 1 .. Len(q) /\ t[i].age = q[i].age + 1 /\ t[i].op = q[i].op /\ t[i].done = q[i].done
          /\ q[i].age \in 0 .. MaxDelay
      BY <1>1, <2>1 DEF QAged
    <3>2. q[i].op = "renew" /\ ~ q[i].done => idle[x] <= q[i].age
      BY <3>1 DEF Idle
    <3>3. q[i].op = "renew" /\ ~ q[i].done => idle'[x] <= t[i].age
      BY <1>1, <2>3, <3>1, <3>2
    <3>4. q[i].op = "acquire" /\ Alive(x) => idle'[x] = 0
      BY <2>3, <3>1 DEF Unaware
    <3>5. q[i].op = "acquire" /\ ~ q[i].done => now.key.owner # x
      BY <3>1 DEF Idle
    <3> QED
      BY <2>1, <2>2, <2>3, <3>1, <3>3, <3>4, <3>5
  <2> QED
    BY <1>3, <2>4, <2>5, <2>6, <2>7
<1> QED
  BY <1>4, <1>5, <1>6, <1>7, <1>8, <1>9, <1>10 DEF LockStep

-----------------------------------------------------------------------------
(* The timers.  They need what the load has read and what the one pending  *)
(* edit will do; the lead cannot be won again while the replica reads or   *)
(* serves, because its acquire was answered before.                        *)
Current == IF now.rule = "on" THEN {now.version} ELSE {}
Timers(x) ==
  /\ ~ leads[x] \/ phase[x] \in Destroyed => handles[x] = NoTimer
  /\ phase[x] \notin {"serving", "stopping"} => handles[x] = NoTimer /\ edits[x] = {}
  /\ phase[x] = "loading" /\ leads[x] /\ ~ raced[x]
       => rows[x] = IF now.rule = "on" THEN now.version ELSE NULL
  /\ phase[x] = "serving" /\ leads[x] /\ ~ raced[x]
       => \/ edits[x] = {} /\ handles[x].live = Current
          \/ \E e \in edits[x] : edits[x] = {e} /\ e.version = now.version /\ (e.on <=> now.rule = "on")

(* Nothing Timers speaks of changes for x. *)
TKept(x) ==
  /\ leads'[x] = leads[x] /\ phase'[x] = phase[x] /\ handles'[x] = handles[x] /\ rows'[x] = rows[x]
  /\ edits'[x] = edits[x] /\ raced'[x] = raced[x] /\ now'.rule = now.rule /\ now'.version = now.version

LEMMA TKeptTimers ==
  ASSUME NEW x \in Replica, Timers(x), TKept(x)
  PROVE  Timers(x)'
BY DEF Timers, TKept, Current

LEMMA TimerFuns ==
  ASSUME LeaderTypeOK
  PROVE  /\ phase \in [Replica -> Phases] /\ leads \in [Replica -> BOOLEAN] /\ handles \in [Replica -> HandleType]
         /\ rows \in [Replica -> Versions \cup {NULL}] /\ edits \in [Replica -> SUBSET EditType]
         /\ raced \in [Replica -> BOOLEAN] /\ DOMAIN now = {"key", "version", "rule"}
         /\ now.version \in Versions /\ now.rule \in Rules /\ renewal \in [Replica -> 0 .. RenewEvery \cup {NULL}]
         /\ now = [key |-> now.key, version |-> now.version, rule |-> now.rule]
BY DEF LeaderTypeOK, HandleType, EditType, Rules

(* The steps that leave the timers, the rows and the edits of all alone. *)
LEMMA TimersOfOthers ==
  ASSUME LeaderTypeOK, NEW r \in Replica, NEW x \in Replica,
         \/ Execute(r) \/ CommandFails(r) \/ KeyLost \/ Tick \/ RenewFires(r) \/ UNCHANGED vars
         \/ x # r /\ (\/ Boot(r) \/ Reply(r) \/ Select(r) \/ Load(r) \/ BootFails(r) \/ Shutdown(r)
                      \/ Exit(r) \/ Crash(r) \/ EditResumes(r) \/ EditFails(r))
  PROVE  TKept(x)
<1>1. /\ phase \in [Replica -> Phases] /\ leads \in [Replica -> BOOLEAN] /\ handles \in [Replica -> HandleType]
      /\ rows \in [Replica -> Versions \cup {NULL}] /\ edits \in [Replica -> SUBSET EditType]
      /\ raced \in [Replica -> BOOLEAN] /\ DOMAIN now = {"key", "version", "rule"}
  BY TimerFuns
<1>2. ASSUME NEW key, now' = [now EXCEPT !.key = key]
      PROVE  now'.rule = now.rule /\ now'.version = now.version
  BY <1>1, <1>2, TimerFuns
<1>3. CASE Execute(r) \/ CommandFails(r)
  <2>1. now' = now \/ \E key : now' = [now EXCEPT !.key = key]
    BY <1>3 DEF Execute, CommandFails
  <2>2. UNCHANGED <<phase, leads, handles, rows, edits, raced>>
    BY <1>3 DEF Execute, CommandFails, History
  <2> QED
    BY <1>2, <2>1, <2>2 DEF TKept
<1>4. CASE KeyLost
  BY <1>2, <1>4 DEF KeyLost, TKept
<1>5. CASE Tick
  <2>1. \E key : now' = [now EXCEPT !.key = key]
    BY <1>5 DEF Tick
  <2>2. UNCHANGED <<phase, leads, handles, rows, edits, raced>>
    BY <1>5 DEF Tick
  <2> QED
    BY <1>2, <2>1, <2>2 DEF TKept
<1>6. CASE RenewFires(r) \/ UNCHANGED vars
  BY <1>6 DEF RenewFires, History, vars, TKept
<1>7. CASE x # r /\ (Boot(r) \/ Reply(r) \/ Select(r) \/ Load(r))
  <2>1. now' = now /\ UNCHANGED <<edits, raced>>
    BY <1>7 DEF Boot, Reply, Select, Load, History
  <2>2. leads'[x] = leads[x] /\ phase'[x] = phase[x]
    BY <1>1, <1>7 DEF Boot, Reply, Select, Load, Elected, RenewAnswered, Relinquished
  <2>3. handles'[x] = handles[x] /\ rows'[x] = rows[x]
    BY <1>1, <1>7 DEF Boot, Reply, Select, Load, Elected, RenewAnswered, Relinquished
  <2> QED
    BY <2>1, <2>2, <2>3 DEF TKept
<1>8. CASE x # r /\ (BootFails(r) \/ Shutdown(r) \/ Exit(r) \/ Crash(r))
  <2>1. now' = now /\ UNCHANGED raced
    BY <1>8 DEF BootFails, Shutdown, Exit, Crash, Ended, Destroy, Stopped
  <2>2. leads'[x] = leads[x] /\ phase'[x] = phase[x] /\ edits'[x] = edits[x]
    BY <1>1, <1>8 DEF BootFails, Shutdown, Exit, Crash, Ended, Destroy
  <2>3. handles'[x] = handles[x] /\ rows'[x] = rows[x]
    BY <1>1, <1>8 DEF BootFails, Shutdown, Exit, Crash, Ended, Destroy
  <2> QED
    BY <2>1, <2>2, <2>3 DEF TKept
<1>9. CASE x # r /\ (EditResumes(r) \/ EditFails(r))
  <2>1. now' = now /\ UNCHANGED <<leads, phase, rows>>
    BY <1>9 DEF EditResumes, EditFails, History
  <2>2. edits'[x] = edits[x] /\ raced'[x] = raced[x]
    BY <1>1, <1>9 DEF EditResumes, EditFails, History
  <2>3. handles'[x] = handles[x]
    BY <1>1, <1>9 DEF EditResumes, EditFails, Rescheduled
  <2> QED
    BY <2>1, <2>2, <2>3 DEF TKept
<1> QED
  BY <1>3, <1>4, <1>5, <1>6, <1>7, <1>8, <1>9

LEMMA TimersAnswered ==
  ASSUME LeaderTypeOK, NEW x \in Replica, Line(x), Timers(x), Reply(x) \/ Boot(x)
  PROVE  Timers(x)'
<1>1. /\ phase \in [Replica -> Phases] /\ leads \in [Replica -> BOOLEAN] /\ handles \in [Replica -> HandleType]
      /\ conn[x] \in Seq(CmdType) /\ now' = now /\ UNCHANGED <<rows, edits, raced>>
  BY TimerFuns, LockFuns DEF Reply, Boot, History
<1>2. CASE Boot(x)
  BY <1>1, <1>2 DEF Boot, Timers, Current, Destroyed, Line, Alive
<1>3. CASE Reply(x)
  <2>1. 1 \in 1 .. Len(conn[x]) /\ Head(conn[x]) = conn[x][1]
    BY <1>1, <1>3, HeadTailProperties DEF Reply
  <2>2. CASE Alive(x) /\ conn[x][1].op = "acquire" /\ Elected(x, conn[x][1].ok)
    <3>1. phase[x] \in {"electing", "degraded"}
      BY <2>1, <2>2 DEF Line, Elects, Alive
    <3>2. phase'[x] \in {"ready", "degraded"} /\ handles' = handles
      BY <1>1, <2>2, <3>1 DEF Elected
    <3> QED
      BY <1>1, <3>1, <3>2 DEF Timers, Destroyed
  <2>3. CASE Alive(x) /\ conn[x][1].op = "renew" /\ RenewAnswered(x, conn[x][1].ok)
    <3>1. CASE Relinquished(x) /\ phase' = phase
      <4>1. Unregistered(handles[x]) = NoTimer
        BY <1>1, HandleFacts
      <4>2. handles'[x] = NoTimer /\ ~ leads'[x] /\ phase'[x] = phase[x] /\ edits'[x] = edits[x]
        BY <1>1, <3>1, <4>1 DEF Relinquished
      <4> QED
        BY <4>2 DEF Timers
    <3>2. CASE UNCHANGED <<leads, handles, phase>>
      BY <1>1, <3>2, TKeptTimers DEF TKept
    <3> QED
      BY <2>3, <3>1, <3>2 DEF RenewAnswered
  <2>4. CASE UNCHANGED <<leads, handles, phase>>
    BY <1>1, <2>4, TKeptTimers DEF TKept
  <2> QED
    BY <1>3, <2>1, <2>2, <2>3, <2>4 DEF Reply
<1> QED
  BY <1>2, <1>3

LEMMA TimersLoaded ==
  ASSUME LeaderTypeOK, NEW x \in Replica, Timers(x), Select(x) \/ Load(x)
  PROVE  Timers(x)'
<1>1. /\ phase \in [Replica -> Phases] /\ leads \in [Replica -> BOOLEAN] /\ handles \in [Replica -> HandleType]
      /\ rows \in [Replica -> Versions \cup {NULL}] /\ now.version \in Versions /\ NULL \notin Nat
      /\ now' = now /\ UNCHANGED <<leads, edits, raced>>
  BY TimerFuns, NullAssumption DEF Select, Load, History
<1>2. CASE Select(x)
  <2>1. /\ phase[x] = "ready" /\ phase'[x] = "loading" /\ handles' = handles
        /\ rows'[x] = IF now.rule = "on" THEN now.version ELSE NULL
    BY <1>1, <1>2 DEF Select
  <2> QED
    BY <1>1, <2>1 DEF Timers, Destroyed
<1>3. CASE Load(x)
  <2>1. phase[x] = "loading" /\ phase'[x] = "serving" /\ handles[x] = NoTimer /\ edits[x] = {}
    BY <1>1, <1>3 DEF Load, Timers
  <2>2. NULL \notin Versions
    BY <1>1 DEF Versions
  <2>3. handles'[x] = IF rows[x] = NULL \/ ~ leads[x] THEN NoTimer ELSE [entry |-> rows[x], live |-> {rows[x]}]
    <3>1. CASE rows[x] = NULL
      BY <1>1, <1>3, <2>1, <3>1 DEF Load
    <3>2. CASE rows[x] # NULL
      <4>1. handles'[x] = Registered(handles[x], rows[x], leads[x]) /\ rows[x] \in Versions
        BY <1>1, <1>3, <3>2 DEF Load
      <4> QED
        BY <1>1, <3>2, <4>1, HandleFacts
    <3> QED
      BY <3>1, <3>2
  <2>4. leads[x] /\ ~ raced[x] => handles'[x].live = Current
    <3>1. leads[x] /\ ~ raced[x] => rows[x] = IF now.rule = "on" THEN now.version ELSE NULL
      BY <2>1 DEF Timers
    <3> QED
      BY <1>1, <2>2, <2>3, <3>1 DEF Current, NoTimer
  <2> QED
    BY <1>1, <2>1, <2>3, <2>4 DEF Timers, Current, Destroyed
<1> QED
  BY <1>2, <1>3

LEMMA TimersEnded ==
  ASSUME LeaderTypeOK, NEW x \in Replica, Timers(x), BootFails(x) \/ Shutdown(x) \/ Exit(x) \/ Crash(x)
  PROVE  Timers(x)'
<1>1. /\ phase \in [Replica -> Phases] /\ leads \in [Replica -> BOOLEAN] /\ handles \in [Replica -> HandleType]
      /\ edits \in [Replica -> SUBSET EditType]
  BY TimerFuns
<1>2. ~ leads'[x] /\ handles'[x] = NoTimer
  <2>1. Unregistered(handles[x]) = NoTimer
    BY <1>1, HandleFacts
  <2>2. leads' = [leads EXCEPT ![x] = FALSE]
    BY DEF BootFails, Shutdown, Exit, Crash, Ended, Destroy
  <2>3. handles' = [handles EXCEPT ![x] = Unregistered(handles[x])] \/ handles' = [handles EXCEPT ![x] = NoTimer]
    BY DEF BootFails, Shutdown, Exit, Crash, Ended, Destroy
  <2> QED
    BY <1>1, <2>1, <2>2, <2>3
<1>3. phase'[x] \in {"stopping"} \/ edits'[x] = {}
  <2>1. CASE BootFails(x)
    BY <1>1, <2>1 DEF BootFails, Timers
  <2>2. CASE Shutdown(x)
    BY <1>1, <2>2 DEF Shutdown
  <2>3. CASE Exit(x) \/ Crash(x)
    BY <1>1, <2>3 DEF Exit, Crash, Ended
  <2> QED
    BY <2>1, <2>2, <2>3
<1> QED
  BY <1>2, <1>3 DEF Timers

LEMMA TimersCommitted ==
  ASSUME LeaderTypeOK, NEW r \in Replica, NEW x \in Replica, NEW s \in Rules, Timers(x), Commit(r, s)
  PROVE  Timers(x)'
<1>1. /\ edits \in [Replica -> SUBSET EditType] /\ raced \in [Replica -> BOOLEAN] /\ leads \in [Replica -> BOOLEAN]
      /\ UNCHANGED <<phase, leads, handles, rows>> /\ phase[r] = "serving"
  BY TimerFuns DEF Commit
<1>2. now'.version = now.version + 1 /\ now'.rule = s
  BY TimerFuns DEF Commit
<1>3. raced'[x] <=> raced[x] \/ (leads[x] /\ Reads(x) /\ (x = r => edits[r] # {}))
  BY DEF Commit
<1>4. CASE x # r
  <2>1. edits'[x] = edits[x]
    BY <1>1, <1>4 DEF Commit
  <2>2. leads[x] /\ phase[x] \in {"loading", "serving"} => raced'[x]
    BY <1>3, <1>4 DEF Reads
  <2> QED
    BY <1>1, <2>1, <2>2 DEF Timers
<1>5. CASE x = r
  <2> DEFINE e == [version |-> now.version + 1, on |-> s = "on"]
  <2>1. edits'[x] = edits[x] \cup {e}
    BY <1>1, <1>5 DEF Commit
  <2>2. e.version = now'.version /\ (e.on <=> now'.rule = "on")
    BY <1>2
  <2> HIDE DEF e
  <2>3. leads[x] /\ ~ raced'[x] => edits'[x] = {e}
    BY <1>1, <1>3, <1>5, <2>1 DEF Reads
  <2> QED
    BY <1>1, <1>5, <2>2, <2>3 DEF Timers, Destroyed
<1> QED
  BY <1>4, <1>5

LEMMA TimersResumed ==
  ASSUME LeaderTypeOK, NEW x \in Replica, Line(x), Timers(x), EditResumes(x) \/ EditFails(x)
  PROVE  Timers(x)'
<1>1. /\ edits \in [Replica -> SUBSET EditType] /\ raced \in [Replica -> BOOLEAN] /\ leads \in [Replica -> BOOLEAN]
      /\ handles \in [Replica -> HandleType] /\ now' = now /\ UNCHANGED <<phase, leads, rows>>
  BY TimerFuns DEF EditResumes, EditFails, History
<1>2. PICK e \in edits[x] : /\ edits' = [edits EXCEPT ![x] = @ \ {e}]
                            /\ \/ Rescheduled(x, e) /\ raced' = raced
                               \/ handles' = handles /\ EditFails(x)
  <2>1. CASE EditResumes(x)
    BY <2>1 DEF EditResumes, History
  <2>2. CASE EditFails(x)
    <3>1. handles' = handles
      BY <2>2 DEF EditFails
    <3>2. PICK e \in edits[x] : edits' = [edits EXCEPT ![x] = @ \ {e}]
      BY <2>2 DEF EditFails
    <3> QED
      BY <2>2, <3>1, <3>2
  <2> QED
    BY <2>1, <2>2
<1>3. phase[x] \in {"serving", "stopping"}
  BY <1>2 DEF Timers
<1>4. phase[x] = "stopping" => ~ leads[x]
  BY DEF Line
<1>5. CASE Rescheduled(x, e) /\ raced' = raced
  <2>1. e.version \in Versions /\ e.on \in BOOLEAN
    BY <1>1, <1>2 DEF EditType
  <2>2. handles'[x] = IF e.on /\ leads[x] THEN [entry |-> e.version, live |-> {e.version}] ELSE NoTimer
    <3>1. handles'[x] = IF e.on THEN Registered(handles[x], e.version, leads[x]) ELSE Unregistered(handles[x])
      BY <1>1, <1>5 DEF Rescheduled
    <3>2. Unregistered(handles[x]) = NoTimer
      BY <1>1, HandleFacts
    <3>3. Registered(handles[x], e.version, leads[x])
            = IF leads[x] THEN [entry |-> e.version, live |-> {e.version}] ELSE NoTimer
      <4>1. handles[x] \in HandleType /\ leads[x] \in BOOLEAN
        BY <1>1
      <4> QED
        BY <2>1, <4>1, HandleFacts
    <3>4. CASE e.on
      BY <3>1, <3>3, <3>4
    <3>5. CASE ~ e.on
      BY <3>1, <3>2, <3>5
    <3> QED
      BY <3>4, <3>5
  <2>3. ASSUME phase[x] = "serving", leads[x], ~ raced[x]
        PROVE  edits'[x] = {} /\ handles'[x].live = Current
    <3>1. edits[x] = {e} /\ e.version = now.version /\ (e.on <=> now.rule = "on")
      BY <1>2, <2>3 DEF Timers
    <3> QED
      BY <1>1, <1>2, <2>2, <2>3, <3>1 DEF Current, NoTimer
  <2> QED
    BY <1>1, <1>3, <1>4, <1>5, <2>2, <2>3 DEF Timers, Current, Destroyed
<1>6. CASE handles' = handles /\ EditFails(x)
  <2>1. leads[x] => raced'[x]
    BY <1>1, <1>6 DEF EditFails
  <2> QED
    BY <1>1, <1>3, <1>6, <2>1 DEF Timers
<1> QED
  BY <1>2, <1>5, <1>6

LEMMA TimersNext ==
  ASSUME LeaderTypeOK, [Next]_vars, NEW x \in Replica, Line(x), Timers(x)
  PROVE  Timers(x)'
<1>1. ASSUME NEW r \in Replica, x # r,
             \/ Boot(r) \/ Reply(r) \/ Select(r) \/ Load(r) \/ BootFails(r) \/ Shutdown(r)
             \/ Exit(r) \/ Crash(r) \/ EditResumes(r) \/ EditFails(r)
      PROVE  Timers(x)'
  BY <1>1, TimersOfOthers, TKeptTimers
<1>2. ASSUME NEW r \in Replica,
             Execute(r) \/ CommandFails(r) \/ KeyLost \/ Tick \/ RenewFires(r) \/ UNCHANGED vars
      PROVE  Timers(x)'
  BY <1>2, TimersOfOthers, TKeptTimers
<1>3. ASSUME \/ Boot(x) \/ Reply(x) \/ Select(x) \/ Load(x) \/ BootFails(x) \/ Shutdown(x)
             \/ Exit(x) \/ Crash(x) \/ EditResumes(x) \/ EditFails(x)
      PROVE  Timers(x)'
  BY <1>3, TimersAnswered, TimersLoaded, TimersEnded, TimersResumed
<1>4. ASSUME NEW r \in Replica, NEW s \in Rules, Commit(r, s) PROVE Timers(x)'
  BY <1>4, TimersCommitted
<1> QED
  BY <1>1, <1>2, <1>3, <1>4 DEF Next, Works, Rules

-----------------------------------------------------------------------------
(* The inductive invariant and the theorems.                               *)
LeaderInv ==
  LeaderTypeOK /\ \A x \in Replica : /\ Line(x) /\ Held(x) /\ Heard(x) /\ Late(x)
                                     /\ Idle(x) /\ Timers(x)

LEMMA LeaderInvInit == Init => LeaderInv
<1> SUFFICES ASSUME Init PROVE LeaderInv
  OBVIOUS
<1>1. /\ LeaderTypeOK /\ now.key = Free /\ NULL \notin Replica
      /\ TTL \in Nat /\ MaxDelay \in Nat
  BY LeaderTypeInit, NullAssumption, Timing DEF Init
<1>2. ASSUME NEW x \in Replica
      PROVE  /\ phase[x] = "new" /\ ~ leads[x] /\ renewal[x] = NULL /\ Len(conn[x]) = 0 /\ handles[x] = NoTimer
             /\ edits[x] = {} /\ stale[x] = 0 /\ idle[x] = 0
  BY EmptySeq DEF Init
<1>3. ASSUME NEW x \in Replica PROVE Line(x) /\ Held(x) /\ Heard(x) /\ Late(x) /\ Idle(x) /\ Timers(x)
  <2>1. now.key.owner # x /\ 0 <= TTL + MaxDelay
    BY <1>1 DEF Free
  <2>2. Line(x) /\ Held(x) /\ Heard(x) /\ Late(x)
    BY <1>2, <2>1 DEF Line, Held, Heard, Late
  <2>3. Idle(x)
    BY <1>2, <2>1 DEF Idle
  <2>4. Timers(x)
    BY <1>2 DEF Timers
  <2> QED
    BY <2>2, <2>3, <2>4
<1> QED
  BY <1>1, <1>3 DEF LeaderInv

LEMMA LeaderInvNext == LeaderInv /\ [Next]_vars => LeaderInv'
<1> SUFFICES ASSUME LeaderInv, [Next]_vars PROVE LeaderInv'
  OBVIOUS
<1>1. LeaderTypeOK /\ LeaderTypeOK'
  BY LeaderTypeNext DEF LeaderInv
<1>2. ASSUME NEW x \in Replica PROVE (Line(x) /\ Held(x) /\ Heard(x) /\ Late(x) /\ Idle(x) /\ Timers(x))'
  <2>1. Line(x) /\ Held(x) /\ Heard(x) /\ Late(x) /\ Idle(x) /\ Timers(x)
    BY DEF LeaderInv
  <2>2. LockStep(x)
    BY <1>1, LockSteps
  <2>3. Line(x)'
    BY <1>1, <2>1, <2>2, LineNext
  <2>4. Held(x)' /\ Heard(x)' /\ Late(x)' /\ Idle(x)'
    BY <1>1, <2>1, <2>2, <2>3, HeldNext, HeardNext, LateNext, IdleNext
  <2>5. Timers(x)'
    BY <1>1, <2>1, TimersNext
  <2> QED
    BY <2>3, <2>4, <2>5
<1> QED
  BY <1>1, <1>2 DEF LeaderInv

LEMMA LeaderInvAlways == Spec => []LeaderInv
<1>1. Init => LeaderInv
  BY LeaderInvInit
<1>2. LeaderInv /\ [Next]_vars => LeaderInv'
  BY LeaderInvNext
<1> QED
  BY <1>1, <1>2, PTL DEF Spec

(* Type correctness; and the entry of a rule in timers is always the one   *)
(* live timer of the rule, so no handle is leaked.                         *)
THEOREM LeaderTyped == Spec => []LeaderTypeOK
<1>1. LeaderInv => LeaderTypeOK
  BY DEF LeaderInv
<1> QED
  BY <1>1, LeaderInvAlways, PTL

(* Of two replicas that take themselves for the leader, while Redis keeps  *)
(* the key, one has had no word of a success for TTL or more (acquire,     *)
(* renew and the relinquishing of attemptRenewal): within their leases     *)
(* both would own the key.                                                 *)
THEOREM SingleLeader_Always == Spec => []SingleLeader
<1>1. LeaderInv => SingleLeader
  BY DEF LeaderInv, Held, Lasts, SingleLeader
<1> QED
  BY <1>1, LeaderInvAlways, PTL

(* A leader hears of a success again or gives up within RenewEvery + 3 *   *)
(* MaxDelay ticks; however the key goes, even by a fault of Redis, a       *)
(* leader without it gives up within RenewEvery + 2 * MaxDelay; and a key  *)
(* whose owner does not lead is free after TTL + MaxDelay at most.         *)
THEOREM Disagreement_Always == Spec => []DisagreementBounded
<1>1. LeaderInv => DisagreementBounded
  BY LateBound, HeardBound DEF LeaderInv, Idle, DisagreementBounded
<1> QED
  BY <1>1, LeaderInvAlways, PTL

(* When a renewal interval and three delays fit into the TTL, no leader is *)
(* ever without word for that long, and so, while Redis keeps the key, one *)
(* replica at most takes itself for the leader.                            *)
THEOREM OneLeaderInTime ==
  ASSUME RenewEvery + 3 * MaxDelay < TTL
  PROVE  Spec => [](~ flushed => \A r, s \in Replica : leads[r] /\ leads[s] => r = s)
<1>1. LeaderInv => (~ flushed => \A r, s \in Replica : leads[r] /\ leads[s] => r = s)
  <2> SUFFICES ASSUME LeaderInv, ~ flushed, NEW r \in Replica, NEW s \in Replica, leads[r], leads[s] PROVE r = s
    OBVIOUS
  <2>1. LeaderTypeOK /\ \A x \in {r, s} : Held(x) /\ Heard(x)
    BY DEF LeaderInv
  <2>2. \A x \in {r, s} : silence[x] \in Nat /\ silence[x] <= RenewEvery + 3 * MaxDelay
    BY <2>1, HeardBound DEF LeaderTypeOK
  <2>3. \A x \in {r, s} : silence[x] < TTL
    BY <2>2, Timing
  <2> QED
    BY <2>1, <2>3 DEF Held, Lasts
<1> QED
  BY <1>1, LeaderInvAlways, PTL

(* No timer of the rule is live on a replica that does not lead or whose   *)
(* scheduler is destroyed (relinquish, unregister, destroy).               *)
THEOREM TimersSilent_Always == Spec => []TimersSilent
<1>1. LeaderInv => TimersSilent
  BY DEF LeaderInv, Timers, TimersSilent, NoTimer
<1> QED
  BY <1>1, LeaderInvAlways, PTL

(* A serving leader that followed the edits in order has the timer of the  *)
(* stored rule, and none for a rule that is disabled or deleted.           *)
THEOREM TimersCurrent_Always == Spec => []TimersCurrent
<1>1. LeaderInv => TimersCurrent
  BY DEF LeaderInv, Timers, TimersCurrent, Current
<1> QED
  BY <1>1, LeaderInvAlways, PTL
=============================================================================
