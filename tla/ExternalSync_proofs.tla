------------------------ MODULE ExternalSync_proofs ------------------------
(***************************************************************************)
(* Proofs about ExternalSync, for any number of workers, connections,      *)
(* requests and faults.  A step of a worker moves that worker only, so     *)
(* each invariant is about one worker and what the others may write under  *)
(* it: see Shape, for the claims, and Hold, for the locks.                 *)
(***************************************************************************)
EXTENDS ExternalSync, SequenceTheorems, TLAPS

(* Only a request that may come again is claimed.                          *)
Named == \A w \in Workers : wk[w].pc \in {"claim", "find"} => wk[w].req # None

(* The claim names the worker: it is taken, by nobody else, and at the     *)
(* record there is no run yet.                                             *)
ClaimInv ==
    /\ \A w \in Workers : Claimant(w) => Pair(w) \in claimed
    /\ \A w, v \in Workers :
          w # v /\ Claimant(w) /\ Claimant(v) => Pair(w) # Pair(v)
    /\ \A w \in Workers : Claimant(w) /\ At(w, "create") => runs[Pair(w)] = 0

(* Without a fault: the owner of a lock is inside it, and a worker that is *)
(* still to settle it stands behind every 'syncing'.                       *)
CleanInv ==
    faults = 0 =>
        \A c \in Connections :
            /\ \A w \in Workers : lock[c] = w => Inside(w) = c
            /\ status[c] = "syncing" =>
                  \E w \in Workers :
                      Inside(w) = c /\ wk[w].pc \in {"sync", "settle", "failState"}

OthersSame(w) == \A v \in Workers : v # w => wk'[v] = wk[v]
-----------------------------------------------------------------------------
LEMMA RowTyped ==
    ASSUME TypeOK, NEW w \in Workers
    PROVE  /\ wk[w] \in Worker
           /\ ~At(w, "idle") =>
                 /\ wk[w].todo # <<>> /\ Conn(w) \in Connections
                 /\ wk[w].req # None => Pair(w) \in Pairs
           /\ None \notin Workers /\ None \notin Connections
BY ExternalAssumption DEF TypeOK, Worker, At, Conn, Pair, Pairs

(* The moves of a worker.                                                  *)
LEMMA MoveEffect ==
    ASSUME TypeOK, NEW w \in Workers, NEW r \in Worker,
           r.todo = <<>> => r.pc = "idle", wk' = [wk EXCEPT ![w] = r]
    PROVE  /\ wk' \in [Workers -> Worker]
           /\ \A v \in Workers : wk'[v].todo = <<>> => wk'[v].pc = "idle"
           /\ wk'[w] = r /\ OthersSame(w)
BY DEF TypeOK, OthersSame

LEMMA GotoEffect ==
    ASSUME TypeOK, NEW w \in Workers, ~At(w, "idle"), NEW p \in Pcs, Goto(w, p)
    PROVE  /\ wk' \in [Workers -> Worker]
           /\ \A v \in Workers : wk'[v].todo = <<>> => wk'[v].pc = "idle"
           /\ wk'[w].pc = p /\ wk'[w].req = wk[w].req
           /\ wk'[w].todo = wk[w].todo /\ wk'[w].won = wk[w].won
           /\ OthersSame(w)
<1>1. wk[w] \in Worker /\ wk[w].todo # <<>>
  BY RowTyped
<1>2. [wk[w] EXCEPT !.pc = p] \in Worker
  BY <1>1 DEF Worker
<1>3. wk' = [wk EXCEPT ![w] = [wk[w] EXCEPT !.pc = p]]
  BY DEF Goto
<1> QED
  BY <1>1, <1>2, <1>3, MoveEffect DEF Worker

LEMMA RestEffect ==
    ASSUME TypeOK, NEW w \in Workers, wk' = [wk EXCEPT ![w] = Idle]
    PROVE  /\ wk' \in [Workers -> Worker]
           /\ \A v \in Workers : wk'[v].todo = <<>> => wk'[v].pc = "idle"
           /\ wk'[w] = Idle /\ OthersSame(w)
<1>1. Idle \in Worker
  BY DEF Idle, Worker, Pcs
<1> QED
  BY <1>1, MoveEffect DEF Idle

LEMMA ContinueEffect ==
    ASSUME TypeOK, NEW w \in Workers, ~At(w, "idle"), Continue(w)
    PROVE  /\ wk' \in [Workers -> Worker]
           /\ \A v \in Workers : wk'[v].todo = <<>> => wk'[v].pc = "idle"
           /\ wk'[w].pc \in {"idle", "ensure"} /\ OthersSame(w)
<1>1. CASE Len(wk[w].todo) = 1
  BY <1>1, RestEffect DEF Continue, Idle
<1>2. CASE Len(wk[w].todo) # 1
  <2> DEFINE r == [pc |-> "ensure", req |-> wk[w].req, todo |-> Tail(wk[w].todo), won |-> FALSE]
  <2>1. wk[w] \in Worker /\ wk[w].todo # <<>>
    BY RowTyped
  <2> DEFINE t == wk[w].todo
  <2>2. t \in Seq(Connections) /\ t # <<>>
    BY <2>1 DEF Worker
  <2>3. Tail(t) \in Seq(Connections) /\ Tail(t) # <<>>
    <3> HIDE DEF t
    <3>1. Len(t) \in Nat /\ Len(t) # 0
      BY <2>2, EmptySeq
    <3>2. Len(Tail(t)) = Len(t) - 1 /\ Tail(t) \in Seq(Connections)
      BY <2>2, HeadTailProperties
    <3>3. Len(t) # 1
      BY <1>2 DEF t
    <3>4. Len(Tail(t)) # 0
      BY <3>1, <3>2, <3>3
    <3>5. Len(<<>>) = 0
      BY EmptySeq
    <3> QED
      BY <3>2, <3>4, <3>5
  <2>4. r \in Worker /\ (r.todo = <<>> => r.pc = "idle") /\ r.pc = "ensure"
    BY <2>1, <2>3 DEF Worker, Pcs
  <2>5. wk' = [wk EXCEPT ![w] = r]
    BY <1>2 DEF Continue
  <2> HIDE DEF r
  <2> QED
    BY <2>4, <2>5, MoveEffect
<1> QED
  BY <1>1, <1>2
-----------------------------------------------------------------------------
(* What each action does to its own worker.                                *)
MovesTo(w, pcs) ==
    /\ wk' \in [Workers -> Worker]
    /\ \A v \in Workers : wk'[v].todo = <<>> => wk'[v].pc = "idle"
    /\ wk'[w].pc \in pcs
    /\ OthersSame(w)

SameJob(w) == wk'[w].req = wk[w].req /\ wk'[w].todo = wk[w].todo

LEMMA PopEffect ==
    ASSUME TypeOK, NEW w \in Workers, Pop(w)
    PROVE  /\ At(w, "idle") /\ MovesTo(w, {"ensure"})
           /\ queue' \in Seq(Jobs) /\ Len(queue') <= MaxQueue
           /\ UNCHANGED <<tables, claimed, lock, bounds>>
<1> DEFINE r == [pc |-> "ensure", req |-> Head(queue).req,
                 todo |-> Head(queue).todo, won |-> FALSE]
<1>1. queue \in Seq(Jobs) /\ queue # <<>> /\ Len(queue) <= MaxQueue
  BY DEF Pop, TypeOK
<1>2. Head(queue) \in Jobs
  BY <1>1
<1>3. Head(queue) \in Job /\ Head(queue).todo # <<>>
  BY <1>2, ExternalAssumption
<1>4. r \in Worker /\ r.todo # <<>> /\ r.pc = "ensure"
  BY <1>3 DEF Job, Worker, Pcs
<1>5. wk' = [wk EXCEPT ![w] = r]
  BY DEF Pop
<1>6. queue' \in Seq(Jobs) /\ Len(queue') <= MaxQueue
  BY <1>1, ExternalAssumption DEF Pop
<1> HIDE DEF r
<1> QED
  BY <1>4, <1>5, <1>6, MoveEffect DEF Pop, MovesTo

LEMMA ClaimEffect ==
    ASSUME TypeOK, NEW w \in Workers, Claim(w)
    PROVE  /\ At(w, "claim") /\ MovesTo(w, {"find"}) /\ SameJob(w)
           /\ wk'[w].won = (Pair(w) \notin claimed)
           /\ claimed' = claimed \cup {Pair(w)}
           /\ UNCHANGED <<tables, lock, queue, bounds>>
<1> DEFINE b == Pair(w) \notin claimed
           r == [wk[w] EXCEPT !.pc = "find", !.won = b]
<1>1. wk[w] \in Worker /\ wk[w].todo # <<>>
  BY RowTyped DEF Claim, At
<1>2. /\ r \in Worker /\ r.pc = "find" /\ r.req = wk[w].req
      /\ r.todo = wk[w].todo /\ r.won = b
  BY <1>1 DEF Worker, Pcs
<1>3. wk' = [wk EXCEPT ![w] = r]
  BY DEF Claim
<1> HIDE DEF r
<1> QED
  BY <1>1, <1>2, <1>3, MoveEffect DEF Claim, MovesTo, SameJob

LEMMA FindEffect ==
    ASSUME TypeOK, NEW w \in Workers, Find(w)
    PROVE  /\ At(w, "find")
           /\ \/ Duplicate(w) /\ MovesTo(w, {"idle", "ensure"})
              \/ ~Duplicate(w) /\ MovesTo(w, {"create"}) /\ SameJob(w)
           /\ UNCHANGED <<tables, redis, bounds>>
<1>1. CASE Duplicate(w)
  BY <1>1, ContinueEffect DEF Find, At, MovesTo
<1>2. CASE ~Duplicate(w)
  <2> DEFINE r == [wk[w] EXCEPT !.pc = "create", !.won = FALSE]
  <2>1. wk[w] \in Worker /\ wk[w].todo # <<>>
    BY RowTyped DEF Find, At
  <2>2. r \in Worker /\ r.pc = "create" /\ r.req = wk[w].req /\ r.todo = wk[w].todo
    BY <2>1 DEF Worker, Pcs
  <2>3. wk' = [wk EXCEPT ![w] = r]
    BY <1>2 DEF Find
  <2> HIDE DEF r
  <2> QED
    BY <1>2, <2>1, <2>2, <2>3, MoveEffect DEF Find, MovesTo, SameJob
<1> QED
  BY <1>1, <1>2

LEMMA OneMoreTyped ==
    ASSUME TypeOK, NEW w \in Workers
    PROVE  /\ OneMoreRun(w) \in [Pairs -> 0..MaxRuns]
           /\ \A p \in Pairs :
                 IF p = Pair(w) /\ runs[p] < MaxRuns THEN OneMoreRun(w)[p] = runs[p] + 1
                                                     ELSE OneMoreRun(w)[p] = runs[p]
BY ExternalAssumption DEF OneMoreRun, TypeOK

LEMMA UnlockedEffect ==
    ASSUME TypeOK, NEW w \in Workers, ~At(w, "idle"), lock' = Unlocked(w)
    PROVE  /\ lock' \in [Connections -> Workers \cup {None}]
           /\ lock'[Conn(w)] # w
           /\ \A c \in Connections : lock'[c] = IF c = Conn(w) /\ lock[c] = w
                                                THEN None ELSE lock[c]
BY RowTyped DEF Unlocked, TypeOK

(* The actions that write the status, and leave everything of Redis alone. *)
LEMMA StatusEffect ==
    ASSUME TypeOK, NEW w \in Workers, Mark(w) \/ Store(w) \/ Settle(w) \/ FailState(w)
    PROVE  /\ wk[w].pc \in LockedPcs
           /\ \E s \in {"settled", "syncing"}, p \in LockedPcs :
                 /\ status' = [status EXCEPT ![Conn(w)] = s]
                 /\ MovesTo(w, {p}) /\ SameJob(w)
                 /\ s = "syncing" => p = "sync"
           /\ UNCHANGED <<runs, redis, bounds>>
<1>1. CASE Mark(w)
  <2>1. MovesTo(w, {"sync"}) /\ SameJob(w)
    BY <1>1, GotoEffect DEF Mark, At, MovesTo, SameJob, Pcs, LockedPcs
  <2> QED
    BY <1>1, <2>1 DEF Mark, At, LockedPcs
<1>2. CASE Store(w)
  <2>1. MovesTo(w, {"settle"}) /\ SameJob(w)
    BY <1>2, GotoEffect DEF Store, At, MovesTo, SameJob, Pcs, LockedPcs
  <2> QED
    BY <1>2, <2>1 DEF Store, At, LockedPcs
<1>3. CASE Settle(w)
  <2>1. MovesTo(w, {"finish"}) /\ SameJob(w)
    BY <1>3, GotoEffect DEF Settle, At, MovesTo, SameJob, Pcs, LockedPcs
  <2> QED
    BY <1>3, <2>1 DEF Settle, At, LockedPcs
<1>4. CASE FailState(w)
  <2>1. MovesTo(w, {"failRun"}) /\ SameJob(w)
    BY <1>4, GotoEffect DEF FailState, At, MovesTo, SameJob, Pcs, LockedPcs
  <2> QED
    BY <1>4, <2>1 DEF FailState, At, LockedPcs
<1> QED
  BY <1>1, <1>2, <1>3, <1>4

LEMMA EnsureEffect ==
    ASSUME TypeOK, NEW w \in Workers, Ensure(w)
    PROVE  /\ At(w, "ensure") /\ SameJob(w)
           /\ IF wk[w].req = None THEN MovesTo(w, {"create"}) ELSE MovesTo(w, {"claim"})
           /\ status' = [status EXCEPT ![Conn(w)] = Ensured(@)]
           /\ UNCHANGED <<runs, redis, bounds>>
<1>1. CASE wk[w].req = None
  BY <1>1, GotoEffect DEF Ensure, At, MovesTo, SameJob, Pcs
<1>2. CASE wk[w].req # None
  BY <1>2, GotoEffect DEF Ensure, At, MovesTo, SameJob, Pcs
<1> QED
  BY <1>1, <1>2

LEMMA CreateEffect ==
    ASSUME TypeOK, NEW w \in Workers, CreateRun(w)
    PROVE  /\ At(w, "create") /\ MovesTo(w, {"lock"}) /\ SameJob(w)
           /\ runs' = OneMoreRun(w)
           /\ UNCHANGED <<status, redis, bounds>>
BY GotoEffect DEF CreateRun, At, MovesTo, SameJob, Pcs

LEMMA AcquireEffect ==
    ASSUME TypeOK, NEW w \in Workers, Acquire(w)
    PROVE  /\ At(w, "lock") /\ MovesTo(w, {"mark"}) /\ SameJob(w)
           /\ lock[Conn(w)] = None /\ lock' = [lock EXCEPT ![Conn(w)] = w]
           /\ UNCHANGED <<tables, claimed, queue, bounds>>
BY GotoEffect DEF Acquire, At, MovesTo, SameJob, Pcs, LockedPcs

(* The actions that write nothing but their worker's place.                *)
LEMMA SyncEffect ==
    ASSUME TypeOK, NEW w \in Workers, NoActivity(w) \/ SyncFails(w)
    PROVE  /\ At(w, "sync") /\ MovesTo(w, {"settle", "failState"}) /\ SameJob(w)
           /\ UNCHANGED <<tables, redis, bounds>>
<1>1. CASE NoActivity(w)
  BY <1>1, GotoEffect DEF NoActivity, At, MovesTo, SameJob, Pcs, LockedPcs
<1>2. CASE SyncFails(w)
  BY <1>2, GotoEffect DEF SyncFails, At, MovesTo, SameJob, Pcs, LockedPcs
<1> QED
  BY <1>1, <1>2

LEMMA CaughtEffect ==
    ASSUME TypeOK, NEW w \in Workers, Caught(w)
    PROVE  /\ wk[w].pc \in LockedPcs /\ MovesTo(w, {"failState"}) /\ SameJob(w)
           /\ Fault /\ UNCHANGED <<tables, redis, cut>>
BY GotoEffect DEF Caught, At, MovesTo, SameJob, Pcs, LockedPcs

LEMMA LockedEffect ==
    ASSUME TypeOK, NEW w \in Workers, Locked(w)
    PROVE  /\ At(w, "lock") /\ MovesTo(w, {"idle", "ensure"})
           /\ UNCHANGED <<tables, redis, bounds>>
BY ContinueEffect DEF Locked, At, MovesTo

(* The actions that leave the lock's part of the job.                      *)
LEMMA LeaveEffect ==
    ASSUME TypeOK, NEW w \in Workers, Leave(w) \/ CatchThrows(w)
    PROVE  /\ wk[w].pc \in LockedPcs /\ MovesTo(w, {"idle", "ensure"})
           /\ \/ lock' = Unlocked(w) /\ UNCHANGED faults
              \/ Fault /\ lock' = Unlocked(w)
              \/ Fault /\ UNCHANGED lock
           /\ UNCHANGED <<tables, claimed, queue, cut>>
<1>1. CASE Leave(w)
  BY <1>1, ContinueEffect DEF Leave, At, MovesTo, LockedPcs
<1>2. CASE CatchThrows(w)
  BY <1>2, RestEffect DEF CatchThrows, MovesTo, LockedPcs, Idle
<1> QED
  BY <1>1, <1>2

(* The actions after which the worker has lost its job.                    *)
LEMMA LossEffect ==
    ASSUME TypeOK, NEW w \in Workers, Stop(w) \/ ClaimUnknown(w) \/ LockUnknown(w)
    PROVE  /\ ~At(w, "idle") /\ MovesTo(w, {"idle"}) /\ Fault
           /\ UNCHANGED <<tables, queue>>
BY RestEffect DEF Stop, ClaimUnknown, LockUnknown, MovesTo, Idle, At, tables, redis
-----------------------------------------------------------------------------
LEMMA Initially ==
    Init => TypeOK /\ Named /\ ClaimInv /\ CleanInv
<1> SUFFICES ASSUME Init PROVE TypeOK /\ Named /\ ClaimInv /\ CleanInv
  OBVIOUS
<1>1. TypeOK
  <2>1. Idle \in Worker
    BY DEF Idle, Worker, Pcs
  <2>2. queue \in Seq(Jobs) /\ Len(queue) = 0
    BY EmptySeq DEF Init
  <2> QED
    BY <2>1, <2>2, ExternalAssumption DEF Init, TypeOK, Idle
<1>2. ClaimInv
  BY DEF Init, ClaimInv, Claimant, Claimed, At, Idle
<1>3. CleanInv
  BY ExternalAssumption DEF Init, CleanInv
<1>4. Named
  BY DEF Init, Named, Idle
<1> QED
  BY <1>1, <1>2, <1>3, <1>4

(* The environment's actions.                                              *)
LEMMA PushTyped ==
    ASSUME TypeOK, NEW j \in Jobs, Push(j)
    PROVE  TypeOK' /\ UNCHANGED <<tables, claimed, lock, wk, bounds>>
<1>1. queue \in Seq(Jobs) /\ Len(queue) < MaxQueue /\ queue' = Append(queue, j)
  BY DEF Push, TypeOK
<1>2. queue' \in Seq(Jobs) /\ Len(queue') = Len(queue) + 1
  BY <1>1
<1>3. Len(queue') <= MaxQueue
  BY <1>1, <1>2, ExternalAssumption
<1> QED
  BY <1>2, <1>3 DEF Push, TypeOK, tables, bounds

LEMMA ExpiryTyped ==
    ASSUME TypeOK, (\E c \in Connections : LockExpires(c)) \/ (\E p \in Pairs : ClaimExpires(p))
    PROVE  TypeOK'
<1>1. CASE \E c \in Connections : LockExpires(c)
  BY <1>1 DEF LockExpires, TypeOK, tables, bounds
<1>2. CASE \E p \in Pairs : ClaimExpires(p)
  BY <1>2 DEF ClaimExpires, TypeOK, tables
<1> QED
  BY <1>1, <1>2

LEMMA FaultTyped ==
    ASSUME TypeOK, Fault
    PROVE  faults' \in 0..MaxFaults /\ faults' # 0
BY ExternalAssumption DEF TypeOK, Fault

LEMMA StepMovesOne ==
    ASSUME TypeOK, NEW w \in Workers, Step(w) \/ Broken(w)
    PROVE  OthersSame(w)
<1>1. CASE Pop(w) \/ Ensure(w) \/ Claim(w) \/ CreateRun(w) \/ Acquire(w) \/ Locked(w)
  BY <1>1, PopEffect, EnsureEffect, ClaimEffect, CreateEffect, AcquireEffect, LockedEffect
  DEF MovesTo
<1>2. CASE Find(w)
  BY <1>2, FindEffect DEF MovesTo
<1>3. CASE Mark(w) \/ Store(w) \/ Settle(w) \/ FailState(w)
  BY <1>3, StatusEffect DEF MovesTo
<1>4. CASE NoActivity(w) \/ SyncFails(w) \/ Leave(w) \/ CatchThrows(w) \/ Caught(w)
  BY <1>4, SyncEffect, LeaveEffect, CaughtEffect DEF MovesTo
<1>5. CASE Stop(w) \/ ClaimUnknown(w) \/ LockUnknown(w)
  BY <1>5, LossEffect DEF MovesTo
<1> QED
  BY <1>1, <1>2, <1>3, <1>4, <1>5 DEF Step, Broken

LEMMA StepTyped ==
    ASSUME TypeOK, Named, NEW w \in Workers, Step(w) \/ Broken(w)
    PROVE  TypeOK'
<1> USE DEF tables, redis, bounds
<1>1. CASE Pop(w)
  BY <1>1, PopEffect DEF MovesTo, TypeOK
<1>2. CASE Ensure(w)
  <2>1. status[Conn(w)] \in {"settled", "syncing"} /\ ~At(w, "idle")
    BY <1>2, RowTyped, EnsureEffect DEF TypeOK, At
  <2>2. status' \in [Connections -> {"settled", "syncing"}]
    BY <1>2, <2>1, EnsureEffect DEF TypeOK, Ensured
  <2> QED
    BY <1>2, <2>2, EnsureEffect DEF MovesTo, TypeOK
<1>3. CASE Claim(w)
  <2>1. Pair(w) \in Pairs
    BY <1>3, RowTyped, ClaimEffect DEF At, Named
  <2> QED
    BY <1>3, <2>1, ClaimEffect DEF MovesTo, TypeOK
<1>4. CASE Find(w)
  BY <1>4, FindEffect DEF MovesTo, TypeOK
<1>5. CASE CreateRun(w)
  BY <1>5, CreateEffect, OneMoreTyped DEF MovesTo, TypeOK
<1>6. CASE Acquire(w)
  BY <1>6, AcquireEffect DEF MovesTo, TypeOK
<1>7. CASE Locked(w)
  BY <1>7, LockedEffect DEF MovesTo, TypeOK
<1>8. CASE Mark(w) \/ Store(w) \/ Settle(w) \/ FailState(w)
  BY <1>8, StatusEffect DEF MovesTo, TypeOK
<1>9. CASE NoActivity(w) \/ SyncFails(w)
  BY <1>9, SyncEffect DEF MovesTo, TypeOK
<1>10. CASE Leave(w) \/ CatchThrows(w)
  <2>1. ~At(w, "idle")
    BY <1>10, LeaveEffect DEF At, LockedPcs
  <2> QED
    BY <1>10, <2>1, LeaveEffect, UnlockedEffect, FaultTyped DEF MovesTo, TypeOK
<1>11. CASE Caught(w)
  BY <1>11, CaughtEffect, FaultTyped DEF MovesTo, TypeOK
<1>12. CASE Stop(w) \/ ClaimUnknown(w) \/ LockUnknown(w)
  <2>1. lock' \in [Connections -> Workers \cup {None}]
    BY <1>12 DEF Stop, ClaimUnknown, LockUnknown, TypeOK
  <2>2. claimed' \subseteq Pairs /\ cut' \subseteq Pairs
    <3>1. wk[w].req # None => Pair(w) \in Pairs
      BY <1>12, LossEffect, RowTyped
    <3>2. CASE Stop(w)
      BY <3>1, <3>2 DEF Stop, TypeOK, CutBy, Claimant
    <3>3. CASE ClaimUnknown(w)
      BY <3>1, <3>3 DEF ClaimUnknown, TypeOK, Named, At
    <3>4. CASE LockUnknown(w)
      BY <3>4 DEF LockUnknown, TypeOK
    <3> QED
      BY <1>12, <3>2, <3>3, <3>4
  <2> QED
    BY <1>12, <2>1, <2>2, LossEffect, FaultTyped DEF MovesTo, TypeOK
<1> QED
  BY <1>1, <1>2, <1>3, <1>4, <1>5, <1>6, <1>7, <1>8, <1>9, <1>10, <1>11, <1>12
  DEF Step, Broken

LEMMA StepNamed ==
    ASSUME TypeOK, Named, NEW w \in Workers, Step(w) \/ Broken(w)
    PROVE  Named'
<1>1. wk'[w].pc \in {"claim", "find"} => wk'[w].req # None
  <2>1. CASE Pop(w) \/ Find(w) \/ CreateRun(w) \/ Acquire(w) \/ Locked(w)
    BY <2>1, PopEffect, FindEffect, CreateEffect, AcquireEffect, LockedEffect DEF MovesTo
  <2>2. CASE Ensure(w) \/ Claim(w)
    BY <2>2, EnsureEffect, ClaimEffect DEF MovesTo, SameJob, Named, At
  <2>3. CASE Mark(w) \/ Store(w) \/ Settle(w) \/ FailState(w)
    BY <2>3, StatusEffect DEF MovesTo, LockedPcs
  <2>4. CASE NoActivity(w) \/ SyncFails(w) \/ Leave(w) \/ CatchThrows(w) \/ Caught(w)
    BY <2>4, SyncEffect, LeaveEffect, CaughtEffect DEF MovesTo
  <2>5. CASE Stop(w) \/ ClaimUnknown(w) \/ LockUnknown(w)
    BY <2>5, LossEffect DEF MovesTo
  <2> QED
    BY <2>1, <2>2, <2>3, <2>4, <2>5 DEF Step, Broken
<1>2. OthersSame(w)
  BY StepMovesOne
<1> QED
  BY <1>1, <1>2 DEF Named, OthersSame

LEMMA TypeStep == TypeOK /\ Named /\ [Next]_vars => TypeOK' /\ Named'
<1> SUFFICES ASSUME TypeOK, Named, [Next]_vars PROVE TypeOK' /\ Named'
  OBVIOUS
<1>1. CASE UNCHANGED vars
  BY <1>1 DEF vars, tables, redis, bounds, TypeOK, Named
<1>2. CASE \E w \in Workers : Step(w) \/ Broken(w)
  BY <1>2, StepTyped, StepNamed
<1>3. CASE Next /\ UNCHANGED wk
  BY <1>3, <1>2, PushTyped, ExpiryTyped DEF Next, Named
<1> QED
  BY <1>1, <1>2, <1>3 DEF Next, Push, LockExpires, ClaimExpires

(* The type invariant of the worker, its Redis keys and its tables.        *)
THEOREM TypeCorrect == Spec => []TypeOK
<1>1. Init => TypeOK /\ Named
  BY Initially
<1> QED
  BY <1>1, TypeStep, PTL DEF Spec
-----------------------------------------------------------------------------
(* What a worker's step does to the claims and to the runs.                *)
Shape(w) ==
    /\ claimed \subseteq claimed' /\ cut \subseteq cut'
    /\ \A p \in claimed' \ claimed : p \in cut' \/ (Claimant(w)' /\ Pair(w)' = p)
    /\ \A p \in Pairs : runs[p] > 0 => runs'[p] > 0
    /\ \/ runs' = runs
       \/ At(w, "create") /\ runs' = OneMoreRun(w) /\ ~Claimant(w)'
    /\ Claimant(w)' =>
          \/ /\ Claimant(w) /\ Pair(w)' = Pair(w)
             /\ At(w, "create")' => runs' = runs /\ runs[Pair(w)] = 0
          \/ Pair(w)' \notin claimed /\ Pair(w)' \in claimed' /\ ~At(w, "create")'
    /\ Claimant(w) =>
          \/ Claimant(w)' /\ Pair(w)' = Pair(w)
          \/ Pair(w) \in cut'
          \/ runs'[Pair(w)] > 0

LEMMA ShapeHolds ==
    ASSUME TypeOK, Named, NEW w \in Workers, Step(w) \/ Broken(w)
    PROVE  Shape(w)
<1> USE DEF tables, redis, bounds
<1> DEFINE Unconcerned == runs' = runs /\ claimed' = claimed /\ cut \subseteq cut'
<1>a. ASSUME Unconcerned, ~Claimant(w), ~Claimant(w)'
      PROVE  Shape(w)
  BY <1>a DEF Shape
<1>1. CASE Pop(w)
  <2>1. Unconcerned /\ ~Claimant(w) /\ ~Claimant(w)'
    BY <1>1, PopEffect DEF MovesTo, Claimant, Claimed, At
  <2> QED
    BY <2>1, <1>a
<1>2. CASE Ensure(w)
  <2>1. Unconcerned /\ ~Claimant(w) /\ ~Claimant(w)'
    BY <1>2, EnsureEffect DEF MovesTo, SameJob, Claimant, Claimed, At
  <2> QED
    BY <2>1, <1>a
<1>3. CASE Claim(w)
  <2>1. /\ runs' = runs /\ cut' = cut /\ claimed' = claimed \cup {Pair(w)}
        /\ Pair(w)' = Pair(w) /\ ~Claimant(w) /\ ~At(w, "create")'
    BY <1>3, ClaimEffect DEF MovesTo, SameJob, Pair, Conn, Claimant, Claimed, At
  <2>2. CASE Pair(w) \in claimed
    <3>1. ~Claimant(w)'
      BY <1>3, <2>2, ClaimEffect DEF MovesTo, Claimant, Claimed, At
    <3> QED
      BY <2>1, <2>2, <3>1 DEF Shape
  <2>3. CASE Pair(w) \notin claimed
    <3>1. Claimant(w)'
      BY <1>3, <2>3, ClaimEffect DEF MovesTo, SameJob, Claimant, Claimed, At, Named
    <3> QED
      BY <2>1, <2>3, <3>1 DEF Shape
  <2> QED
    BY <2>2, <2>3
<1>4. CASE Find(w)
  <2>1. Unconcerned /\ cut' = cut /\ wk[w].req # None /\ Pair(w) \in Pairs
    BY <1>4, FindEffect, RowTyped DEF Named, At
  <2>2. runs[Pair(w)] \in Nat
    BY <2>1 DEF TypeOK
  <2>3. CASE Duplicate(w)
    <3>1. ~Claimant(w)'
      BY <1>4, <2>3, FindEffect DEF MovesTo, Claimant, Claimed, At
    <3>2. Claimant(w) => runs[Pair(w)] > 0
      BY <1>4, <2>3, FindEffect DEF Claimant, Claimed, At, Duplicate
    <3> QED
      BY <2>1, <3>1, <3>2 DEF Shape
  <2>4. CASE ~Duplicate(w)
    <3>1. Claimant(w) /\ Claimant(w)' /\ Pair(w)' = Pair(w)
      BY <1>4, <2>1, <2>4, FindEffect
      DEF MovesTo, SameJob, Claimant, Claimed, At, Duplicate, Pair, Conn
    <3>2. runs[Pair(w)] = 0
      BY <2>2, <2>4 DEF Duplicate
    <3> QED
      BY <2>1, <3>1, <3>2 DEF Shape
  <2> QED
    BY <2>3, <2>4
<1>5. CASE CreateRun(w)
  <2>1. /\ runs' = OneMoreRun(w) /\ claimed' = claimed /\ cut' = cut
        /\ At(w, "create") /\ ~Claimant(w)'
    BY <1>5, CreateEffect DEF MovesTo, Claimant, Claimed, At
  <2>2. \A p \in Pairs : /\ runs[p] > 0 => runs'[p] > 0
                         /\ p = Pair(w) => runs'[p] > 0
    BY <2>1, OneMoreTyped, ExternalAssumption DEF TypeOK
  <2>3. Claimant(w) => Pair(w) \in Pairs
    BY <2>1, RowTyped DEF Claimant, At
  <2> QED
    BY <2>1, <2>2, <2>3 DEF Shape
<1>6. CASE Acquire(w) \/ Locked(w)
  <2>1. Unconcerned /\ ~Claimant(w) /\ ~Claimant(w)'
    BY <1>6, AcquireEffect, LockedEffect DEF MovesTo, Claimant, Claimed, At
  <2> QED
    BY <2>1, <1>a
<1>7. CASE Mark(w) \/ Store(w) \/ Settle(w) \/ FailState(w)
  <2>1. Unconcerned /\ ~Claimant(w) /\ ~Claimant(w)'
    BY <1>7, StatusEffect DEF MovesTo, Claimant, Claimed, At, LockedPcs
  <2> QED
    BY <2>1, <1>a
<1>8. CASE NoActivity(w) \/ SyncFails(w) \/ Leave(w) \/ CatchThrows(w) \/ Caught(w)
  <2>1. Unconcerned /\ ~Claimant(w) /\ ~Claimant(w)'
    BY <1>8, SyncEffect, LeaveEffect, CaughtEffect
    DEF MovesTo, Claimant, Claimed, At, LockedPcs
  <2> QED
    BY <2>1, <1>a
<1>9. CASE Stop(w)
  <2>1. runs' = runs /\ claimed' = claimed /\ cut' = cut \cup CutBy(w) /\ ~Claimant(w)'
    BY <1>9, LossEffect DEF Stop, MovesTo, Claimant, Claimed, At
  <2> QED
    BY <2>1 DEF Shape, CutBy, Claimant
<1>10. CASE ClaimUnknown(w)
  <2>1. /\ runs' = runs /\ claimed' = claimed \cup {Pair(w)} /\ cut' = cut \cup {Pair(w)}
        /\ ~Claimant(w) /\ ~Claimant(w)'
    BY <1>10, LossEffect DEF ClaimUnknown, MovesTo, Claimant, Claimed, At
  <2> QED
    BY <2>1 DEF Shape
<1>11. CASE LockUnknown(w)
  <2>1. Unconcerned /\ ~Claimant(w) /\ ~Claimant(w)'
    BY <1>11, LossEffect DEF LockUnknown, MovesTo, Claimant, Claimed, At
  <2> QED
    BY <2>1, <1>a
<1> QED
  BY <1>1, <1>2, <1>3, <1>4, <1>5, <1>6, <1>7, <1>8, <1>9, <1>10, <1>11
  DEF Step, Broken

LEMMA ClaimantsOfOthers ==
    ASSUME NEW w \in Workers, NEW v \in Workers, v # w, OthersSame(w)
    PROVE  /\ Claimant(v)' <=> Claimant(v)
           /\ Claimed(v)' <=> Claimed(v)
           /\ Pair(v)' = Pair(v)
           /\ At(v, "create")' <=> At(v, "create")
BY DEF OthersSame, Claimant, Claimed, At, Pair, Conn

(* A claimant has no rival for its run record.                             *)
LEMMA CreatesAlone ==
    ASSUME TypeOK, ClaimInv, NEW w \in Workers, NEW v \in Workers, v # w,
           At(w, "create"), Claimant(v)
    PROVE  Pair(v) # Pair(w)
<1> SUFFICES ASSUME Pair(v) = Pair(w) PROVE FALSE
  OBVIOUS
<1>1. wk[w].req = wk[v].req
  BY DEF Pair
<1>2. Claimant(w)
  BY <1>1 DEF Claimant, Claimed
<1> QED
  BY <1>2 DEF ClaimInv

LEMMA ClaimStep ==
    ASSUME TypeOK, Named, ClaimInv, NEW w \in Workers, Step(w) \/ Broken(w)
    PROVE  ClaimInv'
<1>1. Shape(w) /\ OthersSame(w)
  BY ShapeHolds, StepMovesOne
<1>2. ASSUME NEW v \in Workers, Claimant(v)'
      PROVE  Pair(v)' \in claimed'
  <2>1. CASE v = w
    BY <1>1, <1>2, <2>1 DEF Shape, ClaimInv
  <2>2. CASE v # w
    BY <1>1, <1>2, <2>2, ClaimantsOfOthers DEF Shape, ClaimInv
  <2> QED
    BY <2>1, <2>2
<1>3. ASSUME NEW v \in Workers, v # w, Claimant(v)', Claimant(w)'
      PROVE  Pair(v)' # Pair(w)'
  <2>1. Claimant(v) /\ Pair(v)' = Pair(v) /\ Pair(v) \in claimed
    BY <1>1, <1>3, ClaimantsOfOthers DEF ClaimInv
  <2> QED
    BY <1>1, <1>3, <2>1 DEF Shape, ClaimInv
<1>4. ASSUME NEW u \in Workers, NEW v \in Workers, u # v, u # w, v # w,
             Claimant(u)', Claimant(v)'
      PROVE  Pair(u)' # Pair(v)'
  BY <1>1, <1>4, ClaimantsOfOthers DEF ClaimInv
<1>5. ASSUME NEW v \in Workers, Claimant(v)', At(v, "create")'
      PROVE  runs'[Pair(v)'] = 0
  <2>1. CASE v = w
    BY <1>1, <1>5, <2>1 DEF Shape
  <2>2. CASE v # w
    <3>1. Claimant(v) /\ At(v, "create") /\ Pair(v)' = Pair(v)
      BY <1>1, <1>5, <2>2, ClaimantsOfOthers
    <3>2. runs[Pair(v)] = 0 /\ Pair(v) \in Pairs
      BY <3>1, RowTyped DEF ClaimInv, Claimant, At
    <3>3. CASE runs' = runs
      BY <3>1, <3>2, <3>3
    <3>4. CASE At(w, "create") /\ runs' = OneMoreRun(w)
      BY <2>2, <3>1, <3>2, <3>4, CreatesAlone, OneMoreTyped
    <3> QED
      BY <1>1, <3>3, <3>4 DEF Shape
  <2> QED
    BY <2>1, <2>2
<1>6. \A u, v \in Workers : u # v /\ Claimant(u)' /\ Claimant(v)' => Pair(u)' # Pair(v)'
  BY <1>3, <1>4
<1> QED
  BY <1>2, <1>5, <1>6 DEF ClaimInv

LEMMA ClaimKept ==
    TypeOK /\ Named /\ ClaimInv /\ [Next]_vars => ClaimInv'
<1> SUFFICES ASSUME TypeOK, Named, ClaimInv, [Next]_vars PROVE ClaimInv'
  OBVIOUS
<1> USE DEF Claimant, Claimed, At, Pair, Conn
<1>1. CASE \E w \in Workers : Step(w) \/ Broken(w)
  BY <1>1, ClaimStep
<1>2. CASE UNCHANGED <<wk, claimed, runs>>
  BY <1>2 DEF ClaimInv
<1>3. CASE \E p \in Pairs : ClaimExpires(p)
  BY <1>3 DEF ClaimInv, ClaimExpires, tables
<1> QED
  BY <1>1, <1>2, <1>3 DEF Next, Push, LockExpires, vars, tables, redis

LEMMA OnceStep ==
    TypeOK /\ ClaimInv /\ OncePerRequest /\ Named /\ [Next]_vars => OncePerRequest'
<1> SUFFICES ASSUME TypeOK, Named, ClaimInv, OncePerRequest, [Next]_vars,
                    NEW p \in Pairs
             PROVE  runs'[p] <= 1
  BY DEF OncePerRequest
<1>1. runs[p] \in Nat /\ runs[p] <= 1
  BY ExternalAssumption DEF TypeOK, OncePerRequest
<1>2. CASE runs' = runs
  BY <1>1, <1>2
<1>3. ASSUME NEW w \in Workers, Step(w) \/ Broken(w)
      PROVE  runs'[p] <= 1
  <2>1. Shape(w)
    BY <1>3, ShapeHolds
  <2>2. ASSUME At(w, "create"), runs' = OneMoreRun(w)
        PROVE  runs'[p] <= 1
    <3>1. CASE p = Pair(w)
      <4>1. wk[w].req # None
        BY <3>1, ExternalAssumption DEF Pair, Pairs
      <4>2. runs[p] = 0
        BY <2>2, <3>1, <4>1 DEF ClaimInv, Claimant, Claimed
      <4> QED
        BY <2>2, <4>2, OneMoreTyped
    <3>2. CASE p # Pair(w)
      BY <1>1, <2>2, <3>2, OneMoreTyped
    <3> QED
      BY <3>1, <3>2
  <2> QED
    BY <1>2, <2>1, <2>2 DEF Shape
<1> QED
  BY <1>2, <1>3 DEF Next, Push, LockExpires, ClaimExpires, vars, tables

LEMMA MeansStep ==
    TypeOK /\ Named /\ ClaimedMeansRun /\ [Next]_vars => ClaimedMeansRun'
<1> SUFFICES ASSUME TypeOK, Named, ClaimedMeansRun, [Next]_vars, NEW p \in claimed'
             PROVE  \/ runs'[p] > 0 \/ p \in cut'
                    \/ \E v \in Workers : Claimed(v)' /\ Pair(v)' = p
  BY DEF ClaimedMeansRun
<1>1. ASSUME NEW w \in Workers, Step(w) \/ Broken(w)
      PROVE  \/ runs'[p] > 0 \/ p \in cut'
             \/ \E v \in Workers : Claimed(v)' /\ Pair(v)' = p
  <2>1. Shape(w) /\ OthersSame(w)
    BY <1>1, ShapeHolds, StepMovesOne
  <2>2. CASE p \notin claimed
    BY <2>1, <2>2 DEF Shape, Claimant
  <2>3. CASE p \in claimed
    <3>1. p \in Pairs
      BY <2>3 DEF TypeOK
    <3>2. CASE runs[p] > 0 \/ p \in cut
      BY <2>1, <3>1, <3>2 DEF Shape
    <3>3. ASSUME NEW v \in Workers, Claimed(v), Pair(v) = p
          PROVE  \/ runs'[p] > 0 \/ p \in cut'
                 \/ Claimed(v)' /\ Pair(v)' = p
      <4>1. CASE v # w
        BY <2>1, <3>3, <4>1, ClaimantsOfOthers
      <4>2. CASE v = w
        <5>1. Claimant(w)
          BY <3>1, <3>3, <4>2, ExternalAssumption DEF Claimant, Pair, Pairs
        <5> QED
          BY <2>1, <3>3, <4>2, <5>1 DEF Shape, Claimant
      <4> QED
        BY <4>1, <4>2
    <3> QED
      BY <2>3, <3>2, <3>3 DEF ClaimedMeansRun
  <2> QED
    BY <2>2, <2>3
<1> USE DEF Claimed, At, Pair, Conn
<1>2. CASE UNCHANGED <<wk, claimed, runs, cut>>
  BY <1>2 DEF ClaimedMeansRun
<1>3. CASE \E q \in Pairs : ClaimExpires(q)
  BY <1>3 DEF ClaimedMeansRun, ClaimExpires, tables
<1> QED
  BY <1>1, <1>2, <1>3 DEF Next, Push, LockExpires, vars, tables, redis, bounds

(* Whatever arrives twice, fails, dies or expires, a request makes at most *)
(* one run record of a connection.                                         *)
THEOREM RunsOnce == Spec => []OncePerRequest
<1>1. Init => OncePerRequest
  BY DEF Init, OncePerRequest
<1> QED
  BY <1>1, Initially, TypeStep, ClaimKept, OnceStep, PTL DEF Spec

(* A claim is never there without its run, unless its worker was cut off.  *)
THEOREM ClaimIsHonoured == Spec => []ClaimedMeansRun
<1>1. Init => ClaimedMeansRun
  BY DEF Init, ClaimedMeansRun
<1> QED
  BY <1>1, Initially, TypeStep, MeansStep, PTL DEF Spec
-----------------------------------------------------------------------------
(* A claim that was cut off is still there, and no worker is behind it.    *)
CutInv ==
    /\ cut \subseteq claimed
    /\ \A w \in Workers : Claimant(w) => Pair(w) \notin cut

(* What a worker's step does to what has been claimed, done and cut off.   *)
Deal(w) ==
    \/ /\ runs' = runs /\ cut' = cut
       /\ Claimant(w) /\ Claimant(w)' => Pair(w)' = Pair(w)
       /\ Claimant(w) /\ ~Claimant(w)' => runs[Pair(w)] > 0
       /\ ~Claimant(w) /\ Claimant(w)' => Pair(w)' \notin claimed
    \/ /\ Claimant(w) /\ At(w, "create") /\ ~Claimant(w)'
       /\ runs' = OneMoreRun(w) /\ cut' = cut
    \/ /\ ~Claimant(w)' /\ runs' = runs /\ cut' = cut \cup {Pair(w)}
       /\ Claimant(w) \/ (Pair(w) \in Pairs \ claimed /\ Pair(w) \in claimed')

LEMMA DealHolds ==
    ASSUME TypeOK, Named, NEW w \in Workers, Step(w) \/ Broken(w)
    PROVE  Deal(w)
<1> USE DEF tables, redis, bounds
<1> DEFINE Unconcerned == runs' = runs /\ cut' = cut
<1>a. ASSUME Unconcerned, ~Claimant(w), ~Claimant(w)'
      PROVE  Deal(w)
  BY <1>a DEF Deal
<1>1. CASE Pop(w) \/ Ensure(w)
  <2>1. Unconcerned /\ ~Claimant(w) /\ ~Claimant(w)'
    BY <1>1, PopEffect, EnsureEffect DEF MovesTo, SameJob, Claimant, Claimed, At
  <2> QED
    BY <2>1, <1>a
<1>2. CASE Claim(w)
  <2>1. Unconcerned /\ Pair(w)' = Pair(w) /\ ~Claimant(w)
    BY <1>2, ClaimEffect DEF MovesTo, SameJob, Pair, Conn, Claimant, Claimed, At
  <2>2. Claimant(w)' => Pair(w) \notin claimed
    BY <1>2, ClaimEffect DEF MovesTo, Claimant, Claimed, At
  <2> QED
    BY <2>1, <2>2 DEF Deal
<1>3. CASE Find(w)
  <2>1. Unconcerned
    BY <1>3, FindEffect
  <2>2. CASE Duplicate(w)
    <3>1. ~Claimant(w)'
      BY <1>3, <2>2, FindEffect DEF MovesTo, Claimant, Claimed, At
    <3>2. Claimant(w) => runs[Pair(w)] > 0
      BY <1>3, <2>2, FindEffect DEF Claimant, Claimed, At, Duplicate
    <3> QED
      BY <2>1, <3>1, <3>2 DEF Deal
  <2>3. CASE ~Duplicate(w)
    <3>1. Claimant(w) /\ Pair(w)' = Pair(w) /\ Claimant(w)'
      BY <1>3, <2>3, FindEffect
      DEF Named, MovesTo, SameJob, Claimant, Claimed, At, Duplicate, Pair, Conn
    <3> QED
      BY <2>1, <3>1 DEF Deal
  <2> QED
    BY <2>2, <2>3
<1>4. CASE CreateRun(w)
  <2>1. /\ runs' = OneMoreRun(w) /\ cut' = cut /\ At(w, "create") /\ ~Claimant(w)'
    BY <1>4, CreateEffect DEF MovesTo, Claimant, Claimed, At
  <2>2. CASE Claimant(w)
    BY <2>1, <2>2 DEF Deal
  <2>3. CASE ~Claimant(w)
    <3>1. Pair(w) \notin Pairs
      BY <2>1, <2>3, ExternalAssumption DEF Claimant, Claimed, Pair, Pairs
    <3>2. runs' = runs
      BY <2>1, <3>1 DEF OneMoreRun, TypeOK
    <3> QED
      BY <2>1, <2>3, <3>2 DEF Deal
  <2> QED
    BY <2>2, <2>3
<1>5. CASE Acquire(w) \/ Locked(w)
  <2>1. Unconcerned /\ ~Claimant(w) /\ ~Claimant(w)'
    BY <1>5, AcquireEffect, LockedEffect DEF MovesTo, Claimant, Claimed, At
  <2> QED
    BY <2>1, <1>a
<1>6. CASE Mark(w) \/ Store(w) \/ Settle(w) \/ FailState(w)
  <2>1. Unconcerned /\ ~Claimant(w) /\ ~Claimant(w)'
    BY <1>6, StatusEffect DEF MovesTo, Claimant, Claimed, At, LockedPcs
  <2> QED
    BY <2>1, <1>a
<1>7. CASE NoActivity(w) \/ SyncFails(w) \/ Leave(w) \/ CatchThrows(w) \/ Caught(w)
  <2>1. Unconcerned /\ ~Claimant(w) /\ ~Claimant(w)'
    BY <1>7, SyncEffect, LeaveEffect, CaughtEffect
    DEF MovesTo, Claimant, Claimed, At, LockedPcs
  <2> QED
    BY <2>1, <1>a
<1>8. CASE Stop(w)
  <2>1. runs' = runs /\ cut' = cut \cup CutBy(w) /\ ~Claimant(w)'
    BY <1>8, LossEffect DEF Stop, MovesTo, Claimant, Claimed, At
  <2> QED
    BY <2>1 DEF Deal, CutBy
<1>9. CASE ClaimUnknown(w)
  <2>1. /\ runs' = runs /\ claimed' = claimed \cup {Pair(w)} /\ cut' = cut \cup {Pair(w)}
        /\ Pair(w) \notin claimed /\ ~Claimant(w)'
    BY <1>9, LossEffect DEF ClaimUnknown, MovesTo, Claimant, Claimed, At
  <2>2. Pair(w) \in Pairs
    BY <1>9, RowTyped DEF ClaimUnknown, Named, At
  <2> QED
    BY <2>1, <2>2 DEF Deal
<1>10. CASE LockUnknown(w)
  <2>1. Unconcerned /\ ~Claimant(w) /\ ~Claimant(w)'
    BY <1>10, LossEffect DEF LockUnknown, MovesTo, Claimant, Claimed, At
  <2> QED
    BY <2>1, <1>a
<1> QED
  BY <1>1, <1>2, <1>3, <1>4, <1>5, <1>6, <1>7, <1>8, <1>9, <1>10 DEF Step, Broken

LEMMA CutStep ==
    ASSUME TypeOK, Named, ClaimInv, CutInv, NEW w \in Workers, Step(w) \/ Broken(w)
    PROVE  CutInv'
<1>1. Deal(w) /\ Shape(w) /\ OthersSame(w)
  BY DealHolds, ShapeHolds, StepMovesOne
<1>2. cut' \subseteq claimed'
  BY <1>1 DEF Deal, Shape, CutInv, ClaimInv
<1>3. ASSUME NEW v \in Workers, Claimant(v)'
      PROVE  Pair(v)' \notin cut'
  <2>1. CASE v = w
    <3>1. runs' = runs /\ cut' = cut
      BY <1>1, <1>3, <2>1 DEF Deal
    <3>2. CASE Claimant(w)
      BY <1>1, <1>3, <2>1, <3>1, <3>2 DEF Deal, CutInv
    <3>3. CASE ~Claimant(w)
      BY <1>1, <1>3, <2>1, <3>1, <3>3 DEF Deal, CutInv
    <3> QED
      BY <3>2, <3>3
  <2>2. CASE v # w
    <3>1. Claimant(v) /\ Pair(v)' = Pair(v) /\ Pair(v) \notin cut /\ Pair(v) \in claimed
      BY <1>1, <1>3, <2>2, ClaimantsOfOthers DEF CutInv, ClaimInv
    <3>2. Pair(v) = Pair(w) => ~Claimant(w) /\ Pair(w) \in claimed
      BY <2>2, <3>1 DEF ClaimInv
    <3> QED
      BY <1>1, <3>1, <3>2 DEF Deal
  <2> QED
    BY <2>1, <2>2
<1> QED
  BY <1>2, <1>3 DEF CutInv

LEMMA CutKept ==
    TypeOK /\ Named /\ ClaimInv /\ CutInv /\ [Next]_vars => CutInv'
<1> SUFFICES ASSUME TypeOK, Named, ClaimInv, CutInv, [Next]_vars PROVE CutInv'
  OBVIOUS
<1>1. CASE \E w \in Workers : Step(w) \/ Broken(w)
  BY <1>1, CutStep
<1> USE DEF Claimant, Claimed, At, Pair, Conn
<1>2. CASE UNCHANGED <<wk, claimed, cut>>
  BY <1>2 DEF CutInv
<1>3. CASE \E p \in Pairs : ClaimExpires(p)
  BY <1>3 DEF CutInv, ClaimExpires
<1> QED
  BY <1>1, <1>2, <1>3 DEF Next, Push, LockExpires, vars, tables, redis, bounds
-----------------------------------------------------------------------------
(* The requests as OnceOnly sees them.                                     *)
Taken == {x \in Workers \X Pairs :
             Claimant(x[1]) /\ Pair(x[1]) = x[2] /\ runs[x[2]] = 0}
Spoilt == {p \in cut : runs[p] = 0}

LEMMA TakenSame ==
    ASSUME NEW w \in Workers, OthersSame(w), runs' = runs,
           \A p \in Pairs : runs[p] = 0 =>
               (Claimant(w)' /\ Pair(w)' = p <=> Claimant(w) /\ Pair(w) = p)
    PROVE  Taken' = Taken
BY ClaimantsOfOthers DEF Taken

LEMMA TakenMore ==
    ASSUME NEW w \in Workers, OthersSame(w), runs' = runs, NEW p \in Pairs, runs[p] = 0,
           ~Claimant(w), Claimant(w)', Pair(w)' = p
    PROVE  Taken' = Taken \cup {<<w, p>>}
BY ClaimantsOfOthers DEF Taken

LEMMA TakenLess ==
    ASSUME NEW w \in Workers, OthersSame(w), NEW p \in Pairs,
           Claimant(w), Pair(w) = p, ~Claimant(w)',
           \A q \in Pairs \ {p} : runs'[q] = runs[q],
           \A v \in Workers \ {w} : Claimant(v) => Pair(v) # p
    PROVE  Taken' = Taken \ {<<w, p>>}
BY ClaimantsOfOthers DEF Taken

LEMMA RequestStep ==
    ASSUME TypeOK, Named, ClaimInv, CutInv, NEW w \in Workers, Step(w) \/ Broken(w)
    PROVE  [O!OnceNext]_(O!onceVars)
<1>0. Deal(w) /\ OthersSame(w) /\ runs \in [Pairs -> Nat]
  BY DealHolds, StepMovesOne, ExternalAssumption DEF TypeOK
<1>p. /\ Claimant(w) => Pair(w) \in Pairs
      /\ TypeOK' => (Claimant(w)' => Pair(w)' \in Pairs)
  BY RowTyped DEF Claimant, Claimed, At, TypeOK, Pair, Pairs, Conn, Worker
<1>t. TypeOK'
  BY TypeStep DEF Next
<1>s. Taken' = Taken /\ Spoilt' = Spoilt /\ runs' = runs => UNCHANGED O!onceVars
  BY DEF O!onceVars, Taken, Spoilt
<1>1. CASE /\ runs' = runs /\ cut' = cut
           /\ Claimant(w) /\ Claimant(w)' => Pair(w)' = Pair(w)
           /\ Claimant(w) /\ ~Claimant(w)' => runs[Pair(w)] > 0
           /\ ~Claimant(w) /\ Claimant(w)' => Pair(w)' \notin claimed
  <2>1. Spoilt' = Spoilt
    BY <1>1 DEF Spoilt
  <2>2. CASE Claimant(w) \/ ~Claimant(w)' \/ runs[Pair(w)'] # 0
    <3>1. Taken' = Taken
      BY <1>0, <1>1, <1>p, <2>2, TakenSame
    <3> QED
      BY <1>1, <1>s, <2>1, <3>1
  <2>3. CASE ~Claimant(w) /\ Claimant(w)' /\ runs[Pair(w)'] = 0
    <3>1. PICK p \in Pairs : p = Pair(w)'
      BY <1>p, <1>t, <2>3
    <3>2. Taken' = Taken \cup {<<w, p>>}
      BY <1>0, <1>1, <2>3, <3>1, TakenMore
    <3>3. runs[p] = 0 /\ p \notin cut /\ \A v \in Workers : Claimant(v) => Pair(v) # p
      BY <1>1, <2>3, <3>1 DEF ClaimInv, CutInv
    <3>4. O!Take(w, p)
      BY <1>1, <2>1, <3>2, <3>3 DEF O!Take, O!Open, Taken, Spoilt
    <3> QED
      BY <3>4 DEF O!OnceNext
  <2> QED
    BY <2>2, <2>3
<1>2. CASE /\ Claimant(w) /\ At(w, "create") /\ ~Claimant(w)'
           /\ runs' = OneMoreRun(w) /\ cut' = cut
  <2>1. PICK p \in Pairs : p = Pair(w)
    BY <1>2, <1>p
  <2>2. /\ runs[p] = 0 /\ p \notin cut
        /\ \A v \in Workers \ {w} : Claimant(v) => Pair(v) # p
    BY <1>2, <2>1 DEF ClaimInv, CutInv
  <2>3. runs' = [runs EXCEPT ![p] = @ + 1]
    <3>1. OneMoreRun(w) \in [Pairs -> Nat]
      BY OneMoreTyped, ExternalAssumption
    <3>2. \A q \in Pairs : OneMoreRun(w)[q] = IF q = p THEN runs[q] + 1 ELSE runs[q]
      BY <2>1, <2>2, OneMoreTyped, ExternalAssumption
    <3> QED
      BY <1>0, <1>2, <3>1, <3>2
  <2>4. Taken' = Taken \ {<<w, p>>}
    BY <1>0, <1>2, <2>1, <2>2, <2>3, TakenLess
  <2>5. Spoilt' = Spoilt
    BY <1>0, <1>2, <2>2, <2>3 DEF Spoilt, TypeOK
  <2>6. <<w, p>> \in Taken
    BY <1>2, <2>1, <2>2 DEF Taken
  <2>7. O!Do(w, p)
    BY <2>3, <2>4, <2>5, <2>6 DEF O!Do, Taken, Spoilt
  <2> QED
    BY <2>6, <2>7 DEF O!OnceNext, Taken
<1>3. CASE /\ ~Claimant(w)' /\ runs' = runs /\ cut' = cut \cup {Pair(w)}
           /\ Claimant(w) \/ (Pair(w) \in Pairs \ claimed /\ Pair(w) \in claimed')
  <2>1. PICK p \in Pairs : p = Pair(w)
    BY <1>3, <1>p
  <2>2. CASE runs[p] # 0
    <3>1. Taken' = Taken
      BY <1>0, <1>3, <2>1, <2>2, TakenSame
    <3>2. Spoilt' = Spoilt
      BY <1>3, <2>1, <2>2 DEF Spoilt
    <3> QED
      BY <1>3, <1>s, <3>1, <3>2
  <2>3. CASE runs[p] = 0 /\ Claimant(w)
    <3>1. \A v \in Workers \ {w} : Claimant(v) => Pair(v) # p
      BY <2>1, <2>3 DEF ClaimInv
    <3>2. Taken' = Taken \ {<<w, p>>}
      BY <1>0, <1>3, <2>1, <2>3, <3>1, TakenLess
    <3>3. Spoilt' = Spoilt \cup {p} /\ <<w, p>> \in Taken
      BY <1>3, <2>1, <2>3 DEF Spoilt, Taken
    <3>4. O!Stop(w, p)
      BY <1>3, <3>2, <3>3 DEF O!Stop, Taken, Spoilt
    <3> QED
      BY <3>3, <3>4 DEF O!OnceNext, Taken
  <2>4. CASE runs[p] = 0 /\ ~Claimant(w)
    <3>1. p \notin claimed
      BY <1>3, <2>1, <2>4
    <3>2. p \notin cut /\ \A v \in Workers : Claimant(v) => Pair(v) # p
      BY <3>1 DEF ClaimInv, CutInv
    <3>3. Taken' = Taken
      BY <1>0, <1>3, <2>4, TakenSame
    <3>4. Spoilt' = Spoilt \cup {p}
      BY <1>3, <2>1, <2>4 DEF Spoilt
    <3>5. O!Spoil(p)
      BY <1>3, <2>4, <3>2, <3>3, <3>4 DEF O!Spoil, O!Open, Taken, Spoilt
    <3> QED
      BY <3>5 DEF O!OnceNext
  <2> QED
    BY <2>2, <2>3, <2>4
<1> QED
  BY <1>0, <1>1, <1>2, <1>3 DEF Deal

LEMMA RequestsStep ==
    TypeOK /\ Named /\ ClaimInv /\ CutInv /\ [Next]_vars => [O!OnceNext]_(O!onceVars)
<1> SUFFICES ASSUME TypeOK, Named, ClaimInv, CutInv, [Next]_vars
             PROVE  [O!OnceNext]_(O!onceVars)
  OBVIOUS
<1>1. CASE \E w \in Workers : Step(w) \/ Broken(w)
  BY <1>1, RequestStep
<1>2. CASE UNCHANGED <<wk, runs, cut>>
  BY <1>2 DEF O!onceVars, Claimant, Claimed, At, Pair, Conn
<1>3. ASSUME NEW p \in Pairs, ClaimExpires(p)
      PROVE  [O!OnceNext]_(O!onceVars)
  <2>1. Taken' = Taken /\ runs' = runs
    BY <1>3 DEF ClaimExpires, tables, Taken, Claimant, Claimed, At, Pair, Conn
  <2>2. Spoilt' = Spoilt \ {p}
    BY <1>3, <2>1 DEF ClaimExpires, Spoilt
  <2>3. CASE p \in Spoilt
    <3>1. O!Clear(p)
      BY <2>1, <2>2, <2>3 DEF O!Clear, Taken, Spoilt
    <3> QED
      BY <3>1 DEF O!OnceNext
  <2>4. CASE p \notin Spoilt
    BY <2>1, <2>2, <2>4 DEF O!onceVars, Taken, Spoilt
  <2> QED
    BY <2>3, <2>4
<1> QED
  BY <1>1, <1>2, <1>3 DEF Next, Push, LockExpires, vars, tables, redis, bounds

(* The claim and the run record together do a request's work once: by the  *)
(* worker whose claim came first, and, after one that stopped, by nobody   *)
(* while its claim lasts.                                                  *)
THEOREM RequestsOnceOnly == Spec => RequestKept
<1>1. Init => CutInv /\ O!OnceInit
  BY DEF Init, CutInv, Claimant, Claimed, At, Idle, O!OnceInit
<1> QED
  BY <1>1, Initially, TypeStep, ClaimKept, CutKept, RequestsStep,
     PTL DEF Spec, RequestKept, O!OnceSpec
-----------------------------------------------------------------------------
(* What a worker's step does to the locks and to its being inside one.     *)
Hold(w) ==
    \/ UNCHANGED lock /\ Inside(w)' = Inside(w)
    \/ /\ At(w, "lock") /\ lock[Conn(w)] = None
       /\ lock' = [lock EXCEPT ![Conn(w)] = w]
       /\ Inside(w)' \in {Conn(w), None}
    \/ /\ Inside(w) # None /\ Inside(w)' = None
       /\ lock' = Unlocked(w) \/ UNCHANGED lock

LEMMA HoldHolds ==
    ASSUME TypeOK, NEW w \in Workers, Step(w) \/ Broken(w)
    PROVE  Hold(w)
<1> USE DEF tables, redis, Inside
<1>a. wk[w].pc \in LockedPcs => Conn(w) # None
  BY RowTyped DEF At, LockedPcs
<1>1. CASE Pop(w) \/ Find(w) \/ Claim(w) \/ CreateRun(w) \/ Locked(w)
  BY <1>1, PopEffect, FindEffect, ClaimEffect, CreateEffect, LockedEffect
  DEF Hold, MovesTo, At, LockedPcs
<1>2. CASE Ensure(w)
  BY <1>2, EnsureEffect DEF Hold, MovesTo, At, LockedPcs
<1>3. CASE Acquire(w)
  BY <1>3, AcquireEffect DEF Hold, MovesTo, SameJob, At, Conn, LockedPcs
<1>4. CASE Mark(w) \/ Store(w) \/ Settle(w) \/ FailState(w)
  BY <1>4, StatusEffect DEF Hold, MovesTo, SameJob, Conn
<1>5. CASE NoActivity(w) \/ SyncFails(w) \/ Caught(w)
  BY <1>5, SyncEffect, CaughtEffect DEF Hold, MovesTo, SameJob, Conn, At, LockedPcs
<1>6. CASE Leave(w) \/ CatchThrows(w)
  <2>1. wk[w].pc \in LockedPcs /\ wk'[w].pc \notin LockedPcs
    BY <1>6, LeaveEffect DEF MovesTo, LockedPcs
  <2> QED
    BY <1>6, <1>a, <2>1, LeaveEffect DEF Hold
<1>7. CASE Stop(w) \/ ClaimUnknown(w)
  <2>1. UNCHANGED lock /\ wk'[w].pc \notin LockedPcs
    BY <1>7, LossEffect DEF MovesTo, LockedPcs, Stop, ClaimUnknown
  <2> QED
    BY <1>a, <2>1 DEF Hold
<1>8. CASE LockUnknown(w)
  <2>1. wk'[w].pc \notin LockedPcs
    BY <1>8, LossEffect DEF MovesTo, LockedPcs
  <2> QED
    BY <1>8, <2>1 DEF Hold, LockUnknown
<1> QED
  BY <1>1, <1>2, <1>3, <1>4, <1>5, <1>6, <1>7, <1>8 DEF Step, Broken

LEMMA InsideTyped ==
    ASSUME TypeOK, NEW w \in Workers
    PROVE  /\ Inside(w) \in Connections \cup {None}
           /\ Inside(w) # None => Inside(w) = Conn(w)
           /\ At(w, "lock") => Inside(w) = None /\ Conn(w) \in Connections
BY RowTyped DEF Inside, At, LockedPcs

LEMMA InsideOfOthers ==
    ASSUME NEW w \in Workers, OthersSame(w)
    PROVE  \A v \in Workers : v # w => Inside(v)' = Inside(v)
BY DEF OthersSame, Inside, Conn

LEMMA HoldMaps ==
    ASSUME TypeOK, NEW w \in Workers, Step(w) \/ Broken(w)
    PROVE  [L!LeaseNext]_(L!leaseVars)
<1>1. Hold(w) /\ \A v \in Workers : v # w => Inside(v)' = Inside(v)
  BY HoldHolds, StepMovesOne, InsideOfOthers
<1>2. lock \in [Connections -> Workers \cup {None}] /\ None \notin Workers
  BY ExternalAssumption DEF TypeOK
<1>3. CASE UNCHANGED lock /\ Inside(w)' = Inside(w)
  BY <1>1, <1>3 DEF inside, lapsed, L!leaseVars
<1>4. ASSUME At(w, "lock"), lock[Conn(w)] = None, lock' = [lock EXCEPT ![Conn(w)] = w],
             Inside(w)' \in {Conn(w), None}
      PROVE  [L!LeaseNext]_(L!leaseVars)
  <2>0. PICK c \in Connections : c = Conn(w)
    BY <1>4, InsideTyped
  <2>1. inside[w] = None /\ Inside(w) = None /\ c # None
    BY <1>4, InsideTyped, ExternalAssumption DEF inside
  <2>2. \A v \in Workers : v # w => (v \in lapsed' <=> v \in lapsed)
    BY <1>1, <1>2, <1>4, <2>0, InsideTyped DEF lapsed
  <2>3. w \notin lapsed /\ w \notin lapsed'
    BY <1>2, <1>4, <2>0, <2>1 DEF lapsed
  <2>4. UNCHANGED lapsed
    BY <2>2, <2>3 DEF lapsed
  <2>5. CASE Inside(w)' = None
    <3>1. UNCHANGED inside
      BY <1>1, <2>1, <2>5 DEF inside
    <3>2. L!AcquireUnknown(w, c)
      BY <1>4, <2>0, <2>1, <2>4, <3>1 DEF L!AcquireUnknown
    <3> QED
      BY <3>2 DEF L!LeaseNext
  <2>6. CASE Inside(w)' = c
    <3>1. inside' = [inside EXCEPT ![w] = c]
      BY <1>1, <2>6 DEF inside
    <3>2. L!Acquire(w, c)
      BY <1>4, <2>0, <2>1, <2>4, <3>1 DEF L!Acquire
    <3> QED
      BY <3>2 DEF L!LeaseNext
  <2> QED
    BY <1>4, <2>0, <2>5, <2>6
<1>5. ASSUME Inside(w) # None, Inside(w)' = None,
             lock' = Unlocked(w) \/ UNCHANGED lock
      PROVE  [L!LeaseNext]_(L!leaseVars)
  <2>0. PICK gone \in SUBSET Workers : gone = {w}
    OBVIOUS
  <2>1. inside[w] = Conn(w) /\ inside[w] # None /\ Conn(w) \in Connections
    BY <1>5, InsideTyped DEF inside
  <2>2. /\ inside' = [inside EXCEPT ![w] = None]
        /\ inside' = [v \in Workers |-> IF v \in gone THEN None ELSE inside[v]]
    BY <1>1, <1>5, <2>0 DEF inside
  <2>3. \A v \in Workers : v # w =>
            (Inside(v) # None => (lock'[Inside(v)] = v <=> lock[Inside(v)] = v))
    BY <1>2, <1>5, InsideTyped DEF Unlocked
  <2>4. lapsed' = lapsed \ {w} /\ lapsed' = lapsed \ gone
    BY <1>1, <1>5, <2>0, <2>3 DEF lapsed
  <2>5. CASE UNCHANGED lock
    <3>1. L!Leave(gone)
      BY <2>0, <2>1, <2>2, <2>4, <2>5 DEF L!Leave
    <3> QED
      BY <3>1 DEF L!LeaseNext
  <2>6. CASE lock' = Unlocked(w)
    <3>1. lock' = [c \in Connections |-> IF c = inside[w] /\ lock[c] = w THEN None ELSE lock[c]]
      BY <1>2, <2>1, <2>6 DEF Unlocked
    <3>2. L!Release(w)
      BY <2>1, <2>2, <2>4, <3>1 DEF L!Release, L!Deletes
    <3> QED
      BY <3>2 DEF L!LeaseNext
  <2> QED
    BY <1>5, <2>5, <2>6
<1> QED
  BY <1>1, <1>3, <1>4, <1>5 DEF Hold

LEMMA ExpiryMaps ==
    ASSUME TypeOK, NEW c \in Connections, LockExpires(c)
    PROVE  [L!LeaseNext]_(L!leaseVars)
<1>1. /\ lock[c] # None /\ lock' = [lock EXCEPT ![c] = None] /\ wk' = wk
      /\ lock \in [Connections -> Workers \cup {None}] /\ None \notin Workers
  BY ExternalAssumption DEF LockExpires, TypeOK
<1>2. UNCHANGED inside
  BY <1>1 DEF inside, Inside, Conn
<1>3. \A v \in Workers : Inside(v)' = Inside(v) /\ Inside(v) \in Connections \cup {None}
  BY <1>1, InsideTyped DEF Inside, Conn
<1>4. lapsed' = lapsed \cup {v \in Workers : v = lock[c] /\ inside[v] = c}
  <2>1. \A v \in Workers : v \in lapsed' <=> v \in lapsed \/ (v = lock[c] /\ inside[v] = c)
    BY <1>1, <1>3, ExternalAssumption DEF lapsed, inside
  <2> QED
    BY <2>1 DEF lapsed
<1>5. L!Expire(c)
  BY <1>1, <1>2, <1>4 DEF L!Expire
<1> QED
  BY <1>5 DEF L!LeaseNext

(* The workers implement the lock discipline of Lease on every connection. *)
THEOREM ExternalImplementsLease == Spec => LeaseKept
<1>1. Init => L!LeaseInit
  <2> SUFFICES ASSUME Init PROVE L!LeaseInit
    OBVIOUS
  <2>1. \A w \in Workers : Inside(w) = None
    BY DEF Init, Idle, Inside, LockedPcs
  <2> QED
    BY <2>1 DEF Init, L!LeaseInit, inside, lapsed
<1>2. TypeOK /\ [Next]_vars => [L!LeaseNext]_(L!leaseVars)
  <2> SUFFICES ASSUME TypeOK, [Next]_vars PROVE [L!LeaseNext]_(L!leaseVars)
    OBVIOUS
  <2>1. CASE UNCHANGED <<wk, lock>>
    BY <2>1 DEF inside, lapsed, Inside, Conn, L!leaseVars
  <2> QED
    BY <2>1, HoldMaps, ExpiryMaps DEF Next, Push, ClaimExpires, vars, tables, redis
<1> QED
  BY <1>1, <1>2, Initially, TypeStep, PTL DEF Spec, LeaseKept, L!LeaseSpec
-----------------------------------------------------------------------------
(* Nothing left behind: steps without a fault.                             *)
Behind(w, c) == Inside(w) = c /\ wk[w].pc \in {"sync", "settle", "failState"}

LEMMA CleanHold ==
    ASSUME TypeOK, NEW w \in Workers, Step(w), UNCHANGED faults
    PROVE  \/ UNCHANGED lock /\ Inside(w)' = Inside(w)
           \/ /\ At(w, "lock") /\ lock' = [lock EXCEPT ![Conn(w)] = w]
              /\ Inside(w)' = Conn(w)
           \/ lock' = Unlocked(w) /\ Inside(w)' = None /\ ~At(w, "idle")
<1>0. ~Fault
  BY FaultTyped DEF TypeOK, Fault
<1>1. CASE Acquire(w)
  BY <1>1, AcquireEffect DEF MovesTo, SameJob, Inside, Conn, LockedPcs
<1>2. CASE Leave(w)
  <2>1. wk'[w].pc \notin LockedPcs /\ ~At(w, "idle") /\ lock' = Unlocked(w)
    BY <1>0, <1>2, LeaveEffect DEF MovesTo, LockedPcs, At
  <2> QED
    BY <2>1 DEF Inside
<1>3. CASE ~Acquire(w) /\ ~Leave(w)
  <2>1. UNCHANGED lock
    BY <1>3 DEF Step, Pop, Ensure, Claim, Find, CreateRun, Locked, Mark, Store,
                NoActivity, SyncFails, Settle, FailState, tables, redis
  <2>2. Hold(w)
    BY HoldHolds
  <2>3. CASE Inside(w) # None /\ Inside(w)' = None
    <3>1. wk[w].pc \in LockedPcs /\ wk'[w].pc \notin LockedPcs
      <4>1. wk[w].pc \in LockedPcs
        BY <2>3 DEF Inside
      <4>2. CASE Mark(w) \/ Store(w) \/ Settle(w) \/ FailState(w)
        <5>1. PICK p \in LockedPcs : MovesTo(w, {p}) /\ SameJob(w)
          BY <4>2, StatusEffect
        <5>2. Inside(w)' = Inside(w)
          BY <4>1, <5>1 DEF MovesTo, SameJob, Inside, Conn
        <5> QED
          BY <2>3, <5>2
      <4>3. CASE NoActivity(w) \/ SyncFails(w)
        <5>1. Inside(w)' = Inside(w)
          BY <4>1, <4>3, SyncEffect DEF MovesTo, SameJob, Inside, Conn, LockedPcs
        <5> QED
          BY <2>3, <5>1
      <4> QED
        BY <1>3, <4>1, <4>2, <4>3, PopEffect, EnsureEffect, ClaimEffect, FindEffect,
           CreateEffect, LockedEffect DEF Step, At, LockedPcs
    <3>2. FALSE
      BY <1>3, <3>1, PopEffect, EnsureEffect, ClaimEffect, FindEffect, CreateEffect,
         LockedEffect, StatusEffect, SyncEffect
      DEF Step, MovesTo, At, LockedPcs
    <3> QED
      BY <3>2
  <2> QED
    BY <2>1, <2>2, <2>3, InsideTyped DEF Hold
<1> QED
  BY <1>1, <1>2, <1>3

LEMMA CleanStatus ==
    ASSUME TypeOK, NEW w \in Workers, Step(w), NEW c \in Connections,
           status'[c] = "syncing"
    PROVE  Behind(w, c)' \/ (status[c] = "syncing" /\ ~Behind(w, c))
<1> USE DEF Behind, Inside
<1>1. CASE Pop(w) \/ Claim(w) \/ Find(w) \/ CreateRun(w) \/ Acquire(w) \/ Locked(w)
  BY <1>1, PopEffect, ClaimEffect, FindEffect, CreateEffect, AcquireEffect, LockedEffect
  DEF At, tables
<1>2. CASE Ensure(w)
  <2>1. ~Behind(w, c) /\ status' = [status EXCEPT ![Conn(w)] = Ensured(@)]
    BY <1>2, EnsureEffect DEF At
  <2> QED
    BY <2>1 DEF TypeOK, Ensured
<1>3. CASE Mark(w)
  <2>1. /\ At(w, "mark") /\ status' = [status EXCEPT ![Conn(w)] = "syncing"]
        /\ ~At(w, "idle") /\ Goto(w, "sync")
    BY <1>3 DEF Mark, At
  <2>2. wk'[w].pc = "sync" /\ Conn(w)' = Conn(w)
    BY <2>1, GotoEffect DEF Pcs, LockedPcs, Conn
  <2> QED
    BY <2>1, <2>2 DEF TypeOK, At, LockedPcs
<1>4. CASE Store(w) \/ Settle(w) \/ FailState(w)
  <2>1. /\ status' = [status EXCEPT ![Conn(w)] = "settled"]
        /\ wk[w].pc \in LockedPcs
    BY <1>4 DEF Store, Settle, FailState, At, LockedPcs
  <2> QED
    BY <2>1 DEF TypeOK
<1>5. CASE NoActivity(w) \/ SyncFails(w)
  <2>1. /\ At(w, "sync") /\ wk'[w].pc \in {"settle", "failState"} /\ Conn(w)' = Conn(w)
        /\ UNCHANGED status
    BY <1>5, SyncEffect DEF MovesTo, SameJob, Conn, tables
  <2> QED
    BY <2>1 DEF At, LockedPcs
<1>6. CASE Leave(w)
  BY <1>6 DEF Leave, tables
<1> QED
  BY <1>1, <1>2, <1>3, <1>4, <1>5, <1>6 DEF Step

LEMMA CleanStep ==
    ASSUME TypeOK, CleanInv, NEW w \in Workers, Step(w) \/ Broken(w)
    PROVE  CleanInv'
<1> SUFFICES ASSUME faults' = 0 PROVE CleanInv'
  BY DEF CleanInv
<1>1. ~Fault
  BY FaultTyped
<1>2. Step(w) /\ faults' = faults
  BY <1>1 DEF Broken, Stop, ClaimUnknown, LockUnknown, Caught, CatchThrows, Step, Pop, Ensure,
              Claim, Find, CreateRun, Acquire, Locked, Mark, Store, NoActivity, SyncFails,
              Settle, FailState, Leave, bounds
<1>3. \A v \in Workers : v # w => Inside(v)' = Inside(v) /\ wk'[v] = wk[v]
  BY StepMovesOne, InsideOfOthers DEF OthersSame
<1>4. lock \in [Connections -> Workers \cup {None}]
  BY DEF TypeOK
<1>5. ASSUME NEW c \in Connections, NEW u \in Workers, lock'[c] = u
      PROVE  Inside(u)' = c
  <2>1. CASE UNCHANGED lock /\ Inside(w)' = Inside(w)
    BY <1>2, <1>3, <1>5, <2>1 DEF CleanInv
  <2>2. CASE /\ At(w, "lock") /\ lock' = [lock EXCEPT ![Conn(w)] = w]
             /\ Inside(w)' = Conn(w)
    <3>1. Inside(w) = None /\ None \notin Connections
      BY <2>2, InsideTyped, ExternalAssumption
    <3>2. CASE c = Conn(w)
      BY <1>4, <1>5, <2>2, <3>2
    <3>3. CASE c # Conn(w)
      <4>1. lock[c] = u /\ Inside(u) = c
        BY <1>2, <1>4, <1>5, <2>2, <3>3 DEF CleanInv
      <4> QED
        BY <1>3, <3>1, <4>1
    <3> QED
      BY <3>2, <3>3
  <2>3. CASE lock' = Unlocked(w) /\ Inside(w)' = None /\ ~At(w, "idle")
    <3>1. lock[c] = u /\ (c = Conn(w) => lock[c] # w)
      BY <1>5, <2>3, UnlockedEffect, ExternalAssumption
    <3>2. Inside(u) = c
      BY <1>2, <3>1 DEF CleanInv
    <3>3. u # w
      BY <3>1, <3>2, InsideTyped, ExternalAssumption
    <3> QED
      BY <1>3, <3>2, <3>3
  <2> QED
    BY <1>2, <2>1, <2>2, <2>3, CleanHold
<1>6. ASSUME NEW c \in Connections, status'[c] = "syncing"
      PROVE  \E v \in Workers : Behind(v, c)'
  <2>1. CASE Behind(w, c)'
    BY <2>1
  <2>2. CASE status[c] = "syncing" /\ ~Behind(w, c)
    <3>1. PICK v \in Workers : Behind(v, c)
      BY <1>2, <2>2 DEF CleanInv, Behind
    <3>2. v # w
      BY <2>2, <3>1
    <3> QED
      BY <1>3, <3>1, <3>2 DEF Behind
  <2> QED
    BY <1>2, <1>6, <2>1, <2>2, CleanStatus
<1> QED
  BY <1>5, <1>6 DEF CleanInv, Behind

LEMMA CleanKept ==
    TypeOK /\ CleanInv /\ [Next]_vars => CleanInv'
<1> SUFFICES ASSUME TypeOK, CleanInv, [Next]_vars PROVE CleanInv'
  OBVIOUS
<1> USE DEF CleanInv, Inside, Conn, tables, bounds
<1>1. CASE \E w \in Workers : Step(w) \/ Broken(w)
  BY <1>1, CleanStep
<1>2. CASE UNCHANGED <<wk, lock, status, faults>>
  BY <1>2
<1>3. CASE \E c \in Connections : LockExpires(c)
  BY <1>3, ExternalAssumption DEF LockExpires, TypeOK
<1> QED
  BY <1>1, <1>2, <1>3 DEF Next, Push, ClaimExpires, vars, redis

(* As long as no call fails and no worker dies, what a worker was at is    *)
(* unlocked and settled when it has left.                                  *)
THEOREM NothingIsLeft == Spec => []NothingLeftBehind
<1>1. TypeOK /\ CleanInv => NothingLeftBehind
  <2> SUFFICES ASSUME TypeOK, CleanInv, faults = 0, NEW c \in Connections,
                      \A w \in Workers : Inside(w) # c
               PROVE  lock[c] = None /\ status[c] # "syncing"
    BY DEF NothingLeftBehind
  <2> QED
    BY DEF CleanInv, TypeOK
<1> QED
  BY <1>1, Initially, TypeStep, CleanKept, PTL DEF Spec
-----------------------------------------------------------------------------
(* Every provider of a job has its turn: a pair has its run, or the worker *)
(* that will make it.                                                      *)
Settled(p) == runs[p] > 0 \/ \E v \in Workers : Claimant(v) /\ Pair(v) = p

Turn(j, i) == <<j.req, j.todo[i]>>

(* What is left of a job from its k-th provider on.                        *)
LeftFrom(t, j, k) ==
    /\ k \in 1..Len(j.todo) /\ Len(t) = Len(j.todo) + 1 - k
    /\ \A m \in 1..Len(t) : t[m] = j.todo[k + m - 1]

(* A worker's place in its job: the providers before have had their turn.  *)
Placed(w) ==
    \E j \in Jobs, k \in Nat :
        /\ j.req = wk[w].req /\ LeftFrom(wk[w].todo, j, k)
        /\ \A i \in 1..(k - 1) : Settled(Turn(j, i))

PlaceInv ==
    \A w \in Workers : ~At(w, "idle") /\ wk[w].req # None =>
        /\ wk[w].pc \notin {"ensure", "claim"} => Settled(Pair(w))
        /\ Placed(w)

On(w, q) == ~At(w, "idle") /\ wk[w].req = q

(* The jobs that the property is about.                                    *)
Several == {j \in Jobs : j.req # None /\ Len(j.todo) > 1}

TurnInv ==
    \A j \in Several : (\E i \in 1..Len(j.todo) : runs[Turn(j, i)] > 0) =>
        \/ \E w \in Workers : On(w, j.req)
        \/ \A i \in 1..Len(j.todo) : Settled(Turn(j, i))

TriedInv == faults = 0 => cut = {} /\ PlaceInv /\ TurnInv

(* A request pushes one job for several providers (sync.ts) or, as a manual*)
(* operation does, a job for each.                                         *)
OneJobPerRequest == \A j \in Several, k \in Jobs : j.req = k.req => j = k

LEMMA TurnTyped ==
    ASSUME NEW j \in Jobs, j.req # None
    PROVE  /\ Len(j.todo) \in Nat \ {0}
           /\ \A i \in 1..Len(j.todo) : Turn(j, i) \in Pairs
<1>1. j.req \in Requests /\ j.todo \in Seq(Connections) /\ j.todo # <<>>
  BY ExternalAssumption DEF Job
<1>2. \A i \in 1..Len(j.todo) : j.todo[i] \in Connections
  BY <1>1, ElementOfSeq
<1> QED
  BY <1>1, <1>2, EmptySeq DEF Turn, Pairs

LEMMA SettledStays ==
    ASSUME TypeOK, Named, NEW w \in Workers, Step(w), cut' = {},
           NEW p \in Pairs, Settled(p)
    PROVE  Settled(p)'
<1>1. Shape(w) /\ OthersSame(w)
  BY ShapeHolds, StepMovesOne
<1>2. CASE runs[p] > 0
  BY <1>1, <1>2 DEF Shape, Settled
<1>3. ASSUME NEW v \in Workers, Claimant(v), Pair(v) = p
      PROVE  Settled(p)'
  <2>1. CASE v # w
    BY <1>1, <1>3, <2>1, ClaimantsOfOthers DEF Settled
  <2>2. CASE v = w
    BY <1>1, <1>3, <2>2 DEF Shape, Settled
  <2> QED
    BY <2>1, <2>2
<1> QED
  BY <1>2, <1>3 DEF Settled

(* What a step does to the job in hand.                                    *)
LEMMA JobMoves ==
    ASSUME TypeOK, NEW w \in Workers, Step(w)
    PROVE  /\ \/ Pop(w)
              \/ /\ SameJob(w) /\ ~At(w, "idle") /\ ~At(w, "idle")'
                 /\ wk'[w].pc \in {"ensure", "claim"} \/ Claim(w) \/ wk[w].req = None
                       \/ wk[w].pc \notin {"ensure", "claim"}
              \/ /\ wk[w].pc \notin {"idle", "ensure", "claim"}
                 /\ Continue(w)
           /\ runs' # runs => SameJob(w) /\ At(w, "create") /\ ~At(w, "idle")'
<1> USE DEF At, MovesTo
<1>1. CASE Pop(w)
  BY <1>1, PopEffect DEF tables
<1>2. CASE Ensure(w)
  BY <1>2, EnsureEffect DEF tables
<1>3. CASE Claim(w)
  BY <1>3, ClaimEffect DEF tables
<1>4. CASE Find(w)
  BY <1>4, FindEffect DEF tables, Find
<1>5. CASE CreateRun(w)
  BY <1>5, CreateEffect
<1>6. CASE Acquire(w)
  BY <1>6, AcquireEffect DEF tables
<1>7. CASE Locked(w)
  BY <1>7 DEF tables, Locked
<1>8. CASE Mark(w) \/ Store(w) \/ Settle(w) \/ FailState(w)
  BY <1>8, StatusEffect DEF LockedPcs
<1>9. CASE NoActivity(w) \/ SyncFails(w)
  BY <1>9, SyncEffect DEF tables
<1>10. CASE Leave(w)
  BY <1>10 DEF tables, Leave
<1> QED
  BY <1>1, <1>2, <1>3, <1>4, <1>5, <1>6, <1>7, <1>8, <1>9, <1>10 DEF Step

LEMMA Headed ==
    ASSUME NEW j \in Jobs, NEW k \in Nat, NEW t \in Seq(Connections), t # <<>>,
           LeftFrom(t, j, k)
    PROVE  /\ Head(t) = j.todo[k]
           /\ Len(t) = 1 => k = Len(j.todo)
           /\ Len(t) # 1 => LeftFrom(Tail(t), j, k + 1)
<1>1. j.todo \in Seq(Connections)
  BY ExternalAssumption DEF Job
<1> DEFINE n == Len(j.todo)
           l == Len(t)
<1>2. n \in Nat /\ l \in Nat \ {0} /\ k \in 1..n /\ l = n + 1 - k
  BY <1>1, EmptySeq, LenProperties DEF LeftFrom
<1>3. \A m \in 1..l : t[m] = j.todo[k + m - 1]
  BY DEF LeftFrom
<1>4. Head(t) = t[1]
  OBVIOUS
<1>5. t[1] = j.todo[k]
  <2>1. 1 \in 1..l /\ k + 1 - 1 = k
    BY <1>2
  <2> HIDE DEF l
  <2> QED
    BY <1>3, <2>1
<1>6. Len(Tail(t)) = l - 1 /\ \A m \in 1..(l - 1) : Tail(t)[m] = t[m + 1]
  BY HeadTailProperties
<1>7. ASSUME l # 1 PROVE LeftFrom(Tail(t), j, k + 1)
  <2>1. k + 1 \in 1..n /\ l - 1 = n + 1 - (k + 1)
    <3> HIDE DEF n, l
    <3> QED
      BY <1>2, <1>7
  <2>2. ASSUME NEW m \in 1..(l - 1) PROVE Tail(t)[m] = j.todo[(k + 1) + m - 1]
    <3>1. m + 1 \in 1..l /\ k + (m + 1) - 1 = (k + 1) + m - 1
      BY <1>2
    <3> HIDE DEF l
    <3> QED
      BY <1>3, <1>6, <3>1
  <2> QED
    BY <1>6, <2>1, <2>2 DEF LeftFrom
<1> QED
  BY <1>2, <1>4, <1>5, <1>7

(* What the step of a worker on a request makes of its place.              *)
LEMMA ContinuePlaces ==
    ASSUME TypeOK, Named, NEW w \in Workers, Step(w), cut' = {}, PlaceInv,
           Continue(w), wk[w].pc \notin {"idle", "ensure", "claim"}, wk[w].req # None
    PROVE  \/ ~At(w, "idle")' /\ wk'[w].pc = "ensure" /\ wk'[w].req = wk[w].req /\ Placed(w)'
           \/ /\ At(w, "idle")'
              /\ \E j \in Jobs : /\ j.req = wk[w].req
                                 /\ \A i \in 1..Len(j.todo) : Settled(Turn(j, i))'
<1> DEFINE t == wk[w].todo
<1>1. wk[w] \in Worker /\ t # <<>> /\ t \in Seq(Connections) /\ wk \in [Workers -> Worker]
  BY RowTyped DEF At, Worker, TypeOK
<1>2. Settled(Pair(w)) /\ Placed(w)
  BY DEF PlaceInv, At
<1>3. PICK j \in Jobs, k \in Nat :
         /\ j.req = wk[w].req /\ LeftFrom(t, j, k)
         /\ \A i \in 1..(k - 1) : Settled(Turn(j, i))
  BY <1>2 DEF Placed
<1>4. /\ Head(t) = j.todo[k]
      /\ Len(t) = 1 => k = Len(j.todo)
      /\ Len(t) # 1 => LeftFrom(Tail(t), j, k + 1)
  BY <1>1, <1>3, Headed
<1>5. Settled(Turn(j, k)) /\ k \in 1..Len(j.todo) /\ Len(j.todo) \in Nat
  BY <1>2, <1>3, <1>4, TurnTyped DEF Pair, Conn, Turn, LeftFrom
<1>6. \A i \in 1..k : Settled(Turn(j, i)) /\ Turn(j, i) \in Pairs
  BY <1>3, <1>5, TurnTyped
<1>7. \A i \in 1..k : Settled(Turn(j, i))'
  <2> SUFFICES ASSUME NEW i \in 1..k PROVE Settled(Turn(j, i))'
    OBVIOUS
  <2> DEFINE p == Turn(j, i)
  <2>1. p \in Pairs /\ Settled(p)
    BY <1>6
  <2> HIDE DEF p
  <2>2. Settled(p)'
    BY <2>1, SettledStays
  <2> QED
    BY <2>2 DEF p
<1>8. CASE Len(t) = 1
  <2>1. wk'[w] = Idle
    BY <1>1, <1>8 DEF Continue
  <2> QED
    BY <1>3, <1>4, <1>7, <1>8, <2>1 DEF At, Idle
<1>9. CASE Len(t) # 1
  <2>1. /\ wk'[w].pc = "ensure" /\ wk'[w].req = wk[w].req
        /\ wk'[w].todo = Tail(t)
    BY <1>1, <1>9 DEF Continue
  <2>2. k + 1 \in Nat /\ (k + 1) - 1 = k
    BY <1>5
  <2>3. \A i \in 1..((k + 1) - 1) : Settled(Turn(j, i))'
    BY <1>7, <2>2
  <2>4. LeftFrom(wk'[w].todo, j, k + 1)
    BY <1>4, <1>9, <2>1
  <2>5. Placed(w)'
    BY <1>3, <2>1, <2>2, <2>3, <2>4 DEF Placed
  <2> QED
    BY <2>1, <2>5 DEF At
<1> QED
  BY <1>8, <1>9

(* The places of the other workers.                                        *)
LEMMA PlacedStays ==
    ASSUME TypeOK, Named, NEW w \in Workers, Step(w), cut' = {},
           NEW v \in Workers, wk[v].req # None, Placed(v),
           wk'[v].req = wk[v].req, wk'[v].todo = wk[v].todo
    PROVE  Placed(v)'
<1>1. PICK j \in Jobs, k \in Nat :
         /\ j.req = wk[v].req /\ LeftFrom(wk[v].todo, j, k)
         /\ \A i \in 1..(k - 1) : Settled(Turn(j, i))
  BY DEF Placed
<1>2. ASSUME NEW i \in 1..(k - 1) PROVE Settled(Turn(j, i))'
  <2> DEFINE p == Turn(j, i)
  <2>1. i \in 1..Len(j.todo)
    BY <1>1, TurnTyped DEF LeftFrom
  <2>2. p \in Pairs /\ Settled(p)
    BY <1>1, <1>2, <2>1, TurnTyped
  <2> HIDE DEF p
  <2>3. Settled(p)'
    BY <2>2, SettledStays
  <2> QED
    BY <2>3 DEF p
<1> QED
  BY <1>1, <1>2 DEF Placed

LEMMA PlaceStep ==
    ASSUME TypeOK, TypeOK', Named, NEW w \in Workers, Step(w), cut' = {},
           ClaimedMeansRun', PlaceInv
    PROVE  PlaceInv'
<1>o. OthersSame(w)
  BY StepMovesOne
<1> SUFFICES ASSUME NEW v \in Workers, ~At(v, "idle")', wk'[v].req # None
             PROVE  /\ wk'[v].pc \notin {"ensure", "claim"} => Settled(Pair(v))'
                    /\ Placed(v)'
  BY DEF PlaceInv
<1>1. CASE v # w
  <2>1. wk'[v] = wk[v] /\ Pair(v)' = Pair(v)
    BY <1>o, <1>1 DEF OthersSame, Pair, Conn
  <2>2. Placed(v)'
    BY <2>1, PlacedStays DEF PlaceInv, At
  <2>3. ASSUME wk'[v].pc \notin {"ensure", "claim"} PROVE Settled(Pair(v))'
    <3>1. PICK p \in Pairs : p = Pair(v) /\ Settled(p) /\ Pair(v)' = p
      BY <2>1, <2>3, RowTyped DEF PlaceInv, At
    <3>2. Settled(p)'
      BY <3>1, SettledStays
    <3> QED
      BY <3>1, <3>2
  <2> QED
    BY <2>2, <2>3
<1>2. CASE v = w /\ Pop(w)
  <2> DEFINE j == Head(queue)
  <2>1. queue \in Seq(Jobs) /\ queue # <<>>
    BY <1>2 DEF Pop, TypeOK
  <2>2. j \in Jobs
    BY <2>1
  <2>3. wk'[w].pc = "ensure" /\ wk'[w].req = j.req /\ wk'[w].todo = j.todo
    BY <1>2 DEF Pop, TypeOK
  <2> HIDE DEF j
  <2>4. Len(j.todo) \in Nat \ {0}
    BY <1>2, <2>2, <2>3, TurnTyped
  <2>5. LeftFrom(wk'[w].todo, j, 1)
    BY <2>3, <2>4 DEF LeftFrom
  <2>6. Placed(w)'
    BY <2>2, <2>3, <2>5 DEF Placed
  <2> QED
    BY <1>2, <2>3, <2>6
<1>3. CASE v = w /\ wk[w].pc \notin {"idle", "ensure", "claim"} /\ Continue(w)
  <2>1. wk[w].req # None
    <3>1. wk \in [Workers -> Worker]
      BY DEF TypeOK
    <3> QED
      BY <1>3, <3>1 DEF Continue, Idle
  <2> QED
    BY <1>3, <2>1, ContinuePlaces
<1>4. CASE /\ v = w /\ SameJob(w) /\ ~At(w, "idle")
           /\ wk'[w].pc \in {"ensure", "claim"} \/ Claim(w) \/ wk[w].req = None
                 \/ wk[w].pc \notin {"ensure", "claim"}
  <2>1. wk[w].req # None /\ Pair(w)' = Pair(w) /\ Pair(w) \in Pairs
    BY <1>4, RowTyped DEF SameJob, Pair, Conn
  <2>2. Placed(w)'
    BY <1>4, <2>1, PlacedStays DEF PlaceInv, SameJob
  <2>3. CASE Claim(w)
    <3>1. PICK p \in claimed' : p[1] # None /\ Pair(w)' = p
      BY <2>1, <2>3, ClaimEffect DEF Pair
    <3>2. Settled(p)'
      BY <3>1 DEF ClaimedMeansRun, Settled, Claimant, Pair
    <3> QED
      BY <1>4, <2>2, <3>1, <3>2
  <2>4. CASE wk[w].pc \notin {"ensure", "claim"}
    <3>1. PICK p \in Pairs : p = Pair(w) /\ Settled(p) /\ Pair(w)' = p
      BY <1>4, <2>1, <2>4 DEF PlaceInv
    <3>2. Settled(p)'
      BY <3>1, SettledStays
    <3> QED
      BY <1>4, <2>2, <3>1, <3>2
  <2> QED
    BY <1>4, <2>1, <2>2, <2>3, <2>4
<1> QED
  BY <1>1, <1>2, <1>3, <1>4, JobMoves

LEMMA TurnStep ==
    ASSUME TypeOK, Named, NEW w \in Workers, Step(w), cut' = {},
           OneJobPerRequest, PlaceInv, TurnInv
    PROVE  TurnInv'
<1>o. OthersSame(w)
  BY StepMovesOne
<1> SUFFICES ASSUME NEW j \in Several,
                    NEW n \in 1..Len(j.todo), runs'[Turn(j, n)] > 0,
                    \A v \in Workers : ~On(v, j.req)'
             PROVE  \A i \in 1..Len(j.todo) : Settled(Turn(j, i))'
  BY DEF TurnInv
<1>j. j \in Jobs /\ j.req # None
  BY DEF Several
<1>1. ASSUME \A i \in 1..Len(j.todo) : Settled(Turn(j, i))
      PROVE  \A i \in 1..Len(j.todo) : Settled(Turn(j, i))'
  <2> SUFFICES ASSUME NEW i \in 1..Len(j.todo) PROVE Settled(Turn(j, i))'
    OBVIOUS
  <2> DEFINE p == Turn(j, i)
  <2>1. p \in Pairs /\ Settled(p)
    BY <1>1, <1>j, TurnTyped
  <2> HIDE DEF p
  <2>2. Settled(p)'
    BY <2>1, SettledStays
  <2> QED
    BY <2>2 DEF p
<1>2. \A v \in Workers : v # w => ~On(v, j.req)
  BY <1>o DEF OthersSame, On, At
<1>3. CASE ~On(w, j.req) /\ runs[Turn(j, n)] > 0
  BY <1>1, <1>2, <1>3 DEF TurnInv
<1>4. CASE ~On(w, j.req) /\ ~(runs[Turn(j, n)] > 0)
  <2>1. runs' # runs
    BY <1>4
  <2>2. SameJob(w) /\ At(w, "create") /\ runs' = OneMoreRun(w)
    BY <2>1, JobMoves, ShapeHolds DEF Shape
  <2>3. wk[w].req # j.req
    BY <1>4, <2>2 DEF On, At
  <2>4. Turn(j, n) \in Pairs /\ Turn(j, n) # Pair(w)
    BY <1>j, <2>3, TurnTyped DEF Turn, Pair
  <2>5. runs'[Turn(j, n)] = runs[Turn(j, n)]
    BY <2>2, <2>4, OneMoreTyped
  <2> QED
    BY <1>4, <2>5
<1>5. CASE On(w, j.req)
  <2>1. ~Pop(w) /\ ~(SameJob(w) /\ ~At(w, "idle")')
    BY <1>5 DEF On, SameJob, Pop
  <2>2. wk[w].pc \notin {"idle", "ensure", "claim"} /\ Continue(w) /\ wk[w].req # None
    BY <1>5, <1>j, <2>1, JobMoves DEF On
  <2>3. ~(~At(w, "idle")' /\ wk'[w].req = wk[w].req)
    BY <1>5 DEF On
  <2> QED
    BY <1>5, <2>2, <2>3, ContinuePlaces DEF On, OneJobPerRequest
<1> QED
  BY <1>3, <1>4, <1>5

LEMMA TriedKept ==
    OneJobPerRequest /\ TypeOK /\ Named /\ ClaimedMeansRun /\ TriedInv /\ [Next]_vars
        => TriedInv'
<1> SUFFICES ASSUME OneJobPerRequest, TypeOK, Named, ClaimedMeansRun, TriedInv, [Next]_vars,
                    faults' = 0
             PROVE  cut' = {} /\ PlaceInv' /\ TurnInv'
  BY DEF TriedInv
<1>1. TypeOK' /\ ClaimedMeansRun'
  BY TypeStep, MeansStep
<1>2. ASSUME NEW w \in Workers, Step(w) \/ Broken(w)
      PROVE  cut' = {} /\ PlaceInv' /\ TurnInv'
  <2>1. ~Fault
    BY FaultTyped
  <2>2. Step(w) /\ faults' = faults /\ cut' = cut
    BY <1>2, <2>1 DEF Broken, Stop, ClaimUnknown, LockUnknown, Caught, CatchThrows, Step, Pop,
              Ensure, Claim, Find, CreateRun, Acquire, Locked, Mark, Store, NoActivity,
              SyncFails, Settle, FailState, Leave, bounds
  <2>3. cut' = {} /\ PlaceInv /\ TurnInv
    BY <2>2 DEF TriedInv
  <2> QED
    BY <1>1, <2>2, <2>3, PlaceStep, TurnStep
<1>3. CASE UNCHANGED <<wk, runs, faults>> /\ cut' \subseteq cut
  BY <1>3 DEF TriedInv, PlaceInv, TurnInv, Placed, Settled, On, At, Claimant, Claimed, Pair, Conn
<1> QED
  BY <1>2, <1>3 DEF Next, Push, LockExpires, ClaimExpires, vars, tables, redis, bounds

(* As long as nothing fails, a request whose job has synchronised one      *)
(* provider has synchronised the others or a worker is still about it,     *)
(* whatever comes twice, is locked or goes wrong at a provider.            *)
THEOREM NoneIsSkipped == OneJobPerRequest => (Spec => []EveryProviderTried)
<1>1. Init => TriedInv /\ ClaimedMeansRun
  <2> SUFFICES ASSUME Init PROVE TriedInv /\ ClaimedMeansRun
    OBVIOUS
  <2>1. PlaceInv
    BY DEF Init, PlaceInv, At, Idle
  <2>2. TurnInv
    BY TurnTyped DEF Init, TurnInv, Several
  <2> QED
    BY <2>1, <2>2 DEF Init, TriedInv, ClaimedMeansRun
<1>2. TypeOK /\ TriedInv => EveryProviderTried
  <2> SUFFICES ASSUME TypeOK, TriedInv, faults = 0, NEW j \in Jobs, j.req # None,
                      NEW i \in 2..Len(j.todo), runs[<<j.req, j.todo[i - 1]>>] > 0,
                      \A w \in Workers : ~On(w, j.req)
               PROVE  runs[<<j.req, j.todo[i]>>] > 0
    BY DEF EveryProviderTried, On, At
  <2>0. j \in Several
    BY TurnTyped DEF Several
  <2>1. i \in 1..Len(j.todo) /\ i - 1 \in 1..Len(j.todo)
    BY TurnTyped
  <2>2. Settled(Turn(j, i))
    BY <2>0, <2>1 DEF TriedInv, TurnInv, Turn
  <2>3. ASSUME NEW v \in Workers, Claimant(v), Pair(v) = Turn(j, i) PROVE FALSE
    BY <2>3 DEF On, At, Claimant, Claimed, Pair, Turn
  <2> QED
    BY <2>2, <2>3 DEF Settled, Turn
<1>3. OneJobPerRequest /\ TypeOK /\ Named /\ ClaimedMeansRun /\ TriedInv /\ [Next]_vars
        => TriedInv' /\ ClaimedMeansRun' /\ TypeOK' /\ Named'
  BY TypeStep, MeansStep, TriedKept
<1>4. Init => TypeOK /\ Named
  BY Initially
<1> SUFFICES ASSUME OneJobPerRequest PROVE Spec => []EveryProviderTried
  OBVIOUS
<1>5. TypeOK /\ Named /\ ClaimedMeansRun /\ TriedInv /\ [Next]_vars
         => TriedInv' /\ ClaimedMeansRun' /\ TypeOK' /\ Named'
  BY <1>3
<1> QED
  BY <1>1, <1>2, <1>4, <1>5, PTL DEF Spec
=============================================================================
