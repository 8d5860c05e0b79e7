------------------------ MODULE DailyRefresh_proofs ------------------------
(***************************************************************************)
(* Proofs about DailyRefresh, for any number of workers, runs, days and    *)
(* faults, and for any registry without cycles (PlanAssumption).           *)
(*                                                                         *)
(* First the lock: every step is a step of Lease or leaves it alone.  Then *)
(* what the schedulers share through it, and what a run of the registry    *)
(* keeps on its own.                                                       *)
(***************************************************************************)
EXTENDS DailyRefresh, Lease_proofs, FiniteSetTheorems, TLAPS

LEMMA StepLeases == [Next]_vars => [LeaseNext]_leaseVars
<1> SUFFICES ASSUME [Next]_vars PROVE [LeaseNext]_leaseVars
  OBVIOUS
<1>0. Key \in Keys
  BY DailyAssumption
<1>1. CASE LeaseEnds
  BY <1>0, <1>1 DEF LeaseEnds, LeaseNext
<1>2. ASSUME NEW w \in Clients, Enter(w) \/ EnterUnknown(w)
      PROVE  LeaseNext
  BY <1>0, <1>2 DEF Enter, EnterUnknown, LeaseNext
<1>3. ASSUME NEW w \in Clients, Done(w)
      PROVE  LeaseNext
  <2>1. {w} \in SUBSET Clients
    OBVIOUS
  <2> QED
    BY <1>3, <2>1 DEF Done, LeaseNext
<1>4. ASSUME NEW w \in Clients, WorkerDies(w)
      PROVE  [LeaseNext]_leaseVars
  <2>1. {w} \in SUBSET Clients
    OBVIOUS
  <2> QED
    BY <1>4, <2>1 DEF WorkerDies, LeaseNext
<1>5. ASSUME NEW w \in Clients,
             \/ Tick(w) \/ Busy(w) \/ (\E s \in Slots : Post(w, s)) \/ PostFails(w)
             \/ Answered(w) \/ Cut(w)
      PROVE  UNCHANGED leaseVars
  BY <1>5 DEF Tick, Busy, Post, PostFails, Answered, Cut
<1>6. ASSUME NEW s \in Slots, Manual(s) \/ Api(s)
      PROVE  UNCHANGED leaseVars
  BY <1>6 DEF Manual, Api, Bar, Run, HardTimeout, Respond, Forget, Drained
<1>7. CASE TimePasses \/ ApiDies \/ UNCHANGED vars
  BY <1>7 DEF TimePasses, ApiDies, vars
<1> QED
  BY <1>1, <1>2, <1>3, <1>4, <1>5, <1>6, <1>7 DEF Next, Trigger

(* The schedulers use the lock as packages/redis means it.                 *)
THEOREM DailyImplementsLease == Spec => LeaseSpec
<1>1. Init => LeaseInit
  BY DEF Init
<1> QED
  BY <1>1, StepLeases, PTL DEF Spec, LeaseSpec

(* A trigger has its key until it releases it or its lease ends.           *)
THEOREM TriggerHolds == Spec => []HeldUnlessLapsed
  BY DailyImplementsLease, LeaseHolds, PTL
-----------------------------------------------------------------------------
Call == [pc : {"idle", "lock", "post", "wait", "release"}, day : 0..Days,
         run : Slots \cup {None}, done : BOOLEAN]
Record == [st : {"free", "on", "ok", "failed"}, sched : BOOLEAN,
           at : 1..Len(JobList) + 1, res : [Jobs -> Statuses], drains : SUBSET Raced]

(* Where a trigger holds the key.                                          *)
Holding == {"post", "wait", "release"}

Typed == TypeOK /\ HeldUnlessLapsed

LEMMA FreeTyped ==
    /\ Free \in Record /\ Free.st = "free" /\ Free.drains = {} /\ Free.at = 1
    /\ Free.res = NoResults
<1>1. Len(JobList) \in Nat
  BY PlanAssumption
<1> QED
  BY <1>1 DEF Free, Record, NoResults, Statuses

LEMMA InitTyped == Init => Typed
<1> SUFFICES ASSUME Init PROVE Typed
  OBVIOUS
<1>1. LeaseInv
  BY LeaseInitial DEF Init
<1>2. NoCall \in Call
  BY DailyAssumption DEF NoCall, Call
<1>5. \A w \in Clients : inside[w] = Key <=> wk[w].pc \in Holding
  BY DailyAssumption, LeaseAssumption DEF Init, LeaseInit, NoCall, Holding
<1>6. now \in 0..2 * Days /\ last \in [Clients -> 0..Days] /\ fired \in [1..Days -> Nat]
      /\ faults \in 0..MaxFaults
  BY DailyAssumption DEF Init
<1> QED
  BY <1>1, <1>2, <1>5, <1>6, FreeTyped DEF Init, TypeOK, Typed, LeaseInv, Call, Record, Holding

(* The job a run has come to.                                              *)
LEMMA JobTyped ==
    ASSUME TypeOK, NEW s \in Slots, ~Ends(s)
    PROVE  runs[s].at \in DOMAIN Plan /\ Job(s) \in Jobs /\ runs[s].at + 1 \in 1..Len(JobList) + 1
<1>1. runs[s].at \in 1..Len(JobList) + 1
  BY DEF TypeOK
<1>2. runs[s].at <= Len(Plan)
  BY <1>1, PlanAssumption DEF Ends
<1> QED
  BY <1>1, <1>2, PlanAssumption DEF Job

LEMMA SetTyped ==
    ASSUME TypeOK, NEW s \in Slots, ~Ends(s), NEW result \in Statuses
    PROVE  /\ Set(runs[s], result) \in Record
           /\ Set(runs[s], result).st = runs[s].st
           /\ Set(runs[s], result).sched = runs[s].sched
           /\ Set(runs[s], result).drains = runs[s].drains
           /\ Set(runs[s], result).at = runs[s].at + 1
           /\ Set(runs[s], result).res = [runs[s].res EXCEPT ![Job(s)] = result]
<1>1. runs[s] \in Record
  BY DEF TypeOK, Record
<1> QED
  BY <1>1, JobTyped DEF Set, Record, Job

(* What the API does to its runs.                                          *)
LEMMA RunsTyped ==
    ASSUME TypeOK, NEW s \in Slots, Manual(s) \/ Api(s)
    PROVE  /\ runs' \in [Slots -> Record]
           /\ UNCHANGED <<leaseVars, last, wk, enabled, calm, fired, now, faults>>
<1> USE DEF bounds
<1>0. runs \in [Slots -> Record]
  BY DEF TypeOK, Record
<1>1. CASE Manual(s)
  <2>1. [Free EXCEPT !.st = "on", !.sched = FALSE] \in Record
    BY FreeTyped DEF Record
  <2> QED
    BY <1>0, <1>1, <2>1 DEF Manual, Begin
<1>2. CASE Bar(s)
  BY <1>0, <1>2, SetTyped DEF Bar, Statuses
<1>3. CASE Run(s)
  <2>1. PICK result \in {"ok", "failed"} : runs' = [runs EXCEPT ![s] = Set(@, result)]
    BY <1>3 DEF Run
  <2>2. Set(runs[s], result) \in Record
    BY <1>3, SetTyped DEF Run, Statuses
  <2> QED
    BY <1>0, <1>3, <2>1, <2>2 DEF Run
<1>4. CASE HardTimeout(s)
  <2>1. Set(runs[s], TimeoutStatus) \in Record
    BY <1>4, SetTyped DEF HardTimeout, TimeoutStatus, Statuses
  <2>2. Job(s) \in Raced
    BY <1>4 DEF HardTimeout
  <2> DEFINE r == [Set(runs[s], TimeoutStatus) EXCEPT !.drains = @ \cup {Job(s)}]
  <2>3. r \in Record
    BY <2>1, <2>2 DEF Record
  <2>4. runs' = [runs EXCEPT ![s] = r]
    BY <1>4 DEF HardTimeout
  <2> HIDE DEF r
  <2> QED
    BY <1>0, <1>4, <2>3, <2>4 DEF HardTimeout
<1>5. CASE Respond(s)
  <2>1. [Free EXCEPT !.st = Answer(s), !.drains = runs[s].drains] \in Record
    BY <1>0, FreeTyped DEF Record, Answer
  <2> QED
    BY <1>0, <1>5, <2>1 DEF Respond
<1>6. CASE Forget(s)
  BY <1>0, <1>6, FreeTyped DEF Forget
<1>7. ASSUME NEW j \in Jobs, Drained(s, j)
      PROVE  runs' \in [Slots -> Record]
  <2>1. [runs[s] EXCEPT !.drains = @ \ {j}] \in Record
    BY <1>0 DEF Record
  <2> QED
    BY <1>0, <1>7, <2>1 DEF Drained
<1>8. UNCHANGED <<leaseVars, last, wk, enabled, calm, fired, now, faults>>
  BY DEF Manual, Api, Bar, Run, HardTimeout, Respond, Forget, Drained
<1> QED
  BY <1>1, <1>2, <1>3, <1>4, <1>5, <1>6, <1>7, <1>8 DEF Api

(* A worker's step, on the timer and after it.                             *)
Worker(w) == Tick(w) \/ Trigger(w) \/ EnterUnknown(w) \/ WorkerDies(w)

LEMMA WorkerTyped ==
    ASSUME TypeOK, NEW w \in Clients, Worker(w)
    PROVE  /\ wk' \in [Clients -> Call] /\ last' \in [Clients -> 0..Days]
           /\ \A v \in Clients \ {w} : wk'[v] = wk[v] /\ inside'[v] = inside[v]
           /\ inside'[w] = Key <=> wk'[w].pc \in Holding
           /\ UNCHANGED <<now, enabled>>
<1> USE DEF bounds, apiVars, leaseVars, At, Goto, Call, Holding, Dead
<1>0. /\ wk \in [Clients -> Call] /\ wk[w] \in Call
      /\ inside \in [Clients -> Keys \cup {None}]
      /\ inside[w] = Key <=> wk[w].pc \in Holding
      /\ last \in [Clients -> 0..Days]
      /\ Key # None /\ now \in 0..2 * Days
  BY DailyAssumption, LeaseAssumption DEF TypeOK, LeaseTypeOK
<1>1. NoCall \in Call /\ NoCall.pc \notin Holding
  BY DailyAssumption DEF NoCall
<1>2. CASE Tick(w)
  <2>1. Day \in 0..Days
    BY <1>0, <1>2, DailyAssumption DEF Tick, CronMinute, Day
  <2>2. [NoCall EXCEPT !.pc = "lock", !.day = Day] \in Call
    BY <2>1, <1>1
  <2> QED
    BY <1>0, <1>2, <2>2 DEF Tick, NoCall
<1>3. CASE Enter(w)
  BY <1>0, <1>3 DEF Enter, Acquire
<1>4. CASE Busy(w)
  BY <1>0, <1>1, <1>4 DEF Busy
<1>5. ASSUME NEW s \in Slots, Post(w, s)
      PROVE  /\ wk' \in [Clients -> Call] /\ last' \in [Clients -> 0..Days]
             /\ \A v \in Clients \ {w} : wk'[v] = wk[v] /\ inside'[v] = inside[v]
             /\ inside'[w] = Key <=> wk'[w].pc \in Holding
             /\ UNCHANGED <<now, enabled>>
  BY <1>0, <1>5 DEF Post, Awaited
<1>6. CASE PostFails(w)
  BY <1>0, <1>6 DEF PostFails
<1>7. CASE Answered(w) \/ Cut(w)
  BY <1>0, <1>7 DEF Answered, Cut
<1>8. CASE Done(w)
  <2>1. last' \in [Clients -> 0..Days]
    BY <1>0, <1>8 DEF Done, Kept
  <2> QED
    BY <1>0, <1>1, <1>8, <2>1 DEF Done, Release, Leave
<1>9. CASE EnterUnknown(w)
  BY <1>0, <1>1, <1>9, DailyAssumption DEF EnterUnknown, AcquireUnknown
<1>10. CASE WorkerDies(w)
  BY <1>0, <1>1, <1>10, DailyAssumption DEF WorkerDies, Leave
<1> QED
  BY <1>2, <1>3, <1>4, <1>5, <1>6, <1>7, <1>8, <1>9, <1>10 DEF Worker, Trigger

LEMMA WorkerElse ==
    ASSUME TypeOK, NEW w \in Clients, Worker(w)
    PROVE  /\ runs' \in [Slots -> Record] /\ fired' \in [1..Days -> Nat]
           /\ calm' \in BOOLEAN /\ faults' \in 0..MaxFaults
<1> USE DEF bounds, apiVars, Fault, Upset, Calm
<1>0. /\ runs \in [Slots -> Record] /\ fired \in [1..Days -> Nat]
      /\ calm \in BOOLEAN /\ faults \in 0..MaxFaults
      /\ wk[w].day \in 0..Days
  BY DEF TypeOK, Record
<1>1. [d \in 1..Days |-> 0] \in [1..Days -> Nat]
  OBVIOUS
<1>2. faults < MaxFaults /\ faults' = faults + 1 => faults' \in 0..MaxFaults
  BY <1>0, DailyAssumption
<1>3. ASSUME NEW s \in Slots, Post(w, s)
      PROVE  /\ runs' \in [Slots -> Record] /\ fired' \in [1..Days -> Nat]
             /\ calm' \in BOOLEAN /\ faults' \in 0..MaxFaults
  <2>1. [Free EXCEPT !.st = "on", !.sched = TRUE] \in Record
    BY FreeTyped DEF Record
  <2>2. runs' \in [Slots -> Record] /\ calm' \in BOOLEAN /\ faults' \in 0..MaxFaults
    BY <1>0, <1>3, <2>1 DEF Post, Begin
  <2>3. fired' \in [1..Days -> Nat]
    <3>1. \A d \in 1..Days : fired[d] + 1 \in Nat
      BY <1>0
    <3>2. fired' = fired \/ fired' = [fired EXCEPT ![wk[w].day] = @ + 1]
      BY <1>3 DEF Post
    <3> QED
      BY <1>0, <3>1, <3>2
  <2> QED
    BY <2>2, <2>3
<1>4. CASE Tick(w) \/ Enter(w) \/ Busy(w) \/ Answered(w)
  BY <1>0, <1>4 DEF Tick, Enter, Busy, Answered
<1>5. CASE PostFails(w) \/ Cut(w) \/ Done(w)
  BY <1>0, <1>1, <1>2, <1>5 DEF PostFails, Cut, Done
<1>6. CASE EnterUnknown(w) \/ WorkerDies(w)
  BY <1>0, <1>1, <1>2, <1>6 DEF EnterUnknown, WorkerDies, Dead
<1> QED
  BY <1>3, <1>4, <1>5, <1>6 DEF Worker, Trigger

LEMMA StepTyped == Typed /\ [Next]_vars => Typed'
<1> SUFFICES ASSUME Typed, [Next]_vars PROVE Typed'
  OBVIOUS
<1> USE DEF bounds, apiVars
<1>0. LeaseInv'
  BY StepLeases, LeaseInductive DEF Typed, TypeOK, LeaseInv
<1>t. TypeOK
  BY DEF Typed
<1>1. ASSUME NEW s \in Slots, Manual(s) \/ Api(s)
      PROVE  Typed'
  BY <1>0, <1>t, <1>1, RunsTyped DEF TypeOK, Typed, LeaseInv, Record, leaseVars
<1>2. ASSUME NEW w \in Clients, Worker(w)
      PROVE  Typed'
  <2>1. \A v \in Clients : inside'[v] = Key <=> wk'[v].pc \in Holding
    BY <1>t, <1>2, WorkerTyped DEF TypeOK, Holding
  <2>2. /\ wk' \in [Clients -> Call] /\ last' \in [Clients -> 0..Days]
        /\ UNCHANGED <<now, enabled>>
    BY <1>t, <1>2, WorkerTyped
  <2>3. /\ runs' \in [Slots -> Record] /\ fired' \in [1..Days -> Nat]
        /\ calm' \in BOOLEAN /\ faults' \in 0..MaxFaults
    BY <1>t, <1>2, WorkerElse
  <2> QED
    BY <1>0, <1>t, <2>1, <2>2, <2>3 DEF TypeOK, Typed, LeaseInv, Call, Record, Holding
<1>3. CASE TimePasses
  BY <1>0, <1>t, <1>3, DailyAssumption DEF TimePasses, TypeOK, Typed, LeaseInv, leaseVars
<1>4. CASE LeaseEnds
  <2>1. fired' \in [1..Days -> Nat] /\ calm' \in BOOLEAN
    <3>1. CASE Upset
      BY <3>1 DEF Upset
    <3>2. CASE Calm
      BY <1>t, <3>2 DEF Calm, TypeOK
    <3> QED
      BY <1>4, <3>1, <3>2 DEF LeaseEnds
  <2> QED
    BY <1>0, <1>t, <1>4, <2>1 DEF LeaseEnds, Expire, TypeOK, Typed, LeaseInv
<1>5. CASE ApiDies
  <2>1. faults \in 0..MaxFaults /\ faults < MaxFaults /\ faults' = faults + 1
    BY <1>t, <1>5 DEF ApiDies, Fault, TypeOK
  <2>2. runs' \in [Slots -> Record] /\ fired' \in [1..Days -> Nat] /\ calm' \in BOOLEAN
        /\ faults' \in 0..MaxFaults
    <3>1. runs' \in [Slots -> Record]
      BY <1>5, FreeTyped DEF ApiDies
    <3>2. fired' \in [1..Days -> Nat] /\ calm' \in BOOLEAN
      BY <1>5 DEF ApiDies, Upset
    <3>3. faults' \in 0..MaxFaults
      BY <2>1, DailyAssumption
    <3> QED
      BY <3>1, <3>2, <3>3
  <2>3. wk' \in [Clients -> Call] /\ \A w \in Clients : wk'[w].pc = wk[w].pc
    BY <1>t, <1>5 DEF ApiDies, TypeOK, Call
  <2> QED
    BY <1>0, <1>t, <1>5, <2>2, <2>3
       DEF ApiDies, TypeOK, Typed, LeaseInv, Call, Record, leaseVars
<1>6. CASE UNCHANGED vars
  BY <1>0, <1>t, <1>6 DEF vars, TypeOK, Typed, LeaseInv, leaseVars
<1> QED
  BY <1>1, <1>2, <1>3, <1>4, <1>5, <1>6 DEF Next, Worker

(* The schedulers, their triggers and the runs stay what they are.         *)
THEOREM TypeCorrect == Spec => []TypeOK
<1>1. Typed => TypeOK
  BY DEF Typed
<1> QED
  BY <1>1, InitTyped, StepTyped, PTL DEF Spec
-----------------------------------------------------------------------------
(* While all is calm a run of the schedule has its trigger waiting for it, *)
(* and a trigger that does not wait any more has had its answer.           *)
SchedInv ==
    calm =>
        /\ lapsed = {}
        /\ \A s \in Slots : On(s) /\ runs[s].sched =>
              \E w \in Clients : At(w, "wait") /\ wk[w].run = s
        /\ \A w \in Clients : At(w, "wait") => wk[w].run \in Slots
        /\ \A w \in Clients : At(w, "release") => wk[w].done

(* What a worker may do while all stays calm.                              *)
LEMMA CalmWorker ==
    ASSUME TypeOK, NEW w \in Clients, Worker(w), calm'
    PROVE  /\ calm
           /\ \/ Tick(w) \/ Enter(w) \/ Busy(w) \/ Answered(w)
              \/ \E s \in Slots : Post(w, s)
              \/ Cut(w) /\ (w \in lapsed \/ wk[w].run = None)
              \/ Done(w) /\ Release(w)
<1>1. CASE Tick(w) \/ Enter(w) \/ Busy(w) \/ Answered(w) \/ \E s \in Slots : Post(w, s)
  BY <1>1 DEF Tick, Enter, Busy, Answered, Post
<1>2. CASE Cut(w)
  BY <1>2 DEF Cut, Aborted, Calm, Upset
<1>3. CASE Done(w)
  BY <1>3 DEF Done, Calm, Upset
<1>4. ~(PostFails(w) \/ EnterUnknown(w) \/ WorkerDies(w))
  BY DEF PostFails, EnterUnknown, WorkerDies, Dead, Upset
<1> QED
  BY <1>1, <1>2, <1>3, <1>4 DEF Worker, Trigger

(* The API begins no run of the schedule by itself.                        *)
LEMMA ApiScheduled ==
    ASSUME TypeOK, NEW s \in Slots, Manual(s) \/ Api(s),
           NEW t \in Slots, On(t)', runs'[t].sched
    PROVE  On(t) /\ runs[t].sched
<1> USE DEF On
<1>0. runs \in [Slots -> Record]
  BY DEF TypeOK, Record
<1>1. CASE Manual(s)
  BY <1>0, <1>1, FreeTyped DEF Manual, Begin, Record
<1>2. ASSUME Bar(s) \/ Run(s) \/ HardTimeout(s)
      PROVE  t # s \/ (On(t) /\ runs[t].sched)
  <2>1. \A result \in Statuses : Set(runs[s], result).sched = runs[s].sched
    BY <1>2, SetTyped DEF Bar, Run, HardTimeout
  <2>2. On(s)
    BY <1>2 DEF Bar, Run, HardTimeout
  <2>3. CASE Bar(s)
    BY <1>0, <2>1, <2>2, <2>3 DEF Bar, Statuses
  <2>4. CASE Run(s)
    BY <1>0, <2>1, <2>2, <2>4 DEF Run, Statuses
  <2>5. CASE HardTimeout(s)
    <3>1. Set(runs[s], TimeoutStatus) \in Record
      BY <2>5, SetTyped DEF HardTimeout, Statuses, TimeoutStatus
    <3> QED
      BY <1>0, <2>1, <2>2, <2>5, <3>1 DEF HardTimeout, Statuses, TimeoutStatus, Record
  <2> QED
    BY <1>2, <2>3, <2>4, <2>5
<1>3. \A u \in Slots \ {s} : runs'[u] = runs[u]
  BY <1>0 DEF Manual, Begin, Api, Bar, Run, HardTimeout, Respond, Forget, Drained
<1>4. ASSUME Respond(s) \/ Forget(s)
      PROVE  t # s
  <2>1. Answer(s) # "on"
    BY DEF Answer
  <2>2. [Free EXCEPT !.st = Answer(s), !.drains = runs[s].drains].st = Answer(s)
    BY FreeTyped DEF Record
  <2>3. CASE Respond(s)
    BY <1>0, <2>1, <2>2, <2>3 DEF Respond
  <2>4. CASE Forget(s)
    BY <1>0, <2>4, FreeTyped DEF Forget
  <2> QED
    BY <1>4, <2>3, <2>4
<1>5. ASSUME NEW j \in Jobs, Drained(s, j)
      PROVE  t # s \/ (On(t) /\ runs[t].sched)
  BY <1>0, <1>5 DEF Drained, Record
<1> QED
  BY <1>1, <1>2, <1>3, <1>4, <1>5 DEF Api

LEMMA SchedInit == Init => SchedInv
  BY FreeTyped DEF Init, LeaseInit, SchedInv, On, At, NoCall

LEMMA SchedStep == Typed /\ SchedInv /\ [Next]_vars => SchedInv'
<1> SUFFICES ASSUME Typed, SchedInv, [Next]_vars, calm' PROVE SchedInv'
  BY DEF SchedInv
<1>0. /\ TypeOK /\ runs \in [Slots -> Record] /\ wk \in [Clients -> Call]
      /\ None \notin Slots
  BY DailyAssumption DEF Typed, TypeOK, Record, Call
<1>1. ASSUME NEW s \in Slots, Manual(s) \/ Api(s)
      PROVE  SchedInv'
  BY <1>0, <1>1, RunsTyped, ApiScheduled DEF SchedInv, On, At, leaseVars
<1>2. ASSUME NEW w \in Clients, Worker(w)
      PROVE  SchedInv'
  <2>0. calm /\ lapsed = {}
    BY <1>0, <1>2, CalmWorker DEF SchedInv
  <2>1. CASE Tick(w) \/ Enter(w) \/ Busy(w)
    <3>1. /\ runs' = runs /\ lapsed' = lapsed
          /\ ~At(w, "wait") /\ wk'[w].pc \notin {"wait", "release"}
          /\ \A v \in Clients \ {w} : wk'[v] = wk[v]
      <4> USE DEF At, Goto, Call, NoCall, apiVars, leaseVars
      <4>1. CASE Tick(w)
        BY <1>0, <4>1 DEF Tick
      <4>2. CASE Enter(w)
        BY <1>0, <4>2 DEF Enter, Acquire
      <4>3. CASE Busy(w)
        BY <1>0, <4>3 DEF Busy
      <4> QED
        BY <2>1, <4>1, <4>2, <4>3
    <3> QED
      BY <2>0, <3>1 DEF SchedInv, On, At
  <2>2. ASSUME NEW s \in Slots, Post(w, s)
        PROVE  SchedInv'
    <3>1. /\ wk'[w].pc = "wait" /\ wk'[w].run = s /\ ~At(w, "wait")
          /\ \A v \in Clients \ {w} : wk'[v] = wk[v]
          /\ \A t \in Slots \ {s} : runs'[t] = runs[t]
          /\ lapsed' = lapsed
      BY <1>0, <2>2 DEF Post, Awaited, Begin, At, Call, leaseVars
    <3> QED
      BY <2>0, <3>1 DEF SchedInv, On, At
  <2>3. CASE Answered(w)
    <3>1. /\ wk'[w].pc = "release" /\ wk'[w].done
          /\ \A v \in Clients \ {w} : wk'[v] = wk[v]
          /\ runs' = runs /\ lapsed' = lapsed /\ ~On(wk[w].run)
      BY <1>0, <2>3 DEF Answered, Call, apiVars, leaseVars, On
    <3> QED
      BY <2>0, <3>1 DEF SchedInv, On, At
  <2>4. ~(Cut(w) /\ (w \in lapsed \/ wk[w].run = None))
    BY <1>0, <2>0 DEF Cut, SchedInv
  <2>5. CASE Done(w) /\ Release(w)
    <3>1. /\ wk'[w].pc = "idle" /\ ~At(w, "wait") /\ runs' = runs /\ lapsed' = {}
          /\ \A v \in Clients \ {w} : wk'[v] = wk[v]
      BY <1>0, <2>0, <2>5 DEF Done, Release, NoCall, Call, apiVars, At
    <3> QED
      BY <2>0, <3>1 DEF SchedInv, On, At
  <2> QED
    BY <1>0, <1>2, <2>1, <2>2, <2>3, <2>4, <2>5, CalmWorker
<1>3. CASE TimePasses \/ UNCHANGED vars
  BY <1>3 DEF TimePasses, vars, apiVars, leaseVars, SchedInv, On, At
<1>4. CASE LeaseEnds
  BY <1>4 DEF LeaseEnds, Upset, Calm, apiVars, SchedInv, On, At
<1>5. ~ApiDies
  BY DEF ApiDies, Upset
<1> QED
  BY <1>1, <1>2, <1>3, <1>4, <1>5 DEF Next, Worker

(* As long as no lease ends under a trigger and nothing fails, the runs of *)
(* the schedule come one at a time, however many workers there are.        *)
THEOREM OneAtATime == Spec => []OneScheduledRunAtATime
<1>1. Typed /\ SchedInv => OneScheduledRunAtATime
  <2> SUFFICES ASSUME Typed, SchedInv, calm, NEW s \in Slots, NEW t \in Slots,
                      On(s), On(t), runs[s].sched, runs[t].sched
               PROVE  s = t
    BY DEF OneScheduledRunAtATime
  <2>1. PICK v \in Clients : At(v, "wait") /\ wk[v].run = s
    BY DEF SchedInv
  <2>2. PICK w \in Clients : At(w, "wait") /\ wk[w].run = t
    BY DEF SchedInv
  <2>3. inside[v] = Key /\ inside[w] = Key /\ Key # None /\ lapsed = {}
    BY <2>1, <2>2, DailyAssumption, LeaseAssumption DEF Typed, TypeOK, At, SchedInv
  <2>4. holder[Key] = v /\ holder[Key] = w
    BY <2>3 DEF Typed, HeldUnlessLapsed
  <2> QED
    BY <2>1, <2>2, <2>4
<1> QED
  BY <1>1, InitTyped, StepTyped, SchedInit, SchedStep, PTL DEF Spec
-----------------------------------------------------------------------------
(* A worker that is at a day has not had it, nor a later one.              *)
DayInv ==
    \A w \in Clients :
        /\ last[w] <= Day /\ wk[w].day <= Day
        /\ ~At(w, "idle") => wk[w].day \in 1..Days /\ last[w] < wk[w].day

LEMMA DayTyped ==
    ASSUME TypeOK
    PROVE  Day \in Nat /\ (CronMinute => Day \in 1..Days)
<1>1. now \in Nat /\ now <= 2 * Days /\ Days \in Nat
  BY DailyAssumption DEF TypeOK
<1>2. Day \in Nat
  BY <1>1 DEF Day
<1>3. ASSUME CronMinute PROVE Day \in 1..Days
  <2>1. now % 2 = 1
    BY <1>3 DEF CronMinute
  <2>2. now = 2 * (now \div 2) + 1 /\ now \div 2 \in Nat
    BY <1>1, <2>1
  <2>3. (now + 1) \div 2 = (now \div 2) + 1
    BY <1>1, <2>1, <2>2
  <2> QED
    BY <1>1, <2>2, <2>3 DEF Day
<1> QED
  BY <1>2, <1>3

LEMMA DayInit == Init => DayInv
  BY DEF Init, DayInv, Day, At, NoCall

LEMMA DayStep == Typed /\ DayInv /\ [Next]_vars => DayInv'
<1> SUFFICES ASSUME Typed, DayInv, [Next]_vars PROVE DayInv'
  OBVIOUS
<1>0. /\ TypeOK /\ wk \in [Clients -> Call] /\ last \in [Clients -> 0..Days]
      /\ Day \in Nat /\ now \in Nat /\ Days \in Nat
  BY DayTyped, DailyAssumption DEF Typed, TypeOK, Call
<1>1. ASSUME NEW s \in Slots, Manual(s) \/ Api(s)
      PROVE  DayInv'
  BY <1>0, <1>1, RunsTyped DEF DayInv, Day, At
<1>2. ASSUME NEW w \in Clients, Worker(w)
      PROVE  DayInv'
  <2>1. /\ \A v \in Clients \ {w} : wk'[v] = wk[v] /\ last'[v] = last[v]
        /\ Day' = Day
    <3>1. \A v \in Clients \ {w} : last'[v] = last[v]
      BY <1>0, <1>2 DEF Worker, Trigger, Tick, Enter, Busy, Post, PostFails, Answered, Cut,
                        Done, Kept, EnterUnknown, WorkerDies, Dead
    <3> QED
      BY <1>0, <1>2, <3>1, WorkerTyped DEF Day
  <2>2. CASE Tick(w)
    <3>1. Day \in 1..Days /\ last[w] # Day
      BY <1>0, <2>2, DayTyped DEF Tick
    <3>2. wk'[w].day = Day /\ last'[w] = last[w]
      BY <1>0, <2>2 DEF Tick, NoCall
    <3>3. last[w] \in Nat /\ last[w] <= Day
      BY <1>0 DEF DayInv
    <3> QED
      BY <1>0, <2>1, <3>1, <3>2, <3>3 DEF DayInv, At
  <2>3. CASE Enter(w) \/ PostFails(w) \/ Answered(w) \/ Cut(w) \/ \E s \in Slots : Post(w, s)
    <3>1. wk'[w].day = wk[w].day /\ last'[w] = last[w] /\ ~At(w, "idle")
      BY <1>0, <2>3 DEF Enter, PostFails, Answered, Cut, Post, Awaited, Goto, At, Call
    <3> QED
      BY <1>0, <2>1, <3>1 DEF DayInv, At
  <2>4. CASE Busy(w) \/ Done(w) \/ EnterUnknown(w) \/ WorkerDies(w)
    <3>1. wk'[w] = NoCall /\ last'[w] \in {0, last[w], wk[w].day}
      BY <1>0, <2>4 DEF Busy, Done, Kept, EnterUnknown, WorkerDies, Dead
    <3> QED
      BY <1>0, <2>1, <3>1 DEF DayInv, At, NoCall
  <2> QED
    BY <1>2, <2>2, <2>3, <2>4 DEF Worker, Trigger
<1>3. CASE TimePasses
  <2>1. Day' \in Nat /\ Day <= Day'
    BY <1>0, <1>3 DEF TimePasses, Day
  <2>2. wk' = wk /\ last' = last
    BY <1>3 DEF TimePasses
  <2>3. \A w \in Clients : last[w] \in Nat /\ wk[w].day \in Nat
    BY <1>0 DEF Call
  <2> QED
    BY <1>0, <2>1, <2>2, <2>3 DEF DayInv, At
<1>4. CASE LeaseEnds \/ UNCHANGED vars
  BY <1>4 DEF LeaseEnds, vars, bounds, DayInv, Day, At
<1>5. CASE ApiDies
  <2>1. last' = last /\ Day' = Day
        /\ \A w \in Clients : wk'[w].pc = wk[w].pc /\ wk'[w].day = wk[w].day
    BY <1>0, <1>5 DEF ApiDies, Day, Call
  <2> QED
    BY <2>1 DEF DayInv, At
<1> QED
  BY <1>1, <1>2, <1>3, <1>4, <1>5 DEF Next, Worker

(* The workers that have fired a day, or a later one.                      *)
Used(d) == {w \in Clients : last[w] >= d \/ (wk[w].pc \in {"wait", "release"} /\ wk[w].day >= d)}

FiredInv == calm => \A d \in 1..Days : fired[d] <= Cardinality(Used(d))

LEMMA UsedFinite ==
    \A d \in 1..Days : IsFiniteSet(Used(d)) /\ Cardinality(Used(d)) \in Nat
                       /\ Cardinality(Used(d)) <= Cardinality(Clients)
  BY DailyAssumption, FS_Subset, FS_CardinalityType DEF Used

LEMMA FiredInit == Init => FiredInv
  BY UsedFinite DEF Init, FiredInv

(* Nothing fires, and no worker forgets.                                   *)
LEMMA FiredKept ==
    ASSUME TypeOK, FiredInv, calm' => calm /\ fired' = fired,
           calm' => \A d \in 1..Days : Used(d) \subseteq Used(d)'
    PROVE  FiredInv'
<1> SUFFICES ASSUME calm', NEW d \in 1..Days PROVE fired'[d] <= Cardinality(Used(d)')
  BY DEF FiredInv
<1>1. Used(d) \subseteq Used(d)' /\ IsFiniteSet(Used(d)')
  BY DailyAssumption, FS_Subset DEF Used
<1>2. Cardinality(Used(d)) <= Cardinality(Used(d)') /\ Cardinality(Used(d)') \in Nat
  BY <1>1, FS_Subset, FS_CardinalityType
<1>3. Cardinality(Used(d)) \in Nat /\ fired[d] \in Nat /\ fired[d] <= Cardinality(Used(d))
  BY UsedFinite DEF FiredInv, TypeOK
<1> QED
  BY <1>2, <1>3

LEMMA FiredPost ==
    ASSUME Typed, SchedInv, DayInv, FiredInv, NEW w \in Clients, NEW s \in Slots, Post(w, s)
    PROVE  FiredInv'
<1> SUFFICES ASSUME calm', NEW d \in 1..Days PROVE fired'[d] <= Cardinality(Used(d)')
  BY DEF FiredInv
<1> DEFINE day == wk[w].day
<1>0. /\ wk \in [Clients -> Call] /\ last \in [Clients -> 0..Days] /\ fired \in [1..Days -> Nat]
      /\ calm /\ At(w, "post") /\ last' = last
      /\ wk' = [wk EXCEPT ![w] = Awaited(w, s)]
      /\ fired' = [fired EXCEPT ![day] = @ + 1]
  BY DEF Typed, TypeOK, Call, Post
<1>1. day \in 1..Days /\ last[w] < day
  BY <1>0 DEF DayInv, At
<1>2. wk'[w].pc = "wait" /\ wk'[w].day = day /\ \A v \in Clients \ {w} : wk'[v] = wk[v]
  BY <1>0 DEF Awaited, Call
<1>3. fired[d] \in Nat /\ fired[d] <= Cardinality(Used(d)) /\ Cardinality(Used(d)) \in Nat
      /\ IsFiniteSet(Used(d))
  BY <1>0, UsedFinite DEF FiredInv
<1>4. last[w] \in Nat /\ d \in Nat /\ day \in Nat
  BY <1>0, <1>1
<1>5. CASE d <= day
  <2>1. Used(d)' = Used(d) \cup {w}
    BY <1>0, <1>2, <1>4, <1>5 DEF Used, At
  <2>2. CASE w \in Used(d)
    <3>1. Used(d)' = Used(d)
      BY <2>1, <2>2
    <3>2. d # day
      BY <1>0, <1>1, <1>4, <2>2 DEF Used, At
    <3> QED
      BY <1>0, <1>1, <1>3, <3>1, <3>2
  <2>3. CASE w \notin Used(d)
    <3>1. Cardinality(Used(d)') = Cardinality(Used(d)) + 1
      BY <1>3, <2>1, <2>3, FS_AddElement
    <3>2. fired'[d] <= fired[d] + 1
      BY <1>0, <1>1, <1>3
    <3>3. fired'[d] \in Nat
      BY <1>0, <1>1, <1>3
    <3> QED
      BY <1>3, <3>1, <3>2, <3>3
  <2> QED
    BY <2>2, <2>3
<1>6. CASE ~(d <= day)
  <2>1. Used(d)' = Used(d)
    BY <1>0, <1>1, <1>2, <1>4, <1>6 DEF Used, At
  <2>2. fired'[d] = fired[d]
    BY <1>0, <1>1, <1>4, <1>6
  <2> QED
    BY <1>3, <2>1, <2>2
<1> QED
  BY <1>5, <1>6

LEMMA FiredStep == Typed /\ SchedInv /\ DayInv /\ FiredInv /\ [Next]_vars => FiredInv'
<1> SUFFICES ASSUME Typed, SchedInv, DayInv, FiredInv, [Next]_vars PROVE FiredInv'
  OBVIOUS
<1>0. /\ TypeOK /\ wk \in [Clients -> Call] /\ last \in [Clients -> 0..Days]
  BY DEF Typed, TypeOK, Call
<1>1. ASSUME NEW s \in Slots, Manual(s) \/ Api(s)
      PROVE  FiredInv'
  BY <1>0, <1>1, RunsTyped DEF FiredInv, Used
<1>2. ASSUME NEW w \in Clients, Worker(w)
      PROVE  FiredInv'
  <2>1. CASE \E s \in Slots : Post(w, s)
    BY <2>1, FiredPost
  <2>2. CASE \A s \in Slots : ~Post(w, s)
    <3>1. SUFFICES ASSUME calm'
                   PROVE  calm /\ fired' = fired /\ \A d \in 1..Days : Used(d) \subseteq Used(d)'
      BY <1>0, FiredKept
    <3>2. calm /\ \/ Tick(w) \/ Enter(w) \/ Busy(w) \/ Answered(w)
                  \/ Cut(w) /\ (w \in lapsed \/ wk[w].run = None)
                  \/ Done(w) /\ Release(w)
      BY <1>0, <1>2, <2>2, <3>1, CalmWorker
    <3>3. ~(Cut(w) /\ (w \in lapsed \/ wk[w].run = None))
      BY <3>2, DailyAssumption DEF Cut, SchedInv
    <3>4. CASE Tick(w) \/ Enter(w) \/ Busy(w)
      <4>1. /\ last' = last /\ fired' = fired /\ wk[w].pc \notin {"wait", "release"}
            /\ \A v \in Clients \ {w} : wk'[v] = wk[v]
        BY <1>0, <3>4 DEF Tick, Enter, Busy, At, Goto
      <4> QED
        BY <3>2, <4>1 DEF Used
    <3>5. CASE Answered(w)
      <4>1. /\ last' = last /\ fired' = fired
            /\ wk'[w].pc = "release" /\ wk'[w].day = wk[w].day
            /\ \A v \in Clients \ {w} : wk'[v] = wk[v]
        BY <1>0, <3>5 DEF Answered, Call
      <4> QED
        BY <3>2, <4>1 DEF Used
    <3>6. CASE Done(w) /\ Release(w)
      <4>1. At(w, "release") /\ wk[w].done
        BY <3>2, <3>6 DEF Done, SchedInv
      <4>2. /\ last' = [last EXCEPT ![w] = wk[w].day] /\ fired' = fired
            /\ \A v \in Clients \ {w} : wk'[v] = wk[v]
        <5>1. fired' = fired
          BY <3>1, <3>6 DEF Done, Calm, Upset
        <5> QED
          BY <1>0, <3>6, <4>1, <5>1 DEF Done, Kept
      <4>3. last[w] < wk[w].day /\ last[w] \in Nat /\ wk[w].day \in Nat
        BY <1>0, <4>1 DEF DayInv, At, Call
      <4> QED
        BY <1>0, <3>2, <4>2, <4>3 DEF Used
    <3> QED
      BY <3>2, <3>3, <3>4, <3>5, <3>6
  <2> QED
    BY <2>1, <2>2
<1>3. CASE TimePasses \/ UNCHANGED vars
  BY <1>0, <1>3, FiredKept DEF TimePasses, vars, Used
<1>4. CASE LeaseEnds
  BY <1>0, <1>4, FiredKept DEF LeaseEnds, Upset, Calm, Used
<1>5. CASE ApiDies
  BY <1>5 DEF ApiDies, Upset, FiredInv
<1> QED
  BY <1>1, <1>2, <1>3, <1>4, <1>5 DEF Next, Worker

(* What has been fired is forgotten once all is not calm.                  *)
Forgotten == ~calm => \A d \in 1..Days : fired[d] = 0

LEMMA ForgottenStep == Forgotten /\ [Next]_vars => Forgotten'
<1> SUFFICES ASSUME Forgotten, [Next]_vars PROVE Forgotten'
  OBVIOUS
<1> USE DEF Forgotten
<1>1. ASSUME Upset \/ UNCHANGED <<calm, fired>>
      PROVE  Forgotten'
  BY <1>1 DEF Upset
<1>2. ASSUME NEW s \in Slots, Manual(s) \/ Api(s)
      PROVE  Forgotten'
  BY <1>1, <1>2 DEF Manual, Api, Bar, Run, HardTimeout, Respond, Forget, Drained
<1>3. ASSUME NEW w \in Clients, NEW s \in Slots, Post(w, s)
      PROVE  Forgotten'
  BY <1>3 DEF Post
<1>4. ASSUME NEW w \in Clients, Worker(w), \A s \in Slots : ~Post(w, s)
      PROVE  Forgotten'
  BY <1>1, <1>4 DEF Worker, Trigger, Tick, Enter, Busy, PostFails, Answered, Cut, Done, Calm,
                    EnterUnknown, WorkerDies, Dead
<1>5. CASE TimePasses \/ LeaseEnds \/ ApiDies \/ UNCHANGED vars
  BY <1>1, <1>5 DEF TimePasses, LeaseEnds, ApiDies, Calm, vars
<1> QED
  BY <1>2, <1>3, <1>4, <1>5 DEF Next, Worker

(* As long as all is calm a day begins no more runs than there are workers.*)
THEOREM OncePerWorker == Spec => []OneRunPerWorkerAndDay
<1>1. Typed /\ FiredInv /\ Forgotten => OneRunPerWorkerAndDay
  <2> SUFFICES ASSUME Typed, FiredInv, Forgotten, NEW d \in 1..Days
               PROVE  fired[d] <= Cardinality(Clients)
    BY DEF OneRunPerWorkerAndDay
  <2>1. Cardinality(Used(d)) \in Nat /\ Cardinality(Used(d)) <= Cardinality(Clients)
        /\ Cardinality(Clients) \in Nat /\ fired[d] \in Nat
    BY UsedFinite, DailyAssumption, FS_CardinalityType DEF Typed, TypeOK
  <2> QED
    BY <2>1 DEF FiredInv, Forgotten
<1>2. Init => Forgotten
  BY DEF Init, Forgotten
<1> QED
  BY <1>1, <1>2, ForgottenStep, InitTyped, StepTyped, SchedInit, SchedStep, DayInit, DayStep, FiredInit, FiredStep,
     PTL DEF Spec
-----------------------------------------------------------------------------
(* A run: work it has left behind belongs to jobs that failed; jobs have   *)
(* results up to where it is; and one that was run is enabled and had what *)
(* it depends on.                                                          *)
Left(r) == \A j \in r.drains : r.res[j] = "failed"
Reached(r) == \A i \in DOMAIN Plan : r.res[Plan[i]] = "none" <=> i >= r.at
Ready(r) ==
    \A j \in Jobs : r.res[j] \in {"ok", "failed"} =>
        /\ j \in enabled
        /\ \A d \in ToSet(Deps[j]) : d \in enabled /\ r.res[d] = "ok"

Sound(r) ==
    /\ r.st \in {"free", "ok"} => r.drains = {}
    /\ r.st # "on" => r.res = NoResults
    /\ r.st = "on" => Left(r) /\ Reached(r) /\ Ready(r)

RunInv == \A s \in Slots : Sound(runs[s])

LEMMA DepsAreJobs == \A j \in Jobs : ToSet(Deps[j]) \subseteq Jobs
  BY DailyAssumption DEF ToSet

LEMMA BegunSound ==
    ASSUME NEW sched \in BOOLEAN
    PROVE  Sound([Free EXCEPT !.st = "on", !.sched = sched])
<1>1. \A i \in DOMAIN Plan : Plan[i] \in Jobs /\ i >= 1
  BY PlanAssumption
<1>2. Free.res = [j \in Jobs |-> "none"] /\ Free.at = 1 /\ Free.drains = {} /\ Free \in Record
  BY FreeTyped DEF Free, NoResults
<1> QED
  BY <1>1, <1>2 DEF Sound, Left, Reached, Ready, Record

(* The next job gets its result.                                           *)
LEMMA JobSound ==
    ASSUME TypeOK, NEW s \in Slots, On(s), ~Ends(s), Sound(runs[s]),
           NEW result \in {"ok", "failed", "barred"}, result # "barred" => ~Barred(s),
           NEW r \in Record, r.st = "on", r.at = runs[s].at + 1,
           r.res = [runs[s].res EXCEPT ![Job(s)] = result],
           r.drains = runs[s].drains
             \/ (result = "failed" /\ r.drains = runs[s].drains \cup {Job(s)})
    PROVE  Sound(r)
<1> DEFINE q == runs[s]
           j == Job(s)
<1>0. /\ q \in Record /\ q.at \in DOMAIN Plan /\ j = Plan[q.at] /\ j \in Jobs
      /\ Left(q) /\ Reached(q) /\ Ready(q)
  BY JobTyped DEF TypeOK, Record, On, Sound, Job
<1>1. /\ q.res \in [Jobs -> Statuses] /\ q.drains \subseteq Jobs /\ q.at \in Nat
      /\ q.res[j] = "none" /\ r.res[j] = result
      /\ \A k \in Jobs \ {j} : r.res[k] = q.res[k]
  <2>1. q.res \in [Jobs -> Statuses] /\ q.drains \subseteq Jobs
    BY <1>0, DailyAssumption DEF Record
  <2>2. q.at \in Nat
    BY <1>0, PlanAssumption
  <2> QED
    BY <1>0, <2>1, <2>2 DEF Reached
<1>2. Left(r)
  BY <1>0, <1>1 DEF Left
<1>3. Reached(r)
  <2> SUFFICES ASSUME NEW i \in DOMAIN Plan
               PROVE  r.res[Plan[i]] = "none" <=> i >= r.at
    BY DEF Reached
  <2>1. i \in Nat /\ Plan[i] \in Jobs
    BY PlanAssumption
  <2>2. CASE i = q.at
    BY <1>0, <1>1, <2>1, <2>2
  <2>3. CASE i # q.at
    <3>1. Plan[i] # j
      BY <1>0, <2>3, PlanAssumption
    <3>2. r.res[Plan[i]] = q.res[Plan[i]]
      BY <1>1, <2>1, <3>1
    <3> QED
      BY <1>0, <1>1, <2>1, <2>3, <3>2 DEF Reached
  <2> QED
    BY <2>2, <2>3
<1>4. Ready(r)
  <2> SUFFICES ASSUME NEW k \in Jobs, r.res[k] \in {"ok", "failed"}
               PROVE  k \in enabled /\ \A d \in ToSet(Deps[k]) : d \in enabled /\ r.res[d] = "ok"
    BY DEF Ready
  <2>1. CASE k # j
    <3>1. k \in enabled /\ \A d \in ToSet(Deps[k]) : d \in enabled /\ q.res[d] = "ok"
      BY <1>0, <1>1, <2>1 DEF Ready
    <3> QED
      BY <1>1, <3>1, DepsAreJobs
  <2>2. CASE k = j
    <3>1. j \in enabled /\ \A d \in ToSet(Deps[j]) : q.res[d] \notin {"failed", "barred"}
      BY <1>1, <2>2 DEF Barred, Blocking
    <3>2. SUFFICES ASSUME NEW d \in ToSet(Deps[j])
                   PROVE  d \in enabled /\ r.res[d] = "ok"
      BY <2>2, <3>1
    <3>3. PICK i \in 1..(q.at - 1) : Plan[i] = d
      BY <1>0, PlanAssumption
    <3>4. i \in DOMAIN Plan /\ ~(i >= q.at)
      BY <1>0, <1>1, PlanAssumption
    <3>5. d \in Jobs /\ q.res[d] # "none"
      BY <1>0, <3>3, <3>4, DepsAreJobs DEF Reached
    <3>6. q.res[d] = "ok"
      BY <1>1, <3>1, <3>5 DEF Statuses
    <3>7. d # j
      BY <1>1, <3>5
    <3> QED
      BY <1>0, <1>1, <3>5, <3>6, <3>7 DEF Ready
  <2> QED
    BY <2>1, <2>2
<1> QED
  BY <1>2, <1>3, <1>4 DEF Sound

LEMMA ApiSound ==
    ASSUME TypeOK, RunInv, NEW s \in Slots, Manual(s) \/ Api(s)
    PROVE  \A t \in Slots : Sound(runs'[t])
<1>0. runs \in [Slots -> Record] /\ \A t \in Slots : Sound(runs[t])
  BY DEF TypeOK, Record, RunInv
<1>1. \A u \in Slots \ {s} : runs'[u] = runs[u]
  BY <1>0 DEF Manual, Begin, Api, Bar, Run, HardTimeout, Respond, Forget, Drained
<1>2. SUFFICES Sound(runs'[s])
  BY <1>0, <1>1
<1>3. CASE Manual(s)
  BY <1>0, <1>3, BegunSound DEF Manual, Begin
<1>4. ASSUME NEW result \in {"ok", "failed", "barred"}, result # "barred" => ~Barred(s),
             On(s), ~Ends(s), runs' = [runs EXCEPT ![s] = Set(runs[s], result)]
      PROVE  Sound(runs'[s])
  <2>1. /\ Set(runs[s], result) \in Record /\ Set(runs[s], result).st = "on"
        /\ Set(runs[s], result).at = runs[s].at + 1
        /\ Set(runs[s], result).res = [runs[s].res EXCEPT ![Job(s)] = result]
        /\ Set(runs[s], result).drains = runs[s].drains
    BY <1>4, SetTyped DEF On, Statuses
  <2> QED
    BY <1>0, <1>4, <2>1, JobSound
<1>5. CASE Bar(s)
  BY <1>4, <1>5 DEF Bar
<1>6. CASE Run(s)
  BY <1>4, <1>6 DEF Run
<1>7. CASE HardTimeout(s)
  <2> DEFINE q == Set(runs[s], "failed")
             r == [q EXCEPT !.drains = @ \cup {Job(s)}]
  <2>1. /\ q \in Record /\ q.st = "on" /\ q.at = runs[s].at + 1
        /\ q.res = [runs[s].res EXCEPT ![Job(s)] = "failed"]
        /\ q.drains = runs[s].drains
    BY <1>7, SetTyped DEF HardTimeout, On, Statuses
  <2>2. runs'[s] = r /\ Job(s) \in Raced
    BY <1>0, <1>7 DEF HardTimeout, TimeoutStatus
  <2> HIDE DEF q
  <2>3. /\ r \in Record /\ r.st = q.st /\ r.at = q.at /\ r.res = q.res
        /\ r.drains = q.drains \cup {Job(s)}
    BY <2>1, <2>2 DEF Record
  <2> HIDE DEF r
  <2>4. On(s) /\ ~Ends(s) /\ ~Barred(s)
    BY <1>7 DEF HardTimeout
  <2> QED
    BY <1>0, <2>1, <2>2, <2>3, <2>4, JobSound
<1>8. CASE Respond(s)
  <2>1. On(s) /\ Left(runs[s]) /\ runs[s].drains \subseteq Jobs
    BY <1>0, <1>8, DailyAssumption DEF Respond, On, Sound, Record
  <2>2. Answer(s) = "ok" => runs[s].drains = {}
    BY <2>1 DEF Answer, Left
  <2>3. runs'[s].st = Answer(s) /\ runs'[s].drains = runs[s].drains /\ runs'[s].res = NoResults
    BY <1>0, <1>8, FreeTyped DEF Respond, Record
  <2>4. Answer(s) \in {"ok", "failed"}
    BY DEF Answer
  <2> QED
    BY <2>2, <2>3, <2>4 DEF Sound
<1>9. CASE Forget(s)
  BY <1>0, <1>9, FreeTyped DEF Forget, Sound
<1>10. ASSUME NEW j \in Jobs, Drained(s, j)
       PROVE  Sound(runs'[s])
  <2>1. /\ runs'[s].drains = runs[s].drains \ {j} /\ runs'[s].st = runs[s].st
        /\ runs'[s].at = runs[s].at /\ runs'[s].res = runs[s].res
    BY <1>0, <1>10 DEF Drained, Record
  <2> QED
    BY <1>0, <2>1 DEF Sound, Left, Reached, Ready
<1> QED
  BY <1>3, <1>5, <1>6, <1>7, <1>8, <1>9, <1>10 DEF Api

LEMMA RunInit == Init => RunInv
  BY FreeTyped DEF Init, RunInv, Sound

LEMMA RunStep == TypeOK /\ RunInv /\ [Next]_vars => RunInv'
<1> SUFFICES ASSUME TypeOK, RunInv, [Next]_vars PROVE RunInv'
  OBVIOUS
<1>0. runs \in [Slots -> Record]
  BY DEF TypeOK, Record
<1>1. SUFFICES enabled' = enabled /\ \A t \in Slots : Sound(runs'[t])
  BY DEF RunInv, Sound, Left, Reached, Ready
<1>2. ASSUME NEW s \in Slots, Manual(s) \/ Api(s)
      PROVE  enabled' = enabled /\ \A t \in Slots : Sound(runs'[t])
  BY <1>2, RunsTyped, ApiSound
<1>3. ASSUME NEW w \in Clients, NEW s \in Slots, Post(w, s)
      PROVE  enabled' = enabled /\ \A t \in Slots : Sound(runs'[t])
  BY <1>0, <1>3, BegunSound DEF Post, Begin, RunInv
<1>4. ASSUME NEW w \in Clients, Worker(w), \A s \in Slots : ~Post(w, s)
      PROVE  UNCHANGED apiVars
  BY <1>4 DEF Worker, Trigger, Tick, Enter, Busy, PostFails, Answered, Cut, Done,
              EnterUnknown, WorkerDies, Dead, apiVars
<1>5. CASE TimePasses \/ LeaseEnds \/ UNCHANGED vars
  BY <1>5 DEF TimePasses, LeaseEnds, vars, apiVars, RunInv
<1>6. CASE ApiDies
  BY <1>6, FreeTyped DEF ApiDies, Sound
<1> QED
  BY <1>2, <1>3, <1>4, <1>5, <1>6 DEF Next, Worker, apiVars, RunInv

(* A job that was run had all it depends on done before it, directly or    *)
(* not: the jobs that are enabled and ok are closed under dependency.      *)
THEOREM DependenciesFirst == Spec => []DependenciesHold
<1>1. TypeOK /\ RunInv => DependenciesHold
  <2> SUFFICES ASSUME TypeOK, RunInv, NEW s \in Slots, On(s), NEW j \in Jobs,
                      runs[s].res[j] \in {"ok", "failed"}, NEW d \in Needs[j]
               PROVE  d \in enabled /\ runs[s].res[d] = "ok"
    BY DEF DependenciesHold
  <2> DEFINE S == {k \in Jobs : k \in enabled /\ runs[s].res[k] = "ok"}
  <2>1. Ready(runs[s])
    BY DEF RunInv, Sound, On
  <2>2. Closed(S) /\ ToSet(Deps[j]) \subseteq S
    BY <2>1, DepsAreJobs DEF Ready, Closed
  <2>3. S \in SUBSET Jobs
    OBVIOUS
  <2>4. d \in S
    BY <2>2, <2>3 DEF Needs
  <2> QED
    BY <2>4
<1>2. Typed => TypeOK
  BY DEF Typed
<1> QED
  BY <1>1, <1>2, InitTyped, StepTyped, RunInit, RunStep, PTL DEF Spec

(* A run that is answered with ok has left no work behind.                 *)
THEOREM OkIsDone == Spec => []OkMeansDone
<1>1. RunInv => OkMeansDone
  BY DEF RunInv, Sound, OkMeansDone
<1>2. Typed => TypeOK
  BY DEF Typed
<1> QED
  BY <1>1, <1>2, InitTyped, StepTyped, RunInit, RunStep, PTL DEF Spec

-----------------------------------------------------------------------------
(* The registry implements JobGraph: the plan's order, with the look at    *)
(* the direct dependencies, never runs a job before all it needs, bars no  *)
(* job without a reason, and leaves none without a result.                 *)

(* What a step makes of one run, seen as JobGraph sees it.                 *)
Where == [t \in Slots |-> runs[t].st]
Results == [t \in Slots |-> runs[t].res]
AtWork == [t \in Slots |-> runs[t].drains]

LEMMA OneRun ==
    ASSUME runs \in [Slots -> Record], NEW s \in Slots, NEW r,
           runs' = [runs EXCEPT ![s] = r]
    PROVE  /\ Where' = [Where EXCEPT ![s] = r.st]
           /\ Results' = [Results EXCEPT ![s] = r.res]
           /\ AtWork' = [AtWork EXCEPT ![s] = r.drains]
  BY DEF Where, Results, AtWork

LEMMA SameWhere ==
    ASSUME runs \in [Slots -> Record], NEW s \in Slots, NEW r,
           runs' = [runs EXCEPT ![s] = r], r.st = runs[s].st
    PROVE  Where' = Where
  BY DEF Where

LEMMA SameResults ==
    ASSUME runs \in [Slots -> Record], NEW s \in Slots, NEW r,
           runs' = [runs EXCEPT ![s] = r], r.res = runs[s].res
    PROVE  Results' = Results
  BY DEF Results

LEMMA SameWork ==
    ASSUME runs \in [Slots -> Record], NEW s \in Slots, NEW r,
           runs' = [runs EXCEPT ![s] = r], r.drains = runs[s].drains
    PROVE  AtWork' = AtWork
  BY DEF AtWork

(* What a job needs is done once what it depends on is, in a run that is   *)
(* sound so far: the jobs that are done are closed under dependency.       *)
LEMMA NeedsDone ==
    ASSUME NEW r \in Record, Ready(r), NEW j \in Jobs,
           \A d \in ToSet(Deps[j]) : d \in enabled /\ r.res[d] = "ok"
    PROVE  \A d \in Needs[j] : r.res[d] = "ok"
<1> DEFINE S == {k \in Jobs : k \in enabled /\ r.res[k] = "ok"}
<1>1. Closed(S) /\ ToSet(Deps[j]) \subseteq S
  BY DepsAreJobs DEF Ready, Closed
<1>2. S \in SUBSET Jobs
  OBVIOUS
<1> QED
  BY <1>1, <1>2 DEF Needs

LEMMA DirectNeeds == \A j \in Jobs : ToSet(Deps[j]) \subseteq Needs[j]
  BY DepsAreJobs DEF Needs

(* The job a run has come to may be run, or is barred, as JobGraph says.   *)
LEMMA NextJob ==
    ASSUME TypeOK, RunInv, NEW s \in Slots, On(s), ~Ends(s)
    PROVE  /\ Job(s) \in Jobs /\ runs[s].res[Job(s)] = "none"
           /\ ~Barred(s) => /\ Job(s) \in enabled
                            /\ \A d \in Needs[Job(s)] : runs[s].res[d] = "ok"
           /\ Barred(s) => \/ Job(s) \notin enabled
                           \/ \E d \in Needs[Job(s)] : runs[s].res[d] \in {"failed", "barred"}
<1> DEFINE q == runs[s]
           j == Job(s)
<1>0. /\ q \in Record /\ q.at \in DOMAIN Plan /\ j = Plan[q.at] /\ j \in Jobs
      /\ Reached(q) /\ Ready(q)
  BY JobTyped DEF TypeOK, Record, On, RunInv, Sound, Job
<1>1. /\ q.res \in [Jobs -> Statuses] /\ q.at \in Nat /\ q.res[j] = "none"
  BY <1>0, PlanAssumption DEF Record, Reached
<1>2. ASSUME ~Barred(s)
      PROVE  j \in enabled /\ \A d \in Needs[j] : q.res[d] = "ok"
  <2>1. j \in enabled /\ \A d \in ToSet(Deps[j]) : q.res[d] \notin {"failed", "barred"}
    BY <1>2 DEF Barred, Blocking
  <2>2. ASSUME NEW d \in ToSet(Deps[j])
        PROVE  d \in enabled /\ q.res[d] = "ok"
    <3>1. PICK i \in 1..(q.at - 1) : Plan[i] = d
      BY <1>0, PlanAssumption
    <3>2. i \in DOMAIN Plan /\ ~(i >= q.at)
      BY <1>0, <1>1, PlanAssumption
    <3>3. d \in Jobs /\ q.res[d] # "none"
      BY <1>0, <3>1, <3>2, DepsAreJobs DEF Reached
    <3>4. q.res[d] = "ok"
      BY <1>1, <2>1, <3>3 DEF Statuses
    <3> QED
      BY <1>0, <3>3, <3>4 DEF Ready
  <2> QED
    BY <1>0, <2>1, <2>2, NeedsDone
<1>3. ASSUME Barred(s)
      PROVE  j \notin enabled \/ \E d \in Needs[j] : q.res[d] \in {"failed", "barred"}
  BY <1>0, <1>3, DirectNeeds DEF Barred, Blocking
<1> QED
  BY <1>0, <1>1, <1>2, <1>3

(* The plan leaves no job out: it has as many as the list, and none twice. *)
LEMMA PlanHasAll == \A j \in Jobs : \E i \in DOMAIN Plan : Plan[i] = j
<1> DEFINE n == Len(JobList)
<1>1. /\ n \in Nat /\ DOMAIN JobList = 1..n /\ JobList \in [1..n -> Jobs]
      /\ DOMAIN Plan = 1..n /\ Plan \in [1..n -> Jobs]
  BY DailyAssumption, PlanAssumption
<1>2. IsFiniteSet(1..n)
  BY <1>1, FS_Interval
<1>3. JobList \in Surjection(1..n, Jobs)
  BY <1>1 DEF Surjection, Jobs
<1>4. IsFiniteSet(Jobs) /\ Cardinality(Jobs) <= Cardinality(1..n)
  BY <1>2, <1>3, FS_Surjection
<1>5. Plan \in Injection(1..n, Jobs)
  BY <1>1, PlanAssumption DEF Injection, IsInjective
<1>6. /\ Cardinality(1..n) <= Cardinality(Jobs)
      /\ Cardinality(1..n) = Cardinality(Jobs) <=> Plan \in Surjection(1..n, Jobs)
  BY <1>4, <1>5, FS_Injection
<1>7. Cardinality(1..n) \in Nat /\ Cardinality(Jobs) \in Nat
  BY <1>2, <1>4, FS_CardinalityType
<1>8. Plan \in Surjection(1..n, Jobs)
  BY <1>4, <1>6, <1>7
<1> QED
  BY <1>1, <1>8 DEF Surjection

(* The job a run has come to gets its result in JobGraph.                  *)
LEMMA ResultSettles ==
    ASSUME TypeOK, RunInv, NEW s \in Slots, On(s), ~Ends(s), NEW j, j = Job(s), NEW v,
           NEW r, r.st = "on", r.res = [runs[s].res EXCEPT ![j] = v],
           runs' = [runs EXCEPT ![s] = r]
    PROVE  j \in G!Pending(s) /\ G!Settled(s, j, v)
<1>0. /\ runs \in [Slots -> Record] /\ runs[s].st = "on"
      /\ j \in Jobs /\ runs[s].res[j] = "none"
  BY NextJob DEF TypeOK, Record, On
<1>1. Results' = [Results EXCEPT ![s] = r.res] /\ Where' = Where
  BY <1>0, OneRun, SameWhere
<1>2. Results' = [Results EXCEPT ![s][j] = v]
  BY <1>0, <1>1 DEF Results
<1>3. j \in G!Pending(s)
  BY <1>0 DEF G!Pending
<1> QED
  BY <1>1, <1>2, <1>3 DEF G!Settled, Results, Where

LEMMA ApiKeepsGraph ==
    ASSUME TypeOK, RunInv, NEW s \in Slots, Api(s)
    PROVE  G!GraphNext
<1>0. /\ runs \in [Slots -> Record] /\ runs[s] \in Record /\ Sound(runs[s])
      /\ UNCHANGED enabled
  BY RunsTyped DEF TypeOK, Record, RunInv, Api, Bar, Run, HardTimeout, Respond, Forget, Drained
<1> SUFFICES G!RunStep(s)
  BY <1>0 DEF G!GraphNext
<1>1. ASSUME On(s), ~Ends(s), NEW v \in {"ok", "failed", "barred"},
             runs' = [runs EXCEPT ![s] = Set(runs[s], v)],
             NEW j, j = Job(s)
      PROVE  j \in G!Pending(s) /\ G!Settled(s, j, v) /\ AtWork' = AtWork
  <2> DEFINE r == Set(runs[s], v)
  <2>1. r.st = "on" /\ r.res = [runs[s].res EXCEPT ![j] = v] /\ r.drains = runs[s].drains
    BY <1>1, SetTyped DEF On, Statuses
  <2>2. runs' = [runs EXCEPT ![s] = r]
    BY <1>1
  <2> HIDE DEF r
  <2> QED
    BY <1>0, <1>1, <2>1, <2>2, ResultSettles, SameWork
<1>2. CASE Bar(s)
  <2>1. On(s) /\ ~Ends(s) /\ Barred(s) /\ runs' = [runs EXCEPT ![s] = Set(runs[s], "barred")]
    BY <1>2 DEF Bar
  <2>2. PICK j : j = Job(s)
    OBVIOUS
  <2>3. j \in G!Pending(s) /\ G!Settled(s, j, "barred") /\ AtWork' = AtWork
    BY <1>1, <2>1, <2>2
  <2>4. G!Bar(s, j)
    BY <2>1, <2>2, <2>3, NextJob DEF G!Bar, AtWork
  <2> QED
    BY <2>3, <2>4 DEF G!RunStep
<1>3. CASE Run(s)
  <2>1. PICK v \in {"ok", "failed"} : runs' = [runs EXCEPT ![s] = Set(runs[s], v)]
    BY <1>3 DEF Run
  <2>2. On(s) /\ ~Ends(s) /\ ~Barred(s)
    BY <1>3 DEF Run
  <2>3. PICK j : j = Job(s)
    OBVIOUS
  <2>4. j \in G!Pending(s) /\ G!Settled(s, j, v) /\ AtWork' = AtWork
    BY <1>1, <2>1, <2>2, <2>3
  <2>5. G!Ready(s, j)
    BY <2>2, <2>3, NextJob DEF G!Ready
  <2>6. G!Work(s, j)
    BY <2>4, <2>5 DEF G!Work, AtWork
  <2> QED
    BY <2>4, <2>6 DEF G!RunStep
<1>4. CASE HardTimeout(s)
  <2>1. On(s) /\ ~Ends(s) /\ ~Barred(s) /\ Job(s) \in Raced
    BY <1>4 DEF HardTimeout
  <2>2. PICK j : j = Job(s)
    OBVIOUS
  <2> DEFINE q == Set(runs[s], "failed")
             r == [q EXCEPT !.drains = @ \cup {j}]
  <2>3. /\ q \in Record /\ q.st = "on"
        /\ q.res = [runs[s].res EXCEPT ![j] = "failed"]
        /\ q.drains = runs[s].drains
    BY <2>1, <2>2, SetTyped DEF On, Statuses
  <2>4. runs' = [runs EXCEPT ![s] = r]
    BY <1>4, <2>2 DEF HardTimeout, TimeoutStatus
  <2> HIDE DEF q
  <2>5. r.st = "on" /\ r.res = q.res /\ r.drains = q.drains \cup {j}
    BY <2>3 DEF Record
  <2> HIDE DEF r
  <2>6. j \in G!Pending(s) /\ G!Settled(s, j, "failed")
    BY <2>1, <2>2, <2>3, <2>4, <2>5, ResultSettles
  <2>7. AtWork' = [AtWork EXCEPT ![s] = @ \cup {j}]
    <3>1. AtWork' = [AtWork EXCEPT ![s] = r.drains]
      BY <1>0, <2>4, OneRun
    <3>2. r.drains = AtWork[s] \cup {j}
      BY <2>3, <2>5 DEF AtWork
    <3> QED
      BY <3>1, <3>2
  <2>8. G!Ready(s, j)
    BY <2>1, <2>2, NextJob DEF G!Ready
  <2>9. G!GiveUp(s, j)
    BY <2>1, <2>2, <2>6, <2>7, <2>8 DEF G!GiveUp, AtWork
  <2> QED
    BY <2>6, <2>9 DEF G!RunStep
<1>5. CASE Respond(s)
  <2> DEFINE r == [Free EXCEPT !.st = Answer(s), !.drains = runs[s].drains]
  <2>1. On(s) /\ Ends(s) /\ runs' = [runs EXCEPT ![s] = r] /\ runs[s].st = "on"
    BY <1>5 DEF Respond, On
  <2>2. r.st = Answer(s) /\ r.res = NoResults /\ r.drains = runs[s].drains
    BY FreeTyped DEF Free
  <2> HIDE DEF r
  <2>3. /\ Where' = [Where EXCEPT ![s] = Answer(s)]
        /\ Results' = [Results EXCEPT ![s] = NoResults] /\ AtWork' = AtWork
    <3>1. Where' = [Where EXCEPT ![s] = r.st] /\ Results' = [Results EXCEPT ![s] = r.res]
      BY <1>0, <2>1, OneRun
    <3>2. AtWork' = AtWork
      BY <1>0, <2>1, <2>2, SameWork
    <3> QED
      BY <2>2, <3>1, <3>2
  <2>4. \A j \in Jobs : runs[s].res[j] # "none"
    <3> SUFFICES ASSUME NEW j \in Jobs PROVE runs[s].res[j] # "none"
      OBVIOUS
    <3>1. PICK i \in DOMAIN Plan : Plan[i] = j
      BY PlanHasAll
    <3>2. ~(i >= runs[s].at)
      BY <1>0, <2>1, PlanAssumption DEF Ends, Record
    <3> QED
      BY <1>0, <2>1, <3>1, <3>2 DEF Sound, Reached
  <2>5. G!Close(s)
    BY <2>1, <2>3, <2>4
       DEF G!Close, G!NoResult, NoResults, Answer, Where, Results, AtWork
  <2> QED
    BY <2>5 DEF G!RunStep
<1>6. CASE Forget(s)
  <2>1. runs' = [runs EXCEPT ![s] = Free] /\ runs[s].st \in {"ok", "failed"} /\ runs[s].drains = {}
    BY <1>6 DEF Forget
  <2>2. /\ Where' = [Where EXCEPT ![s] = "free"]
        /\ Results' = Results /\ AtWork' = AtWork
    <3>1. Where' = [Where EXCEPT ![s] = Free.st]
      BY <1>0, <2>1, OneRun
    <3>2. Free.res = runs[s].res /\ Free.drains = runs[s].drains /\ Free.st = "free"
      BY <1>0, <2>1, FreeTyped DEF Sound
    <3>3. Results' = Results
      BY <1>0, <2>1, <3>2, SameResults
    <3>4. AtWork' = AtWork
      BY <1>0, <2>1, <3>2, SameWork
    <3> QED
      BY <3>1, <3>2, <3>3, <3>4
  <2>3. G!Forget(s)
    BY <2>1, <2>2 DEF G!Forget, Where, Results, AtWork
  <2> QED
    BY <2>3 DEF G!RunStep
<1>7. ASSUME NEW j \in Jobs, Drained(s, j)
      PROVE  G!RunStep(s)
  <2> DEFINE r == [runs[s] EXCEPT !.drains = @ \ {j}]
  <2>1. j \in runs[s].drains /\ runs' = [runs EXCEPT ![s] = r]
    BY <1>0, <1>7 DEF Drained
  <2>2. r.st = runs[s].st /\ r.res = runs[s].res /\ r.drains = AtWork[s] \ {j}
    BY <1>0 DEF AtWork, Record
  <2> HIDE DEF r
  <2>3. Where' = Where /\ Results' = Results /\ AtWork' = [AtWork EXCEPT ![s] = r.drains]
    BY <1>0, <2>1, <2>2, OneRun, SameWhere, SameResults
  <2>4. AtWork' = [AtWork EXCEPT ![s] = @ \ {j}]
    BY <2>2, <2>3
  <2>5. G!WorkEnds(s, j)
    BY <2>3, <2>4 DEF G!WorkEnds, Where, Results, AtWork
  <2> QED
    BY <2>1, <2>5 DEF G!RunStep
<1> QED
  BY <1>2, <1>3, <1>4, <1>5, <1>6, <1>7 DEF Api

(* A request, of the schedule or of an admin, opens a run.                 *)
LEMMA BeginOpens ==
    ASSUME TypeOK, NEW s \in Slots, NEW sched \in BOOLEAN, Begin(s, sched), UNCHANGED enabled
    PROVE  G!GraphNext
<1> DEFINE r == [Free EXCEPT !.st = "on", !.sched = sched]
<1>1. /\ runs \in [Slots -> Record] /\ runs[s] = Free /\ runs' = [runs EXCEPT ![s] = r]
  BY DEF TypeOK, Record, Begin
<1>2. r.st = "on" /\ r.res = Free.res /\ r.drains = Free.drains
  BY DEF Free
<1> HIDE DEF r
<1>3. Where' = [Where EXCEPT ![s] = "on"] /\ Results' = Results /\ AtWork' = AtWork
  <2>1. Where' = [Where EXCEPT ![s] = r.st]
    BY <1>1, OneRun
  <2>2. Results' = Results
    BY <1>1, <1>2, SameResults
  <2>3. AtWork' = AtWork
    BY <1>1, <1>2, SameWork
  <2> QED
    BY <1>2, <2>1, <2>2, <2>3
<1>4. G!Open(s)
  BY <1>1, <1>3, FreeTyped DEF G!Open, Where, Results, AtWork
<1> QED
  BY <1>4 DEF G!GraphNext, G!RunStep

LEMMA RegistryStep == TypeOK /\ RunInv /\ [Next]_vars => [G!GraphNext]_(G!graphVars)
<1> SUFFICES ASSUME TypeOK, RunInv, [Next]_vars PROVE [G!GraphNext]_(G!graphVars)
  OBVIOUS
<1>1. ASSUME NEW s \in Slots, Api(s)
      PROVE  G!GraphNext
  BY <1>1, ApiKeepsGraph
<1>2. ASSUME NEW s \in Slots, Manual(s)
      PROVE  G!GraphNext
  BY <1>2, BeginOpens DEF Manual
<1>3. ASSUME NEW w \in Clients, NEW s \in Slots, Post(w, s)
      PROVE  G!GraphNext
  BY <1>3, BeginOpens DEF Post
<1>4. ASSUME NEW w \in Clients, Worker(w), \A s \in Slots : ~Post(w, s)
      PROVE  UNCHANGED apiVars
  BY <1>4 DEF Worker, Trigger, Tick, Enter, Busy, PostFails, Answered, Cut, Done,
              EnterUnknown, WorkerDies, Dead, apiVars
<1>5. CASE TimePasses \/ LeaseEnds \/ UNCHANGED vars
  BY <1>5 DEF TimePasses, LeaseEnds, vars, apiVars, G!graphVars
<1>6. CASE ApiDies
  <2>1. G!Lose
    BY <1>6 DEF ApiDies, Free, NoResults, G!Lose, G!Fresh, G!NoResult
  <2> QED
    BY <1>6, <2>1 DEF ApiDies, G!GraphNext
<1>7. UNCHANGED apiVars => UNCHANGED G!graphVars
  BY DEF apiVars, G!graphVars
<1> QED
  BY <1>1, <1>2, <1>3, <1>4, <1>5, <1>6, <1>7 DEF Next, Worker

(* The registry implements JobGraph: no job is run before all it needs, in *)
(* the plan's order and with the look at the direct dependencies only;     *)
(* none is barred without a reason; and an answer leaves none out.         *)
THEOREM RegistryImplementsGraph == Spec => RegistryKept
<1>1. Init => G!GraphInit
  BY DailyAssumption DEF Init, Free, NoResults, G!GraphInit, G!Fresh, G!NoResult
<1>2. Typed => TypeOK
  BY DEF Typed
<1> QED
  BY <1>1, <1>2, InitTyped, StepTyped, RunInit, RunStep, RegistryStep,
     PTL DEF Spec, RegistryKept, G!GraphSpec
=============================================================================
