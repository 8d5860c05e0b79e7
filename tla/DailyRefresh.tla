---------------------------- MODULE DailyRefresh ----------------------------
(***************************************************************************)
(* The daily intelligence run: the schedulers of the workers, one lock,    *)
(* and the refresh registry of the API that runs the jobs in dependency    *)
(* order.  Code: daily-intelligence-scheduler.ts (apps/worker), refresh.ts *)
(* and refresh-registry.ts (apps/api), over the lock of module Lease: a    *)
(* worker is `inside` while its trigger holds the key.                     *)
(*                                                                         *)
(* One run kind (its cron, its key); the other kind has its own.  What a   *)
(* job does is left out, and so is the recovery of stale rows before a run *)
(* (module ManualOperation has the sweep).                                 *)
(***************************************************************************)
EXTENDS Lease, Naturals, Sequences, FiniteSets, SequencesExt

CONSTANTS Key,       \* the lock key of the run kind
          Slots,     \* bound: runs the API holds at a time
          JobList,   \* the registry's jobs, in its order
          Deps,      \* their dependencies, in order
          Enablings, \* sets of jobs the configuration may enable
          Raced,     \* jobs whose runner races a hard timeout
          Days,      \* bound: days
          MaxFaults  \* bound: processes that die and calls that fail

Jobs == {JobList[i] : i \in DOMAIN JobList}

ASSUME DailyAssumption ==
    /\ Keys = {Key}
    /\ None \notin Slots /\ IsFiniteSet(Clients)
    /\ JobList \in Seq(Jobs) /\ Deps \in [Jobs -> Seq(Jobs)]
    /\ Enablings # {} /\ \A e \in Enablings : e \subseteq Jobs
    /\ Raced \subseteq Jobs
    /\ Days \in Nat /\ MaxFaults \in Nat

VARIABLES
    now,     \* odd: a minute the cron names, on day (now + 1) \div 2
    last,    \* lastTriggered...Key of each worker
    wk,      \* each worker's trigger; its key is pending unless it is idle
    enabled, \* the configuration
    runs,    \* runs of POST /ops/refresh/all in the API
    calm,    \* history: no lease has ended under a trigger, nothing has failed
    fired,   \* history: runs the schedule of a day has begun while calm
    faults

apiVars == <<enabled, runs>>
bounds == <<now, faults>>
vars == <<leaseVars, last, wk, apiVars, calm, fired, bounds>>

Day == (now + 1) \div 2
CronMinute == now % 2 = 1
-----------------------------------------------------------------------------
(* getExecutionPlan: depth first from every job of the list.               *)
Visit[ordered \in Seq(Jobs), job \in Jobs] ==
    IF job \in ToSet(ordered)
    THEN ordered
    ELSE Append(FoldLeft(LAMBDA o, d : Visit[o, d], ordered, Deps[job]), job)
Plan == FoldLeft(LAMBDA o, j : Visit[o, j], <<>>, JobList)

(* The registry has no cycle: the plan has every job once, after those it  *)
(* depends on.                                                             *)
ASSUME PlanAssumption ==
    /\ Plan \in Seq(Jobs) /\ Len(Plan) = Len(JobList)
    /\ \A i, k \in DOMAIN Plan : Plan[i] = Plan[k] => i = k
    /\ \A i \in DOMAIN Plan : \A d \in ToSet(Deps[Plan[i]]) :
           \E k \in 1..(i - 1) : Plan[k] = d

(* A job's status as runAll tells them apart: "ok" is success, queued,     *)
(* running, skipped or partial, "failed" is failed or timed_out, "barred"  *)
(* is skipped_disabled or skipped_dependency_failed.                       *)
Statuses == {"none", "ok", "failed", "barred"}

NoResults == [j \in Jobs |-> "none"]
Free == [st |-> "free", sched |-> FALSE, at |-> 1, res |-> NoResults, drains |-> {}]
NoCall == [pc |-> "idle", day |-> 0, run |-> None, done |-> FALSE]

TypeOK ==
    /\ LeaseTypeOK
    /\ now \in 0..2 * Days
    /\ last \in [Clients -> 0..Days]
    /\ wk \in [Clients -> [pc : {"idle", "lock", "post", "wait", "release"}, day : 0..Days,
                           run : Slots \cup {None}, done : BOOLEAN]]
    /\ \A w \in Clients : inside[w] = Key <=> wk[w].pc \in {"post", "wait", "release"}
    /\ enabled \in Enablings
    /\ runs \in [Slots -> [st : {"free", "on", "ok", "failed"}, sched : BOOLEAN,
                           at : 1..Len(JobList) + 1, res : [Jobs -> Statuses],
                           drains : SUBSET Raced]]
    /\ fired \in [1..Days -> Nat]
    /\ calm \in BOOLEAN
    /\ faults \in 0..MaxFaults

Init ==
    /\ LeaseInit
    /\ now = 0
    /\ last = [w \in Clients |-> 0]
    /\ wk = [w \in Clients |-> NoCall]
    /\ enabled \in Enablings
    /\ runs = [s \in Slots |-> Free]
    /\ fired = [d \in 1..Days |-> 0]
    /\ calm = TRUE
    /\ faults = 0

At(w, p) == wk[w].pc = p
Goto(w, p) == wk' = [wk EXCEPT ![w].pc = p]
Fault == faults < MaxFaults /\ faults' = faults + 1

(* The history is kept as long as all is calm.                             *)
Upset == calm' = FALSE /\ fired' = [d \in 1..Days |-> 0]
Calm == UNCHANGED <<calm, fired>>

TimePasses ==
    /\ now < 2 * Days
    /\ now' = now + 1
    /\ UNCHANGED <<leaseVars, last, wk, apiVars, calm, fired, faults>>
-----------------------------------------------------------------------------
(* runSchedulerTick, on its timer or as the worker starts; a minute may    *)
(* see several ticks or none.                                              *)
Tick(w) ==
    /\ At(w, "idle")
    /\ CronMinute /\ last[w] # Day
    /\ wk' = [wk EXCEPT ![w] = [NoCall EXCEPT !.pc = "lock", !.day = Day]]
    /\ UNCHANGED <<leaseVars, last, apiVars, calm, fired, bounds>>

(* withRedisLock *)
Enter(w) ==
    /\ At(w, "lock")
    /\ Acquire(w, Key)
    /\ Goto(w, "post")
    /\ UNCHANGED <<last, apiVars, calm, fired, bounds>>

Busy(w) ==
    /\ At(w, "lock")
    /\ holder[Key] # None
    /\ wk' = [wk EXCEPT ![w] = NoCall]
    /\ UNCHANGED <<leaseVars, last, apiVars, calm, fired, bounds>>

(* The request reaches the API: a run begins.                              *)
Begin(s, sched) ==
    /\ runs[s] = Free
    /\ runs' = [runs EXCEPT ![s] = [Free EXCEPT !.st = "on", !.sched = sched]]

(* (Mutant of the trigger: it does not await the answer.)                  *)
AwaitedMutant(w, s) == [wk[w] EXCEPT !.pc = "release", !.done = TRUE]
Awaited(w, s) == [wk[w] EXCEPT !.pc = "wait", !.run = s]

Post(w, s) ==
    /\ At(w, "post")
    /\ Begin(s, TRUE)
    /\ wk' = [wk EXCEPT ![w] = Awaited(w, s)]
    /\ fired' = IF calm THEN [fired EXCEPT ![wk[w].day] = @ + 1] ELSE fired
    /\ UNCHANGED <<leaseVars, last, enabled, calm, bounds>>

(* The request fails.                                                      *)
PostFails(w) ==
    /\ At(w, "post")
    /\ Fault /\ Upset
    /\ Goto(w, "release")
    /\ UNCHANGED <<leaseVars, last, apiVars, now>>

(* Any answer of runAll is HTTP 200, ok or not: 'triggered'.               *)
Answered(w) ==
    /\ At(w, "wait") /\ wk[w].run # None
    /\ runs[wk[w].run].st \in {"ok", "failed"}
    /\ wk' = [wk EXCEPT ![w].pc = "release", ![w].run = None, ![w].done = TRUE]
    /\ UNCHANGED <<leaseVars, last, apiVars, calm, fired, bounds>>

(* The wait ends without an answer: the lease's signal, the API is gone, or*)
(* the connection breaks.  The API goes on with the run.  (Mutant: fetch is*)
(* not given the signal.)                                                  *)
AbortedMutant(w) == FALSE
Aborted(w) == w \in lapsed

Cut(w) ==
    /\ At(w, "wait")
    /\ \/ (Aborted(w) \/ wk[w].run = None) /\ Calm /\ UNCHANGED faults
       \/ Fault /\ Upset
    /\ wk' = [wk EXCEPT ![w].pc = "release", ![w].run = None]
    /\ UNCHANGED <<leaseVars, last, apiVars, now>>

(* The finally block of withRedisLock, and the .then of the tick.  (Mutant:*)
(* the key of the day is not kept.)                                        *)
KeptMutant(w) == last
Kept(w) == IF wk[w].done THEN [last EXCEPT ![w] = wk[w].day] ELSE last

Done(w) ==
    /\ At(w, "release")
    /\ \/ Release(w) /\ Calm /\ UNCHANGED faults
       \/ Leave({w}) /\ Fault /\ Upset        \* the delete is answered by an error
    /\ last' = Kept(w)
    /\ wk' = [wk EXCEPT ![w] = NoCall]
    /\ UNCHANGED <<apiVars, now>>

LeaseEnds ==
    /\ Expire(Key)
    /\ IF lapsed' = lapsed THEN Calm ELSE Upset
    /\ UNCHANGED <<last, wk, apiVars, bounds>>
-----------------------------------------------------------------------------
(* POST /ops/refresh/all by an admin: no lock.                             *)
Manual(s) ==
    /\ Begin(s, FALSE)
    /\ UNCHANGED <<leaseVars, last, wk, enabled, calm, fired, bounds>>

On(s) == runs[s].st = "on"
Job(s) == Plan[runs[s].at]
(* (Mutant of the loop: the last job of the plan is not reached.)          *)
EndsMutant(s) == runs[s].at >= Len(Plan)
Ends(s) == runs[s].at > Len(Plan)
Set(r, result) == [r EXCEPT !.at = @ + 1, !.res[Plan[r.at]] = result]

(* blockingStatuses.  (Mutant: without skipped_dependency_failed.)         *)
BlockingMutant(s, j) == runs[s].res[j] = "failed" \/ (runs[s].res[j] = "barred" /\ j \notin enabled)
Blocking(s, j) == runs[s].res[j] \in {"failed", "barred"}

Barred(s) == Job(s) \notin enabled \/ \E d \in ToSet(Deps[Job(s)]) : Blocking(s, d)

(* runJob is answered by evaluatePreflight.                                *)
Bar(s) ==
    /\ On(s) /\ ~Ends(s) /\ Barred(s)
    /\ runs' = [runs EXCEPT ![s] = Set(@, "barred")]
    /\ UNCHANGED <<leaseVars, last, wk, enabled, calm, fired, bounds>>

(* The runner runs, and answers or throws: partial, or timed_out for an    *)
(* AbortError.  One run has one job at work, and what it does is left out: *)
(* its start is not a step of its own.                                     *)
Run(s) ==
    /\ On(s) /\ ~Ends(s) /\ ~Barred(s)
    /\ \E result \in {"ok", "failed"} : runs' = [runs EXCEPT ![s] = Set(@, result)]
    /\ UNCHANGED <<leaseVars, last, wk, enabled, calm, fired, bounds>>

(* The hard timeout wins the race: the job's work goes on.  (Mutant: the   *)
(* JobTimeoutError is a partial failure as any other.)                     *)
TimeoutStatusMutant == "ok"
TimeoutStatus == "failed"

HardTimeout(s) ==
    /\ On(s) /\ ~Ends(s) /\ ~Barred(s) /\ Job(s) \in Raced
    /\ runs' = [runs EXCEPT ![s] =
                   [Set(runs[s], TimeoutStatus) EXCEPT !.drains = @ \cup {Job(s)}]]
    /\ UNCHANGED <<leaseVars, last, wk, enabled, calm, fired, bounds>>

Drained(s, j) ==
    /\ j \in runs[s].drains
    /\ runs' = [runs EXCEPT ![s].drains = @ \ {j}]
    /\ UNCHANGED <<leaseVars, last, wk, enabled, calm, fired, bounds>>

(* The response; its `ok` is that no job has failed.                       *)
Answer(s) == IF \E j \in Jobs : runs[s].res[j] = "failed" THEN "failed" ELSE "ok"

Respond(s) ==
    /\ On(s) /\ Ends(s)
    /\ runs' = [runs EXCEPT ![s] = [Free EXCEPT !.st = Answer(s), !.drains = runs[s].drains]]
    /\ UNCHANGED <<leaseVars, last, wk, enabled, calm, fired, bounds>>

(* The slot of a run is taken again once nothing waits for it or works.    *)
Forget(s) ==
    /\ runs[s].st \in {"ok", "failed"} /\ runs[s].drains = {}
    /\ \A w \in Clients : wk[w].run # s
    /\ runs' = [runs EXCEPT ![s] = Free]
    /\ UNCHANGED <<leaseVars, last, wk, enabled, calm, fired, bounds>>
-----------------------------------------------------------------------------
(* The worker dies: SET throws, applied or not, and the promise of trigger *)
(* has no catch, or the process is killed.                                 *)
Dead(w) ==
    /\ Fault /\ Upset
    /\ wk' = [wk EXCEPT ![w] = NoCall]
    /\ last' = [last EXCEPT ![w] = 0]
    /\ UNCHANGED <<apiVars, now>>

EnterUnknown(w) == At(w, "lock") /\ AcquireUnknown(w, Key) /\ Dead(w)

WorkerDies(w) ==
    /\ IF inside[w] # None THEN Leave({w}) ELSE UNCHANGED leaseVars
    /\ Dead(w)

ApiDies ==
    /\ Fault /\ Upset
    /\ runs' = [s \in Slots |-> Free]
    /\ wk' = [w \in Clients |-> [wk[w] EXCEPT !.run = None]]
    /\ UNCHANGED <<leaseVars, last, enabled, now>>

Trigger(w) ==
    \/ Enter(w) \/ Busy(w) \/ (\E s \in Slots : Post(w, s)) \/ PostFails(w)
    \/ Answered(w) \/ Cut(w) \/ Done(w)

Api(s) ==
    \/ Bar(s) \/ Run(s) \/ HardTimeout(s) \/ Respond(s) \/ Forget(s)
    \/ \E j \in Jobs : Drained(s, j)

Next ==
    \/ TimePasses \/ LeaseEnds \/ ApiDies
    \/ \E w \in Clients : Tick(w) \/ Trigger(w) \/ EnterUnknown(w) \/ WorkerDies(w)
    \/ \E s \in Slots : Manual(s) \/ Api(s)

Spec == Init /\ [][Next]_vars

(* Redis ends a lease, and a worker goes on.  Nothing is assumed of the    *)
(* jobs: most runners have no timeout.                                     *)
FairSpec ==
    /\ Spec
    /\ WF_vars(LeaseEnds)
    /\ \A w \in Clients : WF_vars(Cut(w) \/ Done(w))
-----------------------------------------------------------------------------
(* Two runs that the schedule has begun are in the API at the same time    *)
(* only if a lease has ended under a trigger or something has failed: the  *)
(* lock is of the worker, the run is of the API, which has none.           *)
OneScheduledRunAtATime ==
    calm => \A s, t \in Slots :
        s # t => ~(On(s) /\ On(t) /\ runs[s].sched /\ runs[t].sched)

(* The schedule of a day begins at most one run per worker, as long as no  *)
(* lease ends under it and nothing fails: what a worker remembers of the   *)
(* day it does not share with the others.                                  *)
OneRunPerWorkerAndDay == \A d \in 1..Days : fired[d] <= Cardinality(Clients)

Closed(S) == \A j \in S : ToSet(Deps[j]) \subseteq S
Needs == [j \in Jobs |->
             {d \in Jobs : \A S \in SUBSET Jobs :
                              Closed(S) /\ ToSet(Deps[j]) \subseteq S => d \in S}]

(* A job that was run had all it depends on, directly or not, done before  *)
(* it, enabled and not failed.                                             *)
DependenciesHold ==
    \A s \in Slots : On(s) =>
        \A j \in Jobs :
            runs[s].res[j] \in {"ok", "failed"} =>
                \A d \in Needs[j] : d \in enabled /\ runs[s].res[d] = "ok"

(* runAll keeps what JobGraph promises, which has neither a plan nor an    *)
(* order: a job gets one result in a run, is run only when all it needs is *)
(* done and barred only when something of that is not, and no answer comes *)
(* before every job has its result.  So the depth-first order with a look  *)
(* at the direct dependencies is enough.                                   *)
G == INSTANCE JobGraph WITH
         Runs <- Slots,
         phase <- [s \in Slots |-> runs[s].st],
         result <- [s \in Slots |-> runs[s].res],
         left <- [s \in Slots |-> runs[s].drains]

RegistryKept == G!GraphSpec

(* A run that is answered with ok has left no work behind in the API (the  *)
(* hard timeout race).                                                     *)
OkMeansDone == \A s \in Slots : runs[s].st = "ok" => runs[s].drains = {}

(* A trigger does not wait for ever, whatever the jobs of its run do: the  *)
(* end of the lease ends the wait, and the next day can fire again.        *)
WaitEnds == \A w \in Clients : []<>~(At(w, "wait") \/ At(w, "release"))
=============================================================================
