-------------------------- MODULE ManualOperation --------------------------
(***************************************************************************)
(* The "refresh everything and run the advisor" operation of the API: its  *)
(* background pipeline of steps, the Redis lock and the active check that  *)
(* keep it alone, the cancel endpoint and the recovery sweep, all of them  *)
(* tasks of one API process over two tables.  Code: create-manual-refresh- *)
(* and-run-use-case.ts, dashboard-advisor-repository.ts and                *)
(* recover-orphaned-manual-operation-steps.ts.                             *)
(*                                                                         *)
(* One action per await that reads or writes shared state; a call that     *)
(* fails after it took effect is the step followed by Fail at the next.    *)
(* What a step does (a sync, an import, the advisor) is its outcome only;  *)
(* labels, durations and messages are left out.                            *)
(***************************************************************************)
EXTENDS Naturals, FiniteSets

CONSTANTS Operations,  \* requests to start an operation, and its row's id
          LastStep,    \* number of steps; the last one is advisor_run
          LockKey,     \* the Redis key of the pipeline
          None,        \* no lock owner
          MaxFaults,   \* bound: calls that fail
          MaxCrashes   \* bound: deaths and restarts of the API process

ASSUME ManualAssumption ==
    /\ LastStep \in Nat \ {0}
    /\ None \notin Operations /\ None # LockKey
    /\ MaxFaults \in Nat /\ MaxCrashes \in Nat

VARIABLES
    op,      \* table ai_manual_operation
    step,    \* table ai_manual_operation_step: status by operation and step
    lock,    \* Redis: the operation whose token is stored under the key
    task,    \* the start request of an operation, then its pipeline
    cancel,  \* operations whose cancel is between its two statements
    sweep,   \* the recovery sweep
    lapsed,  \* history: pipelines whose lease ended while they were running
    faults, crashes

tables == <<op, step>>
vars == <<op, step, lock, task, cancel, sweep, lapsed, faults, crashes>>
-----------------------------------------------------------------------------
Steps == 1..LastStep

Terminal == {"completed", "failed", "degraded"}
Active == {"queued", "running"}
StepStatuses == Active \cup Terminal \cup {"skipped"}

TryPcs == {"begin", "mark", "work", "report", "link", "finish", "fail", "close"}
CatchPcs == {"caught", "closeFailed"}
CreatePcs == {"create", "plan"}
LockedPcs == CreatePcs \cup TryPcs \cup CatchPcs \cup {"unlock"}

(* `linked`: advisor_run_id names a run, which is over by then.            *)
Operation == [status : Active \cup Terminal \cup {"absent"},
              code : {"none", "error", "stale", "cancelled"},
              linked : BOOLEAN]

Task == [pc : LockedPcs \cup {"new", "acquire", "done"},
         at : Steps,                                     \* its current step
         degraded : BOOLEAN,                             \* operationDegraded
         result : Terminal \cup {"skipped"}]             \* what to write next

Sweep == [pc : {"none", "steps", "closeSteps", "candidates", "expire", "expireSteps"},
          parents : SUBSET Operations,                   \* terminal operations
          orphans : SUBSET (Operations \X Steps),        \* their active steps
          stale : SUBSET Operations]                     \* candidates

Fresh(pc) == [pc |-> pc, at |-> 1, degraded |-> FALSE, result |-> "completed"]
NoSweep == [pc |-> "none", parents |-> {}, orphans |-> {}, stale |-> {}]

TypeOK ==
    /\ op \in [Operations -> Operation]
    /\ step \in [Operations -> [Steps -> StepStatuses \cup {"absent"}]]
    /\ lock \in Operations \cup {None}
    /\ task \in [Operations -> Task]
    /\ cancel \subseteq Operations
    /\ sweep \in Sweep
    /\ lapsed \subseteq Operations
    /\ faults \in 0..MaxFaults
    /\ crashes \in 0..MaxCrashes

Init ==
    /\ op = [o \in Operations |-> [status |-> "absent", code |-> "none", linked |-> FALSE]]
    /\ step = [o \in Operations |-> [s \in Steps |-> "absent"]]
    /\ lock = None
    /\ task = [o \in Operations |-> Fresh("new")]
    /\ cancel = {}
    /\ sweep = NoSweep
    /\ lapsed = {}
    /\ faults = 0 /\ crashes = 0

Fault == faults < MaxFaults /\ faults' = faults + 1
At(o, p) == task[o].pc = p
Goto(o, p) == task' = [task EXCEPT ![o].pc = p]
IsActive(o) == op[o].status \in Active
IsTerminal(o) == op[o].status \in Terminal

SetStep(o, s, status) == step' = [step EXCEPT ![o][s] = status]

(* UPDATE ai_manual_operation_step ... WHERE (operation, step) is chosen   *)
(* AND status IN ('queued', 'running').                                    *)
CloseWhere(Chosen(_, _), status) ==
    step' = [o \in Operations |-> [s \in Steps |->
               IF Chosen(o, s) /\ step[o][s] \in Active THEN status ELSE step[o][s]]]

CloseStepsOf(parents, status) ==
    CloseWhere(LAMBDA o, s : o \in parents, status)

(* UPDATE ai_manual_operation SET status = 'failed' ... WHERE id IN chosen *)
(* AND status IN ('queued', 'running').  (Mutant: the status is not        *)
(* tested again.)                                                          *)
FailActiveMutant(chosen, code) ==
    op' = [o \in Operations |->
             IF o \in chosen THEN [op[o] EXCEPT !.status = "failed", !.code = code]
                             ELSE op[o]]

FailActive(chosen, code) ==
    op' = [o \in Operations |->
             IF o \in chosen /\ IsActive(o)
             THEN [op[o] EXCEPT !.status = "failed", !.code = code] ELSE op[o]]
-----------------------------------------------------------------------------
(* startManualRefreshAndRun.  An operation that is active, and whose       *)
(* advisor run is not over, is returned instead: nothing happens.          *)
CheckActive(o) ==
    /\ At(o, "new")
    /\ \A p \in Operations : IsActive(p) => op[p].linked
    /\ Goto(o, "acquire")
    /\ UNCHANGED <<tables, lock, cancel, sweep, lapsed, faults, crashes>>

Acquire(o) ==
    /\ At(o, "acquire")
    /\ lock = None
    /\ lock' = o
    /\ Goto(o, "create")
    /\ UNCHANGED <<tables, cancel, sweep, lapsed, faults, crashes>>

(* The lock is held: the active operation is returned, or an error.        *)
Refuse(o) ==
    /\ At(o, "acquire")
    /\ lock # None
    /\ Goto(o, "new")
    /\ UNCHANGED <<tables, lock, cancel, sweep, lapsed, faults, crashes>>

(* The SET throws, and may have been applied.                              *)
AcquireFails(o) ==
    /\ At(o, "acquire")
    /\ Fault
    /\ \/ UNCHANGED lock
       \/ lock = None /\ lock' = o
    /\ Goto(o, "done")
    /\ UNCHANGED <<tables, cancel, sweep, lapsed, crashes>>

Create(o) ==
    /\ At(o, "create")
    /\ op' = [op EXCEPT ![o].status = "queued"]
    /\ Goto(o, "plan")
    /\ UNCHANGED <<step, lock, cancel, sweep, lapsed, faults, crashes>>

(* The rows of the steps, one after the other, then the pipeline starts.   *)
Plan(o) ==
    LET next == [task[o] EXCEPT !.at = @ + 1] IN
    /\ At(o, "plan")
    /\ SetStep(o, task[o].at, "queued")
    /\ task' = [task EXCEPT ![o] = IF task[o].at = LastStep THEN Fresh("begin") ELSE next]
    /\ UNCHANGED <<op, lock, cancel, sweep, lapsed, faults, crashes>>
-----------------------------------------------------------------------------
(* runOperationInBackground.  Its updates name the operation and nothing   *)
(* else: whatever its status has become, it is overwritten.                *)
Begin(o) ==
    /\ At(o, "begin")
    /\ op' = [op EXCEPT ![o].status = "running"]
    /\ Goto(o, "mark")
    /\ UNCHANGED <<step, lock, cancel, sweep, lapsed, faults, crashes>>

Mark(o) ==
    /\ At(o, "mark")
    /\ SetStep(o, task[o].at, "running")
    /\ Goto(o, "work")
    /\ UNCHANGED <<op, lock, cancel, sweep, lapsed, faults, crashes>>

Outcomes(s) == {"completed", "degraded"} \cup
               (IF s = LastStep THEN {"failed"} ELSE {"skipped"})

(* (Mutant: the flag is that of the step, not of the operation so far.)    *)
DegradedAfterMutant(o, result) == result = "degraded"
DegradedAfter(o, result) == task[o].degraded \/ result = "degraded"

Work(o) ==
    /\ At(o, "work")
    /\ \E result \in Outcomes(task[o].at) :
         task' = [task EXCEPT ![o].pc = "report", ![o].result = result,
                              ![o].degraded = DegradedAfter(o, result)]
    /\ UNCHANGED <<tables, lock, cancel, sweep, lapsed, faults, crashes>>

(* markStep.  (Mutant: a step that was skipped is not reported.)           *)
ReportedMutant(o) == IF task[o].result = "skipped" THEN UNCHANGED step
                     ELSE SetStep(o, task[o].at, task[o].result)
Reported(o) == SetStep(o, task[o].at, task[o].result)

(* After a report: the next step, or the end.  (Mutant: a step that was    *)
(* skipped is tried again.)                                                *)
AfterReportMutant(o) ==
    IF task[o].at = LastStep
    THEN [task[o] EXCEPT !.pc = IF task[o].result = "failed" THEN "fail" ELSE "link"]
    ELSE [task[o] EXCEPT !.pc = "begin", !.result = "completed",
                         !.at = IF task[o].result = "skipped" THEN @ ELSE @ + 1]
AfterReport(o) ==
    IF task[o].at = LastStep
    THEN [task[o] EXCEPT !.pc = IF task[o].result = "failed" THEN "fail" ELSE "link"]
    ELSE [task[o] EXCEPT !.pc = "begin", !.at = @ + 1, !.result = "completed"]

Report(o) ==
    /\ At(o, "report")
    /\ Reported(o)
    /\ task' = [task EXCEPT ![o] = AfterReport(o)]
    /\ UNCHANGED <<op, lock, cancel, sweep, lapsed, faults, crashes>>

Link(o) ==
    /\ At(o, "link")
    /\ op' = [op EXCEPT ![o].linked = TRUE]
    /\ Goto(o, "finish")
    /\ UNCHANGED <<step, lock, cancel, sweep, lapsed, faults, crashes>>

(* The final update; an error code written before stays in its column.     *)
Finish(o) ==
    LET verdict == IF task[o].degraded THEN "degraded" ELSE "completed" IN
    /\ At(o, "finish")
    /\ op' = [op EXCEPT ![o].status = verdict]
    /\ task' = [task EXCEPT ![o].pc = "close", ![o].result = verdict]
    /\ UNCHANGED <<step, lock, cancel, sweep, lapsed, faults, crashes>>

(* The advisor reported a failure.  (Mutant: it returns without closing    *)
(* the operation.)                                                         *)
FailOperationMutant(o) ==
    /\ At(o, "fail")
    /\ Goto(o, "unlock")
    /\ UNCHANGED <<tables, lock, cancel, sweep, lapsed, faults, crashes>>

FailOperation(o) ==
    /\ At(o, "fail")
    /\ op' = [op EXCEPT ![o].status = "failed", ![o].code = "error"]
    /\ Goto(o, "close")
    /\ UNCHANGED <<step, lock, cancel, sweep, lapsed, faults, crashes>>

(* The second statement of updateManualOperation for a terminal status.    *)
Close(o) ==
    /\ At(o, "close")
    /\ CloseStepsOf({o}, IF task[o].result = "completed" THEN "skipped" ELSE "failed")
    /\ Goto(o, "unlock")
    /\ UNCHANGED <<op, lock, cancel, sweep, lapsed, faults, crashes>>

Catch(o) ==
    /\ At(o, "caught")
    /\ op' = [op EXCEPT ![o].status = "failed", ![o].code = "error"]
    /\ Goto(o, "closeFailed")
    /\ UNCHANGED <<step, lock, cancel, sweep, lapsed, faults, crashes>>

CloseFailed(o) ==
    /\ At(o, "closeFailed")
    /\ CloseStepsOf({o}, "failed")
    /\ Goto(o, "unlock")
    /\ UNCHANGED <<op, lock, cancel, sweep, lapsed, faults, crashes>>

(* A call throws: in the pipeline it is caught; in its catch block, or     *)
(* while the rows are created, the lock is released and nothing else.      *)
Fail(o) ==
    /\ task[o].pc \in TryPcs \cup CatchPcs \cup CreatePcs
    /\ Fault
    /\ Goto(o, IF task[o].pc \in TryPcs THEN "caught" ELSE "unlock")
    /\ UNCHANGED <<tables, lock, cancel, sweep, lapsed, crashes>>

(* releaseLock: compare and delete.  (Mutant: a plain DEL.)                *)
ReleasedMutant(o) == None
Released(o) == IF lock = o THEN None ELSE lock

Unlock(o) ==
    /\ At(o, "unlock")
    /\ \/ lock' = Released(o) /\ UNCHANGED faults
       \/ Fault /\ UNCHANGED lock
    /\ task' = [task EXCEPT ![o] = Fresh("done")]
    /\ lapsed' = lapsed \ {o}
    /\ UNCHANGED <<tables, cancel, sweep, crashes>>
-----------------------------------------------------------------------------
(* cancelManualOperation, for an id that exists: two statements.           *)
CancelOperation(o) ==
    /\ op[o].status # "absent" /\ o \notin cancel
    /\ FailActive({o}, "cancelled")
    /\ cancel' = cancel \cup {o}
    /\ UNCHANGED <<step, lock, task, sweep, lapsed, faults, crashes>>

CancelSteps(o) ==
    /\ o \in cancel
    /\ CloseStepsOf({o}, "failed")
    /\ cancel' = cancel \ {o}
    /\ UNCHANGED <<op, lock, task, sweep, lapsed, faults, crashes>>

CancelFails(o) ==
    /\ o \in cancel
    /\ Fault
    /\ cancel' = cancel \ {o}
    /\ UNCHANGED <<tables, lock, task, sweep, lapsed, crashes>>

(* recoverOrphanedManualOperationSteps: the terminal parents, then their   *)
(* active steps, then the update that closes them.  Those of a completed   *)
(* parent would become skipped, but it has none: see FinishedHonestly.     *)
ReadParents ==
    LET over == {o \in Operations : IsTerminal(o)} IN
    /\ sweep.pc = "none"
    /\ sweep' = [NoSweep EXCEPT !.pc = IF over = {} THEN "candidates" ELSE "steps",
                                !.parents = over]
    /\ UNCHANGED <<tables, lock, task, cancel, lapsed, faults, crashes>>

ActiveStepsOf(parents) == {x \in parents \X Steps : step[x[1]][x[2]] \in Active}

ReadOrphans ==
    LET orphans == ActiveStepsOf(sweep.parents) IN
    /\ sweep.pc = "steps"
    /\ sweep' = [NoSweep EXCEPT !.pc = IF orphans = {} THEN "candidates" ELSE "closeSteps",
                                !.orphans = orphans]
    /\ UNCHANGED <<tables, lock, task, cancel, lapsed, faults, crashes>>

CloseOrphans ==
    /\ sweep.pc = "closeSteps"
    /\ CloseWhere(LAMBDA o, s : <<o, s>> \in sweep.orphans, "failed")
    /\ sweep' = [NoSweep EXCEPT !.pc = "candidates"]
    /\ UNCHANGED <<op, lock, task, cancel, lapsed, faults, crashes>>

(* recoverStaleManualOperations goes on with the active operations that    *)
(* are older than a cutoff the caller gives, a minute or more: the         *)
(* pipeline of such an operation may be running.  (Mutant: an operation    *)
(* that never left 'queued' is not looked for.)                            *)
StaleMutant(o) == op[o].status = "running"
Stale(o) == op[o].status \in {"queued", "running"}

ReadStale(old) ==
    /\ sweep.pc = "candidates"
    /\ LET stale == {o \in old : Stale(o)} IN
       sweep' = IF stale = {} THEN NoSweep
                ELSE [NoSweep EXCEPT !.pc = "expire", !.stale = stale]
    /\ UNCHANGED <<tables, lock, task, cancel, lapsed, faults, crashes>>

Expire ==
    /\ sweep.pc = "expire"
    /\ FailActive(sweep.stale, "stale")
    /\ sweep' = [sweep EXCEPT !.pc = "expireSteps"]
    /\ UNCHANGED <<step, lock, task, cancel, lapsed, faults, crashes>>

ExpireSteps ==
    /\ sweep.pc = "expireSteps"
    /\ CloseStepsOf(sweep.stale, "failed")
    /\ sweep' = NoSweep
    /\ UNCHANGED <<op, lock, task, cancel, lapsed, faults, crashes>>

SweepFails ==
    /\ sweep.pc # "none"
    /\ Fault
    /\ sweep' = NoSweep
    /\ UNCHANGED <<tables, lock, task, cancel, lapsed, crashes>>
-----------------------------------------------------------------------------
(* Redis ends the lease after 15 minutes; the pipeline is not told.        *)
LockExpires ==
    /\ lock # None
    /\ lock' = None
    /\ lapsed' = lapsed \cup {o \in Operations : o = lock /\ task[o].pc \in LockedPcs}
    /\ UNCHANGED <<tables, task, cancel, sweep, faults, crashes>>

(* The API process dies with every task in it, and starts again.           *)
Crash ==
    /\ crashes < MaxCrashes
    /\ crashes' = crashes + 1
    /\ task' = [o \in Operations |->
                  IF task[o].pc \in {"new", "acquire"} THEN Fresh("new") ELSE Fresh("done")]
    /\ cancel' = {}
    /\ sweep' = NoSweep
    /\ lapsed' = {}
    /\ UNCHANGED <<tables, lock, faults>>

Start(o) == CheckActive(o) \/ Acquire(o) \/ Refuse(o)

Pipeline(o) ==
    \/ Create(o) \/ Plan(o)
    \/ Begin(o) \/ Mark(o) \/ Work(o) \/ Report(o) \/ Link(o)
    \/ Finish(o) \/ FailOperation(o) \/ Close(o)
    \/ Catch(o) \/ CloseFailed(o) \/ Unlock(o)

SweepStep ==
    \/ ReadParents \/ ReadOrphans \/ CloseOrphans
    \/ Expire \/ ExpireSteps

Disturbance ==
    \/ \E o \in Operations : AcquireFails(o) \/ Fail(o) \/ CancelFails(o)
    \/ SweepFails
    \/ Crash

Next ==
    \/ \E o \in Operations :
          Start(o) \/ Pipeline(o) \/ CancelOperation(o) \/ CancelSteps(o)
    \/ SweepStep
    \/ \E old \in SUBSET Operations : ReadStale(old)
    \/ LockExpires
    \/ Disturbance

Spec == Init /\ [][Next]_vars

(* A running task goes on, Redis ends leases, and the worker's daily       *)
(* intelligence scheduler starts a sweep every day, for which everything   *)
(* of the day before is old.  Nobody has to start or cancel anything.      *)
Fairness ==
    /\ \A o \in Operations : WF_vars(Pipeline(o)) /\ WF_vars(CancelSteps(o))
    /\ WF_vars(SweepStep)
    /\ SF_vars(ReadStale(Operations))
    /\ WF_vars(LockExpires)

FairSpec == Spec /\ Fairness
-----------------------------------------------------------------------------
(* Until its lease ends, a pipeline is the owner of the lock and no other  *)
(* operation is being created or run; what Lease promises, for the lock of *)
(* startManualRefreshAndRun.                                               *)
L == INSTANCE Lease WITH Keys <- {LockKey}, Clients <- Operations,
        holder <- [k \in {LockKey} |-> lock],
        inside <- [o \in Operations |-> IF task[o].pc \in LockedPcs THEN LockKey ELSE None]

LeaseKept == L!LeaseSpec

(* An operation that says completed did all of its steps, none of them     *)
(* degraded; one that says degraded did all of them and one was degraded:  *)
(* whatever cancel and the sweep wrote into its rows in between.           *)
FinishedHonestly ==
    \A o \in Operations :
        /\ op[o].status = "completed" =>
              \A s \in Steps : step[o][s] \in {"completed", "skipped"}
        /\ op[o].status = "degraded" =>
              /\ \A s \in Steps : step[o][s] \in {"completed", "skipped", "degraded"}
              /\ \E s \in Steps : step[o][s] = "degraded"

(* A step says running only when every step before it is over.             *)
StepsInOrder ==
    \A o \in Operations, s \in Steps :
        step[o][s] = "running" => \A r \in 1..(s - 1) : step[o][r] \notin Active

(* Once its pipeline is over, the verdict of an operation and of each of   *)
(* its steps is final: a cancel or a sweep that comes late, or was already *)
(* under way, leaves them alone.                                           *)
VerdictKept ==
    [][\A o \in Operations :
         At(o, "done") /\ IsTerminal(o) =>
            /\ op'[o] = op[o]
            /\ \A s \in Steps : step[o][s] \notin Active => step'[o][s] = step[o][s]]_vars

(* The rows are written as StepLedger says: a step is worked on in its     *)
(* turn and not again once it is done, a verdict follows from the steps,   *)
(* and what is over changes only where it looks active; whatever cancels,  *)
(* sweeps, failures and crashes come between.                              *)
S == INSTANCE StepLedger WITH
         status <- [o \in Operations |-> op[o].status],
         mark <- step,
         live <- {o \in Operations : op[o].status # "absent" /\ ~At(o, "done")}

LedgerKept == S!LedgerSpec

(* While no call fails and the process does not die, a pipeline that is    *)
(* over leaves nothing behind, cancelled or swept as it may have been: no  *)
(* operation or step that looks active, and not its lock.                  *)
NothingLeftBehind ==
    faults = 0 /\ crashes = 0 =>
        \A o \in Operations : At(o, "done") =>
            /\ IsTerminal(o)
            /\ \A s \in Steps : step[o][s] \notin Active
            /\ lock # o

(* In the end, whatever failed, no operation and no step looks active and  *)
(* a new operation can be started: nothing blocks the button for ever.     *)
Settled ==
    /\ \A o \in Operations :
          op[o].status # "absent" =>
             IsTerminal(o) /\ \A s \in Steps : step[o][s] \notin Active
    /\ lock = None

EventuallySettled == <>[]Settled

(* An operation with the error code of a cancelled run, which the web      *)
(* application shows as cancelled, has been stopped.  The code does not    *)
(* stop it.                                                                *)
CancelledMeansStopped ==
    \A o \in Operations : op[o].code = "cancelled" => op[o].status = "failed"
=============================================================================
