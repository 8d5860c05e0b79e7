-------------------------- MODULE DerivedRecompute --------------------------
(***************************************************************************)
(* The recompute of derived transaction data: requests to the API, a       *)
(* PostgreSQL advisory lock that should keep one of them running, and a    *)
(* transaction that replaces the current snapshot.  Code: derived-         *)
(* recompute.ts and dashboard-derived-recompute-repository.ts.             *)
(*                                                                         *)
(* Every call takes a session of the connection pool, any one that no      *)
(* transaction has reserved.  The advisory lock belongs to a session and   *)
(* counts: the session that has it gets it again.  The transaction is READ *)
(* COMMITTED.  What it derives is left out.                                *)
(***************************************************************************)
EXTENDS Naturals, FiniteSets

CONSTANTS Runs,        \* requests, and the rows they create
          Sessions,    \* sessions of the pool of packages/db
          None,        \* no session
          MaxFaults,   \* bound: calls that fail
          MaxLostAcks, \* bound: commits whose reply is lost
          MaxCrashes   \* bound: deaths and restarts of the API process

ASSUME RecomputeAssumption ==
    /\ None \notin Sessions
    /\ IsFiniteSet(Runs)
    /\ MaxFaults \in Nat /\ MaxLostAcks \in Nat /\ MaxCrashes \in Nat

VARIABLES
    run,        \* table derived_recompute_run
    lock,       \* the advisory lock: its session and how often it has it
    task,       \* the requests
    overlapped, \* history: two requests have been past the lock at a time
    faults, lost, crashes

vars == <<run, lock, task, overlapped, faults, lost, crashes>>
-----------------------------------------------------------------------------
Row == [status : {"absent", "running", "completed", "failed"}, current : BOOLEAN]

TransactionPcs == {"demote", "lockRows", "commit"}
TryPcs == {"begin"} \cup TransactionPcs
LockedPcs == {"create", "markFailed", "unlock"} \cup TryPcs

Task == [pc : {"new", "done"} \cup LockedPcs,
         session : Sessions \cup {None},  \* reserved by its transaction
         seen : SUBSET Runs,              \* current rows its UPDATE found
         rows : SUBSET Runs]              \* and those it has locked

Plain(pc) == [pc |-> pc, session |-> None, seen |-> {}, rows |-> {}]
Free == [session |-> None, depth |-> 0]

TypeOK ==
    /\ run \in [Runs -> Row]
    /\ lock \in [session : Sessions \cup {None}, depth : 0..Cardinality(Runs)]
    /\ lock.session = None <=> lock.depth = 0
    /\ task \in [Runs -> Task]
    /\ overlapped \in BOOLEAN
    /\ faults \in 0..MaxFaults /\ lost \in 0..MaxLostAcks /\ crashes \in 0..MaxCrashes

Init ==
    /\ run = [r \in Runs |-> [status |-> "absent", current |-> FALSE]]
    /\ lock = Free
    /\ task = [r \in Runs |-> Plain("new")]
    /\ overlapped = FALSE
    /\ faults = 0 /\ lost = 0 /\ crashes = 0

At(r, p) == task[r].pc = p
Goto(r, p) == task' = [task EXCEPT ![r] = Plain(p)]
Fault == faults < MaxFaults /\ faults' = faults + 1
Running == {r \in Runs : task[r].pc \in LockedPcs}
Current == {r \in Runs : run[r].current}
Pool == Sessions \ {task[r].session : r \in Runs}
-----------------------------------------------------------------------------
(* pg_try_advisory_lock in whatever session: granted when the lock is free *)
(* or that session's already, else the request is answered 409.            *)
Acquire(r) ==
    /\ At(r, "new")
    /\ \E s \in Pool :
         IF lock.session \in {None, s}
         THEN /\ lock' = [session |-> s, depth |-> lock.depth + 1]
              /\ Goto(r, "create")
              /\ overlapped' = (overlapped \/ Running # {})
         ELSE Goto(r, "done") /\ UNCHANGED <<lock, overlapped>>
    /\ UNCHANGED <<run, faults, lost, crashes>>

Create(r) ==
    /\ At(r, "create")
    /\ run' = [run EXCEPT ![r].status = "running"]
    /\ Goto(r, "begin")
    /\ UNCHANGED <<lock, overlapped, faults, lost, crashes>>

(* createRun is called before the try block, and two runs of one second    *)
(* have the same unique version: when it throws nothing is unlocked.       *)
CreateFails(r) ==
    /\ At(r, "create")
    /\ Fault
    /\ \/ run' = [run EXCEPT ![r].status = "running"]
       \/ UNCHANGED run
    /\ Goto(r, "done")
    /\ UNCHANGED <<lock, overlapped, lost, crashes>>

(* The progress update, then BEGIN reserves a session.                     *)
Begin(r) ==
    /\ At(r, "begin")
    /\ \E s \in Pool : task' = [task EXCEPT ![r].pc = "demote", ![r].session = s]
    /\ UNCHANGED <<run, lock, overlapped, faults, lost, crashes>>

(* UPDATE ... SET is_current_snapshot = false WHERE is_current_snapshot:   *)
(* the rows the statement sees, then their locks, which another            *)
(* transaction may have; rows that are not current any more are left.      *)
(* (Mutant: a run that replaces nothing.)                                  *)
FoundMutant == {}
Found == Current

Demote(r) ==
    /\ At(r, "demote")
    /\ task' = [task EXCEPT ![r].pc = "lockRows", ![r].seen = Found]
    /\ UNCHANGED <<run, lock, overlapped, faults, lost, crashes>>

(* (Mutant: the UPDATE is sent outside the transaction.)                    *)
LockRowsMutant(r) ==
    /\ At(r, "lockRows")
    /\ run' = [p \in Runs |-> IF p \in task[r].seen THEN [run[p] EXCEPT !.current = FALSE]
                              ELSE run[p]]
    /\ Goto(r, "commit")
    /\ UNCHANGED <<lock, overlapped, faults, lost, crashes>>
LockRows(r) ==
    /\ At(r, "lockRows")
    /\ \A q \in Runs \ {r} : task[q].rows \cap task[r].seen = {}
    /\ task' = [task EXCEPT ![r].pc = "commit", ![r].seen = {},
                            ![r].rows = task[r].seen \cap Current]
    /\ UNCHANGED <<run, lock, overlapped, faults, lost, crashes>>

(* Its rows are demoted and the run is completed and current, at once.     *)
Applied(r) ==
    [p \in Runs |->
       IF p = r THEN [status |-> "completed", current |-> TRUE]
       ELSE IF p \in task[r].rows THEN [run[p] EXCEPT !.current = FALSE]
       ELSE run[p]]

Commit(r) ==
    /\ At(r, "commit")
    /\ run' = Applied(r)
    /\ \/ Goto(r, "unlock") /\ UNCHANGED lost
       \/ /\ lost < MaxLostAcks /\ lost' = lost + 1   \* the reply is lost
          /\ Goto(r, "markFailed")
    /\ UNCHANGED <<lock, overlapped, faults, crashes>>

(* A call of the try block throws; the transaction is rolled back.  When   *)
(* its session is what broke, so is an advisory lock of that session.      *)
Abort(r) ==
    /\ task[r].pc \in TryPcs
    /\ Fault
    /\ \/ UNCHANGED lock
       \/ task[r].session = lock.session /\ lock' = Free
    /\ Goto(r, "markFailed")
    /\ UNCHANGED <<run, overlapped, lost, crashes>>

(* markRunFailed of the catch block: is_current_snapshot is reset too.  It *)
(* waits for a transaction that has its row.                               *)
MarkFailed(r) ==
    /\ At(r, "markFailed")
    /\ \A q \in Runs : r \notin task[q].rows
    /\ run' = [run EXCEPT ![r] = [status |-> "failed", current |-> FALSE]]
    /\ Goto(r, "unlock")
    /\ UNCHANGED <<lock, overlapped, faults, lost, crashes>>

MarkFails(r) ==
    /\ At(r, "markFailed")
    /\ Fault
    /\ Goto(r, "unlock")
    /\ UNCHANGED <<run, lock, overlapped, lost, crashes>>

(* pg_advisory_unlock in whatever session: when the lock is another's,     *)
(* PostgreSQL warns and nothing is unlocked.                               *)
Unlocked == IF lock.depth = 1 THEN Free ELSE [lock EXCEPT !.depth = @ - 1]

Unlock(r) ==
    /\ At(r, "unlock")
    /\ \/ /\ \E s \in Pool : lock' = IF lock.session = s THEN Unlocked ELSE lock
          /\ UNCHANGED faults
       \/ Fault /\ UNCHANGED lock
    /\ Goto(r, "done")
    /\ UNCHANGED <<run, overlapped, lost, crashes>>

(* The pool ends a session that has lived long enough, and its locks.      *)
SessionEnds ==
    /\ lock.session \in Pool
    /\ lock' = Free
    /\ UNCHANGED <<run, task, overlapped, faults, lost, crashes>>

Crash ==
    /\ Running # {}
    /\ crashes < MaxCrashes
    /\ crashes' = crashes + 1
    /\ task' = [r \in Runs |-> IF At(r, "new") THEN task[r] ELSE Plain("done")]
    /\ lock' = Free
    /\ UNCHANGED <<run, overlapped, faults, lost>>

Next ==
    \/ \E r \in Runs :
          \/ Acquire(r) \/ Create(r) \/ CreateFails(r)
          \/ Begin(r) \/ Demote(r) \/ LockRows(r) \/ Commit(r)
          \/ Abort(r) \/ MarkFailed(r) \/ MarkFails(r) \/ Unlock(r)
    \/ SessionEnds
    \/ Crash

Spec == Init /\ [][Next]_vars
-----------------------------------------------------------------------------
(* There is one current snapshot at most, as long as two recomputes have   *)
(* not run at a time: whatever fails, nothing but the transaction changes  *)
(* which one.                                                              *)
OneSnapshotUnlessOverlap == ~overlapped => Cardinality(Current) <= 1

(* While no commit reply is lost, there is a current snapshot from the     *)
(* first success on: no failure, however timed, takes the last one away,   *)
(* overlapping runs included.                                              *)
SnapshotKept == [][lost = 0 /\ Current # {} => Current' # {}]_vars

(* "Derived recompute already in progress": whoever is told so is told the *)
(* truth.  The code does not keep it.                                      *)
RefusedWhileRunning ==
    [][\A r \in Runs : At(r, "new") /\ task'[r].pc = "done" => Running # {}]_vars
=============================================================================
