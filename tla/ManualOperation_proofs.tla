----------------------- MODULE ManualOperation_proofs -----------------------
(***************************************************************************)
(* Proofs about ManualOperation, for any number of operations and steps,   *)
(* faults and crashes.  Nearly everything about an operation is a relation *)
(* between its row, the rows of its steps and its own task: all that the   *)
(* others (another operation, a cancel, the sweep) can do to these rows is *)
(* to end what is active, see Quiet, and the proofs go on from there.      *)
(***************************************************************************)
EXTENDS ManualOperation, TLAPS

AllPcs == LockedPcs \cup {"new", "acquire", "done"}
Good == {"completed", "skipped", "degraded"}

(* The rows before the pipeline's step are over and good, those after it   *)
(* have not begun.                                                         *)
OrderInv(o) ==
    /\ \A s \in Steps : step[o][s] = "running" =>
          \A r \in Steps : r < s => step[o][r] \notin Active
    /\ task[o].pc \in {"new", "acquire"} \cup CreatePcs =>
          \A s \in Steps : step[o][s] # "running"
    /\ task[o].pc \in TryPcs =>
          /\ \A r \in Steps : r < task[o].at => step[o][r] \notin Active
          /\ \A s \in Steps : s > task[o].at => step[o][s] # "running"
    /\ task[o].pc \in {"link", "finish", "fail", "close"} => task[o].at = LastStep

(* What the pipeline remembers of the steps it has reported.               *)
HonestInv(o) ==
    /\ task[o].pc \in {"begin", "mark", "work", "report"} =>
          /\ \A r \in Steps : r < task[o].at => step[o][r] \in Good
          /\ task[o].degraded <=>
               \/ \E r \in Steps : r < task[o].at /\ step[o][r] = "degraded"
               \/ task[o].pc = "report" /\ task[o].result = "degraded"
    /\ task[o].pc = "report" => task[o].result \in Outcomes(task[o].at)
    /\ task[o].pc \in {"link", "finish"} =>
          /\ \A s \in Steps : step[o][s] \in Good
          /\ task[o].degraded <=> \E s \in Steps : step[o][s] = "degraded"
    /\ op[o].status \in {"completed", "degraded"} =>
          task[o].pc \in {"close", "done", "unlock"} \cup CatchPcs
    /\ op[o].status = "completed" =>
          \A s \in Steps : step[o][s] \in {"completed", "skipped"}
    /\ op[o].status = "degraded" =>
          /\ \A s \in Steps : step[o][s] \in Good
          /\ \E s \in Steps : step[o][s] = "degraded"

(* Without a fault: how far a pipeline has cleaned up.                     *)
CleanInv(o) ==
    /\ task[o].pc \notin CatchPcs
    /\ task[o].pc \in {"close", "unlock", "done"} => IsTerminal(o)
    /\ task[o].pc \in {"unlock", "done"} => \A s \in Steps : step[o][s] \notin Active
    /\ lock = o => task[o].pc \in LockedPcs

Inv == /\ TypeOK
       /\ \A o \in Operations : OrderInv(o) /\ HonestInv(o)
       /\ faults = 0 /\ crashes = 0 => \A o \in Operations : CleanInv(o)
-----------------------------------------------------------------------------
(* What the statements and the tasks' moves write.                         *)
LEMMA SetStepEffect ==
    ASSUME TypeOK, NEW o \in Operations, NEW s \in Steps,
           NEW status \in StepStatuses, SetStep(o, s, status)
    PROVE  /\ step' \in [Operations -> [Steps -> StepStatuses \cup {"absent"}]]
           /\ step'[o][s] = status
           /\ \A p \in Operations, r \in Steps :
                 p # o \/ r # s => step'[p][r] = step[p][r]
BY DEF SetStep, TypeOK

LEMMA CloseEffect ==
    ASSUME TypeOK, NEW parents, NEW status \in {"failed", "skipped"},
           CloseStepsOf(parents, status)
    PROVE  /\ step' \in [Operations -> [Steps -> StepStatuses \cup {"absent"}]]
           /\ \A p \in Operations, r \in Steps :
                 step'[p][r] = IF p \in parents /\ step[p][r] \in Active
                               THEN status ELSE step[p][r]
BY DEF CloseStepsOf, CloseWhere, TypeOK, StepStatuses, Terminal

LEMMA CloseOrphansEffect ==
    ASSUME TypeOK, CloseOrphans
    PROVE  /\ step' \in [Operations -> [Steps -> StepStatuses \cup {"absent"}]]
           /\ \A p \in Operations, r \in Steps :
                 step'[p][r] = IF <<p, r>> \in sweep.orphans /\ step[p][r] \in Active
                               THEN "failed" ELSE step[p][r]
BY DEF CloseOrphans, CloseWhere, TypeOK, StepStatuses, Terminal

LEMMA FailActiveEffect ==
    ASSUME TypeOK, NEW chosen, NEW code \in {"stale", "cancelled"},
           FailActive(chosen, code)
    PROVE  /\ op' \in [Operations -> Operation]
           /\ \A p \in Operations :
                 IF p \in chosen /\ IsActive(p) THEN op'[p].status = "failed"
                                                ELSE op'[p] = op[p]
BY DEF FailActive, TypeOK, Operation, Terminal

LEMMA MoveEffect ==
    ASSUME TypeOK, NEW o \in Operations, NEW t \in Task, task' = [task EXCEPT ![o] = t]
    PROVE  /\ task' \in [Operations -> Task]
           /\ task'[o] = t
           /\ \A p \in Operations : p # o => task'[p] = task[p]
BY DEF TypeOK

LEMMA GotoEffect ==
    ASSUME TypeOK, NEW o \in Operations, NEW pc \in AllPcs, Goto(o, pc)
    PROVE  /\ task' \in [Operations -> Task]
           /\ task'[o].pc = pc /\ task'[o].at = task[o].at
           /\ task'[o].degraded = task[o].degraded /\ task'[o].result = task[o].result
           /\ \A p \in Operations : p # o => task'[p] = task[p]
<1>1. task[o] \in Task
  BY DEF TypeOK
<1>2. [task[o] EXCEPT !.pc = pc] \in Task
  BY <1>1 DEF Task, AllPcs
<1>3. task' = [task EXCEPT ![o] = [task[o] EXCEPT !.pc = pc]]
  BY DEF Goto
<1> QED
  BY <1>1, <1>2, <1>3, MoveEffect DEF Task

LEMMA FreshTyped ==
    ASSUME NEW pc \in AllPcs
    PROVE  /\ Fresh(pc) \in Task
           /\ Fresh(pc).pc = pc /\ Fresh(pc).at = 1 /\ Fresh(pc).degraded = FALSE
           /\ Fresh(pc).result = "completed"
BY ManualAssumption DEF Fresh, Task, AllPcs, Steps, Terminal

(* Each action, for its own operation.                                     *)
LEMMA StartEffect ==
    ASSUME TypeOK, NEW o \in Operations, Start(o)
    PROVE  /\ UNCHANGED <<op, step, cancel, sweep, lapsed, faults, crashes>>
           /\ \/ At(o, "new") /\ task'[o].pc = "acquire" /\ lock' = lock
              \/ At(o, "acquire") /\ task'[o].pc = "create" /\ lock = None /\ lock' = o
              \/ At(o, "acquire") /\ task'[o].pc = "new" /\ lock' = lock
           /\ task' \in [Operations -> Task]
           /\ \A p \in Operations : p # o => task'[p] = task[p]
<1>1. CASE CheckActive(o)
  BY <1>1, GotoEffect DEF CheckActive, AllPcs, tables
<1>2. CASE Acquire(o)
  BY <1>2, GotoEffect DEF Acquire, AllPcs, tables, LockedPcs, CreatePcs
<1>3. CASE Refuse(o)
  BY <1>3, GotoEffect DEF Refuse, AllPcs, tables
<1> QED
  BY <1>1, <1>2, <1>3 DEF Start
-----------------------------------------------------------------------------
OthersSame(o) ==
    \A p \in Operations : p # o =>
        /\ task'[p] = task[p] /\ op'[p] = op[p]
        /\ \A s \in Steps : step'[p][s] = step[p][s]

Kept(o) == TypeOK /\ OrderInv(o) /\ HonestInv(o)

LEMMA RowTyped ==
    ASSUME TypeOK, NEW o \in Operations
    PROVE  /\ task[o] \in Task /\ op[o] \in Operation
           /\ task[o].at \in Steps /\ task[o].at \in Nat /\ LastStep \in Steps
           /\ \A s \in Steps : s \in Nat /\ 1 <= s /\ s <= LastStep
                               /\ step[o][s] \in StepStatuses \cup {"absent"}
BY ManualAssumption DEF TypeOK, Task, Steps

LEMMA CreateStep ==
    ASSUME NEW o \in Operations, Kept(o), Create(o)
    PROVE  Kept(o)' /\ OthersSame(o)
<1>1. TypeOK /\ At(o, "create")
  BY DEF Kept, Create
<1>2. /\ task' \in [Operations -> Task] /\ task'[o].pc = "plan"
      /\ \A p \in Operations : p # o => task'[p] = task[p]
  BY <1>1, GotoEffect DEF Create, AllPcs, LockedPcs, CreatePcs
<1>3. /\ op' \in [Operations -> Operation] /\ op'[o].status = "queued"
      /\ \A p \in Operations : p # o => op'[p] = op[p]
  BY <1>1 DEF Create, TypeOK, Operation, Active
<1>4. TypeOK'
  BY <1>1, <1>2, <1>3 DEF Create, TypeOK
<1>5. OrderInv(o)'
  BY <1>1, <1>2 DEF Kept, Create, OrderInv, At, CreatePcs, TryPcs
<1>6. HonestInv(o)'
  BY <1>1, <1>2, <1>3 DEF Kept, Create, HonestInv, At
<1> QED
  BY <1>2, <1>3, <1>4, <1>5, <1>6 DEF Kept, OthersSame, Create

LEMMA PlanStep ==
    ASSUME NEW o \in Operations, Kept(o), Plan(o)
    PROVE  Kept(o)' /\ OthersSame(o)
<1>1. TypeOK /\ At(o, "plan")
  BY DEF Kept, Plan
<1>2. /\ step' \in [Operations -> [Steps -> StepStatuses \cup {"absent"}]]
      /\ step'[o][task[o].at] = "queued"
      /\ \A p \in Operations, r \in Steps :
            p # o \/ r # task[o].at => step'[p][r] = step[p][r]
  BY <1>1, RowTyped, SetStepEffect DEF Plan, StepStatuses, Active
<1>3. CASE task[o].at = LastStep
  <2>1. task' = [task EXCEPT ![o] = Fresh("begin")]
    BY <1>3 DEF Plan
  <2>2. Fresh("begin") \in Task /\ Fresh("begin").pc = "begin" /\ Fresh("begin").at = 1
        /\ Fresh("begin").degraded = FALSE
    BY FreshTyped DEF AllPcs, LockedPcs, TryPcs
  <2>3. /\ task' \in [Operations -> Task] /\ task'[o].pc = "begin" /\ task'[o].at = 1
        /\ task'[o].degraded = FALSE
        /\ \A p \in Operations : p # o => task'[p] = task[p]
    BY <1>1, <2>1, <2>2, MoveEffect
  <2>4. TypeOK'
    BY <1>1, <1>2, <2>3 DEF Plan, TypeOK
  <2>5. OrderInv(o)'
    <3>1. \A s \in Steps : step[o][s] # "running"
      BY <1>1 DEF Kept, OrderInv, At, CreatePcs
    <3>2. \A s \in Steps : step'[o][s] # "running"
      BY <1>2, <3>1
    <3>3. \A r \in Steps : ~(r < task'[o].at)
      BY <1>1, <2>3, RowTyped
    <3> QED
      BY <2>3, <3>2, <3>3 DEF OrderInv, CreatePcs
  <2>6. HonestInv(o)'
    BY <1>1, <1>2, <2>3, RowTyped DEF Kept, Plan, HonestInv, At, CatchPcs
  <2> QED
    BY <1>2, <2>3, <2>4, <2>5, <2>6 DEF Kept, OthersSame, Plan
<1>4. CASE task[o].at # LastStep
  <2>1. task' = [task EXCEPT ![o] = [task[o] EXCEPT !.at = @ + 1]]
    BY <1>4 DEF Plan
  <2>2. /\ [task[o] EXCEPT !.at = @ + 1] \in Task
        /\ [task[o] EXCEPT !.at = @ + 1].pc = "plan"
    <3>1. task[o].at + 1 \in Steps
      BY <1>1, <1>4, RowTyped, ManualAssumption DEF Steps
    <3> QED
      BY <1>1, <3>1, RowTyped DEF Task, At
  <2>3. /\ task' \in [Operations -> Task] /\ task'[o].pc = "plan"
        /\ \A p \in Operations : p # o => task'[p] = task[p]
    BY <1>1, <2>1, <2>2, MoveEffect
  <2>4. TypeOK'
    BY <1>1, <1>2, <2>3 DEF Plan, TypeOK
  <2>5. OrderInv(o)'
    BY <1>1, <1>2, <2>3, RowTyped DEF Kept, Plan, OrderInv, At, CreatePcs, TryPcs
  <2>6. HonestInv(o)'
    BY <1>1, <1>2, <2>3, RowTyped DEF Kept, Plan, HonestInv, At, CatchPcs
  <2> QED
    BY <1>2, <2>3, <2>4, <2>5, <2>6 DEF Kept, OthersSame, Plan
<1> QED
  BY <1>3, <1>4

(* Begin and the two failures write a status that is not a good verdict.   *)
LEMMA BeginStep ==
    ASSUME NEW o \in Operations, Kept(o), Begin(o)
    PROVE  Kept(o)' /\ OthersSame(o)
<1>1. TypeOK /\ At(o, "begin")
  BY DEF Kept, Begin
<1>2. /\ task' \in [Operations -> Task] /\ task'[o].pc = "mark"
      /\ task'[o].at = task[o].at /\ task'[o].degraded = task[o].degraded
      /\ \A p \in Operations : p # o => task'[p] = task[p]
  BY <1>1, GotoEffect DEF Begin, AllPcs, LockedPcs, TryPcs
<1>3. /\ op' \in [Operations -> Operation] /\ op'[o].status = "running"
      /\ \A p \in Operations : p # o => op'[p] = op[p]
  BY <1>1 DEF Begin, TypeOK, Operation, Active
<1>4. TypeOK'
  BY <1>1, <1>2, <1>3 DEF Begin, TypeOK
<1>5. OrderInv(o)'
  BY <1>1, <1>2 DEF Kept, Begin, OrderInv, At, CreatePcs, TryPcs
<1>6. HonestInv(o)'
  BY <1>1, <1>2, <1>3 DEF Kept, Begin, HonestInv, At
<1> QED
  BY <1>2, <1>3, <1>4, <1>5, <1>6 DEF Kept, OthersSame, Begin

LEMMA MarkStep ==
    ASSUME NEW o \in Operations, Kept(o), Mark(o)
    PROVE  Kept(o)' /\ OthersSame(o)
<1>1. TypeOK /\ At(o, "mark")
  BY DEF Kept, Mark
<1>2. /\ task' \in [Operations -> Task] /\ task'[o].pc = "work"
      /\ task'[o].at = task[o].at /\ task'[o].degraded = task[o].degraded
      /\ \A p \in Operations : p # o => task'[p] = task[p]
  BY <1>1, GotoEffect DEF Mark, AllPcs, LockedPcs, TryPcs
<1>3. /\ step' \in [Operations -> [Steps -> StepStatuses \cup {"absent"}]]
      /\ step'[o][task[o].at] = "running"
      /\ \A p \in Operations, r \in Steps :
            p # o \/ r # task[o].at => step'[p][r] = step[p][r]
  BY <1>1, RowTyped, SetStepEffect DEF Mark, StepStatuses, Active
<1>4. TypeOK'
  BY <1>1, <1>2, <1>3 DEF Mark, TypeOK
<1>5. OrderInv(o)'
  <2>1. /\ \A r \in Steps : r < task[o].at => step[o][r] \notin Active
        /\ \A s \in Steps : s > task[o].at => step[o][s] # "running"
    BY <1>1 DEF Kept, OrderInv, At, TryPcs
  <2>2. \A r \in Steps : r # task[o].at => step'[o][r] = step[o][r]
    BY <1>3
  <2>3. \A r \in Steps : r < task[o].at => step'[o][r] \notin Active
    BY <1>1, <2>1, <2>2, RowTyped
  <2>4. \A s \in Steps : s > task[o].at => step'[o][s] # "running"
    BY <1>1, <2>1, <2>2, RowTyped
  <2>5. ASSUME NEW s \in Steps, step'[o][s] = "running"
        PROVE  \A r \in Steps : r < s => step'[o][r] \notin Active
    <3>1. s <= task[o].at
      BY <1>1, <2>4, <2>5, RowTyped
    <3> QED
      BY <1>1, <2>3, <3>1, RowTyped
  <2> QED
    BY <1>2, <2>3, <2>4, <2>5 DEF OrderInv, CreatePcs
<1>6. HonestInv(o)'
  BY <1>1, <1>2, <1>3, RowTyped DEF Kept, Mark, HonestInv, At, CatchPcs
<1> QED
  BY <1>2, <1>3, <1>4, <1>5, <1>6 DEF Kept, OthersSame, Mark

LEMMA WorkStep ==
    ASSUME NEW o \in Operations, Kept(o), Work(o)
    PROVE  Kept(o)' /\ OthersSame(o)
<1>1. TypeOK /\ At(o, "work")
  BY DEF Kept, Work
<1>2. PICK result \in Outcomes(task[o].at) :
         task' = [task EXCEPT ![o].pc = "report", ![o].result = result,
                              ![o].degraded = DegradedAfter(o, result)]
  BY DEF Work
<1> DEFINE t == [task[o] EXCEPT !.pc = "report", !.result = result,
                                !.degraded = DegradedAfter(o, result)]
<1>3. result \in Terminal \cup {"skipped"}
  BY DEF Outcomes, Terminal
<1>4. DegradedAfter(o, result) \in BOOLEAN
  BY <1>1, RowTyped DEF DegradedAfter, Task
<1>5. /\ t \in Task /\ t.pc = "report" /\ t.at = task[o].at /\ t.result = result
      /\ t.degraded = DegradedAfter(o, result)
  BY <1>1, <1>3, <1>4, RowTyped DEF Task, LockedPcs, TryPcs
<1>6. task' = [task EXCEPT ![o] = t]
  BY <1>1, <1>2 DEF TypeOK
<1> HIDE DEF t
<1>7. /\ task' \in [Operations -> Task] /\ task'[o] = t
      /\ \A p \in Operations : p # o => task'[p] = task[p]
  BY <1>1, <1>5, <1>6, MoveEffect
<1>8. TypeOK'
  BY <1>1, <1>7 DEF Work, TypeOK, tables
<1>9. OrderInv(o)'
  BY <1>1, <1>5, <1>7 DEF Kept, Work, OrderInv, At, CreatePcs, TryPcs, tables
<1>10. HonestInv(o)'
  BY <1>1, <1>5, <1>7 DEF Kept, Work, HonestInv, At, CatchPcs, tables, DegradedAfter
<1> QED
  BY <1>7, <1>8, <1>9, <1>10 DEF Kept, OthersSame, Work, tables

LEMMA ReportStep ==
    ASSUME NEW o \in Operations, Kept(o), Report(o)
    PROVE  Kept(o)' /\ OthersSame(o)
<1> DEFINE i == task[o].at
           t == AfterReport(o)
<1>1. TypeOK /\ At(o, "report") /\ i \in Steps /\ i \in Nat /\ i <= LastStep
  BY RowTyped DEF Kept, Report
<1>2. task[o].result \in Terminal \cup {"skipped"} /\ task[o].result \in Outcomes(i)
  BY <1>1, RowTyped DEF Task, Kept, HonestInv, At
<1>3. /\ step' \in [Operations -> [Steps -> StepStatuses \cup {"absent"}]]
      /\ step'[o][i] = task[o].result
      /\ \A p \in Operations, r \in Steps : p # o \/ r # i => step'[p][r] = step[p][r]
  BY <1>1, <1>2, SetStepEffect DEF Report, Reported, StepStatuses
<1>4. /\ t \in Task /\ t.degraded = task[o].degraded
      /\ i = LastStep => t.at = LastStep
                         /\ t.pc = IF task[o].result = "failed" THEN "fail" ELSE "link"
      /\ i # LastStep => t.at = i + 1 /\ t.pc = "begin"
  <2>1. CASE i = LastStep
    BY <1>1, <2>1, RowTyped DEF AfterReport, Task, LockedPcs, TryPcs
  <2>2. CASE i # LastStep
    <3>1. i + 1 \in Steps
      BY <1>1, <2>2, ManualAssumption DEF Steps
    <3> QED
      BY <1>1, <2>2, <3>1, RowTyped DEF AfterReport, Task, LockedPcs, TryPcs, Terminal
  <2> QED
    BY <2>1, <2>2
<1>5. task' = [task EXCEPT ![o] = t]
  BY DEF Report
<1> HIDE DEF t
<1>6. /\ task' \in [Operations -> Task] /\ task'[o] = t
      /\ \A p \in Operations : p # o => task'[p] = task[p]
  BY <1>1, <1>4, <1>5, MoveEffect
<1>7. TypeOK'
  BY <1>1, <1>3, <1>6 DEF Report, TypeOK
<1>8. \A s \in Steps : s < i => step[o][s] \in Good /\ step'[o][s] = step[o][s]
  BY <1>1, <1>3 DEF Kept, HonestInv, At, Steps
<1>9. \A s \in Steps : s > i => step'[o][s] # "running"
  BY <1>1, <1>3, RowTyped DEF Kept, OrderInv, At, TryPcs
<1>10. step'[o][i] \notin Active
  BY <1>2, <1>3 DEF Terminal, Active
<1>11. \A s \in Steps : s <= i => step'[o][s] \notin Active
  <2>1. \A s \in Steps : s < i => step'[o][s] \notin Active
    BY <1>8 DEF Good, Active
  <2> QED
    BY <1>1, <1>10, <2>1, RowTyped
<1>12. OrderInv(o)'
  <2>1. \A s \in Steps : step'[o][s] # "running"
    BY <1>1, <1>9, <1>11, RowTyped DEF Active
  <2>2. \A r \in Steps : r < task'[o].at => step'[o][r] \notin Active
    BY <1>1, <1>4, <1>6, <1>11, RowTyped
  <2> QED
    BY <1>4, <1>6, <2>1, <2>2 DEF OrderInv
<1>13. task[o].degraded <=> \E s \in Steps : s <= i /\ step'[o][s] = "degraded"
  <2>1. task[o].degraded <=> \/ \E r \in Steps : r < i /\ step[o][r] = "degraded"
                             \/ task[o].result = "degraded"
    BY <1>1 DEF Kept, HonestInv, At
  <2>2. (\E r \in Steps : r < i /\ step[o][r] = "degraded")
           <=> \E r \in Steps : r < i /\ step'[o][r] = "degraded"
    BY <1>8
  <2> QED
    BY <1>1, <1>3, <2>1, <2>2, RowTyped
<1>14. op'[o].status \notin {"completed", "degraded"}
  BY <1>1 DEF Kept, HonestInv, At, Report, CatchPcs
<1>15. HonestInv(o)'
  <2>1. CASE i = LastStep /\ task[o].result = "failed"
    BY <1>4, <1>6, <1>14, <2>1 DEF HonestInv
  <2>2. CASE i = LastStep /\ task[o].result # "failed"
    <3>1. \A s \in Steps : s <= i
      BY <1>1, <2>2, RowTyped
    <3>2. step'[o][i] \in Good
      BY <1>2, <1>3, <2>2 DEF Outcomes, Good
    <3>3. \A s \in Steps : step'[o][s] \in Good
      BY <1>1, <1>8, <3>1, <3>2, RowTyped
    <3>4. task'[o].degraded <=> \E s \in Steps : step'[o][s] = "degraded"
      BY <1>4, <1>6, <1>13, <3>1
    <3> QED
      BY <1>4, <1>6, <1>14, <2>2, <3>3, <3>4 DEF HonestInv
  <2>3. CASE i # LastStep
    <3>1. \A s \in Steps : s < i + 1 <=> s <= i
      BY <1>1, RowTyped
    <3>2. step'[o][i] \in Good
      BY <1>2, <1>3, <2>3 DEF Outcomes, Good
    <3>3. \A s \in Steps : s <= i => step'[o][s] \in Good
      BY <1>1, <1>8, <3>2, RowTyped
    <3> QED
      BY <1>4, <1>6, <1>13, <1>14, <2>3, <3>1, <3>3 DEF HonestInv
  <2> QED
    BY <2>1, <2>2, <2>3
<1> QED
  BY <1>3, <1>6, <1>7, <1>12, <1>15 DEF Kept, OthersSame, Report

LEMMA LinkStep ==
    ASSUME NEW o \in Operations, Kept(o), Link(o)
    PROVE  Kept(o)' /\ OthersSame(o)
<1>1. TypeOK /\ At(o, "link")
  BY DEF Kept, Link
<1>2. /\ task' \in [Operations -> Task] /\ task'[o].pc = "finish"
      /\ task'[o].at = task[o].at /\ task'[o].degraded = task[o].degraded
      /\ \A p \in Operations : p # o => task'[p] = task[p]
  BY <1>1, GotoEffect DEF Link, AllPcs, LockedPcs, TryPcs
<1>3. /\ op' \in [Operations -> Operation] /\ op'[o].status = op[o].status
      /\ \A p \in Operations : p # o => op'[p] = op[p]
  BY <1>1 DEF Link, TypeOK, Operation
<1>4. TypeOK'
  BY <1>1, <1>2, <1>3 DEF Link, TypeOK
<1>5. OrderInv(o)'
  BY <1>1, <1>2 DEF Kept, Link, OrderInv, At, CreatePcs, TryPcs
<1>6. HonestInv(o)'
  BY <1>1, <1>2, <1>3 DEF Kept, Link, HonestInv, At, CatchPcs
<1> QED
  BY <1>2, <1>3, <1>4, <1>5, <1>6 DEF Kept, OthersSame, Link

(* The verdict is what the flag says, and the flag what the rows say.      *)
LEMMA FinishStep ==
    ASSUME NEW o \in Operations, Kept(o), Finish(o)
    PROVE  Kept(o)' /\ OthersSame(o)
<1> DEFINE verdict == IF task[o].degraded THEN "degraded" ELSE "completed"
           t == [task[o] EXCEPT !.pc = "close", !.result = verdict]
<1>1. TypeOK /\ At(o, "finish")
  BY DEF Kept, Finish
<1>2. /\ t \in Task /\ t.pc = "close" /\ t.at = task[o].at
  BY <1>1, RowTyped DEF Task, LockedPcs, TryPcs, Terminal
<1>3. task' = [task EXCEPT ![o] = t]
  BY <1>1 DEF Finish, TypeOK
<1>4. /\ op' \in [Operations -> Operation] /\ op'[o].status = verdict
      /\ \A p \in Operations : p # o => op'[p] = op[p]
  BY <1>1 DEF Finish, TypeOK, Operation, Terminal
<1> HIDE DEF t
<1>5. /\ task' \in [Operations -> Task] /\ task'[o] = t
      /\ \A p \in Operations : p # o => task'[p] = task[p]
  BY <1>1, <1>2, <1>3, MoveEffect
<1>6. TypeOK'
  BY <1>1, <1>4, <1>5 DEF Finish, TypeOK
<1>7. OrderInv(o)'
  BY <1>1, <1>2, <1>5 DEF Kept, Finish, OrderInv, At, CreatePcs, TryPcs
<1>8. /\ \A s \in Steps : step[o][s] \in Good
      /\ task[o].degraded <=> \E s \in Steps : step[o][s] = "degraded"
  BY <1>1 DEF Kept, HonestInv, At
<1>9. HonestInv(o)'
  <2>1. step' = step
    BY DEF Finish
  <2>2. CASE task[o].degraded
    BY <1>2, <1>4, <1>5, <1>8, <2>1, <2>2 DEF HonestInv
  <2>3. CASE ~task[o].degraded
    <3>1. \A s \in Steps : step[o][s] \in {"completed", "skipped"}
      BY <1>8, <2>3 DEF Good
    <3> QED
      BY <1>2, <1>4, <1>5, <2>1, <2>3, <3>1 DEF HonestInv
  <2> QED
    BY <2>2, <2>3
<1> QED
  BY <1>4, <1>5, <1>6, <1>7, <1>9 DEF Kept, OthersSame, Finish

LEMMA FailedStep ==
    ASSUME NEW o \in Operations, Kept(o), FailOperation(o) \/ Catch(o)
    PROVE  Kept(o)' /\ OthersSame(o)
<1>1. TypeOK /\ (At(o, "fail") \/ At(o, "caught"))
  BY DEF Kept, FailOperation, Catch
<1>2. /\ task' \in [Operations -> Task]
      /\ task'[o].pc = IF At(o, "fail") THEN "close" ELSE "closeFailed"
      /\ task'[o].at = task[o].at
      /\ \A p \in Operations : p # o => task'[p] = task[p]
  BY <1>1, GotoEffect DEF FailOperation, Catch, AllPcs, LockedPcs, TryPcs, CatchPcs, At
<1>3. /\ op' \in [Operations -> Operation] /\ op'[o].status = "failed"
      /\ \A p \in Operations : p # o => op'[p] = op[p]
  <2>1. op' = [op EXCEPT ![o].status = "failed", ![o].code = "error"]
    BY DEF FailOperation, Catch
  <2>2. op \in [Operations -> Operation] /\ op[o] \in Operation
    BY <1>1 DEF TypeOK
  <2>3. [op[o] EXCEPT !.status = "failed", !.code = "error"] \in Operation
    BY <2>2 DEF Operation, Terminal
  <2>4. op' = [op EXCEPT ![o] = [op[o] EXCEPT !.status = "failed", !.code = "error"]]
    BY <2>1, <2>2
  <2>5. [op[o] EXCEPT !.status = "failed", !.code = "error"].status = "failed"
    BY <2>2 DEF Operation
  <2> QED
    BY <2>2, <2>3, <2>4, <2>5
<1>4. UNCHANGED <<step, lock, cancel, sweep, lapsed, faults, crashes>>
  BY DEF FailOperation, Catch
<1>5. TypeOK'
  BY <1>1, <1>2, <1>3, <1>4 DEF TypeOK
<1>6. OrderInv(o)'
  BY <1>1, <1>2, <1>4 DEF Kept, OrderInv, At, CreatePcs, TryPcs
<1>7. HonestInv(o)'
  <2>1. task'[o].pc \in {"close", "closeFailed"}
    BY <1>2
  <2> QED
    BY <1>3, <2>1 DEF HonestInv
<1> QED
  BY <1>2, <1>3, <1>4, <1>5, <1>6, <1>7 DEF Kept, OthersSame
-----------------------------------------------------------------------------
(* What others may do to the rows of an operation.                         *)
Quiet(o) ==
    /\ op'[o] = op[o] \/ (IsActive(o) /\ op'[o].status = "failed")
    /\ \A s \in Steps : \/ step'[o][s] = step[o][s]
                        \/ step[o][s] \in Active /\ step'[o][s] \in {"failed", "skipped"}

(* Then what is true of the operation stays so, if its task is where it    *)
(* was or has left the work of the pipeline.                               *)
LEMMA QuietKeeps ==
    ASSUME NEW o \in Operations, Kept(o), TypeOK', Quiet(o),
           \/ task'[o] = task[o]
           \/ task'[o].pc \in CatchPcs \cup {"unlock", "done"}
           \/ task[o].pc \in {"new", "acquire"} /\ task'[o].pc \in {"new", "acquire", "create"}
           \/ At(o, "close") /\ task'[o].pc = "unlock"
    PROVE  Kept(o)'
<1>1. /\ \A s \in Steps : step'[o][s] \in Active => step[o][s] \in Active
      /\ \A s \in Steps : step'[o][s] = "running" => step[o][s] = "running"
      /\ \A s \in Steps : step[o][s] \in Good => step'[o][s] = step[o][s]
  BY DEF Quiet, Good, Active
<1>2. op'[o].status \in {"completed", "degraded"} => op'[o] = op[o]
  BY DEF Quiet
<1>3. OrderInv(o)'
  <2>1. \A s \in Steps : step'[o][s] = "running" =>
           \A r \in Steps : r < s => step'[o][r] \notin Active
    BY <1>1 DEF Kept, OrderInv
  <2>2. CASE task'[o] = task[o]
    <3>1. task[o].pc \in {"new", "acquire"} \cup CreatePcs =>
             \A s \in Steps : step'[o][s] # "running"
      BY <1>1 DEF Kept, OrderInv
    <3>2. task[o].pc \in TryPcs =>
            /\ \A r \in Steps : r < task[o].at => step'[o][r] \notin Active
            /\ \A s \in Steps : s > task[o].at => step'[o][s] # "running"
      BY <1>1 DEF Kept, OrderInv
    <3>3. task[o].pc \in {"link", "finish", "fail", "close"} => task[o].at = LastStep
      BY DEF Kept, OrderInv
    <3> QED
      BY <2>1, <2>2, <3>1, <3>2, <3>3 DEF OrderInv
  <2>3. CASE task'[o].pc \in CatchPcs \cup {"unlock", "done"}
    BY <2>1, <2>3 DEF OrderInv, CatchPcs, TryPcs, CreatePcs
  <2>4. CASE /\ task[o].pc \in {"new", "acquire"}
             /\ task'[o].pc \in {"new", "acquire", "create"}
    <3>1. \A s \in Steps : step'[o][s] # "running"
      BY <1>1, <2>4 DEF Kept, OrderInv
    <3> QED
      BY <2>1, <2>4, <3>1 DEF OrderInv, TryPcs
  <2>5. CASE At(o, "close") /\ task'[o].pc = "unlock"
    BY <2>1, <2>5 DEF OrderInv, TryPcs, CreatePcs
  <2> QED
    BY <2>2, <2>3, <2>4, <2>5
<1>4. HonestInv(o)'
  <2>1. /\ op'[o].status = "completed" =>
             \A s \in Steps : step'[o][s] \in {"completed", "skipped"}
        /\ op'[o].status = "degraded" =>
             /\ \A s \in Steps : step'[o][s] \in Good
             /\ \E s \in Steps : step'[o][s] = "degraded"
    BY <1>1, <1>2 DEF Kept, HonestInv, Good
  <2>2. CASE task'[o] = task[o]
    <3>1. task[o].pc \in {"begin", "mark", "work", "report"} =>
            /\ \A r \in Steps : r < task[o].at => step'[o][r] \in Good
            /\ task[o].degraded <=>
                 \/ \E r \in Steps : r < task[o].at /\ step'[o][r] = "degraded"
                 \/ task[o].pc = "report" /\ task[o].result = "degraded"
      <4> SUFFICES ASSUME task[o].pc \in {"begin", "mark", "work", "report"}
                   PROVE  /\ \A r \in Steps : r < task[o].at => step'[o][r] \in Good
                          /\ task[o].degraded <=>
                               \/ \E r \in Steps : r < task[o].at /\ step'[o][r] = "degraded"
                               \/ task[o].pc = "report" /\ task[o].result = "degraded"
        OBVIOUS
      <4>1. \A r \in Steps : r < task[o].at =>
               step[o][r] \in Good /\ step'[o][r] = step[o][r]
        BY <1>1 DEF Kept, HonestInv
      <4>2. task[o].degraded <=>
                 \/ \E r \in Steps : r < task[o].at /\ step[o][r] = "degraded"
                 \/ task[o].pc = "report" /\ task[o].result = "degraded"
        BY DEF Kept, HonestInv
      <4> QED
        BY <4>1, <4>2
    <3>2. task[o].pc \in {"link", "finish"} =>
            /\ \A s \in Steps : step'[o][s] \in Good
            /\ task[o].degraded <=> \E s \in Steps : step'[o][s] = "degraded"
      BY <1>1 DEF Kept, HonestInv
    <3>3. task[o].pc = "report" => task[o].result \in Outcomes(task[o].at)
      BY DEF Kept, HonestInv
    <3>4. op'[o].status \in {"completed", "degraded"} =>
            task[o].pc \in {"close", "done", "unlock"} \cup CatchPcs
      BY <1>2 DEF Kept, HonestInv
    <3> QED
      BY <2>1, <2>2, <3>1, <3>2, <3>3, <3>4 DEF HonestInv
  <2>3. CASE task'[o].pc \in CatchPcs \cup {"unlock", "done"}
    BY <2>1, <2>3 DEF HonestInv, CatchPcs
  <2>4. CASE /\ task[o].pc \in {"new", "acquire"}
             /\ task'[o].pc \in {"new", "acquire", "create"}
    BY <1>2, <2>1, <2>4 DEF Kept, HonestInv, CatchPcs
  <2>5. CASE At(o, "close") /\ task'[o].pc = "unlock"
    BY <2>1, <2>5 DEF HonestInv
  <2> QED
    BY <2>2, <2>3, <2>4, <2>5
<1> QED
  BY <1>3, <1>4 DEF Kept

LEMMA ClosingStep ==
    ASSUME NEW o \in Operations, Kept(o), Close(o) \/ CloseFailed(o)
    PROVE  Kept(o)' /\ OthersSame(o)
<1>1. TypeOK /\ (At(o, "close") \/ At(o, "closeFailed"))
  BY DEF Kept, Close, CloseFailed
<1>2. /\ task' \in [Operations -> Task] /\ task'[o].pc = "unlock"
      /\ \A p \in Operations : p # o => task'[p] = task[p]
  BY <1>1, GotoEffect DEF Close, CloseFailed, AllPcs, LockedPcs
<1>3. PICK status \in {"failed", "skipped"} : CloseStepsOf({o}, status)
  BY DEF Close, CloseFailed
<1>4. /\ step' \in [Operations -> [Steps -> StepStatuses \cup {"absent"}]]
      /\ \A p \in Operations, r \in Steps :
            step'[p][r] = IF p \in {o} /\ step[p][r] \in Active THEN status ELSE step[p][r]
  BY <1>1, <1>3, CloseEffect
<1>5. UNCHANGED <<op, lock, cancel, sweep, lapsed, faults, crashes>>
  BY DEF Close, CloseFailed
<1>6. TypeOK'
  BY <1>1, <1>2, <1>4, <1>5 DEF TypeOK
<1>7. Quiet(o)
  BY <1>4, <1>5 DEF Quiet
<1>8. Kept(o)'
  BY <1>2, <1>6, <1>7, QuietKeeps
<1> QED
  BY <1>2, <1>4, <1>5, <1>8 DEF OthersSame

LEMMA StartStep ==
    ASSUME NEW o \in Operations, Kept(o), Start(o)
    PROVE  Kept(o)' /\ OthersSame(o)
<1>1. TypeOK
  BY DEF Kept
<1>2. /\ UNCHANGED <<op, step, cancel, sweep, lapsed, faults, crashes>>
      /\ lock' = lock \/ lock' = o
      /\ task[o].pc \in {"new", "acquire"} /\ task'[o].pc \in {"new", "acquire", "create"}
      /\ task' \in [Operations -> Task]
      /\ \A p \in Operations : p # o => task'[p] = task[p]
  BY <1>1, StartEffect DEF At
<1>3. TypeOK'
  BY <1>1, <1>2 DEF TypeOK
<1>4. Quiet(o)
  BY <1>2 DEF Quiet
<1> QED
  BY <1>2, <1>3, <1>4, QuietKeeps DEF OthersSame

(* A call that fails, and the end of a pipeline: no row is written.        *)
LEMMA EndingStep ==
    ASSUME NEW o \in Operations, Kept(o), AcquireFails(o) \/ Fail(o) \/ Unlock(o)
    PROVE  Kept(o)' /\ OthersSame(o)
<1>1. TypeOK
  BY DEF Kept
<1>2. /\ task' \in [Operations -> Task]
      /\ task'[o].pc \in CatchPcs \cup {"unlock", "done"}
      /\ \A p \in Operations : p # o => task'[p] = task[p]
  <2>1. CASE AcquireFails(o)
    BY <1>1, <2>1, GotoEffect DEF AcquireFails, AllPcs
  <2>2. CASE Fail(o)
    BY <1>1, <2>2, GotoEffect DEF Fail, AllPcs, LockedPcs, CatchPcs
  <2>3. CASE Unlock(o)
    <3>1. Fresh("done") \in Task /\ Fresh("done").pc = "done"
      BY FreshTyped DEF AllPcs
    <3> QED
      BY <1>1, <2>3, <3>1, MoveEffect DEF Unlock
  <2> QED
    BY <2>1, <2>2, <2>3
<1>3. /\ UNCHANGED <<op, step, cancel, sweep, crashes>>
      /\ lapsed' \subseteq lapsed
      /\ lock' \in {lock, o, None}
      /\ faults' = faults \/ Fault
  BY DEF AcquireFails, Fail, Unlock, Released, tables
<1>4. faults' \in 0..MaxFaults
  BY <1>1, <1>3, ManualAssumption DEF Fault, TypeOK
<1>5. TypeOK'
  BY <1>1, <1>2, <1>3, <1>4 DEF TypeOK
<1>6. Quiet(o)
  BY <1>3 DEF Quiet
<1> QED
  BY <1>2, <1>3, <1>5, <1>6, QuietKeeps DEF OthersSame

(* The cancel endpoint, the sweep and Redis.                               *)
Others ==
    \/ \E o \in Operations : CancelOperation(o) \/ CancelSteps(o) \/ CancelFails(o)
    \/ SweepStep \/ SweepFails \/ \E old \in SUBSET Operations : ReadStale(old)
    \/ LockExpires

LEMMA OthersStep ==
    ASSUME TypeOK, Others
    PROVE  TypeOK' /\ UNCHANGED <<task, crashes>> /\ \A o \in Operations : Quiet(o)
<1> DEFINE Goal == TypeOK' /\ UNCHANGED <<task, crashes>> /\ \A o \in Operations : Quiet(o)
<1>1. Fault => faults' \in 0..MaxFaults
  BY ManualAssumption DEF Fault, TypeOK
<1>2. ASSUME NEW o \in Operations, CancelOperation(o) PROVE Goal
  <2>1. /\ op' \in [Operations -> Operation]
        /\ \A p \in Operations :
              op'[p] = op[p] \/ (IsActive(p) /\ op'[p].status = "failed")
    BY <1>2, FailActiveEffect DEF CancelOperation
  <2>2. UNCHANGED <<step, lock, task, sweep, lapsed, faults, crashes>>
        /\ cancel' = cancel \cup {o}
    BY <1>2 DEF CancelOperation
  <2> QED
    BY <2>1, <2>2 DEF TypeOK, Quiet
<1>3. ASSUME NEW o \in Operations, CancelSteps(o) PROVE Goal
  <2>1. /\ step' \in [Operations -> [Steps -> StepStatuses \cup {"absent"}]]
        /\ \A p \in Operations, r \in Steps :
              step'[p][r] = IF p \in {o} /\ step[p][r] \in Active THEN "failed" ELSE step[p][r]
    BY <1>3, CloseEffect DEF CancelSteps
  <2>2. UNCHANGED <<op, lock, task, sweep, lapsed, faults, crashes>>
        /\ cancel' = cancel \ {o}
    BY <1>3 DEF CancelSteps
  <2> QED
    BY <2>1, <2>2 DEF TypeOK, Quiet
<1>4. ASSUME NEW o \in Operations, CancelFails(o) PROVE Goal
  BY <1>1, <1>4 DEF CancelFails, TypeOK, Quiet, tables
<1>5. ASSUME SweepFails PROVE Goal
  BY <1>1, <1>5 DEF SweepFails, TypeOK, Quiet, tables, NoSweep, Sweep
<1>6. ASSUME NEW old \in SUBSET Operations, ReadStale(old) PROVE Goal
  <2>1. sweep' \in Sweep
    BY <1>6 DEF ReadStale, NoSweep, Sweep
  <2> QED
    BY <1>6, <2>1 DEF ReadStale, TypeOK, Quiet, tables
<1>7. ASSUME LockExpires PROVE Goal
  BY <1>7 DEF LockExpires, TypeOK, Quiet, tables
<1>8. ASSUME ReadParents PROVE Goal
  <2>1. sweep' \in Sweep
    BY <1>8 DEF ReadParents, NoSweep, Sweep
  <2> QED
    BY <1>8, <2>1 DEF ReadParents, TypeOK, Quiet, tables
<1>9. ASSUME ReadOrphans PROVE Goal
  <2>1. ActiveStepsOf(sweep.parents) \subseteq Operations \X Steps
    BY DEF ActiveStepsOf, TypeOK, Sweep
  <2>2. sweep' \in Sweep
    BY <1>9, <2>1 DEF ReadOrphans, NoSweep, Sweep
  <2> QED
    BY <1>9, <2>2 DEF ReadOrphans, TypeOK, Quiet, tables
<1>10. ASSUME CloseOrphans PROVE Goal
  <2>1. /\ step' \in [Operations -> [Steps -> StepStatuses \cup {"absent"}]]
        /\ \A p \in Operations, r \in Steps :
              step'[p][r] = IF <<p, r>> \in sweep.orphans /\ step[p][r] \in Active
                            THEN "failed" ELSE step[p][r]
    BY <1>10, CloseOrphansEffect
  <2>2. UNCHANGED <<op, lock, task, cancel, lapsed, faults, crashes>> /\ sweep' \in Sweep
    BY <1>10 DEF CloseOrphans, CloseWhere, NoSweep, Sweep
  <2> QED
    BY <2>1, <2>2 DEF TypeOK, Quiet
<1>11. ASSUME Expire PROVE Goal
  <2>1. /\ op' \in [Operations -> Operation]
        /\ \A p \in Operations :
              op'[p] = op[p] \/ (IsActive(p) /\ op'[p].status = "failed")
    BY <1>11, FailActiveEffect DEF Expire
  <2>2. UNCHANGED <<step, lock, task, cancel, lapsed, faults, crashes>> /\ sweep' \in Sweep
    BY <1>11 DEF Expire, TypeOK, Sweep
  <2> QED
    BY <2>1, <2>2 DEF TypeOK, Quiet
<1>12. ASSUME ExpireSteps PROVE Goal
  <2>1. /\ step' \in [Operations -> [Steps -> StepStatuses \cup {"absent"}]]
        /\ \A p \in Operations, r \in Steps :
              step'[p][r] = IF p \in sweep.stale /\ step[p][r] \in Active
                            THEN "failed" ELSE step[p][r]
    BY <1>12, CloseEffect DEF ExpireSteps
  <2>2. UNCHANGED <<op, lock, task, cancel, lapsed, faults, crashes>> /\ sweep' \in Sweep
    BY <1>12 DEF ExpireSteps, NoSweep, Sweep
  <2> QED
    BY <2>1, <2>2 DEF TypeOK, Quiet
<1> QED
  BY <1>2, <1>3, <1>4, <1>5, <1>6, <1>7, <1>8, <1>9, <1>10, <1>11, <1>12
     DEF Others, SweepStep

LEMMA CrashStep ==
    ASSUME TypeOK, Crash, \A o \in Operations : Kept(o)
    PROVE  TypeOK' /\ \A o \in Operations : Kept(o)'
<1>1. task' = [o \in Operations |->
                  IF task[o].pc \in {"new", "acquire"} THEN Fresh("new") ELSE Fresh("done")]
      /\ UNCHANGED <<op, step, lock, faults>>
  BY DEF Crash, tables
<1>2. /\ Fresh("new") \in Task /\ Fresh("new").pc = "new"
      /\ Fresh("done") \in Task /\ Fresh("done").pc = "done"
  BY FreshTyped DEF AllPcs
<1>3. crashes' \in 0..MaxCrashes /\ cancel' = {} /\ sweep' \in Sweep /\ lapsed' = {}
  BY ManualAssumption DEF Crash, TypeOK, NoSweep, Sweep
<1>4. TypeOK'
  BY <1>1, <1>2, <1>3 DEF TypeOK
<1>5. ASSUME NEW o \in Operations PROVE Kept(o)'
  <2>1. Quiet(o)
    BY <1>1 DEF Quiet
  <2>2. CASE task[o].pc \in {"new", "acquire"}
    BY <1>1, <1>2, <1>4, <2>1, <2>2, QuietKeeps
  <2>3. CASE task[o].pc \notin {"new", "acquire"}
    BY <1>1, <1>2, <1>4, <2>1, <2>3, QuietKeeps
  <2> QED
    BY <2>2, <2>3
<1> QED
  BY <1>4, <1>5

Own(o) == Start(o) \/ Pipeline(o) \/ AcquireFails(o) \/ Fail(o)

LEMMA NextCases ==
    ASSUME [Next]_vars
    PROVE  (\E o \in Operations : Own(o)) \/ Others \/ Crash \/ UNCHANGED vars
BY DEF Next, Disturbance, Own, Others

LEMMA OwnStep ==
    ASSUME NEW o \in Operations, Kept(o), Own(o)
    PROVE  Kept(o)' /\ OthersSame(o)
BY StartStep, CreateStep, PlanStep, BeginStep, MarkStep, WorkStep, ReportStep, LinkStep,
   FinishStep, FailedStep, ClosingStep, EndingStep DEF Own, Pipeline

KeptInv == TypeOK /\ \A o \in Operations : OrderInv(o) /\ HonestInv(o)

LEMMA KeptInitial == Init => KeptInv
<1> SUFFICES ASSUME Init PROVE KeptInv
  OBVIOUS
<1>1. Fresh("new") \in Task /\ Fresh("new").pc = "new"
  BY FreshTyped DEF AllPcs
<1>2. TypeOK
  BY <1>1, ManualAssumption
     DEF Init, TypeOK, Operation, NoSweep, Sweep, StepStatuses, Active, Terminal
<1>3. ASSUME NEW o \in Operations PROVE OrderInv(o) /\ HonestInv(o)
  BY <1>1 DEF Init, OrderInv, HonestInv, TryPcs
<1> QED
  BY <1>2, <1>3 DEF KeptInv

LEMMA KeptInductive == KeptInv /\ [Next]_vars => KeptInv'
<1> SUFFICES ASSUME KeptInv, [Next]_vars PROVE KeptInv'
  OBVIOUS
<1>0. TypeOK /\ \A o \in Operations : Kept(o)
  BY DEF KeptInv, Kept
<1>1. ASSUME NEW o \in Operations, Own(o) PROVE KeptInv'
  <2>1. Kept(o)' /\ OthersSame(o)
    BY <1>0, <1>1, OwnStep
  <2>2. TypeOK'
    BY <2>1 DEF Kept
  <2>3. ASSUME NEW p \in Operations, p # o PROVE Kept(p)'
    <3>1. Quiet(p) /\ task'[p] = task[p]
      BY <2>1, <2>3 DEF OthersSame, Quiet
    <3> QED
      BY <1>0, <2>2, <3>1, QuietKeeps
  <2> QED
    BY <2>1, <2>2, <2>3 DEF KeptInv, Kept
<1>2. CASE Others
  <2>1. TypeOK' /\ task' = task /\ \A o \in Operations : Quiet(o)
    BY <1>0, <1>2, OthersStep
  <2>2. \A o \in Operations : Kept(o)'
    BY <1>0, <2>1, QuietKeeps
  <2> QED
    BY <2>1, <2>2 DEF KeptInv, Kept
<1>3. CASE Crash
  BY <1>0, <1>3, CrashStep DEF KeptInv, Kept
<1>4. CASE UNCHANGED vars
  BY <1>4 DEF vars, tables, KeptInv, TypeOK, OrderInv, HonestInv
<1> QED
  BY <1>1, <1>2, <1>3, <1>4, NextCases

(* Every variable keeps its type, the records of the tasks and of the      *)
(* sweep included.                                                         *)
THEOREM TypeCorrect == Spec => []TypeOK
<1>1. KeptInv => TypeOK
  BY DEF KeptInv
<1> QED
  BY <1>1, KeptInitial, KeptInductive, PTL DEF Spec

(* A step says running only when every step before it is over.             *)
THEOREM OrderHolds == Spec => []StepsInOrder
<1>1. KeptInv => StepsInOrder
  <2> SUFFICES ASSUME KeptInv, NEW o \in Operations, NEW s \in Steps,
                      step[o][s] = "running", NEW r \in 1..(s - 1)
               PROVE  step[o][r] \notin Active
    BY DEF StepsInOrder
  <2>1. r \in Steps /\ r < s
    BY ManualAssumption DEF Steps
  <2> QED
    BY <2>1 DEF KeptInv, OrderInv
<1> QED
  BY <1>1, KeptInitial, KeptInductive, PTL DEF Spec

(* An operation that says completed or degraded has done what that says,   *)
(* whatever the cancel endpoint and the sweep wrote in between.            *)
THEOREM VerdictIsHonest == Spec => []FinishedHonestly
<1>1. KeptInv => FinishedHonestly
  BY DEF KeptInv, HonestInv, FinishedHonestly, Good
<1> QED
  BY <1>1, KeptInitial, KeptInductive, PTL DEF Spec
-----------------------------------------------------------------------------
LEMMA RowsOfOthers ==
    ASSUME KeptInv, [Next]_vars, NEW o \in Operations, At(o, "done")
    PROVE  Quiet(o)
<1>0. TypeOK /\ \A p \in Operations : Kept(p)
  BY DEF KeptInv, Kept
<1>1. ASSUME NEW p \in Operations, Own(p) PROVE Quiet(o)
  <2>1. p # o
    BY <1>1 DEF Own, Start, Pipeline, CheckActive, Acquire, Refuse, Create, Plan, Begin,
                Mark, Work, Report, Link, Finish, FailOperation, Close, Catch, CloseFailed,
                Unlock, AcquireFails, Fail, At, TryPcs, CatchPcs, CreatePcs
  <2>2. OthersSame(p)
    BY <1>0, <1>1, OwnStep
  <2> QED
    BY <2>1, <2>2 DEF OthersSame, Quiet
<1>2. CASE Others
  BY <1>0, <1>2, OthersStep
<1>3. CASE Crash
  BY <1>3 DEF Crash, Quiet, tables
<1>4. CASE UNCHANGED vars
  BY <1>4 DEF vars, tables, Quiet
<1> QED
  BY <1>1, <1>2, <1>3, <1>4, NextCases

(* The verdict of an operation whose pipeline is over is final, and that   *)
(* of each of its steps: no cancel and no sweep comes too late.            *)
THEOREM VerdictStays == Spec => VerdictKept
<1>1. KeptInv /\ [Next]_vars =>
        [\A o \in Operations :
           At(o, "done") /\ IsTerminal(o) =>
              /\ op'[o] = op[o]
              /\ \A s \in Steps : step[o][s] \notin Active => step'[o][s] = step[o][s]]_vars
  <2> SUFFICES ASSUME KeptInv, [Next]_vars, NEW o \in Operations,
                      At(o, "done"), IsTerminal(o)
               PROVE  /\ op'[o] = op[o]
                      /\ \A s \in Steps :
                            step[o][s] \notin Active => step'[o][s] = step[o][s]
    OBVIOUS
  <2>1. Quiet(o)
    BY RowsOfOthers
  <2>2. ~IsActive(o)
    BY DEF IsTerminal, IsActive, Terminal, Active
  <2> QED
    BY <2>1, <2>2 DEF Quiet
<1> QED
  BY <1>1, KeptInitial, KeptInductive, PTL DEF Spec, VerdictKept
-----------------------------------------------------------------------------
(* The lock and who is in it.                                              *)
InLock(o) == task[o].pc \in LockedPcs

LEMMA LockMoves ==
    ASSUME TypeOK, NEW o \in Operations, Own(o),
           ~Acquire(o), ~AcquireFails(o), ~Unlock(o)
    PROVE  /\ UNCHANGED <<lock, lapsed, crashes>>
           /\ InLock(o)' <=> InLock(o)
<1> USE DEF InLock, AllPcs, LockedPcs, CreatePcs, TryPcs, CatchPcs, At, tables
<1>1. CASE CheckActive(o)
  BY <1>1, GotoEffect DEF CheckActive
<1>2. CASE Refuse(o)
  BY <1>2, GotoEffect DEF Refuse
<1>3. CASE Create(o)
  BY <1>3, GotoEffect DEF Create
<1>4. CASE Plan(o)
  <2>1. Fresh("begin") \in Task /\ Fresh("begin").pc = "begin"
    BY FreshTyped
  <2>2. [task[o] EXCEPT !.at = @ + 1].pc = task[o].pc
    BY RowTyped DEF Task
  <2>3. task \in [Operations -> Task]
    BY DEF TypeOK
  <2> QED
    BY <1>4, <2>1, <2>2, <2>3 DEF Plan
<1>5. CASE Begin(o)
  BY <1>5, GotoEffect DEF Begin
<1>6. CASE Mark(o)
  BY <1>6, GotoEffect DEF Mark
<1>7. CASE Work(o)
  <2>1. task'[o].pc = "report"
    BY <1>7, RowTyped DEF Work, TypeOK, Task
  <2> QED
    BY <1>7, <2>1 DEF Work
<1>8. CASE Report(o)
  <2>1. AfterReport(o).pc \in TryPcs
    BY RowTyped DEF AfterReport, Task
  <2>2. task'[o] = AfterReport(o)
    BY <1>8 DEF Report, TypeOK
  <2> QED
    BY <1>8, <2>1, <2>2 DEF Report
<1>9. CASE Link(o)
  BY <1>9, GotoEffect DEF Link
<1>10. CASE Finish(o)
  <2>1. task'[o].pc = "close"
    BY <1>10, RowTyped DEF Finish, TypeOK, Task
  <2> QED
    BY <1>10, <2>1 DEF Finish
<1>11. CASE FailOperation(o)
  BY <1>11, GotoEffect DEF FailOperation
<1>12. CASE Close(o)
  <2>1. UNCHANGED <<lock, lapsed, crashes>> /\ At(o, "close") /\ Goto(o, "unlock")
    BY <1>12 DEF Close
  <2> QED
    BY <2>1, GotoEffect
<1>13. CASE Catch(o)
  BY <1>13, GotoEffect DEF Catch
<1>14. CASE CloseFailed(o)
  <2>1. UNCHANGED <<lock, lapsed, crashes>> /\ At(o, "closeFailed") /\ Goto(o, "unlock")
    BY <1>14 DEF CloseFailed
  <2> QED
    BY <2>1, GotoEffect
<1>15. CASE Fail(o)
  <2>1. /\ UNCHANGED <<lock, lapsed, crashes>>
        /\ task[o].pc \in TryPcs \cup CatchPcs \cup CreatePcs
        /\ Goto(o, "caught") \/ Goto(o, "unlock")
    BY <1>15 DEF Fail
  <2> QED
    BY <2>1, GotoEffect
<1> QED
  BY <1>1, <1>2, <1>3, <1>4, <1>5, <1>6, <1>7, <1>8, <1>9, <1>10, <1>11, <1>12, <1>13,
     <1>14, <1>15 DEF Own, Start, Pipeline

LapsedInside == \A o \in lapsed : InLock(o)

inside == [o \in Operations |-> IF task[o].pc \in LockedPcs THEN LockKey ELSE None]
holder == [k \in {LockKey} |-> lock]

(* Who is inside, and what Lease says of the own steps that touch the key. *)
LEMMA InsideMoves ==
    ASSUME NEW o \in Operations, OthersSame(o)
    PROVE  \A p \in Operations : p # o => (InLock(p)' <=> InLock(p)) /\ inside'[p] = inside[p]
BY DEF OthersSame, InLock, inside

LEMMA AcquireMaps ==
    ASSUME KeptInv, LapsedInside, NEW o \in Operations, Acquire(o) \/ AcquireFails(o)
    PROVE  LapsedInside' /\ [L!LeaseNext]_(L!leaseVars)
<1>0. Kept(o) /\ TypeOK
  BY DEF KeptInv, Kept
<1>1. OthersSame(o) /\ lapsed' = lapsed /\ ~InLock(o)
  BY <1>0, OwnStep
     DEF Own, Start, Acquire, AcquireFails, InLock, At, LockedPcs, CreatePcs, TryPcs, CatchPcs
<1>2. \A p \in Operations : p # o => (InLock(p)' <=> InLock(p)) /\ inside'[p] = inside[p]
  BY <1>1, InsideMoves
<1>3. LapsedInside'
  BY <1>0, <1>1, <1>2 DEF LapsedInside, TypeOK
<1>4. CASE Acquire(o)
  <2>1. /\ task'[o].pc = "create" /\ lock = None /\ lock' = o
    BY <1>0, <1>4, GotoEffect DEF Acquire, AllPcs, LockedPcs, CreatePcs
  <2>2. inside[o] = None /\ inside'[o] = LockKey
    BY <1>1, <2>1 DEF inside, InLock, LockedPcs, CreatePcs
  <2>3. inside' = [inside EXCEPT ![o] = LockKey]
    BY <1>2, <2>2 DEF inside
  <2>4. holder[LockKey] = None /\ holder' = [holder EXCEPT ![LockKey] = o]
    BY <2>1 DEF holder
  <2>5. L!Acquire(o, LockKey)
    BY <1>1, <2>2, <2>3, <2>4 DEF L!Acquire, inside, holder
  <2> QED
    BY <1>3, <2>5 DEF L!LeaseNext
<1>5. CASE AcquireFails(o)
  <2>1. task'[o].pc = "done"
    BY <1>0, <1>5, GotoEffect DEF AcquireFails, AllPcs
  <2>2. inside' = inside
    <3>1. inside'[o] = inside[o]
      BY <1>1, <2>1 DEF inside, InLock, LockedPcs, CreatePcs, TryPcs, CatchPcs
    <3> QED
      BY <1>2, <3>1 DEF inside
  <2>3. inside[o] = None
    BY <1>1 DEF inside, InLock
  <2>4. CASE lock' = lock
    BY <1>1, <1>3, <2>2, <2>4 DEF L!leaseVars, inside, holder
  <2>5. CASE lock = None /\ lock' = o
    <3>1. holder[LockKey] = None /\ holder' = [holder EXCEPT ![LockKey] = o]
      BY <2>5 DEF holder
    <3>2. L!AcquireUnknown(o, LockKey)
      BY <1>1, <2>2, <2>3, <3>1 DEF L!AcquireUnknown, inside, holder
    <3> QED
      BY <1>3, <3>2 DEF L!LeaseNext
  <2> QED
    BY <1>5, <2>4, <2>5 DEF AcquireFails
<1> QED
  BY <1>4, <1>5

LEMMA UnlockMaps ==
    ASSUME KeptInv, LapsedInside, NEW o \in Operations, Unlock(o)
    PROVE  LapsedInside' /\ [L!LeaseNext]_(L!leaseVars)
<1>0. Kept(o) /\ TypeOK
  BY DEF KeptInv, Kept
<1>1. OthersSame(o) /\ InLock(o) /\ lapsed' = lapsed \ {o}
  BY <1>0, OwnStep DEF Own, Pipeline, Unlock, InLock, At, LockedPcs
<1>2. \A p \in Operations : p # o => (InLock(p)' <=> InLock(p)) /\ inside'[p] = inside[p]
  BY <1>1, InsideMoves
<1>3. LapsedInside'
  BY <1>0, <1>1, <1>2 DEF LapsedInside, TypeOK
<1>4. task'[o].pc = "done"
  <2>1. Fresh("done").pc = "done"
    BY FreshTyped DEF AllPcs
  <2> QED
    BY <1>0, <2>1 DEF Unlock, TypeOK
<1>5. inside[o] = LockKey /\ inside'[o] = None
  BY <1>1, <1>4 DEF inside, InLock, LockedPcs, CreatePcs, TryPcs, CatchPcs
<1>6. CASE lock' = Released(o)
  <2>1. inside' = [inside EXCEPT ![o] = None]
    BY <1>2, <1>5 DEF inside
  <2>2. holder' = [k \in {LockKey} |->
                     IF k = inside[o] /\ holder[k] = o THEN None ELSE holder[k]]
    BY <1>5, <1>6 DEF holder, Released
  <2>3. inside[o] # None
    BY <1>5, ManualAssumption
  <2>4. L!Release(o)
    BY <1>1, <2>1, <2>2, <2>3 DEF L!Release, L!Deletes, inside, holder
  <2> QED
    BY <1>3, <2>4 DEF L!LeaseNext
<1>7. CASE lock' = lock
  <2>1. inside' = [p \in Operations |-> IF p \in {o} THEN None ELSE inside[p]]
    BY <1>2, <1>5 DEF inside
  <2>2. \A p \in {o} : inside[p] # None
    BY <1>5, ManualAssumption
  <2>3. holder' = holder
    BY <1>7 DEF holder
  <2>4. L!Leave({o})
    BY <1>1, <2>1, <2>2, <2>3 DEF L!Leave, inside, holder
  <2> QED
    BY <1>3, <2>4 DEF L!LeaseNext
<1> QED
  BY <1>6, <1>7 DEF Unlock

LEMMA OthersMap ==
    ASSUME TypeOK, LapsedInside, Others
    PROVE  LapsedInside' /\ [L!LeaseNext]_(L!leaseVars)
<1>1. task' = task
  BY OthersStep
<1>2. inside' = inside /\ \A o \in Operations : InLock(o)' <=> InLock(o)
  BY <1>1 DEF inside, InLock
<1>3. CASE LockExpires
  <2>1. /\ lock # None /\ lock' = None
        /\ lapsed' = lapsed \cup {o \in Operations : o = lock /\ task[o].pc \in LockedPcs}
    BY <1>3 DEF LockExpires
  <2>2. LapsedInside'
    BY <1>2, <2>1 DEF LapsedInside, InLock, TypeOK
  <2>3. {o \in Operations : o = lock /\ task[o].pc \in LockedPcs}
          = {o \in Operations : o = holder[LockKey] /\ inside[o] = LockKey}
    BY ManualAssumption DEF holder, inside
  <2>4. holder[LockKey] # None /\ holder' = [holder EXCEPT ![LockKey] = None]
    BY <2>1 DEF holder
  <2>5. L!Expire(LockKey)
    BY <1>2, <2>1, <2>3, <2>4 DEF L!Expire, inside, holder
  <2> QED
    BY <2>2, <2>5 DEF L!LeaseNext
<1>4. CASE UNCHANGED <<lock, lapsed>>
  BY <1>2, <1>4 DEF L!leaseVars, LapsedInside, TypeOK, inside
<1>5. LockExpires \/ UNCHANGED <<lock, lapsed>>
  BY DEF Others, SweepStep, CancelOperation, CancelSteps, CancelFails, SweepFails, ReadStale,
         ReadParents, ReadOrphans, CloseOrphans, CloseWhere, Expire, ExpireSteps
<1> QED
  BY <1>3, <1>4, <1>5

(* A crash takes every pipeline out at once; its key stays in Redis.       *)
LEMMA CrashMaps ==
    ASSUME TypeOK, LapsedInside, Crash
    PROVE  LapsedInside' /\ [L!LeaseNext]_(L!leaseVars)
<1>0. PICK out \in SUBSET Operations : out = {o \in Operations : InLock(o)}
  OBVIOUS
<1>1. /\ task' = [o \in Operations |->
                  IF task[o].pc \in {"new", "acquire"} THEN Fresh("new") ELSE Fresh("done")]
      /\ lapsed' = {} /\ lock' = lock
  BY DEF Crash
<1>2. LapsedInside'
  BY <1>1 DEF LapsedInside
<1>3. Fresh("new").pc = "new" /\ Fresh("done").pc = "done"
  BY FreshTyped DEF AllPcs
<1>4. \A o \in Operations : ~InLock(o)'
  BY <1>1, <1>3 DEF InLock, LockedPcs, CreatePcs, TryPcs, CatchPcs
<1>5. inside' = [o \in Operations |-> IF o \in out THEN None ELSE inside[o]]
  BY <1>0, <1>4 DEF inside, InLock
<1>6. lapsed' = lapsed \ out
  BY <1>0, <1>1 DEF LapsedInside, TypeOK
<1>7. CASE out = {}
  BY <1>1, <1>2, <1>5, <1>6, <1>7 DEF L!leaseVars, inside
<1>8. CASE out # {}
  <2>1. \A o \in out : inside[o] # None
    BY <1>0, ManualAssumption DEF inside, InLock
  <2>2. holder' = holder
    BY <1>1 DEF holder
  <2>3. L!Leave(out)
    BY <1>5, <1>6, <1>8, <2>1, <2>2 DEF L!Leave, inside, holder
  <2> QED
    BY <1>2, <2>3 DEF L!LeaseNext
<1> QED
  BY <1>7, <1>8

LEMMA LockStep ==
    KeptInv /\ LapsedInside /\ [Next]_vars => LapsedInside' /\ [L!LeaseNext]_(L!leaseVars)
<1> SUFFICES ASSUME KeptInv, LapsedInside, [Next]_vars
             PROVE  LapsedInside' /\ [L!LeaseNext]_(L!leaseVars)
  OBVIOUS
<1>0. TypeOK
  BY DEF KeptInv
<1>1. ASSUME NEW o \in Operations, Own(o), ~Acquire(o), ~AcquireFails(o), ~Unlock(o)
      PROVE  LapsedInside' /\ [L!LeaseNext]_(L!leaseVars)
  <2>1. Kept(o)
    BY DEF KeptInv, Kept
  <2>2. OthersSame(o) /\ UNCHANGED <<lock, lapsed>> /\ (InLock(o)' <=> InLock(o))
    BY <1>0, <1>1, <2>1, OwnStep, LockMoves
  <2>3. \A p \in Operations : InLock(p)' <=> InLock(p)
    BY <2>2, InsideMoves
  <2>4. inside' = inside
    BY <2>3 DEF inside, InLock
  <2> QED
    BY <1>0, <2>2, <2>3, <2>4 DEF LapsedInside, TypeOK, L!leaseVars, inside
<1>2. CASE UNCHANGED vars
  BY <1>2 DEF vars, LapsedInside, InLock, L!leaseVars
<1> QED
  BY <1>0, <1>1, <1>2, AcquireMaps, UnlockMaps, OthersMap, CrashMaps, NextCases

LEMMA LockInitial == Init => LapsedInside /\ L!LeaseInit
<1> SUFFICES ASSUME Init PROVE LapsedInside /\ L!LeaseInit
  OBVIOUS
<1>1. Fresh("new").pc = "new"
  BY FreshTyped DEF AllPcs
<1>2. \A o \in Operations : task[o].pc \notin LockedPcs
  BY <1>1 DEF Init, LockedPcs, CreatePcs, TryPcs, CatchPcs
<1> QED
  BY <1>2 DEF Init, LapsedInside, L!LeaseInit

(* startManualRefreshAndRun implements the lock discipline of Lease: until *)
(* its lease ends, a pipeline owns the key and no other is in it.          *)
THEOREM ManualImplementsLease == Spec => LeaseKept
<1>1. Init => KeptInv /\ LapsedInside
  BY KeptInitial, LockInitial
<1> QED
  BY <1>1, KeptInductive, LockInitial, LockStep, PTL DEF Spec, LeaseKept, L!LeaseSpec
-----------------------------------------------------------------------------
(* Nothing left behind.                                                    *)
NoTrouble == faults = 0 /\ crashes = 0

CleanAll == NoTrouble => \A o \in Operations : CleanInv(o)

(* A counter that is 0 after a step was 0 before, and did not count.       *)
LEMMA NoTroubleBefore ==
    ASSUME KeptInv, [Next]_vars, NoTrouble'
    PROVE  NoTrouble /\ ~Crash
           /\ \A o \in Operations : Own(o) =>
                 ~AcquireFails(o) /\ ~Fail(o) /\ (Unlock(o) => lock' = Released(o))
<1>1. TypeOK /\ faults \in Nat /\ crashes \in Nat
  BY ManualAssumption DEF KeptInv, TypeOK
<1>2. ~Fault
  BY <1>1 DEF Fault, NoTrouble
<1>3. ~Crash
  BY <1>1 DEF Crash, NoTrouble
<1>4. ASSUME NEW o \in Operations, Own(o)
      PROVE  /\ ~AcquireFails(o) /\ ~Fail(o) /\ (Unlock(o) => lock' = Released(o))
             /\ faults' = faults /\ crashes' = crashes
  <2>1. ~AcquireFails(o) /\ ~Fail(o) /\ (Unlock(o) => lock' = Released(o) /\ faults' = faults)
    BY <1>2 DEF AcquireFails, Fail, Unlock
  <2>2. faults' = faults /\ crashes' = crashes
    BY <1>4, <2>1 DEF Own, Start, Pipeline, CheckActive, Acquire, Refuse, Create, Plan,
        Begin, Mark, Work, Report, Link, Finish, FailOperation, Close, Catch, CloseFailed,
        CloseStepsOf, CloseWhere, Unlock
  <2> QED
    BY <2>1, <2>2
<1>5. ASSUME Others PROVE faults' = faults /\ crashes' = crashes
  <2>1. ~SweepFails /\ \A o \in Operations : ~CancelFails(o)
    BY <1>2 DEF SweepFails, CancelFails
  <2> QED
    BY <1>5, <2>1
       DEF Others, SweepStep, CancelOperation, CancelSteps, ReadStale, ReadParents,
           ReadOrphans, CloseOrphans, CloseWhere, CloseStepsOf, Expire, ExpireSteps, LockExpires
<1>6. NoTrouble
  <2>1. CASE UNCHANGED vars
    BY <2>1 DEF vars, NoTrouble
  <2> QED
    BY <1>3, <1>4, <1>5, <2>1, NextCases DEF NoTrouble
<1> QED
  BY <1>3, <1>4, <1>6

LEMMA CleanPipeline ==
    ASSUME KeptInv, NEW o \in Operations, CleanInv(o), Pipeline(o), ~Unlock(o)
    PROVE  CleanInv(o)'
<1>0. TypeOK /\ Kept(o) /\ Own(o) /\ lock' = lock
  <2>1. Own(o) /\ TypeOK /\ Kept(o)
    BY DEF KeptInv, Kept, Own
  <2>2. ~Acquire(o) /\ ~AcquireFails(o)
    BY DEF Pipeline, Acquire, AcquireFails, Create, Plan, Begin, Mark, Work, Report, Link,
           Finish, FailOperation, Close, Catch, CloseFailed, At
  <2> QED
    BY <2>1, <2>2, LockMoves
<1>1. InLock(o)' /\ InLock(o)
  <2>1. InLock(o)
    BY DEF Pipeline, Create, Plan, Begin, Mark, Work, Report, Link, Finish, FailOperation,
           Close, Catch, CloseFailed, At, InLock, LockedPcs, CreatePcs, TryPcs, CatchPcs
  <2>2. ~Acquire(o) /\ ~AcquireFails(o)
    BY <2>1 DEF Acquire, AcquireFails, InLock, LockedPcs, CreatePcs, TryPcs, CatchPcs, At
  <2> QED
    BY <1>0, <2>1, <2>2, LockMoves
<1> USE DEF AllPcs, LockedPcs, CreatePcs, TryPcs, CatchPcs, At
<1>2. ASSUME task'[o].pc \notin {"caught", "closeFailed", "close", "unlock", "done"}
      PROVE  CleanInv(o)'
  BY <1>1, <1>2 DEF CleanInv, InLock
<1>3. CASE Create(o)
  BY <1>0, <1>2, <1>3, GotoEffect DEF Create
<1>4. CASE Plan(o)
  <2>1. Fresh("begin").pc = "begin"
    BY FreshTyped
  <2>2. [task[o] EXCEPT !.at = @ + 1].pc = task[o].pc
    BY <1>0, RowTyped DEF Task
  <2>3. task'[o].pc \in {"begin", "plan"}
    BY <1>0, <1>4, <2>1, <2>2 DEF Plan, TypeOK
  <2> QED
    BY <1>2, <2>3
<1>5. CASE Begin(o)
  BY <1>0, <1>2, <1>5, GotoEffect DEF Begin
<1>6. CASE Mark(o)
  BY <1>0, <1>2, <1>6, GotoEffect DEF Mark
<1>7. CASE Work(o)
  <2>1. task'[o].pc = "report"
    BY <1>0, <1>7, RowTyped DEF Work, TypeOK, Task
  <2> QED
    BY <1>2, <2>1
<1>8. CASE Report(o)
  <2>1. AfterReport(o).pc \in {"fail", "link", "begin"}
    BY <1>0, RowTyped DEF AfterReport, Task
  <2>2. task'[o] = AfterReport(o)
    BY <1>0, <1>8 DEF Report, TypeOK
  <2> QED
    BY <1>2, <2>1, <2>2
<1>9. CASE Link(o)
  BY <1>0, <1>2, <1>9, GotoEffect DEF Link
<1>10. CASE Finish(o)
  <2>1. task'[o].pc = "close"
    BY <1>0, <1>10, RowTyped DEF Finish, TypeOK, Task
  <2>2. op'[o].status \in {"degraded", "completed"}
    BY <1>0, <1>10, RowTyped DEF Finish, TypeOK, Operation
  <2> QED
    BY <1>1, <2>1, <2>2 DEF CleanInv, IsTerminal, Terminal, InLock
<1>11. CASE FailOperation(o)
  <2>1. task'[o].pc = "close"
    BY <1>0, <1>11, GotoEffect DEF FailOperation
  <2>2. op'[o].status = "failed"
    BY <1>0, <1>11, RowTyped DEF FailOperation, TypeOK, Operation
  <2> QED
    BY <1>1, <2>1, <2>2 DEF CleanInv, IsTerminal, Terminal, InLock
<1>12. CASE Close(o)
  <2>1. At(o, "close") /\ Goto(o, "unlock") /\ op' = op
    BY <1>12 DEF Close
  <2>2. PICK status \in {"failed", "skipped"} : CloseStepsOf({o}, status)
    BY <1>12 DEF Close
  <2>3. \A s \in Steps :
           step'[o][s] = IF o \in {o} /\ step[o][s] \in Active THEN status ELSE step[o][s]
    BY <1>0, <2>2, CloseEffect
  <2>4. \A s \in Steps : step'[o][s] \notin Active
    BY <2>3 DEF Active
  <2>5. task'[o].pc = "unlock" /\ IsTerminal(o)
    BY <1>0, <2>1, GotoEffect DEF CleanInv
  <2> QED
    BY <1>1, <2>1, <2>4, <2>5 DEF CleanInv, IsTerminal, InLock
<1>13. CASE Catch(o) \/ CloseFailed(o)
  BY <1>13 DEF Catch, CloseFailed, CleanInv
<1> QED
  BY <1>3, <1>4, <1>5, <1>6, <1>7, <1>8, <1>9, <1>10, <1>11, <1>12, <1>13 DEF Pipeline

(* The pipeline of one, and what it does to the key of the others.         *)
LEMMA CleanOwn ==
    ASSUME KeptInv, NEW o \in Operations, CleanInv(o), Own(o),
           ~AcquireFails(o), ~Fail(o), Unlock(o) => lock' = Released(o)
    PROVE  CleanInv(o)' /\ \A p \in Operations : p # o /\ lock' = p => lock = p
<1>0. TypeOK /\ Kept(o)
  BY DEF KeptInv, Kept
<1>1. CASE Start(o)
  <2>1. /\ op' = op /\ step' = step
        /\ task[o].pc \in {"new", "acquire"} /\ task'[o].pc \in {"new", "acquire", "create"}
        /\ lock' = lock \/ (lock' = o /\ task'[o].pc = "create")
    BY <1>0, <1>1, StartEffect DEF At
  <2>2. lock # o
    BY <2>1 DEF CleanInv, LockedPcs, CreatePcs, TryPcs, CatchPcs
  <2> QED
    BY <2>1, <2>2 DEF CleanInv, LockedPcs, CreatePcs, CatchPcs
<1>2. CASE Unlock(o)
  <2>1. Fresh("done").pc = "done"
    BY FreshTyped DEF AllPcs
  <2>2. task'[o].pc = "done" /\ At(o, "unlock") /\ op' = op /\ step' = step
    BY <1>0, <1>2, <2>1 DEF Unlock, TypeOK, tables
  <2>3. lock' # o /\ \A p \in Operations : p # o /\ lock' = p => lock = p
    BY <1>2, ManualAssumption DEF Released
  <2> QED
    BY <2>2, <2>3 DEF CleanInv, IsTerminal, CatchPcs, At
<1>3. CASE Pipeline(o) /\ ~Unlock(o)
  <2>1. CleanInv(o)'
    BY <1>3, CleanPipeline
  <2>2. ~Acquire(o)
    BY <1>3 DEF Pipeline, Acquire, Create, Plan, Begin, Mark, Work, Report, Link,
           Finish, FailOperation, Close, Catch, CloseFailed, At
  <2> QED
    BY <1>0, <1>3, <2>1, <2>2, LockMoves
<1> QED
  BY <1>1, <1>2, <1>3 DEF Own

LEMMA QuietIsClean ==
    ASSUME NEW o \in Operations, CleanInv(o), Quiet(o), task'[o] = task[o],
           lock' = o => lock = o
    PROVE  CleanInv(o)'
<1>1. IsTerminal(o) => IsTerminal(o)'
  BY DEF Quiet, IsTerminal, IsActive, Terminal, Active
<1>2. \A s \in Steps : step[o][s] \notin Active => step'[o][s] \notin Active
  BY DEF Quiet
<1> QED
  BY <1>1, <1>2 DEF CleanInv

LEMMA CleanInductive == KeptInv /\ CleanAll /\ [Next]_vars => CleanAll'
<1> SUFFICES ASSUME KeptInv, CleanAll, [Next]_vars, NoTrouble',
                    NEW p \in Operations
             PROVE  CleanInv(p)'
  BY DEF CleanAll
<1>1. /\ NoTrouble /\ ~Crash
      /\ \A o \in Operations : Own(o) =>
            ~AcquireFails(o) /\ ~Fail(o) /\ (Unlock(o) => lock' = Released(o))
  BY NoTroubleBefore
<1>2. \A o \in Operations : CleanInv(o) /\ Kept(o)
  BY <1>1 DEF CleanAll, KeptInv, Kept
<1>3. ASSUME NEW o \in Operations, Own(o) PROVE CleanInv(p)'
  <2>1. CleanInv(o)' /\ \A q \in Operations : q # o /\ lock' = q => lock = q
    BY <1>1, <1>2, <1>3, CleanOwn
  <2>2. CASE p # o
    <3>1. Quiet(p) /\ task'[p] = task[p]
      BY <1>2, <1>3, <2>2, OwnStep DEF OthersSame, Quiet
    <3> QED
      BY <1>2, <2>1, <2>2, <3>1, QuietIsClean
  <2> QED
    BY <2>1, <2>2
<1>4. CASE Others
  <2>1. Quiet(p) /\ task'[p] = task[p]
    BY <1>4, OthersStep DEF KeptInv
  <2>2. lock' = lock \/ lock' = None
    BY <1>4
       DEF Others, SweepStep, CancelOperation, CancelSteps, CancelFails, SweepFails, ReadStale,
           ReadParents, ReadOrphans, CloseOrphans, CloseWhere, CloseStepsOf, Expire, ExpireSteps,
           LockExpires
  <2> QED
    BY <1>2, <2>1, <2>2, QuietIsClean, ManualAssumption
<1>5. CASE UNCHANGED vars
  BY <1>2, <1>5 DEF vars, tables, CleanInv, IsTerminal
<1> QED
  BY <1>1, <1>3, <1>4, <1>5, NextCases

(* While nothing fails, a pipeline that is over has left no operation and  *)
(* no step that looks active, and not its lock.                            *)
THEOREM NothingIsLeft == Spec => []NothingLeftBehind
<1>1. Init => CleanAll
  <2> SUFFICES ASSUME Init, NEW o \in Operations PROVE CleanInv(o)
    BY DEF CleanAll
  <2>1. Fresh("new").pc = "new"
    BY FreshTyped DEF AllPcs
  <2> QED
    BY <2>1, ManualAssumption DEF Init, CleanInv, CatchPcs
<1>2. CleanAll => NothingLeftBehind
  <2> SUFFICES ASSUME CleanAll, NoTrouble, NEW o \in Operations, At(o, "done")
               PROVE  /\ IsTerminal(o)
                      /\ \A s \in Steps : step[o][s] \notin Active
                      /\ lock # o
    BY DEF NothingLeftBehind, NoTrouble
  <2> QED
    BY DEF CleanAll, CleanInv, At, LockedPcs, CreatePcs, TryPcs, CatchPcs
<1> QED
  BY <1>1, <1>2, KeptInitial, KeptInductive, CleanInductive, PTL DEF Spec
-----------------------------------------------------------------------------
(* The rows follow StepLedger.  Where the rows of the steps are as against *)
(* the pipeline: those ahead of it are as they were planned, or closed.    *)
Untried == {"queued", "failed"}

TurnInv(o) ==
    /\ task[o].pc \in {"new", "acquire", "create"} =>
          task[o].at = 1 /\ op[o].status = "absent" /\ \A s \in Steps : step[o][s] = "absent"
    /\ task[o].pc \in {"plan"} \cup TryPcs \cup CatchPcs => op[o].status # "absent"
    /\ task[o].pc = "plan" =>
          \A s \in Steps : IF s < task[o].at THEN step[o][s] \in Untried
                                             ELSE step[o][s] = "absent"
    /\ task[o].pc \in {"begin", "mark"} =>
          \A s \in Steps : s >= task[o].at => step[o][s] \in Untried
    /\ task[o].pc \in {"work", "report"} =>
          /\ step[o][task[o].at] \in {"running", "failed"}
          /\ \A s \in Steps : s > task[o].at => step[o][s] \in Untried
    /\ task[o].pc = "fail" => task[o].result = "failed"
    /\ task[o].pc = "close" /\ task[o].result = "completed" =>
          \A s \in Steps : step[o][s] \in Good

Status == [o \in Operations |-> op[o].status]
Live == {o \in Operations : op[o].status # "absent" /\ ~At(o, "done")}

LedgerStep == S!LedgerNext \/ UNCHANGED <<Status, step, Live>>

LEMMA LedgerParts ==
    ASSUME TypeOK, TypeOK',
           \A p \in Operations : op'[p].status = op[p].status
    PROVE  /\ Status' = Status
           /\ (\A p \in Operations : task'[p].pc = "done" <=> task[p].pc = "done")
                 => Live' = Live
BY DEF Status, Live, At

(* One row of a step is written by a task that goes on.                    *)
LEMMA WriteMaps ==
    ASSUME TypeOK, TypeOK', UNCHANGED op,
           NEW o \in Operations, NEW s \in Steps, NEW value, SetStep(o, s, value),
           task[o].pc # "done", task'[o].pc # "done",
           \A p \in Operations : p # o => task'[p] = task[p]
    PROVE  S!Write(o, s, value)
<1>1. Status' = Status /\ Live' = Live
  BY LedgerParts
<1> QED
  BY <1>1 DEF S!Write, SetStep, Status, Live

(* The row of an operation is written by a task that goes on.              *)
LEMMA VerdictMaps ==
    ASSUME TypeOK, TypeOK', UNCHANGED step, NEW o \in Operations,
           op[o].status # "absent", op'[o].status # "absent",
           task[o].pc # "done", task'[o].pc # "done",
           \A p \in Operations : p # o => task'[p] = task[p] /\ op'[p] = op[p]
    PROVE  /\ Status' = [Status EXCEPT ![o] = op'[o].status]
           /\ Live' = Live /\ o \in Live
<1>1. Status' = [Status EXCEPT ![o] = op'[o].status]
  BY DEF Status
<1>2. Live' = Live /\ o \in Live
  BY DEF Live, At
<1> QED
  BY <1>1, <1>2

LEMMA OpenMaps ==
    ASSUME NEW o \in Operations, Kept(o), TurnInv(o), Create(o)
    PROVE  LedgerStep
<1>1. TypeOK /\ At(o, "create") /\ op[o].status = "absent"
  BY DEF Kept, Create, TurnInv, At
<1>2. /\ task'[o].pc = "plan" /\ \A p \in Operations : p # o => task'[p] = task[p]
  BY <1>1, GotoEffect DEF Create, AllPcs, LockedPcs, CreatePcs
<1>3. /\ op'[o].status = "queued" /\ \A p \in Operations : p # o => op'[p] = op[p]
  BY <1>1 DEF Create, TypeOK, Operation, Active
<1>4. Status[o] = "absent" /\ Status' = [Status EXCEPT ![o] = "queued"]
  BY <1>1, <1>3 DEF Status
<1>5. Live' = Live \cup {o}
  BY <1>2, <1>3 DEF Live, At
<1>6. step' = step
  BY DEF Create
<1>7. S!Open(o)
  BY <1>4, <1>5, <1>6 DEF S!Open, Status, Live
<1> QED
  BY <1>7 DEF LedgerStep, S!LedgerNext

LEMMA ProgressMaps ==
    ASSUME NEW o \in Operations, o \in Live, S!Progress(o)
    PROVE  LedgerStep
BY DEF LedgerStep, S!LedgerNext, Live

LEMMA ListMaps ==
    ASSUME NEW o \in Operations, Kept(o), TurnInv(o), Plan(o)
    PROVE  LedgerStep
<1>1. TypeOK /\ At(o, "plan") /\ task[o].at \in Steps /\ Kept(o)' /\ OthersSame(o)
  BY RowTyped, PlanStep DEF Kept, Plan
<1>2. step[o][task[o].at] = "absent" /\ op[o].status # "absent"
  BY <1>1, RowTyped DEF TurnInv, At
<1>3. task'[o].pc \in {"plan", "begin"}
  <2>1. Fresh("begin").pc = "begin" /\ [task[o] EXCEPT !.at = @ + 1].pc = task[o].pc
    BY <1>1, RowTyped DEF Fresh, Task
  <2> QED
    BY <1>1, <2>1 DEF Plan, At, TypeOK
<1>4. PICK s \in Steps : s = task[o].at
  BY <1>1
<1>5. S!Write(o, s, "queued")
  BY <1>1, <1>3, <1>4, WriteMaps DEF Kept, OthersSame, Plan, At
<1>6. S!List(o, s)
  BY <1>2, <1>4, <1>5 DEF S!List
<1>7. o \in Live
  BY <1>1, <1>2 DEF Live, At
<1> QED
  BY <1>6, <1>7, ProgressMaps DEF S!Progress

LEMMA WakeMaps ==
    ASSUME NEW o \in Operations, Kept(o), TurnInv(o), Begin(o)
    PROVE  LedgerStep
<1>1. TypeOK /\ At(o, "begin") /\ Kept(o)' /\ OthersSame(o) /\ op[o].status # "absent"
  BY BeginStep DEF Kept, Begin, TurnInv, At, TryPcs
<1>2. task'[o].pc = "mark"
  BY <1>1, GotoEffect DEF Begin, AllPcs, LockedPcs, TryPcs
<1>3. op'[o].status = "running"
  BY <1>1 DEF Begin, TypeOK, Operation
<1>4. /\ Status' = [Status EXCEPT ![o] = "running"]
      /\ Live' = Live /\ o \in Live
  BY <1>1, <1>2, <1>3, VerdictMaps DEF Kept, OthersSame, Begin, At
<1>5. S!Wake(o)
  BY <1>4 DEF S!Wake, Status, Live, Begin
<1> QED
  BY <1>4, <1>5, ProgressMaps DEF S!Progress

(* The step in hand has its turn: those before it are reported, and good.  *)
LEMMA WorkMaps ==
    ASSUME NEW o \in Operations, Kept(o), TurnInv(o), Mark(o)
    PROVE  LedgerStep
<1>1. TypeOK /\ At(o, "mark") /\ task[o].at \in Steps /\ Kept(o)' /\ OthersSame(o)
  BY RowTyped, MarkStep DEF Kept, Mark
<1>2. /\ op[o].status # "absent" /\ step[o][task[o].at] \in Untried
      /\ \A r \in Steps : r < task[o].at => step[o][r] \in Good
  BY <1>1, RowTyped DEF Kept, HonestInv, TurnInv, At, TryPcs
<1>3. task'[o].pc = "work"
  BY <1>1, GotoEffect DEF Mark, AllPcs, LockedPcs, TryPcs
<1>4. PICK s \in Steps : s = task[o].at
  BY <1>1
<1>5. S!Write(o, s, "running")
  BY <1>1, <1>3, <1>4, WriteMaps DEF Kept, OthersSame, Mark, At
<1>6. S!Work(o, s)
  BY <1>2, <1>4, <1>5 DEF S!Work, S!Turn, S!Good, Good, Untried
<1>7. o \in Live
  BY <1>1, <1>2 DEF Live, At
<1> QED
  BY <1>6, <1>7, ProgressMaps DEF S!Progress

LEMMA ResultMaps ==
    ASSUME NEW o \in Operations, Kept(o), TurnInv(o), Report(o)
    PROVE  LedgerStep
<1>1. TypeOK /\ At(o, "report") /\ task[o].at \in Steps /\ Kept(o)' /\ OthersSame(o)
  BY RowTyped, ReportStep DEF Kept, Report
<1>2. /\ op[o].status # "absent" /\ step[o][task[o].at] \in {"running", "failed"}
      /\ \A r \in Steps : r < task[o].at => step[o][r] \in Good
      /\ task[o].result \in Good \cup {"failed"}
  BY <1>1 DEF Kept, HonestInv, TurnInv, At, TryPcs, Outcomes, Good
<1>3. task'[o].pc # "done"
  <2>1. AfterReport(o).pc \in {"fail", "link", "begin"}
    BY <1>1, RowTyped DEF AfterReport, Task
  <2>2. task'[o] = AfterReport(o)
    BY <1>1 DEF Report, TypeOK
  <2> QED
    BY <2>1, <2>2
<1>4. PICK s \in Steps, value \in Good \cup {"failed"} :
         s = task[o].at /\ value = task[o].result
  BY <1>1, <1>2
<1>5. S!Write(o, s, value)
  BY <1>1, <1>3, <1>4, WriteMaps DEF Kept, OthersSame, Report, Reported, At
<1>6. S!Result(o, s)
  BY <1>2, <1>4, <1>5 DEF S!Result, S!Turn, S!Good, Good
<1>7. o \in Live
  BY <1>1, <1>2 DEF Live, At
<1> QED
  BY <1>6, <1>7, ProgressMaps DEF S!Progress

LEMMA ConcludeMaps ==
    ASSUME NEW o \in Operations, Kept(o), TurnInv(o), Finish(o)
    PROVE  LedgerStep
<1> DEFINE verdict == IF task[o].degraded THEN "degraded" ELSE "completed"
           good == IF \E s \in Steps : step[o][s] = "degraded" THEN "degraded" ELSE "completed"
<1>1. TypeOK /\ At(o, "finish") /\ Kept(o)' /\ OthersSame(o) /\ op[o].status # "absent"
  BY FinishStep DEF Kept, Finish, TurnInv, At, TryPcs
<1>2. /\ \A s \in Steps : step[o][s] \in Good
      /\ task[o].degraded <=> \E s \in Steps : step[o][s] = "degraded"
  BY <1>1 DEF Kept, HonestInv, At
<1>3. verdict = good
  BY <1>2
<1>4. task'[o].pc = "close" /\ op'[o].status = verdict
  BY <1>1, RowTyped DEF Finish, TypeOK, Operation, Task
<1> HIDE DEF verdict, good
<1>5. /\ Status' = [Status EXCEPT ![o] = good]
      /\ Live' = Live /\ o \in Live
  <2>1. verdict # "absent"
    BY DEF verdict
  <2> QED
    BY <1>1, <1>3, <1>4, <2>1, VerdictMaps DEF Kept, OthersSame, Finish, At
<1>6. S!Conclude(o)
  BY <1>2, <1>5 DEF S!Conclude, S!Good, Good, Status, Live, Finish, good
<1> QED
  BY <1>5, <1>6, ProgressMaps DEF S!Progress

LEMMA FailureMaps ==
    ASSUME TypeOK, UNCHANGED step, NEW O \in SUBSET Operations,
           \A p \in O : p \in Live \/ op[p].status \in Active,
           \A p \in Operations :
              op'[p].status = IF p \in O THEN "failed" ELSE op[p].status,
           \A p \in Operations : task'[p].pc = "done" <=> task[p].pc = "done"
    PROVE  LedgerStep
<1>1. Live' = Live
  BY DEF Live, At, Active
<1>2. Status' = [p \in Operations |-> IF p \in O THEN "failed" ELSE Status[p]]
  BY DEF Status
<1>3. \A p \in O : p \in Live \/ Status[p] \in {"queued", "running"}
  BY DEF Status, Active
<1>4. S!Fail(O)
  BY <1>1, <1>2, <1>3 DEF S!Fail, S!Unsettled, Status, Live
<1> QED
  BY <1>4 DEF LedgerStep, S!LedgerNext

LEMMA CloseMaps ==
    ASSUME TypeOK, TypeOK', UNCHANGED op, NEW X \in SUBSET (Operations \X Steps),
           \A x \in X : step[x[1]][x[2]] \in Active,
           \A p \in Operations, s \in Steps :
              step'[p][s] = IF <<p, s>> \in X THEN "failed" ELSE step[p][s],
           \A p \in Operations : task'[p].pc = "done" <=> task[p].pc = "done"
    PROVE  LedgerStep
<1>1. Status' = Status /\ Live' = Live
  BY LedgerParts
<1>2. step' = [p \in Operations |-> [s \in Steps |->
                  IF <<p, s>> \in X THEN "failed" ELSE step[p][s]]]
  <2> DEFINE new == [p \in Operations |-> [s \in Steps |->
                        IF <<p, s>> \in X THEN "failed" ELSE step[p][s]]]
  <2>1. \A p \in Operations : step'[p] = new[p]
    BY DEF TypeOK
  <2> QED
    BY <2>1 DEF TypeOK
<1>3. S!Close(X)
  BY <1>1, <1>2 DEF S!Close, S!Unsettled, Status, Live, Active
<1> QED
  BY <1>3 DEF LedgerStep, S!LedgerNext

(* The steps of a pipeline that write nothing of this.                     *)
LEMMA SilentMaps ==
    ASSUME TypeOK, TypeOK', UNCHANGED step,
           \A p \in Operations : op'[p].status = op[p].status,
           \A p \in Operations :
              \/ task'[p].pc = "done" <=> task[p].pc = "done"
              \/ op[p].status = "absent"
    PROVE  LedgerStep
<1>1. Status' = Status /\ Live' = Live
  BY DEF Status, Live, At
<1> QED
  BY <1>1 DEF LedgerStep

LEMMA SilentSteps ==
    ASSUME NEW o \in Operations, Kept(o), TurnInv(o),
           Start(o) \/ AcquireFails(o) \/ Fail(o) \/ Work(o) \/ Link(o)
    PROVE  LedgerStep
<1>1. TypeOK /\ Kept(o)' /\ OthersSame(o)
  BY StartStep, EndingStep, WorkStep, LinkStep DEF Kept
<1>2. step' = step
  BY DEF Start, CheckActive, Acquire, Refuse, AcquireFails, Fail, Work, Link, tables
<1>3. op'[o].status = op[o].status
  BY <1>1 DEF Start, CheckActive, Acquire, Refuse, AcquireFails, Fail, Work, Link, tables,
              TypeOK, Operation
<1>4. CASE Start(o) \/ AcquireFails(o)
  <2>1. op[o].status = "absent"
    BY <1>4 DEF Start, CheckActive, Acquire, Refuse, AcquireFails, TurnInv, At
  <2> QED
    BY <1>1, <1>2, <1>3, <2>1, SilentMaps DEF Kept, OthersSame
<1>5. CASE Fail(o) \/ Work(o) \/ Link(o)
  <2>1. task[o].pc # "done"
    BY <1>5 DEF Fail, Work, Link, At, TryPcs, CatchPcs, CreatePcs
  <2>2. task'[o].pc # "done"
    <3>1. CASE Fail(o)
      BY <1>1, <3>1, GotoEffect DEF Fail, AllPcs, LockedPcs, CatchPcs
    <3>2. CASE Work(o)
      <4>1. PICK result, degraded :
               task' = [task EXCEPT ![o].pc = "report", ![o].result = result,
                                    ![o].degraded = degraded]
        BY <3>2 DEF Work
      <4>2. task'[o] = [task[o] EXCEPT !.pc = "report", !.result = result,
                                       !.degraded = degraded]
        BY <1>1, <4>1 DEF TypeOK
      <4>3. task'[o].pc = "report"
        BY <1>1, <4>2, RowTyped DEF Task
      <4> QED
        BY <4>3
    <3>3. CASE Link(o)
      BY <1>1, <3>3, GotoEffect DEF Link, AllPcs, LockedPcs, TryPcs
    <3> QED
      BY <1>5, <3>1, <3>2, <3>3
  <2> QED
    BY <1>1, <1>2, <1>3, <2>1, <2>2, SilentMaps DEF Kept, OthersSame
<1> QED
  BY <1>4, <1>5

LEMMA FailedMaps ==
    ASSUME NEW o \in Operations, Kept(o), TurnInv(o), FailOperation(o) \/ Catch(o)
    PROVE  LedgerStep
<1>1. /\ TypeOK /\ OthersSame(o) /\ (At(o, "fail") \/ At(o, "caught"))
      /\ step' = step /\ op[o].status # "absent"
  BY FailedStep DEF Kept, FailOperation, Catch, TurnInv, At, TryPcs, CatchPcs
<1>2. task'[o].pc \in {"close", "closeFailed"}
  BY <1>1, GotoEffect DEF FailOperation, Catch, AllPcs, LockedPcs, TryPcs, CatchPcs
<1>3. op'[o].status = "failed"
  BY <1>1 DEF FailOperation, Catch, TypeOK, Operation
<1>4. o \in Live
  BY <1>1 DEF Live, At
<1>5. PICK O \in SUBSET Operations : O = {o}
  OBVIOUS
<1>6. \A p \in O : p \in Live
  BY <1>4, <1>5
<1>7. \A p \in Operations :
         op'[p].status = IF p \in O THEN "failed" ELSE op[p].status
  BY <1>1, <1>3, <1>5 DEF OthersSame
<1>8. \A p \in Operations : task'[p].pc = "done" <=> task[p].pc = "done"
  BY <1>1, <1>2 DEF OthersSame, At
<1> QED
  BY <1>1, <1>6, <1>7, <1>8, FailureMaps

(* What a completed operation would close as skipped, it does not have.    *)
LEMMA ClosingMaps ==
    ASSUME NEW o \in Operations, Kept(o), TurnInv(o), Close(o) \/ CloseFailed(o)
    PROVE  LedgerStep
<1>1. /\ TypeOK /\ Kept(o)' /\ OthersSame(o) /\ (At(o, "close") \/ At(o, "closeFailed"))
      /\ op' = op
  BY ClosingStep DEF Kept, Close, CloseFailed
<1>2. task'[o].pc = "unlock"
  BY <1>1, GotoEffect DEF Close, CloseFailed, AllPcs, LockedPcs
<1>3. \A p \in Operations : task'[p].pc = "done" <=> task[p].pc = "done"
  BY <1>1, <1>2 DEF OthersSame, At
<1>4. CASE At(o, "close") /\ task[o].result = "completed"
  <2>1. \A s \in Steps : step[o][s] \notin Active
    BY <1>4 DEF TurnInv, At, Good, Active
  <2>2. CloseStepsOf({o}, "skipped")
    BY <1>4 DEF Close, CloseFailed, At
  <2>3. \A p \in Operations, s \in Steps : step'[p][s] = step[p][s]
    BY <1>1, <2>1, <2>2, CloseEffect
  <2>4. PICK X \in SUBSET (Operations \X Steps) : X = {}
    OBVIOUS
  <2> QED
    BY <1>1, <1>3, <2>3, <2>4, CloseMaps DEF Kept
<1>5. CASE ~(At(o, "close") /\ task[o].result = "completed")
  <2>1. CloseStepsOf({o}, "failed")
    BY <1>1, <1>5 DEF Close, CloseFailed, At
  <2>2. \A p \in Operations, s \in Steps :
           step'[p][s] = IF p \in {o} /\ step[p][s] \in Active THEN "failed" ELSE step[p][s]
    BY <1>1, <2>1, CloseEffect
  <2>3. PICK X \in SUBSET (Operations \X Steps) :
           X = {x \in {o} \X Steps : step[x[1]][x[2]] \in Active}
    OBVIOUS
  <2>4. \A p \in Operations, s \in Steps : <<p, s>> \in X <=> p \in {o} /\ step[p][s] \in Active
    BY <2>3
  <2>5. \A x \in X : step[x[1]][x[2]] \in Active
    BY <2>3
  <2>6. \A p \in Operations, s \in Steps :
           step'[p][s] = IF <<p, s>> \in X THEN "failed" ELSE step[p][s]
    BY <2>2, <2>4
  <2> QED
    BY <1>1, <1>3, <2>5, <2>6, CloseMaps DEF Kept
<1> QED
  BY <1>4, <1>5

LEMMA EndMaps ==
    ASSUME TypeOK, UNCHANGED <<op, step>>, NEW O \in SUBSET Operations,
           \A p \in Operations :
              task'[p].pc = "done" <=> task[p].pc = "done" \/ (p \in O /\ op[p].status # "absent")
                                       \/ (op[p].status = "absent" /\ task'[p].pc = "done")
    PROVE  LedgerStep
<1>1. Live' = Live \ O /\ Status' = Status
  BY DEF Live, Status, At
<1>2. S!End(O)
  BY <1>1 DEF S!End, Status, Live
<1> QED
  BY <1>2 DEF LedgerStep, S!LedgerNext

LEMMA UnlockEnds ==
    ASSUME NEW o \in Operations, Kept(o), Unlock(o)
    PROVE  LedgerStep
<1>1. TypeOK /\ OthersSame(o) /\ UNCHANGED <<op, step>>
  BY EndingStep DEF Kept, Unlock, tables
<1>2. task'[o].pc = "done"
  BY <1>1 DEF Unlock, TypeOK, Fresh
<1>3. PICK O \in SUBSET Operations : O = {o}
  OBVIOUS
<1> QED
  BY <1>1, <1>2, <1>3, EndMaps DEF OthersSame

LEMMA CrashEnds ==
    ASSUME TypeOK, Crash, \A o \in Operations : TurnInv(o)
    PROVE  LedgerStep
<1>1. UNCHANGED <<op, step>>
  BY DEF Crash, tables
<1>2. \A p \in Operations :
         \/ op[p].status = "absent" /\ task'[p].pc = "new" /\ task[p].pc # "done"
         \/ task'[p].pc = "done"
  BY DEF Crash, TurnInv, Fresh
<1>3. PICK O \in SUBSET Operations : O = Operations
  OBVIOUS
<1> QED
  BY <1>1, <1>2, <1>3, EndMaps

(* Failing what is active, and closing steps that are, by anybody.         *)
FailingOnly(o) ==
    /\ op'[o] = op[o] \/ (IsActive(o) /\ op'[o].status = "failed")
    /\ \A s \in Steps : \/ step'[o][s] = step[o][s]
                        \/ step[o][s] \in Active /\ step'[o][s] = "failed"

LEMMA FailActiveMaps ==
    ASSUME TypeOK, UNCHANGED <<step, task>>, NEW chosen, NEW code \in {"stale", "cancelled"},
           FailActive(chosen, code)
    PROVE  LedgerStep /\ \A o \in Operations : FailingOnly(o)
<1>1. \A p \in Operations :
         IF p \in chosen /\ IsActive(p) THEN op'[p].status = "failed" ELSE op'[p] = op[p]
  BY FailActiveEffect
<1>2. PICK O \in SUBSET Operations : O = {p \in Operations : p \in chosen /\ IsActive(p)}
  OBVIOUS
<1>3. \A p \in O : op[p].status \in Active
  BY <1>2 DEF IsActive
<1>4. \A p \in Operations :
         op'[p].status = IF p \in O THEN "failed" ELSE op[p].status
  BY <1>1, <1>2
<1>5. LedgerStep
  BY <1>3, <1>4, FailureMaps
<1> QED
  BY <1>1, <1>5 DEF FailingOnly

LEMMA CloseWhereMaps ==
    ASSUME TypeOK, TypeOK', UNCHANGED <<op, task>>,
           NEW X \in SUBSET (Operations \X Steps),
           \A p \in Operations, s \in Steps :
              step'[p][s] = IF <<p, s>> \in X /\ step[p][s] \in Active THEN "failed"
                            ELSE step[p][s]
    PROVE  LedgerStep /\ \A o \in Operations : FailingOnly(o)
<1>1. PICK Y \in SUBSET (Operations \X Steps) :
         Y = {x \in Operations \X Steps : x \in X /\ step[x[1]][x[2]] \in Active}
  OBVIOUS
<1>2. \A p \in Operations, s \in Steps :
         <<p, s>> \in Y <=> <<p, s>> \in X /\ step[p][s] \in Active
  BY <1>1
<1>3. \A x \in Y : step[x[1]][x[2]] \in Active
  BY <1>1
<1>4. LedgerStep
  BY <1>2, <1>3, CloseMaps
<1> QED
  BY <1>4 DEF FailingOnly

LEMMA OthersLedger ==
    ASSUME TypeOK, Others
    PROVE  LedgerStep /\ \A o \in Operations : FailingOnly(o)
<1> DEFINE Goal == LedgerStep /\ \A o \in Operations : FailingOnly(o)
<1>0. TypeOK' /\ UNCHANGED task
  BY OthersStep
<1>1. ASSUME UNCHANGED <<op, step>> PROVE Goal
  BY <1>0, <1>1, SilentMaps DEF FailingOnly
<1>2. ASSUME NEW o \in Operations, CancelOperation(o) PROVE Goal
  BY <1>2, FailActiveMaps DEF CancelOperation
<1>3. CASE Expire
  BY <1>3, FailActiveMaps DEF Expire
<1>4. ASSUME NEW parents, CloseStepsOf(parents, "failed"), UNCHANGED op PROVE Goal
  <2>1. \A p \in Operations, s \in Steps :
           step'[p][s] = IF p \in parents /\ step[p][s] \in Active THEN "failed"
                         ELSE step[p][s]
    BY <1>4, CloseEffect
  <2>2. PICK X \in SUBSET (Operations \X Steps) :
           X = {x \in Operations \X Steps : x[1] \in parents}
    OBVIOUS
  <2>3. \A p \in Operations, s \in Steps : <<p, s>> \in X <=> p \in parents
    BY <2>2
  <2> QED
    BY <1>0, <1>4, <2>1, <2>3, CloseWhereMaps
<1>5. ASSUME NEW o \in Operations, CancelSteps(o) PROVE Goal
  BY <1>4, <1>5 DEF CancelSteps
<1>6. CASE ExpireSteps
  BY <1>4, <1>6 DEF ExpireSteps
<1>7. CASE CloseOrphans
  <2>1. UNCHANGED op
    BY <1>7 DEF CloseOrphans
  <2>2. \A p \in Operations, s \in Steps :
           step'[p][s] = IF <<p, s>> \in sweep.orphans /\ step[p][s] \in Active
                         THEN "failed" ELSE step[p][s]
    BY <1>7, CloseOrphansEffect
  <2>3. PICK X \in SUBSET (Operations \X Steps) : X = sweep.orphans
    BY DEF TypeOK, Sweep
  <2> QED
    BY <1>0, <2>1, <2>2, <2>3, CloseWhereMaps
<1>8. CASE ReadParents \/ ReadOrphans \/ SweepFails \/ LockExpires
           \/ (\E old \in SUBSET Operations : ReadStale(old))
           \/ (\E o \in Operations : CancelFails(o))
  BY <1>1, <1>8 DEF ReadParents, ReadOrphans, SweepFails, LockExpires, ReadStale,
                    CancelFails, tables
<1> QED
  BY <1>2, <1>3, <1>5, <1>6, <1>7, <1>8 DEF Others, SweepStep

(* Where the pipeline stands stays so, whatever others do to the rows.     *)
LEMMA TurnLeft ==
    ASSUME NEW o \in Operations, TypeOK, TurnInv(o), FailingOnly(o),
           \/ task'[o] = task[o]
           \/ /\ task[o].pc \in {"new", "acquire"}
              /\ task'[o].pc \in {"new", "acquire", "create"} /\ task'[o].at = 1
           \/ task'[o].pc \in {"unlock", "done"}
           \/ task[o].pc \in TryPcs /\ task'[o].pc \in CatchPcs
    PROVE  TurnInv(o)'
<1>1. /\ op'[o].status = "absent" <=> op[o].status = "absent"
      /\ \A s \in Steps : step[o][s] = "absent" <=> step'[o][s] = "absent"
      /\ \A s \in Steps : step[o][s] \in Untried => step'[o][s] \in Untried
      /\ \A s \in Steps : step[o][s] \in {"running", "failed"} =>
                             step'[o][s] \in {"running", "failed"}
      /\ \A s \in Steps : step[o][s] \in Good => step'[o][s] \in Good
  BY DEF FailingOnly, IsActive, Active, Good, Untried
<1>2. CASE task'[o] = task[o]
  <2>1. task[o].at \in Steps
    BY RowTyped
  <2> QED
    BY <1>1, <1>2, <2>1 DEF TurnInv
<1>3. CASE /\ task[o].pc \in {"new", "acquire"}
           /\ task'[o].pc \in {"new", "acquire", "create"} /\ task'[o].at = 1
  BY <1>1, <1>3 DEF TurnInv, TryPcs, CatchPcs
<1>4. CASE task'[o].pc \in {"unlock", "done"}
  BY <1>4 DEF TurnInv, TryPcs, CatchPcs
<1>5. CASE task[o].pc \in TryPcs /\ task'[o].pc \in CatchPcs
  BY <1>1, <1>5 DEF TurnInv, TryPcs, CatchPcs
<1> QED
  BY <1>2, <1>3, <1>4, <1>5

LEMMA TurnCreate ==
    ASSUME NEW o \in Operations, Kept(o), TurnInv(o), Create(o)
    PROVE  TurnInv(o)'
<1>1. TypeOK /\ At(o, "create") /\ step' = step
  BY DEF Kept, Create
<1>2. task'[o].pc = "plan" /\ task'[o].at = 1
  <2>1. task[o].at = 1
    BY <1>1 DEF TurnInv, At
  <2> QED
    BY <1>1, <2>1, GotoEffect DEF Create, AllPcs, LockedPcs, CreatePcs
<1>3. op'[o].status = "queued" /\ \A s \in Steps : step[o][s] = "absent" /\ ~(s < 1)
  BY <1>1 DEF Create, TypeOK, Operation, TurnInv, At, Steps
<1> QED
  BY <1>1, <1>2, <1>3 DEF TurnInv, TryPcs

LEMMA TurnPlan ==
    ASSUME NEW o \in Operations, Kept(o), TurnInv(o), Plan(o)
    PROVE  TurnInv(o)'
<1> DEFINE i == task[o].at
<1>1. /\ TypeOK /\ At(o, "plan") /\ i \in Steps /\ i \in Nat /\ i <= LastStep
      /\ op' = op /\ op[o].status # "absent"
  BY RowTyped DEF Kept, Plan, TurnInv, At
<1>2. /\ step'[o][i] = "queued"
      /\ \A r \in Steps : r # i => step'[o][r] = step[o][r]
  BY <1>1, RowTyped, SetStepEffect DEF Plan, StepStatuses, Active
<1>3. \A s \in Steps : IF s < i THEN step[o][s] \in Untried ELSE step[o][s] = "absent"
  BY <1>1 DEF TurnInv, At
<1>4. \A s \in Steps : IF s < i + 1 THEN step'[o][s] \in Untried ELSE step'[o][s] = "absent"
  BY <1>1, <1>2, <1>3, RowTyped DEF Untried
<1>5. CASE i = LastStep
  <2>1. task'[o].pc = "begin" /\ task'[o].at = 1
    BY <1>1, <1>5 DEF Plan, TypeOK, Fresh
  <2>2. \A s \in Steps : step'[o][s] \in Untried
    BY <1>1, <1>4, <1>5, RowTyped
  <2> QED
    BY <1>1, <2>1, <2>2 DEF TurnInv
<1>6. CASE i # LastStep
  <2>1. task'[o] = [task[o] EXCEPT !.at = i + 1]
    BY <1>1, <1>6 DEF Plan, TypeOK
  <2>2. task'[o].pc = "plan" /\ task'[o].at = i + 1
    BY <1>1, <2>1, RowTyped DEF Task, At
  <2> QED
    BY <1>1, <1>4, <2>2 DEF TurnInv, TryPcs
<1> QED
  BY <1>5, <1>6

LEMMA TurnBegin ==
    ASSUME NEW o \in Operations, Kept(o), TurnInv(o), Begin(o)
    PROVE  TurnInv(o)'
<1>1. TypeOK /\ At(o, "begin") /\ step' = step /\ task[o].at \in Steps
  BY RowTyped DEF Kept, Begin
<1>2. task'[o].pc = "mark" /\ task'[o].at = task[o].at
  BY <1>1, GotoEffect DEF Begin, AllPcs, LockedPcs, TryPcs
<1>3. op'[o].status = "running"
  BY <1>1 DEF Begin, TypeOK, Operation
<1> QED
  BY <1>1, <1>2, <1>3 DEF TurnInv, At

LEMMA TurnMark ==
    ASSUME NEW o \in Operations, Kept(o), TurnInv(o), Mark(o)
    PROVE  TurnInv(o)'
<1>1. /\ TypeOK /\ At(o, "mark") /\ op' = op /\ task[o].at \in Steps
      /\ op[o].status # "absent"
  BY RowTyped DEF Kept, Mark, TurnInv, At, TryPcs
<1>2. task'[o].pc = "work" /\ task'[o].at = task[o].at
  BY <1>1, GotoEffect DEF Mark, AllPcs, LockedPcs, TryPcs
<1>3. /\ step'[o][task[o].at] = "running"
      /\ \A r \in Steps : r # task[o].at => step'[o][r] = step[o][r]
  BY <1>1, RowTyped, SetStepEffect DEF Mark, StepStatuses, Active
<1>4. \A s \in Steps : s >= task[o].at => step[o][s] \in Untried
  BY <1>1 DEF TurnInv, At
<1>5. \A s \in Steps : s > task[o].at => step'[o][s] \in Untried
  BY <1>1, <1>3, <1>4, RowTyped
<1> QED
  BY <1>1, <1>2, <1>3, <1>5 DEF TurnInv

LEMMA TurnWork ==
    ASSUME NEW o \in Operations, Kept(o), TurnInv(o), Work(o)
    PROVE  TurnInv(o)'
<1>1. TypeOK /\ At(o, "work") /\ UNCHANGED <<op, step>>
  BY DEF Kept, Work, tables
<1>2. PICK result, degraded :
         task' = [task EXCEPT ![o].pc = "report", ![o].result = result,
                              ![o].degraded = degraded]
  BY DEF Work
<1>3. task'[o] = [task[o] EXCEPT !.pc = "report", !.result = result, !.degraded = degraded]
  BY <1>1, <1>2 DEF TypeOK
<1>4. task'[o].pc = "report" /\ task'[o].at = task[o].at
  BY <1>1, <1>3, RowTyped DEF Task
<1> QED
  BY <1>1, <1>4 DEF TurnInv, At, TryPcs

LEMMA TurnReport ==
    ASSUME NEW o \in Operations, Kept(o), TurnInv(o), Report(o)
    PROVE  TurnInv(o)'
<1> DEFINE i == task[o].at
<1>1. /\ TypeOK /\ At(o, "report") /\ i \in Steps /\ i \in Nat /\ i <= LastStep
      /\ op' = op /\ op[o].status # "absent"
  BY RowTyped DEF Kept, Report, TurnInv, At, TryPcs
<1>2. \A r \in Steps : r # i => step'[o][r] = step[o][r]
  BY <1>1, RowTyped, SetStepEffect DEF Report, Reported, StepStatuses, Task
<1>3. task'[o] = AfterReport(o)
  BY <1>1 DEF Report, TypeOK
<1>4. CASE i = LastStep
  <2>1. /\ task'[o].pc = IF task[o].result = "failed" THEN "fail" ELSE "link"
        /\ task'[o].result = task[o].result
    BY <1>1, <1>3, <1>4, RowTyped DEF AfterReport, Task
  <2> QED
    BY <1>1, <2>1 DEF TurnInv, TryPcs
<1>5. CASE i # LastStep
  <2>1. task'[o].pc = "begin" /\ task'[o].at = i + 1
    BY <1>1, <1>3, <1>5, RowTyped DEF AfterReport, Task
  <2>2. \A s \in Steps : s > i => step[o][s] \in Untried
    BY <1>1 DEF TurnInv, At
  <2>3. \A s \in Steps : s >= i + 1 => step'[o][s] \in Untried
    BY <1>1, <1>2, <2>2, RowTyped
  <2> QED
    BY <1>1, <2>1, <2>3 DEF TurnInv
<1> QED
  BY <1>4, <1>5

LEMMA TurnEnd ==
    ASSUME NEW o \in Operations, Kept(o), TurnInv(o),
           Link(o) \/ Finish(o) \/ FailOperation(o) \/ Catch(o)
    PROVE  TurnInv(o)'
<1>1. TypeOK /\ step' = step /\ op[o].status # "absent"
  BY DEF Kept, Link, Finish, FailOperation, Catch, TurnInv, At, TryPcs, CatchPcs
<1>2. CASE Link(o)
  <2>1. op'[o].status = op[o].status
    BY <1>1, <1>2 DEF Link, TypeOK, Operation
  <2>2. task'[o].pc = "finish"
    BY <1>1, <1>2, GotoEffect DEF Link, AllPcs, LockedPcs, TryPcs
  <2> QED
    BY <1>1, <2>1, <2>2 DEF TurnInv
<1>3. CASE Finish(o)
  <2>1. op'[o].status \in Terminal
    BY <1>1, <1>3 DEF Finish, TypeOK, Operation, Terminal
  <2>2. task'[o].pc = "close"
    BY <1>1, <1>3, RowTyped DEF Finish, TypeOK, Task
  <2>3. \A s \in Steps : step[o][s] \in Good
    BY <1>3 DEF Kept, HonestInv, Finish, At
  <2> QED
    BY <1>1, <2>1, <2>2, <2>3 DEF TurnInv, Terminal
<1>4. CASE FailOperation(o) \/ Catch(o)
  <2>1. op'[o].status = "failed"
    BY <1>1, <1>4 DEF FailOperation, Catch, TypeOK, Operation
  <2>2. \/ task'[o].pc = "close" /\ task[o].result = "failed"
        \/ task'[o].pc = "closeFailed"
    BY <1>1, <1>4, GotoEffect DEF FailOperation, Catch, AllPcs, LockedPcs, TryPcs, CatchPcs,
                                  TurnInv, At
  <2>3. task'[o].result = task[o].result
    BY <1>1, <1>4, GotoEffect DEF FailOperation, Catch, AllPcs, LockedPcs, TryPcs, CatchPcs
  <2> QED
    BY <2>1, <2>2, <2>3 DEF TurnInv
<1> QED
  BY <1>2, <1>3, <1>4

LEMMA TurnOwn ==
    ASSUME NEW o \in Operations, Kept(o), TurnInv(o), Own(o)
    PROVE  TurnInv(o)'
<1>1. TypeOK /\ task[o] \in Task
  BY RowTyped DEF Kept
<1>2. CASE Start(o)
  <2>1. task[o].at = 1 /\ task[o].pc \in {"new", "acquire"}
    BY <1>2 DEF Start, CheckActive, Acquire, Refuse, TurnInv, At
  <2>2. task'[o].pc \in {"new", "acquire", "create"} /\ task'[o].at = task[o].at
    BY <1>1, <1>2, GotoEffect DEF Start, CheckActive, Acquire, Refuse, AllPcs, LockedPcs,
                                  CreatePcs
  <2>3. FailingOnly(o)
    BY <1>2 DEF Start, CheckActive, Acquire, Refuse, tables, FailingOnly
  <2> QED
    BY <1>1, <2>1, <2>2, <2>3, TurnLeft
<1>3. CASE AcquireFails(o) \/ Fail(o) \/ Unlock(o)
  <2>1. FailingOnly(o)
    BY <1>3 DEF AcquireFails, Fail, Unlock, tables, FailingOnly
  <2>2. \/ task'[o].pc \in {"unlock", "done"}
        \/ task[o].pc \in TryPcs /\ task'[o].pc \in CatchPcs
    <3>1. CASE AcquireFails(o)
      BY <1>1, <3>1, GotoEffect DEF AcquireFails, AllPcs
    <3>2. CASE Fail(o)
      BY <1>1, <3>2, GotoEffect DEF Fail, AllPcs, LockedPcs, CatchPcs
    <3>3. CASE Unlock(o)
      BY <1>1, <3>3 DEF Unlock, TypeOK, Fresh
    <3> QED
      BY <1>3, <3>1, <3>2, <3>3
  <2> QED
    BY <1>1, <2>1, <2>2, TurnLeft
<1>4. CASE Close(o) \/ CloseFailed(o)
  <2>1. task'[o].pc = "unlock"
    BY <1>1, <1>4, GotoEffect DEF Close, CloseFailed, AllPcs, LockedPcs
  <2> QED
    BY <2>1 DEF TurnInv, TryPcs, CatchPcs
<1> QED
  BY <1>2, <1>3, <1>4, TurnCreate, TurnPlan, TurnBegin, TurnMark, TurnWork, TurnReport, TurnEnd
     DEF Own, Pipeline

LEMMA OwnLedger ==
    ASSUME NEW o \in Operations, Kept(o), TurnInv(o), Own(o)
    PROVE  LedgerStep
BY OpenMaps, ListMaps, WakeMaps, WorkMaps, ResultMaps, ConcludeMaps, SilentSteps, FailedMaps,
   ClosingMaps, UnlockEnds DEF Own, Pipeline

TurnAll == \A o \in Operations : TurnInv(o)

LEMMA TurnInductive ==
    ASSUME KeptInv, TurnAll, [Next]_vars
    PROVE  TurnAll' /\ LedgerStep
<1>0. TypeOK /\ \A o \in Operations : Kept(o) /\ TurnInv(o)
  BY DEF KeptInv, Kept, TurnAll
<1>1. ASSUME NEW o \in Operations, Own(o) PROVE TurnAll' /\ LedgerStep
  <2>1. Kept(o)' /\ OthersSame(o) /\ TurnInv(o)' /\ LedgerStep
    BY <1>0, <1>1, OwnStep, TurnOwn, OwnLedger
  <2>2. ASSUME NEW p \in Operations, p # o PROVE TurnInv(p)'
    <3>1. FailingOnly(p) /\ task'[p] = task[p]
      BY <2>1, <2>2 DEF OthersSame, FailingOnly
    <3> QED
      BY <1>0, <3>1, TurnLeft
  <2> QED
    BY <2>1, <2>2 DEF TurnAll
<1>2. CASE Others
  <2>1. task' = task /\ LedgerStep /\ \A o \in Operations : FailingOnly(o)
    BY <1>0, <1>2, OthersStep, OthersLedger
  <2>2. \A o \in Operations : TurnInv(o)'
    BY <1>0, <2>1, TurnLeft
  <2> QED
    BY <2>1, <2>2 DEF TurnAll
<1>3. CASE Crash
  <2>1. LedgerStep
    BY <1>0, <1>3, CrashEnds
  <2>2. ASSUME NEW o \in Operations PROVE TurnInv(o)'
    <3>1. FailingOnly(o)
      BY <1>3 DEF Crash, tables, FailingOnly
    <3>2. \/ /\ task[o].pc \in {"new", "acquire"}
             /\ task'[o].pc = "new" /\ task'[o].at = 1
          \/ task'[o].pc = "done"
      BY <1>3 DEF Crash, Fresh
    <3> QED
      BY <1>0, <3>1, <3>2, TurnLeft
  <2> QED
    BY <2>1, <2>2 DEF TurnAll
<1>4. CASE UNCHANGED vars
  <2>1. UNCHANGED <<op, step, task>>
    BY <1>4 DEF vars, tables
  <2> QED
    BY <1>0, <2>1 DEF TurnAll, TurnInv, LedgerStep, Status, Live, At
<1> QED
  BY <1>1, <1>2, <1>3, <1>4, NextCases

LEMMA TurnInitial == Init => TurnAll /\ S!LedgerInit
<1> SUFFICES ASSUME Init PROVE TurnAll /\ S!LedgerInit
  OBVIOUS
<1>1. TurnAll
  BY DEF Init, TurnAll, TurnInv, Fresh, TryPcs, CatchPcs
<1>2. S!LedgerInit
  BY DEF Init, S!LedgerInit
<1> QED
  BY <1>1, <1>2

(* The rows of operations and steps are written as StepLedger says, for    *)
(* any number of them: steps in their turn, once each; verdicts that       *)
(* follow; nothing but what looks active changes once all is over.         *)
THEOREM ManualKeepsLedger == Spec => LedgerKept
<1>1. KeptInv /\ TurnAll /\ [Next]_vars => TurnAll' /\ [S!LedgerNext]_(S!ledgerVars)
  BY TurnInductive DEF LedgerStep, S!ledgerVars, Status, Live
<1> QED
  BY <1>1, KeptInitial, KeptInductive, TurnInitial, PTL DEF Spec, LedgerKept, S!LedgerSpec
=============================================================================
