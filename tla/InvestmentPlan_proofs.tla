------------------------ MODULE InvestmentPlan_proofs ------------------------
(***************************************************************************)
(* Proofs about InvestmentPlan: its types, the seeding of the strategy,    *)
(* the active plan, and what a closed hypothesis has gone through.         *)
(***************************************************************************)
EXTENDS InvestmentPlan, FiniteSetTheorems, TLAPS

AllPcs == {"idle", "done"} \cup SeedPcs \cup PlanPcs \cup ReviewPcs
-----------------------------------------------------------------------------
LEMMA PcTyped ==
    ASSUME NEW t \in Task, NEW p \in AllPcs
    PROVE  [t EXCEPT !.pc = p] \in Task
BY DEF Task, AllPcs

LEMMA PlainTyped ==
    ASSUME NEW p \in AllPcs
    PROVE  Plain(p) \in Task
BY DEF Plain, Task, AllPcs

LEMMA DueTyped ==
    ASSUME NEW p \in AllPcs, NEW d \in SUBSET Outcomes
    PROVE  [Plain(p) EXCEPT !.due = d] \in Task
BY DEF Plain, Task, AllPcs

LEMMA BecomeTyped ==
    ASSUME task \in [Requests -> Task], NEW q \in Requests, NEW s \in Task, Become(q, s)
    PROVE  task' \in [Requests -> Task]
BY DEF Become

LEMMA GotoTyped ==
    ASSUME task \in [Requests -> Task], NEW q \in Requests, NEW p \in AllPcs, Goto(q, p)
    PROVE  task' \in [Requests -> Task]
<1>1. task[q] \in Task
  OBVIOUS
<1> QED
  BY <1>1, PcTyped, BecomeTyped DEF Goto

LEMMA EndTyped ==
    ASSUME task \in [Requests -> Task], NEW q \in Requests, End(q)
    PROVE  task' \in [Requests -> Task]
<1>1. Plain(IF q \in Plans THEN "done" ELSE "idle") \in Task
  BY PlainTyped DEF AllPcs
<1> QED
  BY <1>1, BecomeTyped DEF End

LEMMA OneMoreTyped ==
    ASSUME NEW f \in [Outcomes -> Nat], NEW o
    PROVE  [f EXCEPT ![o] = @ + 1] \in [Outcomes -> Nat]
<1>1. CASE o \in Outcomes
  <2>1. f[o] + 1 \in Nat
    BY <1>1
  <2> QED
    BY <1>1, <2>1
<1>2. CASE o \notin Outcomes
  BY <1>2
<1> QED
  BY <1>1, <1>2

LEMMA InitTyped == Init => TypeOK
<1> SUFFICES ASSUME Init PROVE TypeOK
  OBVIOUS
<1>1. Plain("idle") \in Task
  BY PlainTyped DEF AllPcs
<1>2. seeded \in 0..Whole /\ faults \in 0..MaxFaults
  BY PlanAssumption DEF Init, Whole
<1> QED
  BY <1>1, <1>2 DEF Init, TypeOK

LEMMA StepTyped == TypeOK /\ [Next]_vars => TypeOK'
<1> SUFFICES ASSUME TypeOK, [Next]_vars PROVE TypeOK'
  OBVIOUS
<1>0. task \in [Requests -> Task]
  BY DEF TypeOK
<1>1. ASSUME NEW q \in Requests, SeedStep(q) PROVE TypeOK'
  <2>0. Bundled(q) \in AllPcs
    BY DEF Bundled, AllPcs, PlanPcs, ReviewPcs
  <2>1. CASE FindStrategy(q)
    <3>1. task' \in [Requests -> Task]
      BY <1>0, <2>0, <2>1, GotoTyped DEF FindStrategy, AllPcs, SeedPcs
    <3>2. overlapped' \subseteq {"plans", "reviews"}
      BY <2>1 DEF FindStrategy, TypeOK
    <3> QED
      BY <2>1, <3>1, <3>2 DEF FindStrategy, TypeOK, tables
  <2>2. CASE CreateStrategy(q)
    <3>1. task' \in [Requests -> Task]
      BY <1>0, <2>2, GotoTyped, EndTyped DEF CreateStrategy, AllPcs, SeedPcs
    <3>2. seeded' \in 0..Whole
      BY <2>2 DEF CreateStrategy, TypeOK, Whole
    <3> QED
      BY <2>2, <3>1, <3>2 DEF CreateStrategy, TypeOK, history
  <2>3. CASE SeedPart(q)
    <3>1. task' \in [Requests -> Task]
      BY <1>0, <2>0, <2>3, GotoTyped DEF SeedPart, AllPcs, SeedPcs
    <3>2. seeded' \in 0..Whole
      BY <2>3 DEF SeedPart, TypeOK, Whole
    <3> QED
      BY <2>3, <3>1, <3>2 DEF SeedPart, TypeOK, history
  <2> QED
    BY <1>1, <2>1, <2>2, <2>3 DEF SeedStep
<1>2. ASSUME NEW q \in Requests, Stop(q) PROVE TypeOK'
  <2>1. task' \in [Requests -> Task]
    BY <1>0, <1>2, EndTyped DEF Stop
  <2>2. Window(task[q].pc) \subseteq {"seed", "plan", "review"}
    BY DEF Window
  <2>3. faults' \in 0..MaxFaults
    BY <1>2, PlanAssumption DEF Stop, TypeOK
  <2> QED
    BY <1>2, <2>1, <2>2, <2>3 DEF Stop, TypeOK, tables
<1>3. ASSUME NEW p \in Plans, PlanStep(p) PROVE TypeOK'
  <2>0. p \in Requests /\ task[p] \in Task
    BY <1>0 DEF Requests
  <2>1. CASE DryRun(p) \/ FinishPlan(p)
    <3>1. task' \in [Requests -> Task]
      BY <1>0, <2>0, <2>1, EndTyped DEF DryRun, FinishPlan
    <3> QED
      BY <2>1, <3>1 DEF DryRun, FinishPlan, TypeOK, tables, history
  <2>2. CASE Build(p)
    <3>1. PICK drafts \in Drafts(p) :
            Become(p, [task[p] EXCEPT !.pc = "supersede", !.todo = drafts])
      BY <2>2 DEF Build
    <3>2. drafts \in SUBSET Hypotheses
      BY DEF Drafts
    <3>3. [task[p] EXCEPT !.pc = "supersede", !.todo = drafts] \in Task
      BY <2>0, <3>2 DEF Task, PlanPcs
    <3>4. task' \in [Requests -> Task]
      BY <1>0, <2>0, <3>1, <3>3, BecomeTyped
    <3> QED
      BY <2>2, <3>4 DEF Build, TypeOK, tables, history
  <2>3. CASE Supersede(p)
    <3>1. task' \in [Requests -> Task]
      BY <1>0, <2>0, <2>3, GotoTyped DEF Supersede, AllPcs, PlanPcs
    <3>2. plan' \in [Plans -> {"none", "active", "superseded"}]
      BY <2>3 DEF Supersede, TypeOK
    <3> QED
      BY <2>3, <3>1, <3>2 DEF Supersede, TypeOK, history
  <2>4. CASE InsertPlan(p)
    <3>1. task' \in [Requests -> Task]
      BY <1>0, <2>0, <2>4, GotoTyped DEF InsertPlan, AllPcs, PlanPcs
    <3>2. plan' \in [Plans -> {"none", "active", "superseded"}]
      BY <2>4 DEF InsertPlan, TypeOK
    <3> QED
      BY <2>4, <3>1, <3>2 DEF InsertPlan, TypeOK
  <2>5. CASE InsertHypothesis(p)
    <3>1. PICK h \in task[p].todo :
            /\ hypothesis' = [hypothesis EXCEPT ![h] = "open"]
            /\ Become(p, [task[p] EXCEPT !.pc = "schedule", !.made = h,
                                         !.todo = task[p].todo \ {h}])
      BY <2>5 DEF InsertHypothesis
    <3>2. task[p].todo \subseteq Hypotheses
      BY <2>0 DEF Task
    <3>3. [task[p] EXCEPT !.pc = "schedule", !.made = h, !.todo = task[p].todo \ {h}] \in Task
      BY <2>0, <3>2 DEF Task, PlanPcs
    <3>4. task' \in [Requests -> Task]
      BY <1>0, <2>0, <3>1, <3>3, BecomeTyped
    <3>5. hypothesis' \in [Hypotheses -> {"none", "open", "partially_reviewed", "closed"}]
      BY <3>1 DEF TypeOK
    <3> QED
      BY <2>5, <3>4, <3>5 DEF InsertHypothesis, TypeOK, history
  <2>6. CASE InsertOutcomes(p)
    <3>1. [task[p] EXCEPT !.pc = "draft", !.made = None] \in Task
      BY <2>0 DEF Task, PlanPcs
    <3>2. task' \in [Requests -> Task]
      BY <1>0, <2>0, <2>6, <3>1, BecomeTyped DEF InsertOutcomes
    <3>3. outcome' \in [Outcomes -> {"none", "waiting", "due", "reviewed"}]
      BY <2>6 DEF InsertOutcomes, TypeOK
    <3> QED
      BY <2>6, <3>2, <3>3 DEF InsertOutcomes, TypeOK, history
  <2> QED
    BY <1>3, <2>1, <2>2, <2>3, <2>4, <2>5, <2>6 DEF PlanStep
<1>4. ASSUME NEW r \in Reviews, ReviewStep(r) PROVE TypeOK'
  <2>0. r \in Requests /\ task[r] \in Task /\ task[r].due \in SUBSET Outcomes
    BY <1>0 DEF Requests, Task
  <2>1. CASE List(r)
    <3>1. {o \in Outcomes : Listable(o)} \in SUBSET Outcomes
      OBVIOUS
    <3>2. [task[r] EXCEPT !.pc = "update", !.due = {o \in Outcomes : Listable(o)}] \in Task
      BY <2>0, <3>1 DEF Task, ReviewPcs
    <3>3. task' \in [Requests -> Task]
      BY <1>0, <2>0, <2>1, <3>2, BecomeTyped DEF List
    <3> QED
      BY <2>1, <3>3 DEF List, TypeOK, tables, history
  <2>2. CASE Update(r)
    <3>1. PICK o \in Earliest(task[r].due), s \in Scores :
            /\ outcome' = [outcome EXCEPT ![o] = s]
            /\ Become(r, [task[r] EXCEPT !.pc = "count", !.cur = o, !.score = s,
                                         !.due = task[r].due \ {o}])
      BY <2>2 DEF Update
    <3>2. o \in Outcomes /\ s \in {"reviewed", "due"} /\ task[r].due \ {o} \in SUBSET Outcomes
      BY <2>0, PlanAssumption DEF Earliest
    <3>3. [task[r] EXCEPT !.pc = "count", !.cur = o, !.score = s,
                          !.due = task[r].due \ {o}] \in Task
      BY <2>0, <3>1, <3>2 DEF Task, ReviewPcs
    <3>4. task' \in [Requests -> Task]
      BY <1>0, <2>0, <3>1, <3>3, BecomeTyped
    <3>5. outcome' \in [Outcomes -> {"none", "waiting", "due", "reviewed"}]
      BY <3>1, <3>2 DEF TypeOK
    <3> QED
      BY <2>2, <3>4, <3>5 DEF Update, TypeOK, history
  <2>3. CASE CountLeft(r)
    <3>1. (Unreviewed(task[r].cur[1]) = {}) \in BOOLEAN
      OBVIOUS
    <3>2. [task[r] EXCEPT !.pc = "mark", !.complete = Unreviewed(task[r].cur[1]) = {}] \in Task
      BY <2>0, <3>1 DEF Task, ReviewPcs
    <3>3. task' \in [Requests -> Task]
      BY <1>0, <2>0, <2>3, <3>2, BecomeTyped DEF CountLeft
    <3> QED
      BY <2>3, <3>3 DEF CountLeft, TypeOK, tables, history
  <2>4. CASE Mark(r)
    <3> DEFINE next == [Plain("update") EXCEPT !.due = task[r].due]
    <3>1. next \in Task
      BY <2>0, DueTyped DEF AllPcs, ReviewPcs
    <3>2. [next EXCEPT !.pc = "postMortem", !.cur = task[r].cur] \in Task
      BY <2>0, <3>1 DEF Task, ReviewPcs
    <3>3. Become(r, IF Learns(r) THEN [next EXCEPT !.pc = "postMortem", !.cur = task[r].cur]
                                 ELSE next)
      BY <2>4 DEF Mark
    <3>4. task' \in [Requests -> Task]
      BY <1>0, <2>0, <3>1, <3>2, <3>3, BecomeTyped
    <3>5. hypothesis' \in [Hypotheses -> {"none", "open", "partially_reviewed", "closed"}]
      BY <2>4 DEF Mark, TypeOK
    <3> QED
      BY <2>4, <3>4, <3>5 DEF Mark, TypeOK, history
  <2>5. CASE InsertPostMortem(r)
    <3>1. task' \in [Requests -> Task]
      BY <1>0, <2>0, <2>5, GotoTyped DEF InsertPostMortem, AllPcs, ReviewPcs
    <3>2. postMortems' \in [Outcomes -> Nat]
      BY <2>5, OneMoreTyped DEF InsertPostMortem, TypeOK
    <3> QED
      BY <2>5, <3>1, <3>2 DEF InsertPostMortem, TypeOK, history
  <2>6. CASE InsertLesson(r)
    <3>1. task' \in [Requests -> Task]
      BY <1>0, <2>0, <2>6, DueTyped, BecomeTyped DEF InsertLesson, AllPcs, ReviewPcs
    <3>2. lessons' \in [Outcomes -> Nat]
      BY <2>6, OneMoreTyped DEF InsertLesson, TypeOK
    <3> QED
      BY <2>6, <3>1, <3>2 DEF InsertLesson, TypeOK, history
  <2>7. CASE FinishReview(r)
    <3>1. task' \in [Requests -> Task]
      BY <1>0, <2>0, <2>7, EndTyped DEF FinishReview
    <3> QED
      BY <2>7, <3>1 DEF FinishReview, TypeOK, tables, history
  <2> QED
    BY <1>4, <2>1, <2>2, <2>3, <2>4, <2>5, <2>6, <2>7 DEF ReviewStep
<1>5. ASSUME NEW o \in Outcomes, OutcomeDue(o) PROVE TypeOK'
  BY <1>5 DEF OutcomeDue, TypeOK, history
<1>6. CASE UNCHANGED vars
  BY <1>6 DEF TypeOK, vars, tables
<1> QED
  BY <1>1, <1>2, <1>3, <1>4, <1>5, <1>6 DEF Next

(* The tables and the requests keep their types, for any requests, any     *)
(* hypotheses and any number of reviews of each.                           *)
THEOREM TypeCorrect == Spec => []TypeOK
BY InitTyped, StepTyped, PTL DEF Spec
-----------------------------------------------------------------------------
(* Steps that write none of what the next three invariants speak of, and   *)
(* where they lead.                                                        *)
LEMMA PlanQuiet ==
    ASSUME TypeOK, NEW p \in Plans,
           DryRun(p) \/ Build(p) \/ InsertHypothesis(p) \/ InsertOutcomes(p) \/ FinishPlan(p)
    PROVE  /\ UNCHANGED <<seeded, plan, overlapped, cut>>
           /\ task[p].pc \in {"build", "draft", "schedule"}
           /\ \E s : /\ s.pc \in {"supersede", "schedule", "draft", "done"}
                    /\ Become(p, s)
<1>1. task[p] \in Task
  BY DEF TypeOK, Requests
<1>2. /\ UNCHANGED <<seeded, plan, overlapped, cut>>
      /\ task[p].pc \in {"build", "draft", "schedule"}
  BY DEF DryRun, Build, InsertHypothesis, InsertOutcomes, FinishPlan, At, tables, history
<1>3. CASE DryRun(p) \/ FinishPlan(p)
  BY <1>2, <1>3 DEF DryRun, FinishPlan, End, Plain
<1>4. CASE Build(p)
  <2>1. PICK drafts : Become(p, [task[p] EXCEPT !.pc = "supersede", !.todo = drafts])
    BY <1>4 DEF Build
  <2> DEFINE s == [task[p] EXCEPT !.pc = "supersede", !.todo = drafts]
  <2>2. s.pc = "supersede" /\ Become(p, s)
    BY <1>1, <2>1 DEF Task
  <2> HIDE DEF s
  <2> QED
    BY <1>2, <2>2
<1>5. CASE InsertHypothesis(p)
  <2>1. PICK h : Become(p, [task[p] EXCEPT !.pc = "schedule", !.made = h,
                                           !.todo = task[p].todo \ {h}])
    BY <1>5 DEF InsertHypothesis
  <2> DEFINE s == [task[p] EXCEPT !.pc = "schedule", !.made = h, !.todo = task[p].todo \ {h}]
  <2>2. s.pc = "schedule" /\ Become(p, s)
    BY <1>1, <2>1 DEF Task
  <2> HIDE DEF s
  <2> QED
    BY <1>2, <2>2
<1>6. CASE InsertOutcomes(p)
  <2> DEFINE s == [task[p] EXCEPT !.pc = "draft", !.made = None]
  <2>1. s.pc = "draft" /\ Become(p, s)
    BY <1>1, <1>6 DEF Task, InsertOutcomes
  <2> HIDE DEF s
  <2> QED
    BY <1>2, <2>1
<1> QED
  BY <1>3, <1>4, <1>5, <1>6

LEMMA ReviewQuiet ==
    ASSUME TypeOK, NEW r \in Reviews, ReviewStep(r)
    PROVE  /\ UNCHANGED <<seeded, plan, overlapped, cut>>
           /\ task[r].pc \in ReviewPcs
           /\ \E s : s.pc \in ReviewPcs \cup {"idle"} /\ Become(r, s)
<1>1. task[r] \in Task
  BY DEF TypeOK, Requests
<1>2. /\ UNCHANGED <<seeded, plan, overlapped, cut>>
      /\ task[r].pc \in ReviewPcs
  BY DEF ReviewStep, List, Update, CountLeft, Mark, InsertPostMortem, InsertLesson,
         FinishReview, At, tables, history, ReviewPcs
<1>3. CASE List(r)
  <2> DEFINE s == [task[r] EXCEPT !.pc = "update", !.due = {o \in Outcomes : Listable(o)}]
  <2>1. s.pc = "update"
    BY <1>1 DEF Task
  <2> QED
    BY <1>2, <1>3, <2>1 DEF List, ReviewPcs
<1>4. CASE Update(r)
  <2>1. PICK o, v : Become(r, [task[r] EXCEPT !.pc = "count", !.cur = o, !.score = v,
                                              !.due = task[r].due \ {o}])
    BY <1>4 DEF Update
  <2>2. [task[r] EXCEPT !.pc = "count", !.cur = o, !.score = v,
                        !.due = task[r].due \ {o}].pc = "count"
    BY <1>1 DEF Task
  <2> QED
    BY <1>2, <2>1, <2>2 DEF ReviewPcs
<1>5. CASE CountLeft(r)
  <2> DEFINE s == [task[r] EXCEPT !.pc = "mark", !.complete = Unreviewed(task[r].cur[1]) = {}]
  <2>1. s.pc = "mark"
    BY <1>1 DEF Task
  <2> QED
    BY <1>2, <1>5, <2>1 DEF CountLeft, ReviewPcs
<1>6. CASE Mark(r)
  <2> DEFINE next == [Plain("update") EXCEPT !.due = task[r].due]
             s == IF Learns(r) THEN [next EXCEPT !.pc = "postMortem", !.cur = task[r].cur]
                               ELSE next
  <2>1. next.pc = "update" /\ [next EXCEPT !.pc = "postMortem", !.cur = task[r].cur].pc = "postMortem"
    BY DEF Plain
  <2>2. s.pc \in ReviewPcs
    BY <2>1 DEF ReviewPcs
  <2>3. Become(r, s)
    BY <1>6 DEF Mark
  <2> QED
    BY <1>2, <2>2, <2>3
<1>7. CASE InsertPostMortem(r)
  <2>1. [task[r] EXCEPT !.pc = "lesson"].pc = "lesson"
    BY <1>1 DEF Task
  <2> QED
    BY <1>2, <1>7, <2>1 DEF InsertPostMortem, Goto, ReviewPcs
<1>8. CASE InsertLesson(r)
  <2>1. [Plain("update") EXCEPT !.due = task[r].due].pc = "update"
    BY DEF Plain
  <2> QED
    BY <1>2, <1>8, <2>1 DEF InsertLesson, ReviewPcs
<1>9. CASE FinishReview(r)
  <2>1. r \notin Plans
    BY PlanAssumption
  <2> QED
    BY <1>2, <1>9, <2>1 DEF FinishReview, End, Plain
<1> QED
  BY <1>3, <1>4, <1>5, <1>6, <1>7, <1>8, <1>9 DEF ReviewStep

(* What Goto and End write of the others' program counters: nothing.       *)
LEMMA PcAfter ==
    ASSUME task \in [Requests -> Task], NEW q \in Requests, NEW s, Become(q, s)
    PROVE  \A x \in Requests : task'[x] = IF x = q THEN s ELSE task[x]
BY DEF Become

LEMMA PcAfterGoto ==
    ASSUME task \in [Requests -> Task], NEW q \in Requests, NEW p, Goto(q, p)
    PROVE  \A x \in Requests : task'[x].pc = IF x = q THEN p ELSE task[x].pc
<1>1. [task[q] EXCEPT !.pc = p].pc = p
  BY DEF Task
<1> QED
  BY <1>1, PcAfter DEF Goto

LEMMA PcAfterEnd ==
    ASSUME task \in [Requests -> Task], NEW q \in Requests, End(q)
    PROVE  \A x \in Requests : task'[x].pc = IF x # q THEN task[x].pc
                                              ELSE IF q \in Plans THEN "done" ELSE "idle"
BY PcAfter DEF End, Plain
-----------------------------------------------------------------------------
(* OneSeeder, without cardinalities.                                       *)
SeedInv ==
    /\ \A p, q \in Requests : At(p, "seed") /\ At(q, "seed") => p = q
    /\ \A q \in Requests : At(q, "seed") => seeded \in 1..(Whole - 1)
    /\ seeded \in 1..(Whole - 1) => (\E q \in Requests : At(q, "seed")) \/ "seed" \in cut

LEMMA SeedInvInit == Init => SeedInv
BY DEF Init, SeedInv, At, Plain, Whole

LEMMA SeedUntouched ==
    ASSUME TypeOK, SeedInv, seeded' = seeded, cut' = cut,
           \A x \in Requests : At(x, "seed")' <=> At(x, "seed")
    PROVE  SeedInv'
BY DEF SeedInv

LEMMA SeedInvStep == TypeOK /\ SeedInv /\ [Next]_vars => SeedInv'
<1> SUFFICES ASSUME TypeOK, SeedInv, [Next]_vars PROVE SeedInv'
  OBVIOUS
<1>0. task \in [Requests -> Task]
  BY DEF TypeOK
<1>1. ASSUME NEW q \in Requests, FindStrategy(q) PROVE SeedInv'
  <2>1. \A x \in Requests : At(x, "seed")' <=> At(x, "seed")
    BY <1>0, <1>1, PcAfterGoto DEF FindStrategy, At, Bundled
  <2> QED
    BY <1>1, <2>1, SeedUntouched DEF FindStrategy, tables
<1>2. ASSUME NEW q \in Requests, CreateStrategy(q) PROVE SeedInv'
  <2>1. CASE Free
    <3>1. \A x \in Requests : task'[x].pc = IF x = q THEN "seed" ELSE task[x].pc
      BY <1>0, <1>2, <2>1, PcAfterGoto DEF CreateStrategy
    <3>2. seeded = 0 /\ seeded' = 1 /\ cut' = cut
      BY <1>2, <2>1 DEF CreateStrategy, Free, history
    <3> QED
      BY <3>1, <3>2 DEF SeedInv, At, Whole
  <2>2. CASE ~Free
    <3>1. \A x \in Requests : At(x, "seed")' <=> At(x, "seed")
      BY <1>0, <1>2, <2>2, PcAfterEnd DEF CreateStrategy, At
    <3> QED
      BY <1>2, <2>2, <3>1, SeedUntouched DEF CreateStrategy, history
  <2> QED
    BY <2>1, <2>2
<1>3. ASSUME NEW q \in Requests, SeedPart(q) PROVE SeedInv'
  <2>1. /\ At(q, "seed") /\ seeded' = seeded + 1 /\ seeded \in 1..(Whole - 1)
    BY <1>3 DEF SeedPart, SeedInv
  <2>2. \A x \in Requests :
          task'[x].pc = IF x = q THEN IF seeded' = Whole THEN Bundled(q) ELSE "seed"
                                 ELSE task[x].pc
    BY <1>0, <1>3, PcAfterGoto DEF SeedPart
  <2>3. Bundled(q) # "seed"
    BY DEF Bundled
  <2> QED
    BY <2>1, <2>2, <2>3 DEF SeedInv, At, Whole
<1>4. ASSUME NEW q \in Requests, Stop(q) PROVE SeedInv'
  <2>1. \A x \in Requests : At(x, "seed")' <=> x # q /\ At(x, "seed")
    BY <1>0, <1>4, PcAfterEnd DEF Stop, At
  <2>2. cut \subseteq cut' /\ (At(q, "seed") => "seed" \in cut') /\ seeded' = seeded
    BY <1>4 DEF Stop, Window, At, tables
  <2> QED
    BY <2>1, <2>2 DEF SeedInv
<1>5. ASSUME NEW p \in Plans, PlanStep(p) PROVE SeedInv'
  <2>0. p \in Requests
    BY DEF Requests
  <2>1. CASE DryRun(p) \/ Build(p) \/ InsertHypothesis(p) \/ InsertOutcomes(p) \/ FinishPlan(p)
    <3>1. PICK s : s.pc \in {"supersede", "schedule", "draft", "done"} /\ Become(p, s)
      BY <2>1, PlanQuiet
    <3>2. \A x \in Requests : At(x, "seed")' <=> At(x, "seed")
      BY <1>0, <2>0, <2>1, <3>1, PlanQuiet, PcAfter DEF At
    <3> QED
      BY <2>1, <3>2, PlanQuiet, SeedUntouched
  <2>2. CASE Supersede(p)
    <3>1. \A x \in Requests : At(x, "seed")' <=> At(x, "seed")
      BY <1>0, <2>0, <2>2, PcAfterGoto DEF Supersede, At
    <3> QED
      BY <2>2, <3>1, SeedUntouched DEF Supersede, history
  <2>3. CASE InsertPlan(p)
    <3>1. \A x \in Requests : At(x, "seed")' <=> At(x, "seed")
      BY <1>0, <2>0, <2>3, PcAfterGoto DEF InsertPlan, At
    <3>2. seeded' = seeded /\ cut' = cut \ {"plan"}
      BY <2>3 DEF InsertPlan
    <3> QED
      BY <3>1, <3>2 DEF SeedInv
  <2> QED
    BY <1>5, <2>1, <2>2, <2>3 DEF PlanStep
<1>6. ASSUME NEW r \in Reviews, ReviewStep(r) PROVE SeedInv'
  <2>1. PICK s : s.pc \in ReviewPcs \cup {"idle"} /\ Become(r, s)
    BY <1>6, ReviewQuiet
  <2>2. r \in Requests
    BY DEF Requests
  <2>3. \A x \in Requests : At(x, "seed")' <=> At(x, "seed")
    BY <1>0, <1>6, <2>1, <2>2, ReviewQuiet, PcAfter DEF At, ReviewPcs
  <2> QED
    BY <1>6, <2>3, ReviewQuiet, SeedUntouched
<1>7. ASSUME NEW o \in Outcomes, OutcomeDue(o) PROVE SeedInv'
  BY <1>7 DEF OutcomeDue, SeedInv, At, history
<1>8. CASE UNCHANGED vars
  BY <1>8 DEF SeedInv, At, vars, tables
<1> QED
  BY <1>1, <1>2, <1>3, <1>4, <1>5, <1>6, <1>7, <1>8 DEF Next, SeedStep

LEMMA AtMostOne ==
    ASSUME NEW S, \A x, y \in S : x = y
    PROVE  Cardinality(S) <= 1
<1>1. CASE S = {}
  BY <1>1, FS_EmptySet
<1>2. CASE S # {}
  <2>1. PICK x \in S : S = {x}
    BY <1>2
  <2> QED
    BY <2>1, FS_Singleton
<1> QED
  BY <1>1, <1>2

LEMMA SeedInvEnough == SeedInv => OneSeeder
<1> SUFFICES ASSUME SeedInv PROVE OneSeeder
  OBVIOUS
<1>1. Cardinality(Seeders) <= 1
  BY AtMostOne DEF SeedInv, Seeders
<1> QED
  BY <1>1 DEF SeedInv, OneSeeder, Seeders

(* A strategy that lacks a part is being seeded by one request, or its     *)
(* seeding was cut, however many requests find no strategy at a time.      *)
THEOREM SeededByOne == Spec => []OneSeeder
<1>1. Init => TypeOK /\ SeedInv
  BY InitTyped, SeedInvInit
<1>2. TypeOK /\ SeedInv /\ [Next]_vars => (TypeOK /\ SeedInv)'
  BY StepTyped, SeedInvStep
<1> QED
  BY <1>1, <1>2, SeedInvEnough, PTL DEF Spec
-----------------------------------------------------------------------------
(* What a step may do to the seeding: nothing, or begin it, or go on with  *)
(* it, or stop in it.                                                      *)
SeedingAsItWas == UNCHANGED seeded /\ \A x \in Requests : At(x, "seed")' <=> At(x, "seed")

LEMMA SeedingSteps ==
    ASSUME TypeOK, [Next]_vars
    PROVE  \/ SeedingAsItWas
           \/ \E q \in Requests : \/ CreateStrategy(q) /\ Free
                                  \/ SeedPart(q)
                                  \/ Stop(q) /\ At(q, "seed")
<1>0. task \in [Requests -> Task] /\ Plans \subseteq Requests /\ Reviews \subseteq Requests
  BY DEF TypeOK, Requests
<1>1. ASSUME NEW q \in Requests, FindStrategy(q) PROVE SeedingAsItWas
  BY <1>0, <1>1, PcAfterGoto DEF FindStrategy, At, Bundled, tables, SeedingAsItWas
<1>2. ASSUME NEW q \in Requests, CreateStrategy(q), ~Free PROVE SeedingAsItWas
  BY <1>0, <1>2, PcAfterEnd DEF CreateStrategy, At, SeedingAsItWas
<1>3. ASSUME NEW q \in Requests, Stop(q), ~At(q, "seed") PROVE SeedingAsItWas
  BY <1>0, <1>3, PcAfterEnd DEF Stop, At, tables, SeedingAsItWas
<1>4. ASSUME NEW p \in Plans, PlanStep(p) PROVE SeedingAsItWas
  <2>1. CASE DryRun(p) \/ Build(p) \/ InsertHypothesis(p) \/ InsertOutcomes(p) \/ FinishPlan(p)
    <3>1. PICK s : s.pc \in {"supersede", "schedule", "draft", "done"} /\ Become(p, s)
      BY <2>1, PlanQuiet
    <3> QED
      BY <1>0, <2>1, <3>1, PlanQuiet, PcAfter DEF At, SeedingAsItWas
  <2>2. CASE Supersede(p) \/ InsertPlan(p)
    BY <1>0, <2>2, PcAfterGoto DEF Supersede, InsertPlan, At, SeedingAsItWas
  <2> QED
    BY <1>4, <2>1, <2>2 DEF PlanStep
<1>5. ASSUME NEW r \in Reviews, ReviewStep(r) PROVE SeedingAsItWas
  <2>1. PICK s : s.pc \in ReviewPcs \cup {"idle"} /\ Become(r, s)
    BY <1>5, ReviewQuiet
  <2> QED
    BY <1>0, <1>5, <2>1, ReviewQuiet, PcAfter DEF At, ReviewPcs, SeedingAsItWas
<1>6. ASSUME NEW o \in Outcomes, OutcomeDue(o) PROVE SeedingAsItWas
  BY <1>6 DEF OutcomeDue, At, SeedingAsItWas
<1>7. CASE UNCHANGED vars
  BY <1>7 DEF At, vars, tables, SeedingAsItWas
<1> QED
  BY <1>1, <1>2, <1>3, <1>4, <1>5, <1>6, <1>7 DEF Next, SeedStep

LEMMA CreateTakes ==
    ASSUME TypeOK, SeedInv, NEW q \in Requests, CreateStrategy(q), Free
    PROVE  O!Take(q, "strategy")
<1>1. seeded = 0 /\ seeded' = 1 /\ Seeders = {}
  BY DEF CreateStrategy, Free, Seeders, SeedInv
<1>2. task \in [Requests -> Task] /\ Goto(q, "seed")
  BY DEF TypeOK, CreateStrategy
<1>3. Seeders' = {q}
  BY <1>1, <1>2, PcAfterGoto DEF Seeders, At
<1> QED
  BY <1>1, <1>3 DEF O!Take, O!Open, Whole

LEMMA PartDoes ==
    ASSUME TypeOK, SeedInv, NEW q \in Requests, SeedPart(q)
    PROVE  O!Do(q, "strategy") \/ UNCHANGED O!onceVars
<1>1. seeded' = seeded + 1 /\ seeded \in 1..(Whole - 1) /\ Seeders = {q}
  BY DEF SeedPart, Seeders, SeedInv
<1>2. \A x \in Requests :
        task'[x].pc = IF x = q THEN IF seeded' = Whole THEN Bundled(q) ELSE "seed"
                               ELSE task[x].pc
  BY PcAfterGoto DEF SeedPart, TypeOK
<1>3. Bundled(q) # "seed"
  BY DEF Bundled
<1>4. CASE seeded' = Whole
  <2>1. Seeders' = {} /\ seeded # Whole
    BY <1>1, <1>2, <1>3, <1>4 DEF Seeders, At
  <2> QED
    BY <1>1, <1>4, <2>1 DEF O!Do, Whole
<1>5. CASE seeded' # Whole
  <2>1. Seeders' = {q} /\ seeded # Whole
    BY <1>1, <1>2, <1>5 DEF Seeders, At, Whole
  <2> QED
    BY <1>1, <1>5, <2>1 DEF O!onceVars, Whole
<1> QED
  BY <1>4, <1>5

LEMMA StopSpoils ==
    ASSUME TypeOK, SeedInv, NEW q \in Requests, Stop(q), At(q, "seed")
    PROVE  O!Stop(q, "strategy")
<1>1. seeded' = seeded /\ seeded \in 1..(Whole - 1) /\ Seeders = {q}
  BY DEF Stop, tables, Seeders, SeedInv
<1>2. Seeders' = {}
  BY <1>1, PcAfterEnd DEF Stop, TypeOK, Seeders, At
<1> QED
  BY <1>1, <1>2 DEF O!Stop, Whole

Spoilt == {t \in {"strategy"} : seeded \in 1..(Whole - 1) /\ Seeders = {}}

LEMMA StrategyStep ==
    TypeOK /\ SeedInv /\ [Next]_vars => [O!OnceNext /\ Spoilt \subseteq Spoilt']_(O!onceVars)
<1> SUFFICES ASSUME TypeOK, SeedInv, [Next]_vars
             PROVE  [O!OnceNext /\ Spoilt \subseteq Spoilt']_(O!onceVars)
  OBVIOUS
<1>1. CASE SeedingAsItWas
  <2>1. seeded' = seeded /\ Seeders' = Seeders
    BY <1>1 DEF SeedingAsItWas, Seeders
  <2> QED
    BY <2>1 DEF O!onceVars
<1>2. ASSUME NEW q \in Requests, CreateStrategy(q) /\ Free
      PROVE  O!OnceNext /\ Spoilt \subseteq Spoilt'
  <2>1. O!Take(q, "strategy")
    BY <1>2, CreateTakes
  <2> QED
    BY <2>1 DEF O!OnceNext, O!Take, Spoilt
<1>3. ASSUME NEW q \in Requests, SeedPart(q)
      PROVE  [O!OnceNext /\ Spoilt \subseteq Spoilt']_(O!onceVars)
  <2>1. CASE O!Do(q, "strategy")
    BY <2>1 DEF O!OnceNext, O!Do, Spoilt
  <2> QED
    BY <1>3, <2>1, PartDoes
<1>4. ASSUME NEW q \in Requests, Stop(q) /\ At(q, "seed")
      PROVE  O!OnceNext /\ Spoilt \subseteq Spoilt'
  <2>1. O!Stop(q, "strategy")
    BY <1>4, StopSpoils
  <2> QED
    BY <2>1 DEF O!OnceNext, O!Stop, Spoilt
<1> QED
  BY <1>1, <1>2, <1>3, <1>4, SeedingSteps

(* The default strategy is seeded once, by the request that found none     *)
(* first, whatever arrives meanwhile; and when that request stops in the   *)
(* seeding nobody completes it, ever.                                      *)
THEOREM StrategySeededOnce == Spec => StrategyOnce
<1>1. Init => O!OnceInit
  BY DEF Init, O!OnceInit, Seeders, At, Plain, Whole
<1>2. [O!OnceNext /\ Spoilt \subseteq Spoilt']_(O!onceVars)
        => [O!OnceNext]_(O!onceVars) /\ [Spoilt \subseteq Spoilt']_(O!onceVars)
  OBVIOUS
<1>3. [][Spoilt \subseteq Spoilt']_(O!onceVars) => O!SpoiltForGood
  BY PTL DEF O!SpoiltForGood, Spoilt
<1> QED
  BY <1>1, <1>2, <1>3, InitTyped, SeedInvInit, StepTyped, SeedInvStep, StrategyStep,
     PTL DEF Spec, StrategyOnce, O!OnceSpec
-----------------------------------------------------------------------------
(* While generations have not overlapped there is one at work at most; and *)
(* when it is about to insert its plan no other is active.                 *)
PlanAlone == \A p, q \in Busy(Plans) : p = q
NoneActive == \A p \in Plans : At(p, "insert") => Active = {}
SingleActive == \A p, q \in Active : p = q

PlanInv == "plans" \notin overlapped => PlanAlone /\ NoneActive /\ SingleActive

LEMMA PlanInvInit == Init => PlanInv /\ PlanKept
<1> SUFFICES ASSUME Init PROVE PlanInv /\ PlanKept
  OBVIOUS
<1>1. Plain("idle").pc = "idle" /\ Plans \subseteq Requests
  BY DEF Plain, Requests
<1>2. Busy(Plans) = {} /\ Active = {}
  BY <1>1 DEF Init, Busy, Active
<1>3. ~\E p \in Plans : plan[p] = "superseded"
  BY DEF Init
<1> QED
  BY <1>2, <1>3 DEF PlanInv, PlanAlone, NoneActive, SingleActive, PlanKept

(* A step that writes no plan, sends no other request to its insert and    *)
(* starts none.                                                            *)
LEMMA PlansUntouched ==
    ASSUME TypeOK, PlanInv, PlanKept, plan' = plan, overlapped \subseteq overlapped',
           cut \subseteq cut',
           \A p \in Plans : At(p, "insert")' <=> At(p, "insert"),
           Busy(Plans)' \subseteq Busy(Plans)
    PROVE  PlanInv' /\ PlanKept'
<1>1. Active' = Active
  BY DEF Active
<1>2. PlanInv'
  BY <1>1 DEF PlanInv, PlanAlone, NoneActive, SingleActive
<1>3. PlanKept'
  BY <1>1 DEF PlanKept
<1> QED
  BY <1>2, <1>3

LEMMA PlanInvStep == TypeOK /\ PlanInv /\ PlanKept /\ [Next]_vars => PlanInv' /\ PlanKept'
<1> SUFFICES ASSUME TypeOK, PlanInv, PlanKept, [Next]_vars PROVE PlanInv' /\ PlanKept'
  OBVIOUS
<1>0. task \in [Requests -> Task] /\ Plans \subseteq Requests /\ Plans \cap Reviews = {}
  BY PlanAssumption DEF TypeOK, Requests
<1>1. ASSUME NEW q \in Requests, FindStrategy(q) PROVE PlanInv' /\ PlanKept'
  <2>1. \A x \in Requests :
          task'[x].pc = IF x # q THEN task[x].pc
                        ELSE IF seeded = 0 THEN "create" ELSE Bundled(q)
    BY <1>0, <1>1, PcAfterGoto DEF FindStrategy
  <2>2. plan' = plan /\ cut' = cut /\ overlapped \subseteq overlapped' /\ Active' = Active
    BY <1>1 DEF FindStrategy, tables, Active
  <2>3. \A p \in Plans : At(p, "insert")' <=> At(p, "insert")
    BY <1>0, <1>1, <2>1 DEF FindStrategy, At, Bundled
  <2>4. PlanKept'
    BY <2>2, <2>3 DEF PlanKept
  <2>5. CASE q \in Plans /\ Busy(Plans) # {}
    BY <1>1, <2>4, <2>5 DEF FindStrategy, PlanInv
  <2>6. CASE q \notin Plans
    <3>1. Busy(Plans)' \subseteq Busy(Plans)
      BY <1>0, <2>1, <2>6 DEF Busy
    <3> QED
      BY <2>2, <2>3, <3>1, PlansUntouched
  <2>7. CASE q \in Plans /\ Busy(Plans) = {}
    <3>1. Busy(Plans)' \subseteq {q}
      BY <1>0, <2>1, <2>7 DEF Busy
    <3>2. PlanInv'
      BY <2>2, <2>3, <3>1 DEF PlanInv, PlanAlone, NoneActive, SingleActive
    <3> QED
      BY <2>4, <3>2
  <2> QED
    BY <2>5, <2>6, <2>7
<1>2. ASSUME NEW q \in Requests, CreateStrategy(q) PROVE PlanInv' /\ PlanKept'
  <2>1. /\ At(q, "create") /\ UNCHANGED <<plan, overlapped, cut>>
        /\ Goto(q, "seed") \/ End(q)
    BY <1>2 DEF CreateStrategy, history
  <2>2. /\ \A p \in Plans : At(p, "insert")' <=> At(p, "insert")
        /\ Busy(Plans)' \subseteq Busy(Plans)
    BY <1>0, <2>1, PcAfterGoto, PcAfterEnd DEF At, Busy
  <2> QED
    BY <2>1, <2>2, PlansUntouched
<1>3. ASSUME NEW q \in Requests, SeedPart(q) PROVE PlanInv' /\ PlanKept'
  <2>1. /\ At(q, "seed") /\ UNCHANGED <<plan, overlapped, cut>>
        /\ Goto(q, IF seeded' = Whole THEN Bundled(q) ELSE "seed")
    BY <1>3 DEF SeedPart, history
  <2>2. /\ \A p \in Plans : At(p, "insert")' <=> At(p, "insert")
        /\ Busy(Plans)' \subseteq Busy(Plans)
    BY <1>0, <2>1, PcAfterGoto DEF At, Busy, Bundled
  <2> QED
    BY <2>1, <2>2, PlansUntouched
<1>4. ASSUME NEW q \in Requests, Stop(q) PROVE PlanInv' /\ PlanKept'
  <2>1. \A x \in Requests : task'[x].pc = IF x # q THEN task[x].pc
                                           ELSE IF q \in Plans THEN "done" ELSE "idle"
    BY <1>0, <1>4, PcAfterEnd DEF Stop
  <2>2. /\ plan' = plan /\ overlapped' = overlapped /\ cut \subseteq cut'
        /\ At(q, "insert") => "plan" \in cut'
    BY <1>4 DEF Stop, Window, At, tables
  <2>3. Busy(Plans)' \subseteq Busy(Plans) /\ Active' = Active
    BY <1>0, <2>1, <2>2 DEF Busy, Active
  <2>4. \A p \in Plans : At(p, "insert")' <=> p # q /\ At(p, "insert")
    BY <1>0, <2>1 DEF At
  <2>5. PlanInv'
    BY <2>2, <2>3, <2>4 DEF PlanInv, PlanAlone, NoneActive, SingleActive
  <2>6. PlanKept'
    BY <2>2, <2>3, <2>4 DEF PlanKept
  <2> QED
    BY <2>5, <2>6
<1>5. ASSUME NEW p \in Plans, PlanStep(p) PROVE PlanInv' /\ PlanKept'
  <2>1. CASE DryRun(p) \/ Build(p) \/ InsertHypothesis(p) \/ InsertOutcomes(p) \/ FinishPlan(p)
    <3>1. PICK s : s.pc \in {"supersede", "schedule", "draft", "done"} /\ Become(p, s)
      BY <2>1, PlanQuiet
    <3>2. \A x \in Requests : task'[x] = IF x = p THEN s ELSE task[x]
      BY <1>0, <3>1, PcAfter
    <3>3. task[p].pc \in {"build", "draft", "schedule"} /\ UNCHANGED <<plan, overlapped, cut>>
      BY <2>1, PlanQuiet
    <3>4. /\ \A x \in Plans : At(x, "insert")' <=> At(x, "insert")
          /\ Busy(Plans)' \subseteq Busy(Plans)
      BY <1>0, <3>1, <3>2, <3>3 DEF At, Busy
    <3> QED
      BY <3>3, <3>4, PlansUntouched
  <2>2. CASE Supersede(p)
    <3>1. \A x \in Requests : task'[x].pc = IF x = p THEN "insert" ELSE task[x].pc
      BY <1>0, <2>2, PcAfterGoto DEF Supersede
    <3>2. Active' = {}
      BY <2>2 DEF Supersede, Active
    <3>3. overlapped' = overlapped /\ Busy(Plans)' \subseteq Busy(Plans)
      BY <1>0, <2>2, <3>1 DEF Supersede, history, Busy, At
    <3>4. PlanInv'
      BY <3>2, <3>3 DEF PlanInv, PlanAlone, NoneActive, SingleActive
    <3>5. At(p, "insert")'
      BY <1>0, <3>1 DEF At
    <3> QED
      BY <3>4, <3>5 DEF PlanKept
  <2>3. CASE InsertPlan(p)
    <3>1. \A x \in Requests : task'[x].pc = IF x = p THEN "draft" ELSE task[x].pc
      BY <1>0, <2>3, PcAfterGoto DEF InsertPlan
    <3>2. Active' = Active \cup {p}
      BY <2>3 DEF InsertPlan, Active, TypeOK
    <3>3. /\ overlapped' = overlapped /\ Busy(Plans)' \subseteq Busy(Plans)
          /\ At(p, "insert") /\ p \in Busy(Plans)
      BY <1>0, <2>3, <3>1 DEF InsertPlan, Busy, At
    <3>4. PlanInv'
      <4>1. SUFFICES ASSUME "plans" \notin overlapped
                     PROVE  (PlanAlone /\ NoneActive /\ SingleActive)'
        BY <3>3 DEF PlanInv
      <4>2. Active' = {p} /\ Busy(Plans) = {p}
        BY <3>2, <3>3, <4>1 DEF PlanInv, PlanAlone, NoneActive
      <4>3. \A x \in Plans : ~At(x, "insert")'
        BY <1>0, <3>1, <4>2 DEF At, Busy
      <4> QED
        BY <3>3, <4>2, <4>3 DEF PlanAlone, NoneActive, SingleActive
    <3>5. PlanKept'
      BY <3>2 DEF PlanKept
    <3> QED
      BY <3>4, <3>5
  <2> QED
    BY <1>5, <2>1, <2>2, <2>3 DEF PlanStep
<1>6. ASSUME NEW r \in Reviews, ReviewStep(r) PROVE PlanInv' /\ PlanKept'
  <2>1. PICK s : s.pc \in ReviewPcs \cup {"idle"} /\ Become(r, s)
    BY <1>6, ReviewQuiet
  <2>2. r \in Requests /\ r \notin Plans
    BY <1>0 DEF Requests
  <2>3. \A x \in Plans : task'[x] = task[x]
    BY <1>0, <2>1, <2>2, PcAfter
  <2>4. /\ \A x \in Plans : At(x, "insert")' <=> At(x, "insert")
        /\ Busy(Plans)' \subseteq Busy(Plans)
    BY <2>3 DEF At, Busy
  <2> QED
    BY <1>6, <2>4, ReviewQuiet, PlansUntouched
<1>7. ASSUME NEW o \in Outcomes, OutcomeDue(o) PROVE PlanInv' /\ PlanKept'
  <2>1. UNCHANGED <<plan, task, overlapped, cut>>
    BY <1>7 DEF OutcomeDue, history
  <2> QED
    BY <2>1, PlansUntouched DEF At, Busy
<1>8. CASE UNCHANGED vars
  <2>1. UNCHANGED <<plan, task, overlapped, cut>>
    BY <1>8 DEF vars, tables
  <2> QED
    BY <2>1, PlansUntouched DEF At, Busy
<1> QED
  BY <1>1, <1>2, <1>3, <1>4, <1>5, <1>6, <1>7, <1>8 DEF Next, SeedStep

LEMMA PlanInvEnough == PlanInv => OneActivePlan
BY AtMostOne DEF PlanInv, SingleActive, OneActivePlan

LEMMA PlansInvariant == Spec => [](TypeOK /\ PlanInv /\ PlanKept)
<1>1. Init => TypeOK /\ PlanInv /\ PlanKept
  BY InitTyped, PlanInvInit
<1>2. TypeOK /\ PlanInv /\ PlanKept /\ [Next]_vars => (TypeOK /\ PlanInv /\ PlanKept)'
  BY StepTyped, PlanInvStep
<1> QED
  BY <1>1, <1>2, PTL DEF Spec

(* Two plans are active only after two generations ran at a time.          *)
THEOREM OnePlanActive == Spec => []OneActivePlan
BY PlansInvariant, PlanInvEnough, PTL

(* There is an active plan once there has been one, except between the two *)
(* statements of a generation or after one that stopped there.             *)
THEOREM PlanStays == Spec => []PlanKept
BY PlansInvariant, PTL
-----------------------------------------------------------------------------
(* What each step leaves in the request that takes it, field by field.     *)
Others(q) == \A x \in Requests : x # q => task'[x] = task[x]

LEMMA Effect ==
    ASSUME task \in [Requests -> Task], NEW q \in Requests, NEW s, Become(q, s)
    PROVE  task'[q] = s /\ Others(q)
BY DEF Become, Others

LEMMA GotoEffect ==
    ASSUME task \in [Requests -> Task], NEW q \in Requests, NEW p, Goto(q, p)
    PROVE  /\ task'[q].pc = p /\ task'[q].todo = task[q].todo /\ task'[q].made = task[q].made
           /\ task'[q].due = task[q].due /\ task'[q].cur = task[q].cur
           /\ task'[q].score = task[q].score /\ task'[q].complete = task[q].complete
           /\ Others(q)
<1>1. task[q] \in Task
  OBVIOUS
<1>2. task'[q] = [task[q] EXCEPT !.pc = p] /\ Others(q)
  BY Effect DEF Goto
<1> QED
  BY <1>1, <1>2 DEF Task

LEMMA EndEffect ==
    ASSUME task \in [Requests -> Task], NEW q \in Requests, End(q)
    PROVE  /\ task'[q].pc = (IF q \in Plans THEN "done" ELSE "idle")
           /\ task'[q].todo = {} /\ task'[q].due = {} /\ task'[q].cur = None
           /\ Others(q)
BY Effect DEF End, Plain

LEMMA BuildEffect ==
    ASSUME TypeOK, NEW p \in Plans, Build(p)
    PROVE  /\ At(p, "build") /\ UNCHANGED <<tables, history>>
           /\ task'[p].pc = "supersede" /\ task'[p].todo \in Drafts(p) /\ Others(p)
<1>1. task \in [Requests -> Task] /\ p \in Requests /\ task[p] \in Task
  BY DEF TypeOK, Requests
<1>2. PICK drafts \in Drafts(p) : Become(p, [task[p] EXCEPT !.pc = "supersede", !.todo = drafts])
  BY DEF Build
<1>3. task'[p] = [task[p] EXCEPT !.pc = "supersede", !.todo = drafts] /\ Others(p)
  BY <1>1, <1>2, Effect
<1>4. task'[p].pc = "supersede" /\ task'[p].todo = drafts
  BY <1>1, <1>3 DEF Task
<1> QED
  BY <1>2, <1>3, <1>4 DEF Build

LEMMA InsertHypothesisEffect ==
    ASSUME TypeOK, NEW p \in Plans, InsertHypothesis(p)
    PROVE  \E h \in task[p].todo :
             /\ At(p, "draft") /\ h \in Hypotheses
             /\ hypothesis' = [hypothesis EXCEPT ![h] = "open"]
             /\ UNCHANGED <<seeded, plan, outcome, postMortems, lessons, history>>
             /\ task'[p].pc = "schedule" /\ task'[p].made = h
             /\ task'[p].todo = task[p].todo \ {h} /\ Others(p)
<1>1. task \in [Requests -> Task] /\ p \in Requests /\ task[p] \in Task
      /\ task[p].todo \subseteq Hypotheses
  BY DEF TypeOK, Requests, Task
<1>2. PICK h \in task[p].todo :
        /\ hypothesis' = [hypothesis EXCEPT ![h] = "open"]
        /\ Become(p, [task[p] EXCEPT !.pc = "schedule", !.made = h,
                                     !.todo = task[p].todo \ {h}])
  BY DEF InsertHypothesis
<1>3. /\ task'[p] = [task[p] EXCEPT !.pc = "schedule", !.made = h, !.todo = task[p].todo \ {h}]
      /\ Others(p)
  BY <1>1, <1>2, Effect
<1>4. /\ task'[p].pc = "schedule" /\ task'[p].made = h
      /\ task'[p].todo = task[p].todo \ {h}
  BY <1>1, <1>3 DEF Task
<1> QED
  BY <1>1, <1>2, <1>3, <1>4 DEF InsertHypothesis

LEMMA InsertOutcomesEffect ==
    ASSUME TypeOK, NEW p \in Plans, InsertOutcomes(p)
    PROVE  /\ At(p, "schedule")
           /\ outcome' = [o \in Outcomes |-> IF o[1] = task[p].made THEN "waiting"
                                             ELSE outcome[o]]
           /\ UNCHANGED <<seeded, plan, hypothesis, postMortems, lessons, history>>
           /\ task'[p].pc = "draft" /\ task'[p].made = None
           /\ task'[p].todo = task[p].todo /\ Others(p)
<1>1. task \in [Requests -> Task] /\ p \in Requests /\ task[p] \in Task
  BY DEF TypeOK, Requests
<1>2. task'[p] = [task[p] EXCEPT !.pc = "draft", !.made = None] /\ Others(p)
  BY <1>1, Effect DEF InsertOutcomes
<1>3. task'[p].pc = "draft" /\ task'[p].made = None /\ task'[p].todo = task[p].todo
  BY <1>1, <1>2 DEF Task
<1> QED
  BY <1>2, <1>3 DEF InsertOutcomes

LEMMA ListEffect ==
    ASSUME TypeOK, NEW r \in Reviews, List(r)
    PROVE  /\ At(r, "list") /\ UNCHANGED <<tables, history>>
           /\ task'[r].pc = "update" /\ task'[r].due = {o \in Outcomes : Listable(o)}
           /\ task'[r].cur = task[r].cur /\ task'[r].todo = task[r].todo /\ Others(r)
<1>1. task \in [Requests -> Task] /\ r \in Requests /\ task[r] \in Task
  BY DEF TypeOK, Requests
<1> DEFINE listed == {o \in Outcomes : Listable(o)}
<1>2. task'[r] = [task[r] EXCEPT !.pc = "update", !.due = listed] /\ Others(r)
  BY <1>1, Effect DEF List
<1> HIDE DEF listed
<1>3. /\ task'[r].pc = "update" /\ task'[r].due = listed
      /\ task'[r].cur = task[r].cur /\ task'[r].todo = task[r].todo
  BY <1>1, <1>2 DEF Task
<1> QED
  BY <1>2, <1>3 DEF List, listed

LEMMA UpdateEffect ==
    ASSUME TypeOK, NEW r \in Reviews, Update(r)
    PROVE  \E o \in task[r].due, s \in {"reviewed", "due"} :
             /\ At(r, "update") /\ o \in Outcomes
             /\ outcome' = [outcome EXCEPT ![o] = s]
             /\ UNCHANGED <<seeded, plan, hypothesis, postMortems, lessons, history>>
             /\ task'[r].pc = "count" /\ task'[r].cur = o /\ task'[r].score = s
             /\ task'[r].due = task[r].due \ {o} /\ Others(r)
<1>1. task \in [Requests -> Task] /\ r \in Requests /\ task[r] \in Task
      /\ task[r].due \subseteq Outcomes
  BY DEF TypeOK, Requests, Task
<1>2. PICK o \in Earliest(task[r].due), s \in Scores :
        /\ outcome' = [outcome EXCEPT ![o] = s]
        /\ Become(r, [task[r] EXCEPT !.pc = "count", !.cur = o, !.score = s,
                                     !.due = task[r].due \ {o}])
  BY DEF Update
<1>3. /\ task'[r] = [task[r] EXCEPT !.pc = "count", !.cur = o, !.score = s,
                                    !.due = task[r].due \ {o}]
      /\ Others(r)
  BY <1>1, <1>2, Effect
<1>4. /\ task'[r].pc = "count" /\ task'[r].cur = o /\ task'[r].score = s
      /\ task'[r].due = task[r].due \ {o}
  BY <1>1, <1>3 DEF Task
<1>5. o \in task[r].due /\ s \in {"reviewed", "due"}
  BY PlanAssumption DEF Earliest
<1> QED
  BY <1>1, <1>2, <1>3, <1>4, <1>5 DEF Update

LEMMA CountEffect ==
    ASSUME TypeOK, NEW r \in Reviews, CountLeft(r)
    PROVE  /\ At(r, "count") /\ UNCHANGED <<tables, history>>
           /\ task'[r].pc = "mark" /\ task'[r].complete = (Unreviewed(task[r].cur[1]) = {})
           /\ task'[r].cur = task[r].cur /\ task'[r].score = task[r].score
           /\ task'[r].due = task[r].due /\ Others(r)
<1>1. task \in [Requests -> Task] /\ r \in Requests /\ task[r] \in Task
  BY DEF TypeOK, Requests
<1> DEFINE none == Unreviewed(task[r].cur[1]) = {}
<1>2. task'[r] = [task[r] EXCEPT !.pc = "mark", !.complete = none] /\ Others(r)
  BY <1>1, Effect DEF CountLeft
<1> HIDE DEF none
<1>3. /\ task'[r].pc = "mark" /\ task'[r].complete = none
      /\ task'[r].cur = task[r].cur /\ task'[r].score = task[r].score
      /\ task'[r].due = task[r].due
  BY <1>1, <1>2 DEF Task
<1> QED
  BY <1>2, <1>3 DEF CountLeft, none

LEMMA MarkEffect ==
    ASSUME TypeOK, NEW r \in Reviews, Mark(r)
    PROVE  /\ At(r, "mark")
           /\ hypothesis' = [hypothesis EXCEPT ![task[r].cur[1]] =
                               IF task[r].complete THEN "closed" ELSE "partially_reviewed"]
           /\ UNCHANGED <<seeded, plan, outcome, postMortems, lessons, history>>
           /\ task'[r].due = task[r].due /\ Others(r)
           /\ IF Learns(r) THEN task'[r].pc = "postMortem" /\ task'[r].cur = task[r].cur
                           ELSE task'[r].pc = "update" /\ task'[r].cur = None
<1>1. task \in [Requests -> Task] /\ r \in Requests
  BY DEF TypeOK, Requests
<1> DEFINE next == [Plain("update") EXCEPT !.due = task[r].due]
           learning == [next EXCEPT !.pc = "postMortem", !.cur = task[r].cur]
<1>2. /\ next.pc = "update" /\ next.due = task[r].due /\ next.cur = None
      /\ learning.pc = "postMortem" /\ learning.due = task[r].due /\ learning.cur = task[r].cur
  BY DEF Plain
<1>3. Become(r, IF Learns(r) THEN learning ELSE next)
  BY DEF Mark
<1> HIDE DEF next, learning
<1>4. task'[r] = (IF Learns(r) THEN learning ELSE next) /\ Others(r)
  BY <1>1, <1>3, Effect
<1> QED
  BY <1>2, <1>4 DEF Mark

LEMMA InsertLessonEffect ==
    ASSUME TypeOK, NEW r \in Reviews, InsertLesson(r)
    PROVE  /\ At(r, "lesson") /\ lessons' = [lessons EXCEPT ![task[r].cur] = @ + 1]
           /\ UNCHANGED <<seeded, plan, hypothesis, outcome, postMortems, history>>
           /\ task'[r].pc = "update" /\ task'[r].cur = None
           /\ task'[r].due = task[r].due /\ Others(r)
<1>1. task \in [Requests -> Task] /\ r \in Requests
  BY DEF TypeOK, Requests
<1>2. task'[r] = [Plain("update") EXCEPT !.due = task[r].due] /\ Others(r)
  BY <1>1, Effect DEF InsertLesson
<1> QED
  BY <1>2 DEF InsertLesson, Plain

LEMMA SeedEffect ==
    ASSUME TypeOK, NEW q \in Requests, SeedStep(q)
    PROVE  /\ UNCHANGED <<hypothesis, outcome, postMortems, lessons, cut>> /\ Others(q)
           /\ task[q].pc \in {"idle"} \cup SeedPcs
           /\ task'[q].pc \in SeedPcs \cup {Bundled(q), IF q \in Plans THEN "done" ELSE "idle"}
           /\ \/ /\ task'[q].todo = task[q].todo
                 /\ task'[q].due = task[q].due /\ task'[q].cur = task[q].cur
              \/ task'[q].todo = {} /\ task'[q].due = {} /\ task'[q].cur = None
           /\ FindStrategy(q) \/ overlapped' = overlapped
<1>1. task \in [Requests -> Task]
  BY DEF TypeOK
<1>2. CASE FindStrategy(q)
  BY <1>1, <1>2, GotoEffect DEF FindStrategy, At, tables, SeedPcs
<1>3. CASE CreateStrategy(q)
  BY <1>1, <1>3, GotoEffect, EndEffect DEF CreateStrategy, At, history, SeedPcs
<1>4. CASE SeedPart(q)
  BY <1>1, <1>4, GotoEffect DEF SeedPart, At, history, SeedPcs
<1> QED
  BY <1>2, <1>3, <1>4 DEF SeedStep
-----------------------------------------------------------------------------
(* What has no outcomes yet, and what a review holds: rows there are.      *)
Writing == {"count", "mark", "postMortem", "lesson"}
Early == {"idle", "create", "seed", "build"}

Unborn(h) == \A o \in OutcomesOf(h) : outcome[o] = "none"

AllOrNone == \A h \in Hypotheses : Unborn(h) \/ \A o \in OutcomesOf(h) : outcome[o] # "none"

Pending(p, h) ==
    \/ PlanOf[h] = p /\ task[p].pc \in Early
    \/ h \in task[p].todo
    \/ At(p, "schedule") /\ task[p].made = h

PlanFresh(p) ==
    /\ \A h \in Hypotheses : Pending(p, h) => PlanOf[h] = p /\ Unborn(h)
    /\ At(p, "schedule") => task[p].made \notin task[p].todo

ReviewReal(r) ==
    /\ \A o \in task[r].due : outcome[o] # "none"
    /\ task[r].cur # None <=> task[r].pc \in Writing
    /\ task[r].cur # None => task[r].cur \in Outcomes /\ outcome[task[r].cur] # "none"

FreshInv ==
    /\ AllOrNone
    /\ \A p \in Plans : PlanFresh(p)
    /\ \A r \in Reviews : ReviewReal(r)


LEMMA FreshInit == Init => FreshInv
<1> SUFFICES ASSUME Init PROVE FreshInv
  OBVIOUS
<1>1. \A q \in Requests : task[q] = Plain("idle")
  BY DEF Init
<1>2. \A h \in Hypotheses : Unborn(h)
  BY DEF Init, Unborn, OutcomesOf, Outcomes
<1>3. ASSUME NEW p \in Plans PROVE PlanFresh(p)
  <2>1. task[p].pc = "idle" /\ task[p].todo = {}
    BY <1>1 DEF Plain, Requests
  <2> QED
    BY <1>2, <2>1 DEF PlanFresh, Pending, At
<1>4. ASSUME NEW r \in Reviews PROVE ReviewReal(r)
  <2>1. task[r].pc = "idle" /\ task[r].due = {} /\ task[r].cur = None
    BY <1>1 DEF Plain, Requests
  <2> QED
    BY <2>1 DEF ReviewReal, Writing
<1> QED
  BY <1>2, <1>3, <1>4 DEF FreshInv, AllOrNone

(* A step that gives no outcome to a hypothesis and takes none away, and   *)
(* after which a request has no more to do than before.                    *)
LEMMA FreshKept ==
    ASSUME FreshInv, TypeOK,
           \A o \in Outcomes : outcome'[o] = "none" <=> outcome[o] = "none",
           \A p \in Plans :
               /\ \A h \in Hypotheses : Pending(p, h)' => Pending(p, h)
               /\ At(p, "schedule")' => task'[p].made \notin task'[p].todo,
           \A r \in Reviews : ReviewReal(r)'
    PROVE  FreshInv'
<1>1. \A h \in Hypotheses : OutcomesOf(h) \subseteq Outcomes
  BY DEF OutcomesOf, Outcomes
<1>2. \A h \in Hypotheses : Unborn(h)' <=> Unborn(h)
  BY <1>1 DEF Unborn
<1>3. AllOrNone'
  BY <1>1, <1>2 DEF AllOrNone, FreshInv
<1>4. \A p \in Plans : PlanFresh(p)'
  BY <1>2 DEF PlanFresh, FreshInv
<1> QED
  BY <1>3, <1>4 DEF FreshInv

(* A step of one request: the others keep what they have.                  *)
LEMMA OthersFresh ==
    ASSUME FreshInv, TypeOK, NEW q \in Requests, Others(q),
           \A o \in Outcomes : outcome'[o] = "none" <=> outcome[o] = "none"
    PROVE  /\ \A p \in Plans : p # q =>
                  /\ \A h \in Hypotheses : Pending(p, h)' => Pending(p, h)
                  /\ At(p, "schedule")' => task'[p].made \notin task'[p].todo
           /\ \A r \in Reviews : r # q => ReviewReal(r)'
<1>1. \A p \in Plans : p \in Requests
  BY DEF Requests
<1>2. \A r \in Reviews : r \in Requests
  BY DEF Requests
<1>3. ASSUME NEW p \in Plans, p # q
      PROVE  /\ \A h \in Hypotheses : Pending(p, h)' => Pending(p, h)
             /\ At(p, "schedule")' => task'[p].made \notin task'[p].todo
  <2>1. task'[p] = task[p]
    BY <1>1, <1>3 DEF Others
  <2> QED
    BY <2>1 DEF Pending, At, FreshInv, PlanFresh
<1>4. ASSUME NEW r \in Reviews, r # q PROVE ReviewReal(r)'
  <2>1. task'[r] = task[r] /\ task[r].due \subseteq Outcomes
    BY <1>2, <1>4 DEF Others, TypeOK, Task
  <2>2. ReviewReal(r)
    BY DEF FreshInv
  <2> QED
    BY <2>1, <2>2 DEF ReviewReal
<1> QED
  BY <1>3, <1>4

LEMMA QuietFresh ==
    ASSUME FreshInv, TypeOK, task' = task,
           \A o \in Outcomes : outcome'[o] = "none" <=> outcome[o] = "none"
    PROVE  /\ \A p \in Plans :
                  /\ \A h \in Hypotheses : Pending(p, h)' => Pending(p, h)
                  /\ At(p, "schedule")' => task'[p].made \notin task'[p].todo
           /\ \A r \in Reviews : ReviewReal(r)'
<1>1. ASSUME NEW p \in Plans
      PROVE  /\ \A h \in Hypotheses : Pending(p, h)' => Pending(p, h)
             /\ At(p, "schedule")' => task'[p].made \notin task'[p].todo
  BY DEF Pending, At, FreshInv, PlanFresh
<1>2. ASSUME NEW r \in Reviews PROVE ReviewReal(r)'
  <2>1. task[r].due \subseteq Outcomes /\ ReviewReal(r)
    BY DEF FreshInv, TypeOK, Task, Requests
  <2> QED
    BY <2>1 DEF ReviewReal
<1> QED
  BY <1>1, <1>2

LEMMA FreshStep == TypeOK /\ FreshInv /\ [Next]_vars => FreshInv'
<1> SUFFICES ASSUME TypeOK, FreshInv, [Next]_vars PROVE FreshInv'
  OBVIOUS
<1>0. /\ task \in [Requests -> Task]
      /\ \A p \in Plans : p \in Requests /\ p \notin Reviews
      /\ \A r \in Reviews : r \in Requests /\ r \notin Plans
  BY PlanAssumption DEF TypeOK, Requests
<1>1. ASSUME NEW q \in Requests, SeedStep(q) PROVE FreshInv'
  <2>1. /\ outcome' = outcome /\ Others(q) /\ task[q].pc \in {"idle"} \cup SeedPcs
        /\ task'[q].pc \in SeedPcs \cup {Bundled(q), IF q \in Plans THEN "done" ELSE "idle"}
        /\ \/ /\ task'[q].todo = task[q].todo
              /\ task'[q].due = task[q].due /\ task'[q].cur = task[q].cur
           \/ task'[q].todo = {} /\ task'[q].due = {} /\ task'[q].cur = None
    BY <1>1, SeedEffect
  <2>2. ASSUME q \in Plans
        PROVE  /\ \A h \in Hypotheses : Pending(q, h)' => Pending(q, h)
               /\ ~At(q, "schedule")'
    BY <2>1, <2>2 DEF Pending, At, Early, Bundled, SeedPcs
  <2>3. ASSUME q \in Reviews PROVE ReviewReal(q)'
    <3>1. ReviewReal(q) /\ q \notin Plans
      BY <1>0, <2>3 DEF FreshInv
    <3>2. task[q].pc \notin Writing /\ task'[q].pc \notin Writing
      BY <2>1, <3>1 DEF Writing, SeedPcs, Bundled
    <3> QED
      BY <2>1, <3>1, <3>2 DEF ReviewReal
  <2> QED
    BY <1>0, <2>1, <2>2, <2>3, OthersFresh, FreshKept
<1>2. ASSUME NEW q \in Requests, Stop(q) PROVE FreshInv'
  <2>1. /\ outcome' = outcome /\ Others(q)
        /\ task'[q].pc = (IF q \in Plans THEN "done" ELSE "idle")
        /\ task'[q].todo = {} /\ task'[q].due = {} /\ task'[q].cur = None
    BY <1>0, <1>2, EndEffect DEF Stop, tables
  <2>2. ASSUME q \in Plans
        PROVE  /\ \A h \in Hypotheses : ~Pending(q, h)'
               /\ ~At(q, "schedule")'
    BY <2>1, <2>2 DEF Pending, At, Early
  <2>3. ASSUME q \in Reviews PROVE ReviewReal(q)'
    BY <1>0, <2>1, <2>3 DEF ReviewReal, Writing
  <2> QED
    BY <1>0, <2>1, <2>2, <2>3, OthersFresh, FreshKept
<1>3. ASSUME NEW p \in Plans, PlanStep(p) PROVE FreshInv'
  <2>0. /\ p \in Requests /\ p \notin Reviews /\ PlanFresh(p)
        /\ task[p] \in Task /\ task[p].todo \subseteq Hypotheses
    BY <1>0 DEF FreshInv, Task
  <2>1. ASSUME outcome' = outcome, Others(p),
               \A h \in Hypotheses : Pending(p, h)' => Pending(p, h),
               At(p, "schedule")' => task'[p].made \notin task'[p].todo
        PROVE  FreshInv'
    BY <2>0, <2>1, OthersFresh, FreshKept
  <2>2. CASE DryRun(p) \/ FinishPlan(p)
    <3>1. /\ outcome' = outcome /\ Others(p)
          /\ task'[p].pc = "done" /\ task'[p].todo = {}
      BY <1>0, <2>0, <2>2, EndEffect DEF DryRun, FinishPlan, tables
    <3> QED
      BY <2>1, <3>1 DEF Pending, At, Early
  <2>3. CASE Build(p)
    <3>1. /\ outcome' = outcome /\ Others(p) /\ At(p, "build")
          /\ task'[p].pc = "supersede" /\ task'[p].todo \in Drafts(p)
      BY <2>3, BuildEffect DEF tables
    <3>2. \A h \in task'[p].todo : PlanOf[h] = p
      BY <3>1 DEF Drafts
    <3> QED
      BY <2>1, <3>1, <3>2 DEF Pending, At, Early
  <2>4. CASE Supersede(p) \/ InsertPlan(p)
    <3>1. /\ outcome' = outcome /\ Others(p)
          /\ task'[p].pc \in {"insert", "draft"} /\ task'[p].todo = task[p].todo
      BY <1>0, <2>0, <2>4, GotoEffect DEF Supersede, InsertPlan
    <3> QED
      BY <2>1, <3>1 DEF Pending, At, Early
  <2>5. CASE InsertHypothesis(p)
    <3>1. PICK h \in task[p].todo :
            /\ outcome' = outcome /\ Others(p)
            /\ task'[p].pc = "schedule" /\ task'[p].made = h
            /\ task'[p].todo = task[p].todo \ {h}
      BY <2>5, InsertHypothesisEffect
    <3> QED
      BY <2>1, <3>1 DEF Pending, At, Early
  <2>6. CASE InsertOutcomes(p)
    <3>1. /\ At(p, "schedule") /\ Others(p)
          /\ outcome' = [o \in Outcomes |-> IF o[1] = task[p].made THEN "waiting"
                                            ELSE outcome[o]]
          /\ task'[p].pc = "draft" /\ task'[p].todo = task[p].todo
      BY <2>6, InsertOutcomesEffect
    <3>2. ASSUME NEW h \in Hypotheses
          PROVE  IF h = task[p].made THEN \A o \in OutcomesOf(h) : outcome'[o] = "waiting"
                 ELSE \A o \in OutcomesOf(h) : outcome'[o] = outcome[o]
      <4>1. \A o \in OutcomesOf(h) : o \in Outcomes /\ o[1] = h
        BY DEF OutcomesOf, Outcomes
      <4> QED
        BY <3>1, <4>1
    <3>3. AllOrNone'
      BY <3>2 DEF FreshInv, AllOrNone, Unborn
    <3>4. ASSUME NEW x \in Plans PROVE PlanFresh(x)'
      <4>1. PlanFresh(x) /\ (x = p \/ task'[x] = task[x])
        BY <1>0, <3>1 DEF FreshInv, Others
      <4>2. \A h \in Hypotheses : Pending(x, h)' => Pending(x, h)
        BY <3>1, <4>1 DEF Pending, At, Early
      <4>3. \A h \in Hypotheses : Pending(x, h)' => h # task[p].made
        BY <2>0, <3>1, <4>1, <4>2 DEF PlanFresh, Pending, At, Early
      <4>4. \A h \in Hypotheses : Pending(x, h)' => PlanOf[h] = x /\ Unborn(h)'
        BY <3>2, <4>1, <4>2, <4>3 DEF PlanFresh, Unborn
      <4>5. At(x, "schedule")' => task'[x].made \notin task'[x].todo
        BY <3>1, <4>1 DEF PlanFresh, At
      <4> QED
        BY <4>4, <4>5 DEF PlanFresh
    <3>5. ASSUME NEW r \in Reviews PROVE ReviewReal(r)'
      <4>1. ReviewReal(r) /\ task'[r] = task[r] /\ task[r].due \subseteq Outcomes
        BY <1>0, <2>0, <3>1 DEF FreshInv, Others, Task
      <4>2. \A o \in Outcomes : outcome[o] # "none" => outcome'[o] # "none"
        BY <3>1
      <4> QED
        BY <4>1, <4>2 DEF ReviewReal
    <3> QED
      BY <3>3, <3>4, <3>5 DEF FreshInv
  <2> QED
    BY <1>3, <2>2, <2>3, <2>4, <2>5, <2>6 DEF PlanStep
<1>4. ASSUME NEW r \in Reviews, ReviewStep(r) PROVE FreshInv'
  <2>0. /\ r \in Requests /\ r \notin Plans /\ ReviewReal(r)
        /\ task[r] \in Task /\ task[r].due \subseteq Outcomes
    BY <1>0 DEF FreshInv, Task
  <2>1. ASSUME \A o \in Outcomes : outcome'[o] = "none" <=> outcome[o] = "none",
               Others(r), ReviewReal(r)'
        PROVE  FreshInv'
    BY <2>0, <2>1, OthersFresh, FreshKept
  <2>2. CASE List(r)
    <3>1. /\ outcome' = outcome /\ Others(r) /\ At(r, "list")
          /\ task'[r].pc = "update" /\ task'[r].due = {o \in Outcomes : Listable(o)}
          /\ task'[r].cur = task[r].cur
      BY <2>2, ListEffect DEF tables
    <3>2. \A o \in task'[r].due : outcome'[o] # "none"
      BY <3>1 DEF Listable
    <3> QED
      BY <2>0, <2>1, <3>1, <3>2 DEF ReviewReal, At, Writing
  <2>3. CASE Update(r)
    <3>1. PICK o \in task[r].due, s \in {"reviewed", "due"} :
            /\ o \in Outcomes /\ outcome' = [outcome EXCEPT ![o] = s]
            /\ task'[r].pc = "count" /\ task'[r].cur = o
            /\ task'[r].due = task[r].due \ {o} /\ Others(r)
      BY <2>3, UpdateEffect
    <3>2. outcome[o] # "none" /\ outcome \in [Outcomes -> {"none", "waiting", "due", "reviewed"}]
      BY <2>0 DEF ReviewReal, TypeOK
    <3>3. \A x \in Outcomes : outcome'[x] = "none" <=> outcome[x] = "none"
      BY <3>1, <3>2
    <3>4. o # None
      BY <3>1, PlanAssumption DEF Outcomes, Horizons
    <3>5. ReviewReal(r)'
      BY <2>0, <3>1, <3>3, <3>2, <3>4 DEF ReviewReal, Writing
    <3> QED
      BY <2>1, <3>1, <3>3, <3>5
  <2>4. CASE CountLeft(r)
    <3>1. /\ outcome' = outcome /\ Others(r) /\ At(r, "count") /\ task'[r].pc = "mark"
          /\ task'[r].due = task[r].due /\ task'[r].cur = task[r].cur
      BY <2>4, CountEffect DEF tables
    <3> QED
      BY <2>0, <2>1, <3>1 DEF ReviewReal, At, Writing
  <2>5. CASE Mark(r)
    <3>1. /\ outcome' = outcome /\ Others(r) /\ At(r, "mark")
          /\ task'[r].due = task[r].due
          /\ \/ task'[r].pc = "postMortem" /\ task'[r].cur = task[r].cur
             \/ task'[r].pc = "update" /\ task'[r].cur = None
      BY <2>5, MarkEffect
    <3> QED
      BY <2>0, <2>1, <3>1 DEF ReviewReal, At, Writing
  <2>6. CASE InsertPostMortem(r)
    <3>1. /\ outcome' = outcome /\ Others(r) /\ At(r, "postMortem")
          /\ task'[r].pc = "lesson"
          /\ task'[r].due = task[r].due /\ task'[r].cur = task[r].cur
      BY <1>0, <2>0, <2>6, GotoEffect DEF InsertPostMortem
    <3> QED
      BY <2>0, <2>1, <3>1 DEF ReviewReal, At, Writing
  <2>7. CASE InsertLesson(r)
    <3>1. /\ outcome' = outcome /\ Others(r)
          /\ task'[r].pc = "update" /\ task'[r].cur = None
          /\ task'[r].due = task[r].due
      BY <2>7, InsertLessonEffect
    <3> QED
      BY <2>0, <2>1, <3>1 DEF ReviewReal, Writing
  <2>8. CASE FinishReview(r)
    <3>1. /\ outcome' = outcome /\ Others(r)
          /\ task'[r].pc = "idle" /\ task'[r].cur = None /\ task'[r].due = {}
      BY <1>0, <2>0, <2>8, EndEffect DEF FinishReview, tables
    <3> QED
      BY <2>1, <3>1 DEF ReviewReal, Writing
  <2> QED
    BY <1>4, <2>2, <2>3, <2>4, <2>5, <2>6, <2>7, <2>8 DEF ReviewStep
<1>5. ASSUME NEW o \in Outcomes, OutcomeDue(o) PROVE FreshInv'
  <2>1. /\ task' = task /\ outcome[o] = "waiting"
        /\ outcome' = [outcome EXCEPT ![o] = "due"]
    BY <1>5 DEF OutcomeDue
  <2>2. \A x \in Outcomes : outcome'[x] = "none" <=> outcome[x] = "none"
    BY <2>1 DEF TypeOK
  <2> QED
    BY <1>0, <2>1, <2>2, FreshKept, QuietFresh
<1>6. CASE UNCHANGED vars
  <2>1. task' = task /\ outcome' = outcome
    BY <1>6 DEF vars, tables
  <2> QED
    BY <1>0, <2>1, FreshKept, QuietFresh
<1> QED
  BY <1>1, <1>2, <1>3, <1>4, <1>5, <1>6 DEF Next

LEMMA FreshInvariant == Spec => [](TypeOK /\ FreshInv)
<1>1. Init => TypeOK /\ FreshInv
  BY InitTyped, FreshInit
<1>2. TypeOK /\ FreshInv /\ [Next]_vars => (TypeOK /\ FreshInv)'
  BY StepTyped, FreshStep
<1> QED
  BY <1>1, <1>2, PTL DEF Spec
-----------------------------------------------------------------------------
(* While reviews come one at a time: what is listed stays due until it is  *)
(* taken, and what was complete when it was counted still is.              *)
Alone == \A r1, r2 \in Busy(Reviews) : r1 = r2

ListedDue(r) ==
    task[r].pc \in Writing \cup {"update"} => \A o \in task[r].due : outcome[o] = "due"

AllReviewed(h) == \A o \in OutcomesOf(h) : outcome[o] = "reviewed"

ClosedReviewed == \A h \in Hypotheses : hypothesis[h] = "closed" => AllReviewed(h)

CompleteReviewed(r) == At(r, "mark") /\ task[r].complete => AllReviewed(task[r].cur[1])

ReviewInv ==
    "reviews" \notin overlapped =>
        /\ Alone /\ ClosedReviewed
        /\ \A r \in Reviews : ListedDue(r) /\ CompleteReviewed(r)

(* Steps that the reviews do not notice.                                   *)
LEMMA ReviewsUntouched ==
    ASSUME TypeOK, ReviewInv, "reviews" \in overlapped => "reviews" \in overlapped',
           outcome' = outcome,
           \A r \in Reviews :
               \/ task'[r].pc = "idle"
               \/ task'[r] = task[r]
               \/ /\ task'[r].pc \in SeedPcs \cup {"list"}
                  /\ task[r].pc \in SeedPcs,
           \A h \in Hypotheses : hypothesis'[h] = "closed" => hypothesis[h] = "closed"
    PROVE  ReviewInv'
<1> SUFFICES ASSUME "reviews" \notin overlapped'
             PROVE  (/\ Alone /\ ClosedReviewed
                     /\ \A r \in Reviews : ListedDue(r) /\ CompleteReviewed(r))'
  BY DEF ReviewInv
<1>1. \A h \in Hypotheses : AllReviewed(h)' <=> AllReviewed(h)
  BY DEF AllReviewed
<1>2. Busy(Reviews)' \subseteq Busy(Reviews)
  BY DEF Busy, SeedPcs
<1>3. Alone' /\ ClosedReviewed'
  BY <1>1, <1>2 DEF ReviewInv, Alone, ClosedReviewed
<1>4. ASSUME NEW r \in Reviews PROVE (ListedDue(r) /\ CompleteReviewed(r))'
  BY <1>4 DEF ReviewInv, ListedDue, CompleteReviewed, AllReviewed, Writing, SeedPcs, At
<1> QED
  BY <1>3, <1>4

(* A step of the one review there is.                                      *)
LEMMA OneReview ==
    ASSUME TypeOK, ReviewInv, "reviews" \notin overlapped,
           NEW r \in Busy(Reviews), Others(r)
    PROVE  \A x \in Reviews : x # r =>
               /\ task'[x] = task[x] /\ task[x].pc \in {"idle", "done"}
               /\ (ListedDue(x) /\ CompleteReviewed(x))'
<1> SUFFICES ASSUME NEW x \in Reviews, x # r
             PROVE  /\ task'[x] = task[x] /\ task[x].pc \in {"idle", "done"}
                    /\ (ListedDue(x) /\ CompleteReviewed(x))'
  OBVIOUS
<1>1. task'[x] = task[x]
  BY DEF Others, Requests
<1>2. task[x].pc \in {"idle", "done"}
  BY DEF ReviewInv, Alone, Busy
<1> QED
  BY <1>1, <1>2 DEF ListedDue, CompleteReviewed, Writing, At

LEMMA ReviewInvInit == Init => ReviewInv
<1> SUFFICES ASSUME Init PROVE ReviewInv
  OBVIOUS
<1>1. \A r \in Reviews : task[r].pc = "idle"
  BY DEF Init, Plain, Requests
<1>2. \A h \in Hypotheses : hypothesis[h] = "none"
  BY DEF Init
<1> QED
  BY <1>1, <1>2 DEF ReviewInv, Alone, ClosedReviewed, ListedDue, CompleteReviewed, Busy,
                    Writing, At

LEMMA PlanStepForReviews ==
    ASSUME TypeOK, NEW p \in Plans, PlanStep(p)
    PROVE  /\ overlapped' = overlapped /\ (\A r \in Reviews : task'[r] = task[r])
           /\ UNCHANGED <<postMortems, lessons>>
           /\ "review" \in cut' <=> "review" \in cut
           /\ \/ outcome' = outcome
              \/ InsertOutcomes(p)
           /\ \A h \in Hypotheses : hypothesis'[h] = "closed" => hypothesis[h] = "closed"
<1>1. /\ task \in [Requests -> Task] /\ p \in Requests
      /\ \A r \in Reviews : r \in Requests /\ r # p
  BY PlanAssumption DEF TypeOK, Requests
<1>2. CASE DryRun(p) \/ FinishPlan(p)
  BY <1>1, <1>2, EndEffect DEF DryRun, FinishPlan, tables, history, Others
<1>3. CASE Build(p)
  BY <1>1, <1>3, BuildEffect DEF tables, history, Others
<1>4. CASE Supersede(p) \/ InsertPlan(p)
  BY <1>1, <1>4, GotoEffect DEF Supersede, InsertPlan, history, Others
<1>5. CASE InsertHypothesis(p)
  <2>1. PICK h \in Hypotheses :
          /\ hypothesis' = [hypothesis EXCEPT ![h] = "open"]
          /\ UNCHANGED <<outcome, postMortems, lessons, history>> /\ Others(p)
    BY <1>5, InsertHypothesisEffect
  <2>2. \A x \in Hypotheses : hypothesis'[x] = "closed" => hypothesis[x] = "closed"
    BY <2>1 DEF TypeOK
  <2> QED
    BY <1>1, <2>1, <2>2 DEF Others, history
<1>6. CASE InsertOutcomes(p)
  BY <1>1, <1>6, InsertOutcomesEffect DEF Others, history
<1> QED
  BY <1>2, <1>3, <1>4, <1>5, <1>6 DEF PlanStep

(* The reviews of a new hypothesis are nobody's yet.                       *)
LEMMA InsertedOutcomes ==
    ASSUME TypeOK, FreshInv, NEW p \in Plans, InsertOutcomes(p)
    PROVE  \A o \in Outcomes : outcome[o] # "none" => outcome'[o] = outcome[o]
<1>1. /\ At(p, "schedule")
      /\ outcome' = [o \in Outcomes |-> IF o[1] = task[p].made THEN "waiting" ELSE outcome[o]]
  BY InsertOutcomesEffect
<1>2. ASSUME NEW o \in Outcomes, outcome[o] # "none" PROVE o[1] # task[p].made
  <2>1. o[1] \in Hypotheses /\ o \in OutcomesOf(o[1])
    BY DEF Outcomes, OutcomesOf
  <2> QED
    BY <1>1, <1>2, <2>1 DEF FreshInv, PlanFresh, Pending, Unborn
<1> QED
  BY <1>1, <1>2

LEMMA ReviewInvStep == TypeOK /\ FreshInv /\ ReviewInv /\ [Next]_vars => ReviewInv'
<1> SUFFICES ASSUME TypeOK, FreshInv, ReviewInv, [Next]_vars PROVE ReviewInv'
  OBVIOUS
<1>0. /\ task \in [Requests -> Task]
      /\ outcome \in [Outcomes -> {"none", "waiting", "due", "reviewed"}]
      /\ \A r \in Reviews : r \in Requests /\ r \notin Plans
      /\ \A h \in Hypotheses : OutcomesOf(h) \subseteq Outcomes
      /\ \A o \in Outcomes : o[1] \in Hypotheses /\ o \in OutcomesOf(o[1])
  BY PlanAssumption DEF TypeOK, Requests, Outcomes, OutcomesOf
<1>1. ASSUME NEW q \in Requests, SeedStep(q) PROVE ReviewInv'
  <2>1. /\ UNCHANGED <<hypothesis, outcome>> /\ Others(q)
        /\ task[q].pc \in {"idle"} \cup SeedPcs
        /\ task'[q].pc \in SeedPcs \cup {Bundled(q), IF q \in Plans THEN "done" ELSE "idle"}
        /\ FindStrategy(q) \/ overlapped' = overlapped
    BY <1>1, SeedEffect
  <2>2. CASE q \notin Reviews \/ ~FindStrategy(q)
    <3>1. overlapped' = overlapped \/ overlapped' = overlapped \cup {"plans"}
      BY <2>1, <2>2 DEF FindStrategy
    <3>2. ASSUME NEW r \in Reviews
          PROVE  \/ task'[r].pc = "idle" \/ task'[r] = task[r]
                 \/ task'[r].pc \in SeedPcs \cup {"list"} /\ task[r].pc \in SeedPcs
      <4>1. CASE r # q
        BY <1>0, <2>1, <4>1 DEF Others
      <4>2. CASE r = q
        <5>1. CreateStrategy(q) \/ SeedPart(q)
          BY <1>1, <2>2, <4>2 DEF SeedStep
        <5>2. task[q].pc \in SeedPcs
          BY <5>1 DEF CreateStrategy, SeedPart, At, SeedPcs
        <5> QED
          BY <1>0, <2>1, <4>2, <5>2 DEF Bundled
      <4> QED
        BY <4>1, <4>2
    <3> QED
      BY <2>1, <3>1, <3>2, ReviewsUntouched
  <2>3. CASE q \in Reviews /\ FindStrategy(q)
    <3> SUFFICES ASSUME "reviews" \notin overlapped'
                 PROVE  (/\ Alone /\ ClosedReviewed
                         /\ \A r \in Reviews : ListedDue(r) /\ CompleteReviewed(r))'
      BY DEF ReviewInv
    <3>1. Busy(Reviews) = {} /\ "reviews" \notin overlapped
      BY <2>3 DEF FindStrategy
    <3>2. \A r \in Reviews : r # q => task'[r].pc \in {"idle", "done"}
      BY <1>0, <2>1, <3>1 DEF Others, Busy
    <3>3. task'[q].pc \in {"create", "seed", "list", "idle"}
      BY <1>0, <2>1, <2>3 DEF Bundled, SeedPcs
    <3>4. Alone'
      BY <3>2 DEF Alone, Busy
    <3>5. ClosedReviewed'
      BY <2>1, <3>1 DEF ReviewInv, ClosedReviewed, AllReviewed
    <3>6. \A r \in Reviews : (ListedDue(r) /\ CompleteReviewed(r))'
      BY <3>2, <3>3 DEF ListedDue, CompleteReviewed, Writing, At
    <3> QED
      BY <3>4, <3>5, <3>6
  <2> QED
    BY <2>2, <2>3
<1>2. ASSUME NEW q \in Requests, Stop(q) PROVE ReviewInv'
  <2>1. /\ UNCHANGED <<hypothesis, outcome, overlapped>> /\ Others(q)
        /\ task'[q].pc = (IF q \in Plans THEN "done" ELSE "idle")
    BY <1>0, <1>2, EndEffect DEF Stop, tables
  <2>2. \A r \in Reviews : task'[r].pc = "idle" \/ task'[r] = task[r]
    BY <1>0, <2>1 DEF Others
  <2> QED
    BY <2>1, <2>2, ReviewsUntouched
<1>3. ASSUME NEW p \in Plans, PlanStep(p) PROVE ReviewInv'
  <2>1. /\ overlapped' = overlapped /\ (\A r \in Reviews : task'[r] = task[r])
        /\ outcome' = outcome \/ InsertOutcomes(p)
        /\ \A h \in Hypotheses : hypothesis'[h] = "closed" => hypothesis[h] = "closed"
    BY <1>3, PlanStepForReviews
  <2>2. CASE outcome' = outcome
    BY <2>1, <2>2, ReviewsUntouched
  <2>3. CASE InsertOutcomes(p)
    <3> SUFFICES ASSUME "reviews" \notin overlapped
                 PROVE  (/\ Alone /\ ClosedReviewed
                         /\ \A r \in Reviews : ListedDue(r) /\ CompleteReviewed(r))'
      BY <2>1 DEF ReviewInv
    <3>1. \A o \in Outcomes : outcome[o] # "none" => outcome'[o] = outcome[o]
      BY <2>3, InsertedOutcomes
    <3>2. \A h \in Hypotheses : AllReviewed(h) => AllReviewed(h)'
      BY <1>0, <3>1 DEF AllReviewed
    <3>3. Alone' /\ ClosedReviewed'
      BY <2>1, <3>2 DEF ReviewInv, Alone, Busy, ClosedReviewed
    <3>4. ASSUME NEW r \in Reviews PROVE (ListedDue(r) /\ CompleteReviewed(r))'
      <4>1. /\ ListedDue(r) /\ CompleteReviewed(r) /\ ReviewReal(r)
            /\ task[r].due \subseteq Outcomes
        BY <1>0 DEF ReviewInv, FreshInv, Task
      <4>2. ListedDue(r)'
        BY <2>1, <3>1, <4>1 DEF ListedDue
      <4>3. At(r, "mark") => task[r].cur[1] \in Hypotheses
        BY <1>0, <4>1 DEF ReviewReal, At, Writing
      <4>4. CompleteReviewed(r)'
        BY <2>1, <3>2, <4>1, <4>3 DEF CompleteReviewed, At
      <4> QED
        BY <4>2, <4>4
    <3> QED
      BY <3>3, <3>4
  <2> QED
    BY <2>1, <2>2, <2>3
<1>4. ASSUME NEW r \in Reviews, ReviewStep(r) PROVE ReviewInv'
  <2>0. /\ r \in Requests /\ task[r] \in Task /\ task[r].due \subseteq Outcomes
        /\ ReviewReal(r) /\ overlapped' = overlapped
        /\ task[r].pc \in ReviewPcs
    BY <1>0, <1>4, ReviewQuiet DEF FreshInv, Task
  <2> SUFFICES ASSUME "reviews" \notin overlapped
               PROVE  (/\ Alone /\ ClosedReviewed
                       /\ \A x \in Reviews : ListedDue(x) /\ CompleteReviewed(x))'
    BY <2>0 DEF ReviewInv
  <2>1. /\ r \in Busy(Reviews) /\ Alone /\ ClosedReviewed
        /\ ListedDue(r) /\ CompleteReviewed(r)
    BY <2>0 DEF Busy, ReviewInv, ReviewPcs
  <2>2. ASSUME Others(r), ClosedReviewed', ListedDue(r)', CompleteReviewed(r)'
        PROVE  (/\ Alone /\ ClosedReviewed
                /\ \A x \in Reviews : ListedDue(x) /\ CompleteReviewed(x))'
    <3>1. \A x \in Reviews : x # r => x \notin Busy(Reviews)'
      BY <2>1, <2>2, OneReview DEF Busy
    <3>2. Alone'
      BY <3>1 DEF Alone, Busy
    <3> QED
      BY <2>1, <2>2, <3>2, OneReview
  <2>3. CASE List(r)
    <3>1. /\ UNCHANGED <<hypothesis, outcome>> /\ Others(r)
          /\ task'[r].pc = "update" /\ task'[r].due = {o \in Outcomes : Listable(o)}
      BY <2>3, ListEffect DEF tables
    <3>2. ClosedReviewed'
      BY <2>1, <3>1 DEF ClosedReviewed, AllReviewed
    <3>3. ListedDue(r)' /\ CompleteReviewed(r)'
      BY <3>1 DEF ListedDue, CompleteReviewed, Listable, At
    <3> QED
      BY <2>2, <3>1, <3>2, <3>3
  <2>4. CASE Update(r)
    <3>1. PICK o \in task[r].due, s \in {"reviewed", "due"} :
            /\ At(r, "update") /\ o \in Outcomes /\ outcome' = [outcome EXCEPT ![o] = s]
            /\ hypothesis' = hypothesis
            /\ task'[r].pc = "count" /\ task'[r].cur = o
            /\ task'[r].due = task[r].due \ {o} /\ Others(r)
      BY <2>4, UpdateEffect
    <3>2. outcome[o] = "due"
      BY <2>1, <3>1 DEF ListedDue, At
    <3>3. \A x \in Outcomes : x # o => outcome'[x] = outcome[x]
      BY <3>1
    <3>4. ClosedReviewed'
      <4>1. SUFFICES ASSUME NEW h \in Hypotheses, hypothesis[h] = "closed"
                     PROVE  AllReviewed(h)'
        BY <3>1 DEF ClosedReviewed
      <4>2. AllReviewed(h)
        BY <2>1, <4>1 DEF ClosedReviewed
      <4>3. o \notin OutcomesOf(h)
        BY <3>2, <4>2 DEF AllReviewed
      <4> QED
        BY <1>0, <3>3, <4>2, <4>3 DEF AllReviewed
    <3>5. ListedDue(r)'
      BY <2>0, <2>1, <3>1, <3>3 DEF ListedDue, At
    <3>6. CompleteReviewed(r)'
      BY <3>1 DEF CompleteReviewed, At
    <3> QED
      BY <2>2, <3>1, <3>4, <3>5, <3>6
  <2>5. CASE CountLeft(r)
    <3>1. /\ UNCHANGED <<hypothesis, outcome>> /\ Others(r) /\ At(r, "count")
          /\ task'[r].pc = "mark" /\ task'[r].cur = task[r].cur
          /\ task'[r].complete = (Unreviewed(task[r].cur[1]) = {})
          /\ task'[r].due = task[r].due
      BY <2>5, CountEffect DEF tables
    <3>2. ClosedReviewed'
      BY <2>1, <3>1 DEF ClosedReviewed, AllReviewed
    <3>3. ListedDue(r)'
      BY <2>1, <3>1 DEF ListedDue, Writing, At
    <3>4. task[r].cur \in Outcomes /\ outcome[task[r].cur] # "none"
      BY <2>0, <3>1 DEF ReviewReal, Writing, At
    <3>5. CompleteReviewed(r)'
      <4>1. SUFFICES ASSUME Unreviewed(task[r].cur[1]) = {}
                     PROVE  AllReviewed(task[r].cur[1])
        BY <3>1 DEF CompleteReviewed, AllReviewed
      <4>2. PICK h \in Hypotheses : h = task[r].cur[1]
        BY <1>0, <3>4
      <4>3. ~Unborn(h)
        BY <1>0, <3>4, <4>2 DEF Unborn
      <4>4. \A o \in OutcomesOf(h) : outcome[o] # "none"
        BY <4>3 DEF FreshInv, AllOrNone
      <4>5. \A o \in OutcomesOf(h) : outcome[o] \notin {"waiting", "due"}
        BY <4>1, <4>2 DEF Unreviewed
      <4> QED
        BY <1>0, <4>2, <4>4, <4>5 DEF AllReviewed
    <3> QED
      BY <2>2, <3>1, <3>2, <3>3, <3>5
  <2>6. CASE Mark(r)
    <3>1. /\ outcome' = outcome /\ Others(r) /\ At(r, "mark")
          /\ hypothesis' = [hypothesis EXCEPT ![task[r].cur[1]] =
                               IF task[r].complete THEN "closed" ELSE "partially_reviewed"]
          /\ task'[r].due = task[r].due
          /\ task'[r].pc \in {"postMortem", "update"}
      BY <2>6, MarkEffect
    <3>2. task[r].cur \in Outcomes
      BY <2>0, <3>1 DEF ReviewReal, Writing, At
    <3>3. ClosedReviewed'
      <4>1. SUFFICES ASSUME NEW h \in Hypotheses, hypothesis'[h] = "closed"
                     PROVE  AllReviewed(h)'
        BY DEF ClosedReviewed
      <4>2. AllReviewed(h)
        <5>1. CASE h = task[r].cur[1]
          BY <1>0, <2>1, <3>1, <3>2, <4>1, <5>1 DEF CompleteReviewed, TypeOK
        <5>2. CASE h # task[r].cur[1]
          BY <2>1, <3>1, <4>1, <5>2 DEF ClosedReviewed, TypeOK
        <5> QED
          BY <5>1, <5>2
      <4> QED
        BY <3>1, <4>2 DEF AllReviewed
    <3>4. ListedDue(r)' /\ CompleteReviewed(r)'
      BY <2>1, <3>1 DEF ListedDue, CompleteReviewed, Writing, At
    <3> QED
      BY <2>2, <3>1, <3>3, <3>4
  <2>7. CASE InsertPostMortem(r) \/ InsertLesson(r)
    <3>1. /\ UNCHANGED <<hypothesis, outcome>> /\ Others(r)
          /\ task[r].pc \in Writing /\ task'[r].pc \in {"lesson", "update"}
          /\ task'[r].due = task[r].due
      BY <1>0, <2>0, <2>7, GotoEffect, InsertLessonEffect
      DEF InsertPostMortem, InsertLesson, At, Writing
    <3>2. ClosedReviewed'
      BY <2>1, <3>1 DEF ClosedReviewed, AllReviewed
    <3>3. ListedDue(r)' /\ CompleteReviewed(r)'
      BY <2>1, <3>1 DEF ListedDue, CompleteReviewed, At
    <3> QED
      BY <2>2, <3>1, <3>2, <3>3
  <2>8. CASE FinishReview(r)
    <3>1. UNCHANGED <<hypothesis, outcome>> /\ Others(r) /\ task'[r].pc = "idle"
      BY <1>0, <2>0, <2>8, EndEffect DEF FinishReview, tables
    <3>2. ClosedReviewed'
      BY <2>1, <3>1 DEF ClosedReviewed, AllReviewed
    <3>3. ListedDue(r)' /\ CompleteReviewed(r)'
      BY <3>1 DEF ListedDue, CompleteReviewed, Writing, At
    <3> QED
      BY <2>2, <3>1, <3>2, <3>3
  <2> QED
    BY <1>4, <2>3, <2>4, <2>5, <2>6, <2>7, <2>8 DEF ReviewStep
<1>5. ASSUME NEW o \in Outcomes, OutcomeDue(o) PROVE ReviewInv'
  <2>1. /\ UNCHANGED <<task, hypothesis, overlapped>> /\ outcome[o] = "waiting"
        /\ outcome' = [outcome EXCEPT ![o] = "due"]
    BY <1>5 DEF OutcomeDue, history
  <2> SUFFICES ASSUME "reviews" \notin overlapped
               PROVE  (/\ Alone /\ ClosedReviewed
                       /\ \A r \in Reviews : ListedDue(r) /\ CompleteReviewed(r))'
    BY <2>1 DEF ReviewInv
  <2>2. \A h \in Hypotheses : AllReviewed(h) => AllReviewed(h)'
    BY <1>0, <2>1 DEF AllReviewed
  <2>3. Alone' /\ ClosedReviewed'
    BY <2>1, <2>2 DEF ReviewInv, Alone, Busy, ClosedReviewed
  <2>4. ASSUME NEW r \in Reviews PROVE (ListedDue(r) /\ CompleteReviewed(r))'
    <3>1. /\ ListedDue(r) /\ CompleteReviewed(r) /\ ReviewReal(r)
          /\ task[r].due \subseteq Outcomes
      BY <1>0 DEF ReviewInv, FreshInv, Task
    <3>2. ListedDue(r)'
      BY <1>0, <2>1, <3>1 DEF ListedDue
    <3>3. At(r, "mark") => task[r].cur[1] \in Hypotheses
      BY <1>0, <3>1 DEF ReviewReal, At, Writing
    <3>4. CompleteReviewed(r)'
      BY <2>1, <2>2, <3>1, <3>3 DEF CompleteReviewed, At
    <3> QED
      BY <3>2, <3>4
  <2> QED
    BY <2>3, <2>4
<1>6. CASE UNCHANGED vars
  BY <1>6, ReviewsUntouched DEF vars, tables
<1> QED
  BY <1>1, <1>2, <1>3, <1>4, <1>5, <1>6 DEF Next

LEMMA ReviewsInvariant == Spec => [](TypeOK /\ FreshInv /\ ReviewInv)
<1>1. Init => ReviewInv
  BY ReviewInvInit
<1>2. TypeOK /\ FreshInv /\ ReviewInv /\ [Next]_vars => ReviewInv'
  BY ReviewInvStep
<1> QED
  BY <1>1, <1>2, FreshInvariant, PTL DEF Spec

(* Unless reviews overlap, a closed hypothesis has gone through all its    *)
(* reviews, however many it has and whatever stopped them before.          *)
THEOREM ClosedIsReviewed == Spec => []ClosedMeansReviewed
<1>1. ReviewInv => ClosedMeansReviewed
  BY DEF ReviewInv, ClosedReviewed, AllReviewed, ClosedMeansReviewed
<1> QED
  BY <1>1, ReviewsInvariant, PTL

LEMMA OutcomeStep ==
    ASSUME TypeOK, FreshInv, ReviewInv, [Next]_vars, "reviews" \notin overlapped,
           NEW o \in Outcomes, outcome[o] = "reviewed"
    PROVE  outcome'[o] = "reviewed"
<1>0. outcome \in [Outcomes -> {"none", "waiting", "due", "reviewed"}]
  BY DEF TypeOK
<1>1. ASSUME NEW q \in Requests, SeedStep(q) \/ Stop(q) PROVE outcome' = outcome
  BY <1>1, SeedEffect DEF Stop, tables
<1>2. ASSUME NEW p \in Plans, PlanStep(p) PROVE outcome'[o] = "reviewed"
  BY <1>2, PlanStepForReviews, InsertedOutcomes
<1>3. ASSUME NEW r \in Reviews, ReviewStep(r), ~Update(r) PROVE outcome' = outcome
  BY <1>3 DEF ReviewStep, List, CountLeft, Mark, InsertPostMortem, InsertLesson, FinishReview,
              tables
<1>4. ASSUME NEW r \in Reviews, Update(r) PROVE outcome'[o] = "reviewed"
  <2>1. PICK u \in task[r].due, s \in {"reviewed", "due"} :
          /\ At(r, "update") /\ u \in Outcomes /\ outcome' = [outcome EXCEPT ![u] = s]
    BY <1>4, UpdateEffect
  <2>2. outcome[u] = "due"
    BY <2>1 DEF ReviewInv, ListedDue, At
  <2> QED
    BY <1>0, <2>1, <2>2
<1>5. ASSUME NEW u \in Outcomes, OutcomeDue(u) PROVE outcome'[o] = "reviewed"
  BY <1>0, <1>5 DEF OutcomeDue
<1>6. ASSUME UNCHANGED vars PROVE outcome' = outcome
  BY <1>6 DEF vars, tables
<1> QED
  BY <1>1, <1>2, <1>3, <1>4, <1>5, <1>6 DEF Next

(* Unless reviews overlap, a verdict is not taken back.                    *)
THEOREM VerdictStays == Spec => ReviewKept
<1>1. TypeOK /\ FreshInv /\ ReviewInv /\ [Next]_vars
        => [\A o \in Outcomes : outcome[o] = "reviewed" =>
               outcome'[o] = "reviewed" \/ "reviews" \in overlapped]_vars
  BY OutcomeStep
<1> QED
  BY <1>1, ReviewsInvariant, PTL DEF Spec, ReviewKept
-----------------------------------------------------------------------------
(* While reviews come one at a time: the rows of an outcome, and which of  *)
(* them the review under way has still to write.                           *)
Rows(o) ==
    /\ postMortems[o] <= 1 /\ lessons[o] <= postMortems[o]
    /\ outcome[o] # "reviewed" => postMortems[o] = 0

Learning(r) ==
    LET o == task[r].cur
    IN /\ task[r].pc \in {"count", "mark"} =>
             postMortems[o] = 0 /\ (task[r].score = "reviewed" <=> outcome[o] = "reviewed")
       /\ At(r, "postMortem") => postMortems[o] = 0 /\ outcome[o] = "reviewed"
       /\ At(r, "lesson") => /\ postMortems[o] = 1 /\ lessons[o] = 0
                             /\ outcome[o] = "reviewed"

Learnt(o) ==
    outcome[o] = "reviewed" /\ (\A r \in Reviews : task[r].cur # o)
        => lessons[o] = 1 \/ "review" \in cut

LearnInv ==
    "reviews" \notin overlapped =>
        /\ \A o \in Outcomes : Rows(o) /\ Learnt(o)
        /\ \A r \in Reviews : Learning(r)

LEMMA LearnInit == Init => LearnInv
<1> SUFFICES ASSUME Init PROVE LearnInv
  OBVIOUS
<1>1. \A o \in Outcomes : Rows(o) /\ Learnt(o)
  BY DEF Init, Rows, Learnt
<1>2. \A r \in Reviews : task[r].pc = "idle"
  BY DEF Init, Plain, Requests
<1> QED
  BY <1>1, <1>2 DEF LearnInv, Learning, At

(* Steps that write no row and after which nobody is at a new outcome.     *)
LEMMA LearnKept ==
    ASSUME TypeOK, FreshInv, LearnInv,
           "reviews" \in overlapped => "reviews" \in overlapped',
           "review" \in cut => "review" \in cut',
           UNCHANGED <<postMortems, lessons>>,
           \A o \in Outcomes :
               \/ outcome'[o] = outcome[o]
               \/ outcome[o] # "reviewed" /\ outcome'[o] # "reviewed",
           \A r \in Reviews :
               \/ task'[r] = task[r]
               \/ /\ task'[r].pc \notin Writing
                  /\ \/ task[r].cur \in {None, task'[r].cur}
                     \/ "review" \in cut'
    PROVE  LearnInv'
<1> SUFFICES ASSUME "reviews" \notin overlapped'
             PROVE  (/\ \A o \in Outcomes : Rows(o) /\ Learnt(o)
                     /\ \A r \in Reviews : Learning(r))'
  BY DEF LearnInv
<1>1. ASSUME NEW o \in Outcomes PROVE (Rows(o) /\ Learnt(o))'
  <2>1. Rows(o) /\ Learnt(o)
    BY DEF LearnInv
  <2>2. Rows(o)'
    BY <2>1 DEF Rows
  <2>3. o # None
    BY PlanAssumption DEF Outcomes, Horizons
  <2>4. Learnt(o)'
    <3>1. SUFFICES ASSUME outcome'[o] = "reviewed", \A r \in Reviews : task'[r].cur # o,
                          "review" \notin cut'
                   PROVE  lessons[o] = 1
      BY DEF Learnt
    <3>2. \A r \in Reviews : task[r].cur # o
      BY <2>3, <3>1
    <3> QED
      BY <2>1, <3>1, <3>2 DEF Learnt
  <2> QED
    BY <2>2, <2>4
<1>2. ASSUME NEW r \in Reviews PROVE Learning(r)'
  <2>1. CASE task'[r].pc \notin Writing
    BY <2>1 DEF Learning, Writing, At
  <2>2. CASE task'[r] = task[r] /\ task[r].pc \in Writing
    <3>1. Learning(r) /\ task[r].cur \in Outcomes
      BY <2>2 DEF LearnInv, FreshInv, ReviewReal
    <3>2. outcome'[task[r].cur] = "reviewed" <=> outcome[task[r].cur] = "reviewed"
      BY <3>1
    <3> QED
      BY <2>2, <3>1, <3>2 DEF Learning, At
  <2> QED
    BY <2>1, <2>2
<1> QED
  BY <1>1, <1>2

(* A review at an outcome is the only one at any.                          *)
LEMMA OneLearner ==
    ASSUME TypeOK, FreshInv, ReviewInv, "reviews" \notin overlapped,
           NEW r \in Busy(Reviews), Others(r)
    PROVE  \A x \in Reviews : x # r =>
               task[x].cur = None /\ task'[x].cur = None /\ Learning(x)'
<1> SUFFICES ASSUME NEW x \in Reviews, x # r
             PROVE  task[x].cur = None /\ task'[x].cur = None /\ Learning(x)'
  OBVIOUS
<1>1. task'[x] = task[x] /\ task[x].pc \in {"idle", "done"} /\ ReviewReal(x)
  BY OneReview DEF FreshInv
<1> QED
  BY <1>1 DEF ReviewReal, Writing, Learning, At

LEMMA LearnStep == TypeOK /\ FreshInv /\ ReviewInv /\ LearnInv /\ [Next]_vars => LearnInv'
<1> SUFFICES ASSUME TypeOK, FreshInv, ReviewInv, LearnInv, [Next]_vars PROVE LearnInv'
  OBVIOUS
<1>0. /\ task \in [Requests -> Task]
      /\ outcome \in [Outcomes -> {"none", "waiting", "due", "reviewed"}]
      /\ postMortems \in [Outcomes -> Nat] /\ lessons \in [Outcomes -> Nat]
      /\ \A r \in Reviews : r \in Requests /\ r \notin Plans /\ ReviewReal(r)
  BY PlanAssumption DEF TypeOK, Requests, FreshInv
<1>1. ASSUME NEW q \in Requests, SeedStep(q) PROVE LearnInv'
  <2>1. /\ UNCHANGED <<outcome, postMortems, lessons, cut>> /\ Others(q)
        /\ task[q].pc \in {"idle"} \cup SeedPcs
        /\ task'[q].pc \in SeedPcs \cup {Bundled(q), IF q \in Plans THEN "done" ELSE "idle"}
        /\ FindStrategy(q) \/ overlapped' = overlapped
    BY <1>1, SeedEffect
  <2>2. "reviews" \in overlapped => "reviews" \in overlapped'
    BY <2>1 DEF FindStrategy
  <2>3. ASSUME NEW r \in Reviews
        PROVE  \/ task'[r] = task[r]
               \/ task'[r].pc \notin Writing /\ task[r].cur = None
    BY <1>0, <2>1 DEF Others, ReviewReal, Writing, SeedPcs, Bundled
  <2> QED
    BY <2>1, <2>2, <2>3, LearnKept
<1>2. ASSUME NEW q \in Requests, Stop(q) PROVE LearnInv'
  <2>1. /\ UNCHANGED <<outcome, postMortems, lessons, overlapped>> /\ Others(q)
        /\ task'[q].pc = (IF q \in Plans THEN "done" ELSE "idle")
        /\ cut' = cut \cup Window(task[q].pc)
    BY <1>0, <1>2, EndEffect DEF Stop, tables
  <2>2. ASSUME NEW r \in Reviews
        PROVE  \/ task'[r] = task[r]
               \/ /\ task'[r].pc \notin Writing
                  /\ task[r].cur = None \/ "review" \in cut'
    BY <1>0, <2>1 DEF Others, ReviewReal, Writing, Window
  <2> QED
    BY <2>1, <2>2, LearnKept
<1>3. ASSUME NEW p \in Plans, PlanStep(p) PROVE LearnInv'
  <2>1. /\ overlapped' = overlapped /\ (\A r \in Reviews : task'[r] = task[r])
        /\ UNCHANGED <<postMortems, lessons>> /\ ("review" \in cut' <=> "review" \in cut)
        /\ outcome' = outcome \/ InsertOutcomes(p)
    BY <1>3, PlanStepForReviews
  <2>2. \A o \in Outcomes : \/ outcome'[o] = outcome[o]
                            \/ outcome[o] # "reviewed" /\ outcome'[o] # "reviewed"
    <3>1. CASE InsertOutcomes(p)
      BY <3>1, InsertOutcomesEffect, InsertedOutcomes
    <3> QED
      BY <2>1, <3>1
  <2> QED
    BY <2>1, <2>2, LearnKept
<1>4. ASSUME NEW r \in Reviews, ReviewStep(r) PROVE LearnInv'
  <2>0. /\ r \in Requests /\ ReviewReal(r) /\ UNCHANGED <<overlapped, cut>>
        /\ task[r].pc \in ReviewPcs
    BY <1>0, <1>4, ReviewQuiet
  <2>1. CASE List(r) \/ FinishReview(r)
    <3>1. /\ UNCHANGED <<outcome, postMortems, lessons>> /\ Others(r)
          /\ task[r].pc \notin Writing /\ task'[r].pc \notin Writing
      BY <1>0, <2>1, ListEffect, EndEffect DEF FinishReview, At, Writing, tables
    <3>2. \A x \in Reviews : \/ task'[x] = task[x]
                             \/ task'[x].pc \notin Writing /\ task[x].cur = None
      BY <1>0, <2>0, <3>1 DEF Others, ReviewReal
    <3> QED
      BY <2>0, <3>1, <3>2, LearnKept
  <2>2. ASSUME ~List(r), ~FinishReview(r) PROVE LearnInv'
    <3> SUFFICES ASSUME "reviews" \notin overlapped
                 PROVE  (/\ \A o \in Outcomes : Rows(o) /\ Learnt(o)
                         /\ \A x \in Reviews : Learning(x))'
      BY <2>0 DEF LearnInv
    <3>0. /\ r \in Busy(Reviews) /\ Learning(r)
          /\ \A o \in Outcomes : Rows(o) /\ Learnt(o) /\ o # None
      BY <2>0, PlanAssumption DEF Busy, LearnInv, ReviewPcs, Outcomes, Horizons
    <3>1. CASE Update(r)
      <4>1. PICK o \in task[r].due, s \in {"reviewed", "due"} :
              /\ At(r, "update") /\ o \in Outcomes /\ outcome' = [outcome EXCEPT ![o] = s]
              /\ UNCHANGED <<postMortems, lessons>>
              /\ task'[r].pc = "count" /\ task'[r].cur = o /\ task'[r].score = s
              /\ Others(r)
        BY <3>1, UpdateEffect
      <4>2. outcome[o] = "due" /\ task[r].cur = None
        BY <2>0, <4>1 DEF ReviewInv, ListedDue, ReviewReal, Writing, At
      <4>3. postMortems[o] = 0 /\ outcome'[o] = s
        BY <1>0, <3>0, <4>1, <4>2 DEF Rows
      <4>4. Learning(r)'
        BY <4>1, <4>3 DEF Learning, At
      <4>5. ASSUME NEW x \in Outcomes PROVE (Rows(x) /\ Learnt(x))'
        <5>1. Rows(x) /\ Learnt(x) /\ x # None
          BY <3>0
        <5>2. CASE x = o
          BY <4>1, <4>3, <5>1, <5>2 DEF Rows, Learnt
        <5>3. CASE x # o
          <6>1. outcome'[x] = outcome[x] /\ \A y \in Reviews : task[y].cur # x
            BY <3>0, <4>1, <4>2, <5>1, <5>3, OneLearner
          <6> QED
            BY <2>0, <4>1, <5>1, <6>1 DEF Rows, Learnt
        <5> QED
          BY <5>2, <5>3
      <4> QED
        BY <3>0, <4>1, <4>4, <4>5, OneLearner
    <3>2. CASE CountLeft(r)
      <4>1. /\ UNCHANGED <<outcome, postMortems, lessons>> /\ Others(r)
            /\ At(r, "count") /\ task'[r].pc = "mark"
            /\ task'[r].cur = task[r].cur /\ task'[r].score = task[r].score
        BY <3>2, CountEffect DEF tables
      <4>2. Learning(r)'
        BY <3>0, <4>1 DEF Learning, At
      <4>3. \A y \in Reviews : task'[y].cur = task[y].cur
        BY <3>0, <4>1, OneLearner
      <4>4. \A x \in Outcomes : (Rows(x) /\ Learnt(x))'
        BY <2>0, <3>0, <4>1, <4>3 DEF Rows, Learnt
      <4> QED
        BY <3>0, <4>1, <4>2, <4>4, OneLearner
    <3>3. CASE Mark(r)
      <4>1. /\ UNCHANGED <<outcome, postMortems, lessons>> /\ Others(r) /\ At(r, "mark")
            /\ IF Learns(r) THEN task'[r].pc = "postMortem" /\ task'[r].cur = task[r].cur
                            ELSE task'[r].pc = "update" /\ task'[r].cur = None
        BY <3>3, MarkEffect
      <4>2. /\ postMortems[task[r].cur] = 0
            /\ Learns(r) <=> outcome[task[r].cur] = "reviewed"
        BY <3>0, <4>1 DEF Learning, At, Learns
      <4>3. Learning(r)'
        BY <4>1, <4>2 DEF Learning, At
      <4>4. ASSUME NEW x \in Outcomes, outcome[x] = "reviewed",
                   \A y \in Reviews : task'[y].cur # x
            PROVE  \A y \in Reviews : task[y].cur # x
        BY <3>0, <4>1, <4>2, <4>4, OneLearner
      <4>5. \A x \in Outcomes : (Rows(x) /\ Learnt(x))'
        BY <2>0, <3>0, <4>1, <4>4 DEF Rows, Learnt
      <4> QED
        BY <3>0, <4>1, <4>3, <4>5, OneLearner
    <3>4. CASE InsertPostMortem(r)
      <4>1. /\ UNCHANGED <<outcome, lessons>> /\ Others(r) /\ At(r, "postMortem")
            /\ postMortems' = [postMortems EXCEPT ![task[r].cur] = @ + 1]
            /\ task'[r].pc = "lesson" /\ task'[r].cur = task[r].cur
        BY <1>0, <2>0, <3>4, GotoEffect DEF InsertPostMortem
      <4>2. /\ task[r].cur \in Outcomes /\ postMortems[task[r].cur] = 0
            /\ outcome[task[r].cur] = "reviewed"
        BY <2>0, <3>0, <4>1 DEF ReviewReal, Writing, Learning, At
      <4>3. postMortems'[task[r].cur] = 1 /\ lessons[task[r].cur] = 0
        BY <1>0, <3>0, <4>1, <4>2 DEF Rows
      <4>4. Learning(r)'
        BY <4>1, <4>2, <4>3 DEF Learning, At
      <4>5. \A y \in Reviews : task'[y].cur = task[y].cur
        BY <3>0, <4>1, OneLearner
      <4>6. ASSUME NEW x \in Outcomes PROVE (Rows(x) /\ Learnt(x))'
        <5>1. Rows(x) /\ Learnt(x)
          BY <3>0
        <5>2. Learnt(x)'
          BY <2>0, <4>1, <4>5, <5>1 DEF Learnt
        <5>3. CASE x = task[r].cur
          BY <4>1, <4>2, <4>3, <5>2, <5>3 DEF Rows
        <5>4. CASE x # task[r].cur
          BY <1>0, <4>1, <5>1, <5>2, <5>4 DEF Rows
        <5> QED
          BY <5>3, <5>4
      <4> QED
        BY <3>0, <4>1, <4>4, <4>6, OneLearner
    <3>5. CASE InsertLesson(r)
      <4>1. /\ UNCHANGED <<outcome, postMortems>> /\ Others(r) /\ At(r, "lesson")
            /\ lessons' = [lessons EXCEPT ![task[r].cur] = @ + 1]
            /\ task'[r].pc = "update" /\ task'[r].cur = None
        BY <3>5, InsertLessonEffect
      <4>2. /\ task[r].cur \in Outcomes /\ outcome[task[r].cur] = "reviewed"
            /\ postMortems[task[r].cur] = 1 /\ lessons[task[r].cur] = 0
        BY <2>0, <3>0, <4>1 DEF ReviewReal, Writing, Learning, At
      <4>3. lessons'[task[r].cur] = 1
        BY <1>0, <4>1, <4>2
      <4>4. Learning(r)'
        BY <4>1 DEF Learning, At
      <4>5. ASSUME NEW x \in Outcomes PROVE (Rows(x) /\ Learnt(x))'
        <5>1. Rows(x) /\ Learnt(x) /\ x # None
          BY <3>0
        <5>2. CASE x = task[r].cur
          BY <4>1, <4>2, <4>3, <5>2 DEF Rows, Learnt
        <5>3. CASE x # task[r].cur
          <6>1. lessons'[x] = lessons[x] /\ \A y \in Reviews : task[y].cur # x
            BY <1>0, <3>0, <4>1, <5>1, <5>3, OneLearner
          <6> QED
            BY <2>0, <4>1, <5>1, <6>1 DEF Rows, Learnt
        <5> QED
          BY <5>2, <5>3
      <4> QED
        BY <3>0, <4>1, <4>4, <4>5, OneLearner
    <3> QED
      BY <1>4, <2>2, <3>1, <3>2, <3>3, <3>4, <3>5 DEF ReviewStep
  <2> QED
    BY <2>1, <2>2
<1>5. ASSUME NEW o \in Outcomes, OutcomeDue(o) PROVE LearnInv'
  <2>1. /\ UNCHANGED <<task, postMortems, lessons, overlapped, cut>> /\ outcome[o] = "waiting"
        /\ outcome' = [outcome EXCEPT ![o] = "due"]
    BY <1>5 DEF OutcomeDue, history
  <2>2. \A x \in Outcomes : \/ outcome'[x] = outcome[x]
                            \/ outcome[x] # "reviewed" /\ outcome'[x] # "reviewed"
    BY <1>0, <2>1
  <2> QED
    BY <2>1, <2>2, LearnKept
<1>6. CASE UNCHANGED vars
  BY <1>6, LearnKept DEF vars, tables
<1> QED
  BY <1>1, <1>2, <1>3, <1>4, <1>5, <1>6 DEF Next

(* Unless reviews overlap, a reviewed outcome has one post-mortem and one  *)
(* lesson, or its review is under way or was cut.                          *)
THEOREM LessonLearnt == Spec => []LearnedOnce
<1>1. Init => LearnInv
  BY LearnInit
<1>2. TypeOK /\ FreshInv /\ ReviewInv /\ LearnInv /\ [Next]_vars => LearnInv'
  BY LearnStep
<1>3. LearnInv => LearnedOnce
  BY DEF LearnInv, Rows, Learnt, LearnedOnce
<1> QED
  BY <1>1, <1>2, <1>3, ReviewsInvariant, PTL DEF Spec
=============================================================================
