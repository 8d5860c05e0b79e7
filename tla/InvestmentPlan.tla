--------------------------- MODULE InvestmentPlan ---------------------------
(***************************************************************************)
(* The investment strategy of the advisor: requests that generate an       *)
(* action plan with its hypotheses and their reviews to come, and requests *)
(* that review the outcomes that are due.  Code: investment-strategy-use-  *)
(* cases.ts, -repository.ts, -engine.ts.                                   *)
(*                                                                         *)
(* Both kinds first seed the default strategy when there is none.  Nothing *)
(* is a transaction and nothing locks: an action is one statement, and a   *)
(* request may stop before any of them.  Prices, allocation and texts are  *)
(* left out, and so are the memory events and the context bundle, which    *)
(* these requests write and never read, and reviews that are a dry run.    *)
(***************************************************************************)
EXTENDS Integers, FiniteSets

CONSTANTS Plans,       \* requests for a plan, and the rows they insert
          Reviews,     \* whoever asks for reviews, again and again
          Hypotheses,  \* hypotheses their items may carry
          PlanOf,      \* the plan of each
          LastReview,  \* reviews of a hypothesis: 1 is J1, 2 is J7, 3 is J30
          Scores,      \* what scoreOutcome can leave of a due outcome
          None,        \* no hypothesis, no outcome
          MaxFaults    \* bound: requests that stop half-way

ASSUME PlanAssumption ==
    /\ Plans \cap Reviews = {} /\ IsFiniteSet(Plans)
    /\ LastReview \in Nat \ {0}
    /\ Scores \subseteq {"reviewed", "due"}
    /\ MaxFaults \in Nat
    /\ IsFiniteSet(Hypotheses) /\ PlanOf \in [Hypotheses -> Plans]
    /\ None \notin Hypotheses /\ None \notin Hypotheses \X (1..LastReview)

VARIABLES
    seeded,      \* how many parts of the strategy are stored
    plan,        \* table advisor_action_plan
    hypothesis,  \* table advisor_market_hypothesis
    outcome,     \* table advisor_prediction_outcome, by hypothesis and review
    postMortems, \* rows of advisor_market_post_mortem of an outcome
    lessons,     \* rows of strategy_lesson of an outcome
    task,        \* the requests
    overlapped,  \* history: kinds of requests that ran two at a time
    cut,         \* history: where requests have stopped
    faults

tables == <<seeded, plan, hypothesis, outcome, postMortems, lessons>>
vars == <<tables, task, overlapped, cut, faults>>
-----------------------------------------------------------------------------
Requests == Plans \cup Reviews
Horizons == 1..LastReview
Outcomes == Hypotheses \X Horizons
OutcomesOf(h) == {h} \X Horizons

(* The strategy row, its buckets, its account policies, the candidates.    *)
Whole == 4

SeedPcs == {"create", "seed"}
PlanPcs == {"build", "supersede", "insert", "draft", "schedule"}
ReviewPcs == {"list", "update", "count", "mark", "postMortem", "lesson"}

Task == [pc : {"idle", "done"} \cup SeedPcs \cup PlanPcs \cup ReviewPcs,
         todo : SUBSET Hypotheses,           \* drafts without a row
         made : Hypotheses \cup {None},      \* the row inserted last
         due : SUBSET Outcomes,              \* listed, not yet taken
         cur : Outcomes \cup {None},         \* the outcome under review
         score : Scores \cup {"due"},        \* its score
         complete : BOOLEAN]                 \* none was left when counted

Plain(pc) == [pc |-> pc, todo |-> {}, made |-> None, due |-> {}, cur |-> None,
              score |-> "due", complete |-> FALSE]

TypeOK ==
    /\ seeded \in 0..Whole
    /\ plan \in [Plans -> {"none", "active", "superseded"}]
    /\ hypothesis \in [Hypotheses -> {"none", "open", "partially_reviewed", "closed"}]
    /\ outcome \in [Outcomes -> {"none", "waiting", "due", "reviewed"}]
    /\ postMortems \in [Outcomes -> Nat] /\ lessons \in [Outcomes -> Nat]
    /\ task \in [Requests -> Task]
    /\ overlapped \subseteq {"plans", "reviews"}
    /\ cut \subseteq {"seed", "plan", "review"}
    /\ faults \in 0..MaxFaults

Init ==
    /\ seeded = 0
    /\ plan = [p \in Plans |-> "none"]
    /\ hypothesis = [h \in Hypotheses |-> "none"]
    /\ outcome = [o \in Outcomes |-> "none"]
    /\ postMortems = [o \in Outcomes |-> 0] /\ lessons = [o \in Outcomes |-> 0]
    /\ task = [q \in Requests |-> Plain("idle")]
    /\ overlapped = {} /\ cut = {} /\ faults = 0

At(q, p) == task[q].pc = p
Become(q, s) == task' = [task EXCEPT ![q] = s]
Goto(q, p) == Become(q, [task[q] EXCEPT !.pc = p])
End(q) == Become(q, Plain(IF q \in Plans THEN "done" ELSE "idle"))
Busy(S) == {q \in S : task[q].pc \notin {"idle", "done"}}
history == <<overlapped, cut, faults>>
-----------------------------------------------------------------------------
Bundled(q) == IF q \in Plans THEN "build" ELSE "list"

(* A request arrives: getActiveStrategy takes the strategy row, whatever   *)
(* it has, and reads its bundle.                                           *)
FindStrategy(q) ==
    /\ At(q, "idle")
    /\ Goto(q, IF seeded = 0 THEN "create" ELSE Bundled(q))
    /\ overlapped' = overlapped
         \cup (IF q \in Plans /\ Busy(Plans) # {} THEN {"plans"} ELSE {})
         \cup (IF q \in Reviews /\ Busy(Reviews) # {} THEN {"reviews"} ELSE {})
    /\ UNCHANGED <<tables, cut, faults>>

(* createStrategy; the index on name and version refuses a second default  *)
(* strategy, and the request fails.  (Mutant: no index.)                   *)
FreeMutant == TRUE
Free == seeded = 0

CreateStrategy(q) ==
    /\ At(q, "create")
    /\ IF Free THEN seeded' = 1 /\ Goto(q, "seed")
               ELSE UNCHANGED seeded /\ End(q)
    /\ UNCHANGED <<plan, hypothesis, outcome, postMortems, lessons, history>>

(* insertBuckets, insertAccountPolicies, upsertCandidates, in that order.  *)
SeedPart(q) ==
    /\ At(q, "seed")
    /\ seeded < Whole
    /\ seeded' = seeded + 1
    /\ Goto(q, IF seeded' = Whole THEN Bundled(q) ELSE "seed")
    /\ UNCHANGED <<plan, hypothesis, outcome, postMortems, lessons, history>>

-----------------------------------------------------------------------------
(* A dry run ends here.  (Mutant: a dry run supersedes.)                   *)
DryRunMutant(p) ==
    /\ At(p, "build")
    /\ plan' = [q \in Plans |-> IF plan[q] = "active" THEN "superseded" ELSE plan[q]]
    /\ End(p)
    /\ UNCHANGED <<seeded, hypothesis, outcome, postMortems, lessons, history>>
DryRun(p) ==
    /\ At(p, "build")
    /\ End(p)
    /\ UNCHANGED <<tables, history>>

(* buildPlan and buildHypothesisDrafts: some of the items get a hypothesis.*)
Drafts(p) == SUBSET {h \in Hypotheses : PlanOf[h] = p}

Build(p) ==
    /\ At(p, "build")
    /\ \E drafts \in Drafts(p) :
         Become(p, [task[p] EXCEPT !.pc = "supersede", !.todo = drafts])
    /\ UNCHANGED <<tables, history>>

(* UPDATE ... SET status = 'superseded' WHERE status = 'active'.  (Mutant: *)
(* a plan that supersedes nothing.)                                        *)
SupersedeMutant(p) ==
    /\ At(p, "supersede")
    /\ Goto(p, "insert")
    /\ UNCHANGED <<tables, history>>
Supersede(p) ==
    /\ At(p, "supersede")
    /\ plan' = [q \in Plans |-> IF plan[q] = "active" THEN "superseded" ELSE plan[q]]
    /\ Goto(p, "insert")
    /\ UNCHANGED <<seeded, hypothesis, outcome, postMortems, lessons, history>>

(* insertActionPlan; items and recommendations follow.                     *)
InsertPlan(p) ==
    /\ At(p, "insert")
    /\ plan' = [plan EXCEPT ![p] = "active"]
    /\ Goto(p, "draft")
    /\ cut' = cut \ {"plan"}
    /\ UNCHANGED <<seeded, hypothesis, outcome, postMortems, lessons, overlapped, faults>>

InsertHypothesis(p) ==
    /\ At(p, "draft")
    /\ \E h \in task[p].todo :
         /\ hypothesis' = [hypothesis EXCEPT ![h] = "open"]
         /\ Become(p, [task[p] EXCEPT !.pc = "schedule", !.made = h,
                                      !.todo = task[p].todo \ {h}])
    /\ UNCHANGED <<seeded, plan, outcome, postMortems, lessons, history>>

InsertOutcomes(p) ==
    /\ At(p, "schedule")
    /\ outcome' = [o \in Outcomes |-> IF o[1] = task[p].made THEN "waiting"
                                      ELSE outcome[o]]
    /\ Become(p, [task[p] EXCEPT !.pc = "draft", !.made = None])
    /\ UNCHANGED <<seeded, plan, hypothesis, postMortems, lessons, history>>

FinishPlan(p) ==
    /\ At(p, "draft")
    /\ task[p].todo = {}
    /\ End(p)
    /\ UNCHANGED <<tables, history>>
-----------------------------------------------------------------------------
(* Time passes: J1 comes before J7 and J7 before J30.                      *)
OutcomeDue(o) ==
    /\ outcome[o] = "waiting"
    /\ o[2] > 1 => outcome[<<o[1], o[2] - 1>>] # "waiting"
    /\ outcome' = [outcome EXCEPT ![o] = "due"]
    /\ UNCHANGED <<seeded, plan, hypothesis, postMortems, lessons, task, history>>

(* duePredictionOutcomes: reviewed_at is null, the date has come, and the  *)
(* hypothesis is open.  (Mutants: reviewed_at is not looked at; the        *)
(* hypotheses listed are the ones that have been begun.)                   *)
ListableMutant(o) == outcome[o] \in {"due", "reviewed"} /\ hypothesis[o[1]] = "open"
ListableBegunMutant(o) ==
    outcome[o] = "due" /\ hypothesis[o[1]] = "partially_reviewed"
Listable(o) == outcome[o] = "due" /\ hypothesis[o[1]] = "open"

List(r) ==
    /\ At(r, "list")
    /\ Become(r, [task[r] EXCEPT !.pc = "update", !.due = {o \in Outcomes : Listable(o)}])
    /\ UNCHANGED <<tables, history>>

(* By date: a hypothesis' own reviews are taken in their order.            *)
Earliest(due) ==
    {o \in due : \A other \in due : other[1] = o[1] => o[2] <= other[2]}

(* updatePredictionOutcome by id, whatever the row says by now: the score  *)
(* sets reviewed_at, or makes it null when a price is missing or stale.    *)
Update(r) ==
    /\ At(r, "update")
    /\ \E o \in Earliest(task[r].due), s \in Scores :
         /\ outcome' = [outcome EXCEPT ![o] = s]
         /\ Become(r, [task[r] EXCEPT !.pc = "count", !.cur = o, !.score = s,
                                      !.due = task[r].due \ {o}])
    /\ UNCHANGED <<seeded, plan, hypothesis, postMortems, lessons, history>>

(* closeHypothesisIfComplete: the count of reviewed_at null.  (Mutant: of  *)
(* what is due.)                                                           *)
UnreviewedMutant(h) == {o \in OutcomesOf(h) : outcome[o] = "due"}
Unreviewed(h) == {o \in OutcomesOf(h) : outcome[o] \in {"waiting", "due"}}

CountLeft(r) ==
    /\ At(r, "count")
    /\ Become(r, [task[r] EXCEPT !.pc = "mark",
                    !.complete = Unreviewed(task[r].cur[1]) = {}])
    /\ UNCHANGED <<tables, history>>

(* (Mutant: nothing is learnt from the review that closes a hypothesis.)   *)
LearnsMutant(r) == task[r].score = "reviewed" /\ ~task[r].complete
Learns(r) == task[r].score = "reviewed"

Mark(r) ==
    /\ At(r, "mark")
    /\ LET h == task[r].cur[1]
       IN hypothesis' = [hypothesis EXCEPT ![h] = IF task[r].complete THEN "closed"
                                                  ELSE "partially_reviewed"]
    /\ LET next == [Plain("update") EXCEPT !.due = task[r].due]
       IN Become(r, IF Learns(r) THEN [next EXCEPT !.pc = "postMortem", !.cur = task[r].cur]
                                 ELSE next)
    /\ UNCHANGED <<seeded, plan, outcome, postMortems, lessons, history>>

InsertPostMortem(r) ==
    /\ At(r, "postMortem")
    /\ postMortems' = [postMortems EXCEPT ![task[r].cur] = @ + 1]
    /\ Goto(r, "lesson")
    /\ UNCHANGED <<seeded, plan, hypothesis, outcome, lessons, history>>

InsertLesson(r) ==
    /\ At(r, "lesson")
    /\ lessons' = [lessons EXCEPT ![task[r].cur] = @ + 1]
    /\ Become(r, [Plain("update") EXCEPT !.due = task[r].due])
    /\ UNCHANGED <<seeded, plan, hypothesis, outcome, postMortems, history>>

(* The calibration snapshot, and the answer.                               *)
FinishReview(r) ==
    /\ At(r, "update")
    /\ task[r].due = {}
    /\ End(r)
    /\ UNCHANGED <<tables, history>>
-----------------------------------------------------------------------------
(* A statement throws or the process dies: the request stops where it is.  *)
Window(pc) ==
    CASE pc = "seed" -> {"seed"}
      [] pc = "insert" -> {"plan"}
      [] pc \in {"count", "mark", "postMortem", "lesson"} -> {"review"}
      [] OTHER -> {}

Stop(q) ==
    /\ q \in Busy(Requests)
    /\ faults < MaxFaults /\ faults' = faults + 1
    /\ cut' = cut \cup Window(task[q].pc)
    /\ End(q)
    /\ UNCHANGED <<tables, overlapped>>

SeedStep(q) == FindStrategy(q) \/ CreateStrategy(q) \/ SeedPart(q)

PlanStep(p) ==
    \/ DryRun(p) \/ Build(p) \/ Supersede(p) \/ InsertPlan(p)
    \/ InsertHypothesis(p) \/ InsertOutcomes(p) \/ FinishPlan(p)

ReviewStep(r) ==
    \/ List(r) \/ Update(r) \/ CountLeft(r) \/ Mark(r)
    \/ InsertPostMortem(r) \/ InsertLesson(r) \/ FinishReview(r)

Next ==
    \/ \E q \in Requests : SeedStep(q) \/ Stop(q)
    \/ \E p \in Plans : PlanStep(p)
    \/ \E r \in Reviews : ReviewStep(r)
    \/ \E o \in Outcomes : OutcomeDue(o)

Spec == Init /\ [][Next]_vars

(* A review is asked for again and again (the refresh registry has a job   *)
(* for it) and goes on once it has begun.                                  *)
FairSpec == Spec /\ \A r \in Reviews : WF_vars(SeedStep(r) \/ ReviewStep(r))
-----------------------------------------------------------------------------
Seeders == {q \in Requests : At(q, "seed")}

(* A strategy that lacks buckets, policies or candidates is being seeded,  *)
(* by one request, or the seeding was cut: then it stays as it is, since   *)
(* seedDefaultStrategyIfMissing takes whatever is active.                  *)
OneSeeder ==
    /\ Cardinality(Seeders) <= 1
    /\ Seeders # {} => seeded \in 1..(Whole - 1)
    /\ seeded \in 1..(Whole - 1) => Seeders # {} \/ "seed" \in cut

(* The seeding without the statements: the request whose createStrategy    *)
(* succeeds takes the strategy, and it is done with the last part.         *)
O == INSTANCE OnceOnly WITH
         Doers <- Requests, Things <- {"strategy"},
         times <- [t \in {"strategy"} |-> IF seeded = Whole THEN 1 ELSE 0],
         taken <- Seeders \X {"strategy"},
         spoilt <- {t \in {"strategy"} : seeded \in 1..(Whole - 1) /\ Seeders = {}}

(* The default strategy is seeded once, and by one request: it implements  *)
(* OnceOnly.  A request that stops in between spoils it, and no later one  *)
(* clears it (seedDefaultStrategyIfMissing looks for a strategy only).     *)
StrategyOnce == O!OnceSpec /\ O!SpoiltForGood

Active == {p \in Plans : plan[p] = "active"}

(* Two plans are active only after two generations ran at a time: the      *)
(* supersede and the insert are two statements (persistActionPlan).        *)
OneActivePlan == "plans" \notin overlapped => Cardinality(Active) <= 1

(* latestActionPlan has something to show once there has been a plan,      *)
(* unless a generation is between the two statements, or stopped there and *)
(* none has been there since.                                              *)
PlanKept ==
    Active = {} /\ (\E p \in Plans : plan[p] = "superseded")
        => "plan" \in cut \/ \E p \in Plans : At(p, "insert")

(* Unless reviews ran two at a time a hypothesis is closed only when it    *)
(* has all its outcomes and each of them is reviewed (closeHypothesisIf-   *)
(* Complete counts, then updates).                                         *)
ClosedMeansReviewed ==
    "reviews" \notin overlapped =>
        \A h \in Hypotheses : hypothesis[h] = "closed" =>
            \A o \in OutcomesOf(h) : outcome[o] = "reviewed"

(* A reviewed outcome has its post-mortem and its lesson, one of each,     *)
(* unless a review is at it, was cut there, or reviews ran two at a time.  *)
LearnedOnce ==
    "reviews" \notin overlapped =>
        \A o \in Outcomes :
            /\ postMortems[o] <= 1 /\ lessons[o] <= postMortems[o]
            /\ outcome[o] = "reviewed" /\ (\A r \in Reviews : task[r].cur # o)
                 => lessons[o] = 1 \/ "review" \in cut

(* A verdict is not taken back when a later review finds no fresh price,   *)
(* unless the two reviews overlap (updatePredictionOutcome has no guard).  *)
ReviewKept ==
    [][\A o \in Outcomes : outcome[o] = "reviewed" =>
          outcome'[o] = "reviewed" \/ "reviews" \in overlapped]_vars

(* The first review of a hypothesis takes place after its date, whatever   *)
(* stopped the requests before, even if it finds no price.                 *)
FirstReview ==
    \A h \in Hypotheses :
        outcome[<<h, 1>>] = "due" /\ hypothesis[h] = "open"
            ~> outcome[<<h, 1>>] = "reviewed" \/ hypothesis[h] # "open"

(* Each of the reviews a hypothesis is given (J1, J7 and J30) takes place  *)
(* after its date.                                                         *)
EveryDueReviewed ==
    \A o \in Outcomes : outcome[o] = "due" ~> outcome[o] = "reviewed"
=============================================================================
