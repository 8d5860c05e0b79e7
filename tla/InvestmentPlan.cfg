\* Two plans one of them with a hypothesis, two reviewers, prices that may be missing, one stop.
SPECIFICATION FairSpec
CONSTANTS
  Plans = {p1, p2}
  Reviews = {r1, r2}
  p1 = p1
  h1 = h1
  Hypotheses = {h1}
  PlanOf <- FirstPlan
  LastReview = 2
  Scores = {"reviewed", "due"}
  None = None
  MaxFaults = 1
INVARIANTS
  OneSeeder
  OneActivePlan
  PlanKept
  ClosedMeansReviewed
  LearnedOnce
PROPERTIES
  StrategyOnce
  ReviewKept
  FirstReview
