\* One plan, one reviewer, fresh prices, nothing fails.
SPECIFICATION FairSpec
CONSTANTS
  Plans = {p1}
  Reviews = {r1}
  p1 = p1
  h1 = h1
  Hypotheses = {h1}
  PlanOf <- FirstPlan
  LastReview = 3
  Scores = {"reviewed"}
  None = None
  MaxFaults = 0
PROPERTIES
  EveryDueReviewed
