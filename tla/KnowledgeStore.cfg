\* An entity in two versions, a seed and a relation; every call may fail and the process may die at any time.
SPECIFICATION Spec
CONSTANTS
  fact = fact
  seeded = seeded
  link = link
  Entities = {fact, seeded}
  Relations = {link}
  Ends <- LinkEnds
  Versions = {1, 2}
  None = None
  Seed <- SeedGraph
  Batches <- SomeBatches
  Torn = Torn
INVARIANTS
  AckedOrDegraded
  PromiseKept
PROPERTIES
  WipedOnlyBlind
