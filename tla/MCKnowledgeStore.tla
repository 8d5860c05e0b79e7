-------------------------- MODULE MCKnowledgeStore --------------------------
(* Values of KnowledgeStore's constants for TLC: an entity that comes in   *)
(* two versions, one of the seed, and a relation between them.             *)
EXTENDS KnowledgeStore, Naturals

CONSTANTS fact, seeded, link

LinkEnds == [r \in {link} |-> {fact, seeded}]
With(f, v) == [Empty EXCEPT ![f] = v]
SeedGraph == With(seeded, 1)
SomeBatches == {With(fact, 1), With(fact, 2), [With(seeded, 1) EXCEPT ![link] = 1]}
=============================================================================
