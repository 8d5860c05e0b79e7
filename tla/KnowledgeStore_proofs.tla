----------------------- MODULE KnowledgeStore_proofs -----------------------
(***************************************************************************)
(* Proofs about KnowledgeStore, for any facts, versions and batches.  Two  *)
(* things are said of the store in every state, not only between requests: *)
(* AckInv, what an acknowledged fact may rely on while a request is under  *)
(* way, and PromiseInv, what Neo4j and memory still hold of a promise.     *)
(***************************************************************************)
EXTENDS KnowledgeStore, TLAPS

Ingesting == request.kind = "ingest"
Asked(e) == Ingesting /\ request.facts[e] # None

(* Between requests and during an ingest memory serves; during a rebuild it*)
(* does so before the graph is cleared, and the copy does after it.        *)
Served(e) ==
    /\ Ingesting \/ pc \in {"idle", "reset", "clear"} => memory[e] # None
    /\ request.kind = "rebuild" /\ pc \in {"save", "resave"} => request.before[e] # None

(* What the ingest asked for is in Neo4j, or its flag is down, and then a  *)
(* reason is noted with the relations.                                     *)
Written ==
    Ingesting =>
        LET Done == \A e \in Entities : Asked(e) => neo[e] = request.facts[e]
        IN  /\ pc = "edges" => ~available["neo4j"] \/ Done
            /\ pc = "vectors" => Done \/ (reasons /\ ~available["neo4j"])

AckInv ==
    /\ pc \in {"reset", "clear"} => ~Ingesting
    /\ request.kind = "rebuild" => shaken = Facts
    /\ request.kind = "startup" \/ pc \in {"down", "load", "hydrate"} => acked = Empty
    /\ Written
    /\ \A e \in Entities : Asked(e) => memory[e] = request.facts[e]
    /\ \A e \in Entities : acked[e] # None =>
          /\ Served(e)
          /\ \/ reasons
             \/ e \in shaken
             \/ /\ points[e] = acked[e]
                /\ neo[e] = acked[e] \/ (pc \in {"edges", "vectors"} /\ Asked(e))

NoPromise == \A e \in Entities : promised[e] = {}

(* A start that rebuilds without being blind has nothing to lose in Neo4j, *)
(* or will not touch it.                                                   *)
PromiseInv ==
    /\ request.kind = "rebuild" => NoPromise
    /\ request.kind = "startup" /\ pc = "reset" /\ file # Torn =>
          ~available["neo4j"] \/ neo = Empty
    /\ pc \in {"down", "load", "hydrate"} => ~loaded
    /\ ~blind =>
          /\ request.kind = "startup" /\ (available["neo4j"] \/ loaded) => NoPromise
          /\ \A e \in Entities : promised[e] # {} =>
                /\ neo[e] \in promised[e]
                /\ Asked(e) => request.facts[e] \in promised[e]
                /\ loaded => memory[e] \in promised[e]
-----------------------------------------------------------------------------
LEMMA EmptyTyped == Empty \in Graph /\ Seed \in Graph /\ Nothing \in Request
BY KnowledgeAssumption DEF Empty, Graph, Nothing, Request

LEMMA MergeTyped ==
    ASSUME NEW g \in Graph, NEW h \in Graph
    PROVE  /\ Merge(g, h) \in Graph
           /\ \A f \in Facts : Merge(g, h)[f] = IF h[f] # None THEN h[f] ELSE g[f]
BY DEF Merge, Graph

LEMMA OnlyTyped ==
    ASSUME NEW g \in Graph, NEW F
    PROVE  /\ Only(g, F) \in Graph
           /\ \A f \in Facts : Only(g, F)[f] = IF f \in F THEN g[f] ELSE None
BY DEF Only, Graph

LEMMA LoseTyped ==
    ASSUME TypeOK, NEW b \in Backends, Lose(b)
    PROVE  /\ available' \in [Backends -> BOOLEAN] /\ ~available'[b]
           /\ \A x \in Backends : available'[x] => available[x]
BY DEF TypeOK, Lose, Backends

LEMMA RequestTyped ==
    ASSUME TypeOK
    PROVE  /\ request.kind \in {"none", "ingest", "rebuild", "startup"}
           /\ request.facts \in Graph /\ request.before \in Graph
BY DEF TypeOK, Request

LEMMA TypeStep ==
    ASSUME TypeOK, [Next]_vars
    PROVE  TypeOK'
<1> USE EmptyTyped, RequestTyped, KnowledgeAssumption
<1>1. CASE Start
  BY <1>1 DEF Start, TypeOK, stores, history, Pcs
<1>2. CASE Load
  BY <1>2 DEF Load, TypeOK, stores, flags, Pcs, Request, Backends
<1>3. CASE Hydrate
  <2>1. available' \in [Backends -> BOOLEAN]
    BY <1>3, LoseTyped DEF Hydrate, FetchFailed, TypeOK, Backends
  <2>2. memory' \in Graph /\ loaded' \in BOOLEAN
    BY <1>3 DEF Hydrate, Hydrated, TypeOK
  <2>3. /\ pc' \in Pcs /\ request' \in Request
        /\ request'.kind = "none" <=> pc' \in {"down", "load", "hydrate", "idle"}
    BY <1>3 DEF Hydrate, TypeOK, Pcs, Request
  <2>4. QED
    BY <1>3, <2>1, <2>2, <2>3 DEF Hydrate, TypeOK, stores
<1>4. ASSUME NEW batch \in Batches, Ingest(batch) PROVE TypeOK'
  <2>1. batch \in Graph /\ Merge(memory, batch) \in Graph
    BY MergeTyped DEF TypeOK
  <2>2. promised' \in [Facts -> SUBSET Versions]
    BY <1>4, <2>1 DEF Ingest, TypeOK, Graph
  <2>3. QED
    BY <1>4, <2>1, <2>2 DEF Ingest, TypeOK, stores, flags, Pcs, Request
<1>5. CASE Rebuild
  <2>1. PICK g \in {Seed, Empty} :
             request' = [kind |-> "rebuild", facts |-> g, before |-> Empty]
    BY <1>5 DEF Rebuild
  <2>2. request' \in Request /\ request'.kind = "rebuild"
    BY <2>1 DEF Request
  <2>3. QED
    BY <1>5, <2>2 DEF Rebuild, TypeOK, stores, flags, Pcs
<1>6. CASE Reset
  BY <1>6 DEF Reset, TypeOK, flags, history, Pcs
<1>7. CASE Clear
  <2>1. available' \in [Backends -> BOOLEAN]
    BY <1>7, LoseTyped DEF Clear, TypeOK, Backends
  <2>2. request' \in Request /\ request'.kind = request.kind /\ points' \in Graph
    BY <1>7 DEF Clear, TypeOK, Request
  <2>3. QED
    BY <1>7, <2>1, <2>2 DEF Clear, TypeOK, history, Pcs
<1>8. CASE Save
  BY <1>8 DEF Save, TypeOK, flags, history, Pcs
<1>9. CASE SaveFails
  BY <1>9 DEF SaveFails, AfterError, Answered, Nothing, TypeOK, flags, history, Pcs
<1>10. CASE Nodes
  <2>1. available' \in [Backends -> BOOLEAN] /\ neo' \in Graph
    BY <1>10, LoseTyped, MergeTyped, OnlyTyped DEF Nodes, TypeOK, Backends
  <2>2. QED
    BY <1>10, <2>1 DEF Nodes, TypeOK, history, Pcs
<1>11. CASE NoNeo4j
  BY <1>11 DEF NoNeo4j, Degrade, TypeOK, stores, history, Pcs
<1>12. CASE Edges
  <2>1. available' \in [Backends -> BOOLEAN] /\ neo' \in Graph
    BY <1>12, LoseTyped, MergeTyped, OnlyTyped DEF Edges, TypeOK, Backends
  <2>2. reasons' \in BOOLEAN
    BY <1>12 DEF Edges, Degrade, TypeOK
  <2>3. QED
    BY <1>12, <2>1, <2>2 DEF Edges, TypeOK, history, Pcs
<1>13. CASE Vectors
  <2>1. available' \in [Backends -> BOOLEAN] /\ points' \in Graph
    BY <1>13, LoseTyped, MergeTyped, OnlyTyped DEF Vectors, TypeOK, Backends
  <2>2. reasons' \in BOOLEAN
    BY <1>13 DEF Vectors, Degrade, TypeOK
  <2>3. acked' \in Graph /\ shaken' \subseteq Facts
    BY <1>13, MergeTyped DEF Vectors, TypeOK
  <2>4. promised' \in [Facts -> SUBSET Versions]
    BY <1>13 DEF Vectors, Promise, TypeOK, Graph
  <2>5. QED
    BY <1>13, <2>1, <2>2, <2>3, <2>4 DEF Vectors, Answered, Nothing, TypeOK, Pcs
<1>14. CASE DryRun
  BY <1>14 DEF DryRun, TypeOK, flags, history
<1>15. CASE EnsureStorage
  BY <1>15 DEF EnsureStorage, TypeOK, stores, history
<1>16. ASSUME NEW b \in Backends, Probe(b) PROVE TypeOK'
  BY <1>16, LoseTyped DEF Probe, TypeOK, stores, history
<1>17. CASE Crash
  BY <1>17 DEF Crash, TypeOK, Nothing, Pcs
<1>18. CASE UNCHANGED vars
  BY <1>18 DEF vars, TypeOK, stores, flags, history
<1>19. QED
  BY <1>1, <1>2, <1>3, <1>4, <1>5, <1>6, <1>7, <1>8, <1>9, <1>10, <1>11, <1>12, <1>13,
     <1>14, <1>15, <1>16, <1>17, <1>18 DEF Next

LEMMA InitTyped == Init => TypeOK
<1> SUFFICES ASSUME Init PROVE TypeOK
  OBVIOUS
<1>1. request \in Request /\ request.kind = "none" /\ pc = "down"
  BY EmptyTyped DEF Init, Nothing
<1>2. QED
  BY <1>1, EmptyTyped DEF Init, TypeOK, Pcs

(* Type correctness.                                                       *)
THEOREM TypeCorrect == Spec => []TypeOK
BY InitTyped, TypeStep, PTL DEF Spec
-----------------------------------------------------------------------------
LEMMA EmptyIs == \A f \in Facts : Empty[f] = None
BY DEF Empty

LEMMA InitAck == Init => AckInv
BY EmptyIs DEF Init, AckInv, Nothing, Written, Ingesting, Facts

(* A step that writes no graph in a backend and acknowledges nothing.      *)
LEMMA AckStep ==
    ASSUME TypeOK, TypeOK', AckInv, [Next]_vars
    PROVE  AckInv'
<1> USE EmptyIs, EmptyTyped, RequestTyped DEF AckInv, Served, Written, Ingesting, Asked
<1>0. /\ Entities \subseteq Facts /\ "neo4j" \in Backends /\ "qdrant" \in Backends
      /\ request.kind = "none" <=> pc \in {"down", "load", "hydrate", "idle"}
  BY DEF Facts, Backends, TypeOK
<1>1. CASE Start
  BY <1>0, <1>1 DEF Start, stores, history
<1>2. CASE Load
  BY <1>0, <1>2 DEF Load, stores, flags
<1>3. CASE Hydrate
  BY <1>0, <1>3 DEF Hydrate, stores
<1>4. ASSUME NEW batch \in Batches, Ingest(batch) PROVE AckInv'
  <2>1. /\ request'.kind = "ingest" /\ pc = "idle" /\ pc' = "save"
        /\ acked' = acked /\ shaken' = shaken /\ neo' = neo /\ points' = points
        /\ reasons' = reasons
    BY <1>4 DEF Ingest, stores, flags
  <2>2. \A e \in Entities : /\ memory[e] # None => memory'[e] # None
                            /\ Asked(e)' => memory'[e] = request'.facts[e]
    BY <1>0, <1>4, MergeTyped, KnowledgeAssumption DEF Ingest, TypeOK
  <2>3. QED
    BY <1>0, <2>1, <2>2
<1>5. CASE Rebuild
  BY <1>0, <1>5 DEF Rebuild, stores, flags
<1>6. CASE Reset
  BY <1>0, <1>6 DEF Reset, flags, history
<1>7. CASE Clear
  BY <1>0, <1>7 DEF Clear, history, TypeOK, Request
<1>8. CASE Save
  BY <1>0, <1>8 DEF Save, flags, history
<1>9. CASE SaveFails
  BY <1>0, <1>9 DEF SaveFails, AfterError, Answered, Nothing, flags, history
<1>10. CASE Nodes
  <2>1. \A e \in Entities : Asked(e) => neo'[e] = request.facts[e] \/ ~available'["neo4j"]
    BY <1>0, <1>10, MergeTyped, OnlyTyped, LoseTyped DEF Nodes, TypeOK
  <2>2. \A e \in Entities : request.facts[e] = None => neo'[e] = neo[e]
    BY <1>0, <1>10, MergeTyped, OnlyTyped DEF Nodes, TypeOK
  <2>3. QED
    BY <1>0, <1>10, <2>1, <2>2 DEF Nodes, history
<1>11. CASE NoNeo4j
  BY <1>0, <1>11 DEF NoNeo4j, Degrade, stores, history
<1>12. CASE Edges
  <2>1. \A e \in Entities : neo'[e] = neo[e]
    BY <1>0, <1>12, MergeTyped, OnlyTyped, KnowledgeAssumption DEF Edges, Matched, TypeOK
  <2>2. reasons => reasons'
    BY <1>12 DEF Edges, Degrade
  <2>3. available'["neo4j"] => available["neo4j"]
    BY <1>0, <1>12, LoseTyped DEF Edges
  <2>4. Ingesting /\ ~available'["neo4j"] => reasons'
    BY <1>12 DEF Edges, Degrade
  <2>5. QED
    BY <1>0, <1>12, <2>1, <2>2, <2>3, <2>4 DEF Edges, history
<1>13. CASE Vectors
  <2>1. CASE ~Ingesting
    BY <1>0, <1>13, <2>1 DEF Vectors, Answered, Nothing
  <2>2. CASE Ingesting
    <3>1. \A e \in Entities : acked'[e] = IF Asked(e) THEN request.facts[e] ELSE acked[e]
      BY <1>0, <1>13, <2>2, MergeTyped DEF Vectors, TypeOK
    <3>2. \A e \in Entities : e \in shaken' <=> e \in shaken /\ ~Asked(e)
      BY <1>0, <1>13, <2>2 DEF Vectors
    <3>3. /\ reasons => reasons'
          /\ ~available'["qdrant"] => reasons'
      BY <1>13, <2>2 DEF Vectors, Degrade
    <3>4. available'["qdrant"] =>
              \A e \in Entities :
                 points'[e] = IF Asked(e) THEN request.facts[e] ELSE points[e]
      BY <1>0, <1>13, <2>2, MergeTyped, LoseTyped DEF Vectors, TypeOK
    <3>5. memory' = memory /\ neo' = neo /\ pc = "vectors" /\ pc' = "idle" /\ request' = Nothing
      BY <1>13 DEF Vectors, Answered
    <3>6. \A e \in Entities : Asked(e) => memory[e] # None
      BY <2>2
    <3>7. QED
      BY <1>0, <2>2, <3>1, <3>2, <3>3, <3>4, <3>5, <3>6 DEF Nothing
  <2>3. QED
    BY <2>1, <2>2
<1>14. CASE DryRun
  BY <1>0, <1>14 DEF DryRun, flags, history
<1>15. CASE EnsureStorage
  BY <1>0, <1>15 DEF EnsureStorage, stores, history, TypeOK
<1>16. ASSUME NEW b \in Backends, Probe(b) PROVE AckInv'
  BY <1>0, <1>16 DEF Probe, stores, history
<1>17. CASE Crash
  BY <1>0, <1>17 DEF Crash, Nothing
<1>18. CASE UNCHANGED vars
  BY <1>18 DEF vars, stores, flags, history
<1>19. QED
  BY <1>1, <1>2, <1>3, <1>4, <1>5, <1>6, <1>7, <1>8, <1>9, <1>10, <1>11, <1>12, <1>13,
     <1>14, <1>15, <1>16, <1>17, <1>18 DEF Next

(* While the process runs a fact that was acknowledged is served, and what *)
(* Neo4j or Qdrant lacks of it is reported.                                *)
THEOREM AckedIsServed == Spec => []AckedOrDegraded
<1>1. TypeOK /\ AckInv => AckedOrDegraded
  BY DEF TypeOK, AckInv, Served, AckedOrDegraded, degraded
<1>2. QED
  BY <1>1, InitTyped, InitAck, TypeStep, AckStep, PTL DEF Spec
-----------------------------------------------------------------------------
LEMMA InitPromise == Init => PromiseInv
BY EmptyTyped DEF Init, PromiseInv, Nothing, NoPromise, Facts, Asked, Ingesting

LEMMA PromiseStep ==
    ASSUME TypeOK, TypeOK', AckInv, PromiseInv, [Next]_vars
    PROVE  PromiseInv'
<1> USE EmptyIs, EmptyTyped, RequestTyped DEF PromiseInv, NoPromise, Ingesting, Asked
<1>0. /\ Entities \subseteq Facts /\ "neo4j" \in Backends
      /\ request.kind = "none" <=> pc \in {"down", "load", "hydrate", "idle"}
      /\ \A e \in Entities : None \notin promised[e]
  BY KnowledgeAssumption DEF Facts, Backends, TypeOK
<1>1. CASE Start
  BY <1>0, <1>1 DEF Start, stores, history
<1>2. CASE Load
  BY <1>0, <1>2 DEF Load, stores, flags
<1>3. CASE Hydrate
  <2>1. /\ neo' = neo /\ promised' = promised /\ blind' = blind
        /\ available'["neo4j"] => available["neo4j"]
        /\ loaded' => available["neo4j"] /\ memory' = Hydrated
        /\ available'["neo4j"] => loaded'
    BY <1>0, <1>3, LoseTyped DEF Hydrate, FetchFailed, stores
  <2>2. CASE memory' = Empty
    <3>1. loaded' => neo = Empty
      BY <2>1, <2>2 DEF Hydrated
    <3>2. loaded' /\ ~blind => NoPromise
      BY <1>0, <3>1
    <3>3. request'.kind = "startup" /\ pc' = "reset"
      BY <1>3, <2>2 DEF Hydrate
    <3>4. QED
      BY <1>0, <2>1, <2>2, <3>1, <3>2, <3>3
  <2>3. CASE memory' # Empty
    <3>1. pc' = "idle" /\ request' = request /\ request.kind = "none"
      BY <1>0, <1>3, <2>3 DEF Hydrate
    <3>2. ASSUME loaded', ~blind, NEW e \in Entities, promised[e] # {}
          PROVE  memory'[e] \in promised[e]
      BY <1>0, <2>1, <3>2 DEF Hydrated
    <3>3. QED
      BY <1>0, <2>1, <3>1, <3>2
  <2>4. QED
    BY <2>2, <2>3
<1>4. ASSUME NEW batch \in Batches, Ingest(batch) PROVE PromiseInv'
  <2>1. /\ request'.kind = "ingest" /\ request'.facts = batch /\ pc = "idle" /\ pc' = "save"
        /\ neo' = neo /\ loaded' = loaded /\ blind' = blind
    BY <1>4 DEF Ingest, stores
  <2>2. ASSUME NEW e \in Entities
        PROVE  /\ promised'[e] = IF batch[e] # None /\ promised[e] # {}
                                 THEN promised[e] \cup {batch[e]} ELSE promised[e]
               /\ memory'[e] = IF batch[e] # None THEN batch[e] ELSE memory[e]
    <3>1. batch \in Graph /\ memory \in Graph
      BY KnowledgeAssumption DEF TypeOK
    <3>2. memory'[e] = IF batch[e] # None THEN batch[e] ELSE memory[e]
      BY <1>0, <1>4, <3>1, MergeTyped DEF Ingest
    <3>3. QED
      BY <1>0, <1>4, <3>2 DEF Ingest
  <2>3. QED
    BY <1>0, <2>1, <2>2
<1>5. CASE Rebuild
  BY <1>0, <1>5 DEF Rebuild, stores, flags
<1>6. CASE Reset
  BY <1>0, <1>6 DEF Reset, flags, history, AckInv
<1>7. CASE Clear
  <2>1. request'.kind = request.kind /\ request'.facts = request.facts
    BY <1>7 DEF Clear, TypeOK, Request
  <2>2. available'["neo4j"] => available["neo4j"]
    BY <1>0, <1>7, LoseTyped DEF Clear, Backends
  <2>3. request.kind \in {"rebuild", "startup"}
    BY <1>0, <1>7 DEF Clear, AckInv
  <2>4. QED
    BY <1>0, <1>7, <2>1, <2>2, <2>3 DEF Clear, history
<1>8. CASE Save
  BY <1>0, <1>8 DEF Save, flags, history
<1>9. CASE SaveFails
  BY <1>0, <1>9 DEF SaveFails, AfterError, Answered, Nothing, flags, history
<1>10. CASE Nodes
  <2>1. \A e \in Entities : neo'[e] \in {neo[e], request.facts[e]}
                         /\ (request.facts[e] = None => neo'[e] = neo[e])
    BY <1>0, <1>10, MergeTyped, OnlyTyped DEF Nodes, TypeOK
  <2>2. available'["neo4j"] => available["neo4j"]
    BY <1>0, <1>10, LoseTyped DEF Nodes
  <2>3. QED
    BY <1>0, <1>10, <2>1, <2>2 DEF Nodes, history
<1>11. CASE NoNeo4j
  BY <1>0, <1>11 DEF NoNeo4j, stores, history
<1>12. CASE Edges
  <2>1. \A e \in Entities : neo'[e] = neo[e]
    BY <1>0, <1>12, MergeTyped, OnlyTyped, KnowledgeAssumption DEF Edges, Matched, TypeOK
  <2>2. available'["neo4j"] => available["neo4j"]
    BY <1>0, <1>12, LoseTyped DEF Edges
  <2>3. QED
    BY <1>0, <1>12, <2>1, <2>2 DEF Edges, history
<1>13. CASE Vectors
  <2>1. /\ memory' = memory /\ neo' = neo /\ loaded' = loaded /\ blind' = blind
        /\ pc = "vectors" /\ pc' = "idle" /\ request' = Nothing
    BY <1>13 DEF Vectors, Answered
  <2>2. CASE ~Ingesting
    BY <1>0, <1>13, <2>1, <2>2 DEF Vectors, Nothing
  <2>3. CASE Ingesting
    <3>1. \A e \in Entities :
             promised'[e] = IF available["neo4j"] /\ Asked(e) THEN {request.facts[e]}
                                                             ELSE promised[e]
      BY <1>0, <1>13, <2>3 DEF Vectors, Promise
    <3>2. \A e \in Entities : Asked(e) => /\ memory[e] = request.facts[e]
                                          /\ available["neo4j"] => neo[e] = request.facts[e]
      BY <2>1, <2>3 DEF AckInv, Written
    <3>3. QED
      BY <1>0, <2>1, <2>3, <3>1, <3>2 DEF Nothing
  <2>4. QED
    BY <2>2, <2>3
<1>14. CASE DryRun
  BY <1>0, <1>14 DEF DryRun, flags, history
<1>15. CASE EnsureStorage
  BY <1>0, <1>15 DEF EnsureStorage, stores, history
<1>16. ASSUME NEW b \in Backends, Probe(b) PROVE PromiseInv'
  BY <1>0, <1>16 DEF Probe, stores, history
<1>17. CASE Crash
  BY <1>0, <1>17 DEF Crash, Nothing
<1>18. CASE UNCHANGED vars
  BY <1>18 DEF vars, stores, flags, history
<1>19. QED
  BY <1>1, <1>2, <1>3, <1>4, <1>5, <1>6, <1>7, <1>8, <1>9, <1>10, <1>11, <1>12, <1>13,
     <1>14, <1>15, <1>16, <1>17, <1>18 DEF Next

(* What Neo4j took is served again after every crash and outage.           *)
THEOREM PromiseHolds == Spec => []PromiseKept
<1>1. TypeOK /\ PromiseInv => PromiseKept
  BY DEF PromiseInv, PromiseKept
<1>2. QED
  BY <1>1, InitTyped, InitAck, InitPromise, TypeStep, AckStep, PromiseStep, PTL DEF Spec

(* Only a start that could not read graph.json empties a graph in Neo4j.   *)
THEOREM StartSpares == Spec => WipedOnlyBlind
<1>1. ASSUME TypeOK, TypeOK', PromiseInv, [Next]_vars,
             request.kind = "startup", neo # Empty, neo' = Empty
      PROVE  file = Torn
  <2> USE RequestTyped, EmptyTyped, EmptyIs
  <2>1. PICK f \in Facts : neo[f] # None
    BY <1>1 DEF TypeOK, Graph, Empty
  <2>2. pc \notin {"down", "load", "hydrate", "idle"}
    BY <1>1 DEF TypeOK
  <2>3. CASE Reset
    BY <1>1, <2>3 DEF Reset, PromiseInv
  <2>4. CASE Nodes
    <3>1. neo'[f] # None
      BY <1>1, <2>1, <2>4, MergeTyped, OnlyTyped DEF Nodes, TypeOK
    <3>2. QED
      BY <1>1, <2>1, <3>1
  <2>5. CASE Edges
    <3>1. PICK R : neo' = Merge(neo, Only(request.facts, R))
      BY <2>5 DEF Edges
    <3>2. neo'[f] # None
      BY <1>1, <2>1, <3>1, MergeTyped, OnlyTyped DEF TypeOK
    <3>3. QED
      BY <1>1, <2>1, <3>2
  <2>6. QED
    BY <1>1, <2>2, <2>3, <2>4, <2>5 DEF Next, vars, stores, Start, Load, Hydrate, Ingest,
       Rebuild, Clear, Save, SaveFails, NoNeo4j, Vectors, DryRun, EnsureStorage, Probe, Crash
<1>2. TypeOK /\ TypeOK' /\ PromiseInv /\ [Next]_vars =>
        [request.kind = "startup" /\ neo # Empty /\ neo' = Empty => file = Torn]_vars
  BY <1>1
<1>3. QED
  BY <1>2, InitTyped, InitAck, InitPromise, TypeStep, AckStep, PromiseStep, PTL
  DEF Spec, WipedOnlyBlind
=============================================================================
