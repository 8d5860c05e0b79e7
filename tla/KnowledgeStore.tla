--------------------------- MODULE KnowledgeStore ---------------------------
(***************************************************************************)
(* The production store of the knowledge service: a graph in memory that   *)
(* answers every query, graph.json, Neo4j and Qdrant.  Code: app.py,       *)
(* store.py and backends/ of apps/knowledge-service.                       *)
(*                                                                         *)
(* Handlers are synchronous in one event loop: requests do not interleave. *)
(* But an action is one call to the disk or a backend, any such call may   *)
(* fail, after its effect or before, and the process may die between and   *)
(* within them.  There are no bounds: every fault may come at any time.    *)
(* Scores, superseded versions, observations and metrics are left out.     *)
(***************************************************************************)

CONSTANTS Entities, Relations,
          Ends,       \* the two entities of a relation
          Versions,   \* contents of a fact: a new one supersedes the old
          None,       \* no such fact
          Seed,       \* the graph of build_seed_ingest
          Batches,    \* what the API sends to /knowledge/ingest...
          Torn        \* graph.json cut short: json.loads raises

Facts == Entities \cup Relations
Graph == [Facts -> Versions \cup {None}]
Empty == [f \in Facts |-> None]

ASSUME KnowledgeAssumption ==
    /\ None \notin Versions /\ Torn \notin Graph
    /\ Entities \cap Relations = {}
    /\ Ends \in [Relations -> SUBSET Entities]
    /\ Seed \in Graph /\ Seed # Empty
    /\ Batches \subseteq Graph

Backends == {"neo4j", "qdrant"}

VARIABLES
    memory,    \* local.entities and local.relations
    file,      \* graph.json; a missing file is an empty graph
    neo,       \* the nodes and relationships of Neo4j
    points,    \* the points of Qdrant
    available, \* the adapters' flags
    reasons,   \* degraded_reasons is not empty
    pc,        \* where the process is
    request,   \* the request it serves
    acked,     \* history: facts this process acknowledged since a rebuild
    shaken,    \* history: those of them a rebuild that failed came after
    promised,  \* history: versions of a fact Neo4j may hold after it took one
    loaded,    \* history: this process has loaded Neo4j's graph
    blind      \* history: a start could not read graph.json

stores == <<file, neo, points>>
flags == <<available, reasons>>
history == <<acked, shaken, promised, loaded, blind>>
vars == <<memory, stores, flags, pc, request, history>>
-----------------------------------------------------------------------------
Merge(g, batch) == [f \in Facts |-> IF batch[f] # None THEN batch[f] ELSE g[f]]
Only(batch, F) == [f \in Facts |-> IF f \in F THEN batch[f] ELSE None]

Request == [kind : {"none", "ingest", "rebuild", "startup"}, facts : Graph, before : Graph]
Nothing == [kind |-> "none", facts |-> Empty, before |-> Empty]

Pcs == {"down", "load", "hydrate", "idle", "reset", "clear", "save", "resave",
        "nodes", "edges", "vectors"}

TypeOK ==
    /\ memory \in Graph /\ neo \in Graph /\ points \in Graph
    /\ file \in Graph \cup {Torn}
    /\ available \in [Backends -> BOOLEAN] /\ reasons \in BOOLEAN
    /\ pc \in Pcs /\ request \in Request
    /\ request.kind = "none" <=> pc \in {"down", "load", "hydrate", "idle"}
    /\ acked \in Graph /\ shaken \subseteq Facts
    /\ promised \in [Facts -> SUBSET Versions]
    /\ loaded \in BOOLEAN /\ blind \in BOOLEAN

(* ProductionKnowledgeStore.degraded                                       *)
degraded == reasons \/ \E b \in Backends : ~available[b]

Init ==
    /\ memory = Empty /\ file = Empty /\ neo = Empty /\ points = Empty
    /\ available = [b \in Backends |-> FALSE] /\ reasons = FALSE
    /\ pc = "down" /\ request = Nothing
    /\ acked = Empty /\ shaken = {} /\ promised = [f \in Facts |-> {}]
    /\ loaded = FALSE /\ blind = FALSE

Lose(b) == available' = [available EXCEPT ![b] = FALSE]
-----------------------------------------------------------------------------
(* The process starts: connect, then ensure_schema and ensure_collection;  *)
(* a failure of the latter two gives no reason.                            *)
Start ==
    /\ pc = "down" /\ pc' = "load"
    /\ available' \in [Backends -> BOOLEAN]
    /\ reasons' \in {FALSE, \E b \in Backends : ~available'[b]}
    /\ UNCHANGED <<memory, stores, request, history>>

(* local.load; what it raises ends store.load before Neo4j is asked, and   *)
(* lifespan goes on with an empty graph.                                   *)
Load ==
    /\ pc = "load"
    /\ IF file = Torn THEN memory' = memory /\ pc' = "reset" /\ blind' = TRUE
                      ELSE memory' = file /\ pc' = "hydrate" /\ UNCHANGED blind
    /\ request' = IF file = Torn
                  THEN [kind |-> "startup", facts |-> Seed, before |-> Empty] ELSE request
    /\ UNCHANGED <<stores, flags, acked, shaken, promised, loaded>>

(* fetch_all catches its errors itself.  (Mutant: leaves the flag alone.)  *)
FetchFailedMutant == UNCHANGED available
FetchFailed == Lose("neo4j")

(* A graph in Neo4j replaces the file's.  (Mutant: the other way round.)   *)
HydratedMutant == IF memory = Empty THEN neo ELSE memory
Hydrated == IF neo # Empty THEN neo ELSE memory

(* The rest of load, and needs_seed of lifespan.                           *)
Hydrate ==
    /\ pc = "hydrate"
    /\ \/ available["neo4j"] /\ memory' = Hydrated /\ loaded' = TRUE /\ UNCHANGED available
       \/ available["neo4j"] /\ FetchFailed /\ UNCHANGED <<memory, loaded>>
       \/ ~available["neo4j"] /\ UNCHANGED <<memory, loaded, available>>
    /\ IF memory' = Empty
       THEN /\ pc' = "reset"
            /\ request' = [kind |-> "startup", facts |-> Seed, before |-> Empty]
       ELSE pc' = "idle" /\ UNCHANGED request
    /\ UNCHANGED <<stores, reasons, acked, shaken, promised, blind>>
-----------------------------------------------------------------------------
(* local.ingest: the request's facts replace those in memory, then save.   *)
Ingest(batch) ==
    /\ pc = "idle" /\ pc' = "save"
    /\ memory' = Merge(memory, batch)
    /\ request' = [kind |-> "ingest", facts |-> batch, before |-> Empty]
    /\ promised' = [f \in Facts |-> IF batch[f] # None /\ promised[f] # {}
                                    THEN promised[f] \cup {batch[f]} ELSE promised[f]]
    /\ UNCHANGED <<stores, flags, acked, shaken, loaded, blind>>

(* A rebuild asked for by an operator, with the seed or without.           *)
Rebuild ==
    /\ pc = "idle" /\ pc' = "reset"
    /\ \E g \in {Seed, Empty} :
           request' = [kind |-> "rebuild", facts |-> g, before |-> Empty]
    /\ shaken' = Facts /\ promised' = [f \in Facts |-> {}] /\ blind' = FALSE
    /\ UNCHANGED <<memory, stores, flags, acked, loaded>>

(* Neo4jAdapter.reset notes an error and leaves the flag.                  *)
Reset ==
    /\ pc = "reset" /\ pc' = "clear"
    /\ neo' \in IF available["neo4j"] THEN {neo, Empty} ELSE {neo}
    /\ UNCHANGED <<memory, file, points, flags, request, history>>

(* QdrantAdapter.reset, then local.rebuild up to its first save.           *)
Clear ==
    /\ pc = "clear"
    /\ IF available["qdrant"]
       THEN /\ points' \in {points, Empty}
            /\ UNCHANGED available \/ Lose("qdrant")
       ELSE UNCHANGED <<points, available>>
    /\ memory' = request.facts
    /\ request' = [request EXCEPT !.before = memory]
    /\ pc' = IF request.facts = Empty THEN "resave" ELSE "save"
    /\ UNCHANGED <<file, neo, reasons, history>>

(* The request is over, well or not.                                       *)
Answered == request' = Nothing

(* What an error of save leaves in memory: local.rebuild restores its copy.*)
(* (Mutant: it does not.)                                                  *)
AfterErrorMutant == memory
AfterError == IF request.kind = "ingest" THEN memory ELSE request.before

(* write_text opens graph.json, which empties it, and then writes.         *)
(* local.rebuild saves after its ingest of the seed and again at its end.  *)
Save ==
    /\ pc \in {"save", "resave"}
    /\ file' = memory /\ UNCHANGED memory
    /\ pc' = IF pc = "save" /\ request.kind # "ingest" THEN "resave" ELSE "nodes"
    /\ UNCHANGED <<neo, points, flags, request, history>>

SaveFails ==
    /\ pc \in {"save", "resave"} /\ pc' = "idle"
    /\ file' \in {file, Torn} /\ memory' = AfterError
    /\ Answered
    /\ UNCHANGED <<neo, points, flags, history>>
-----------------------------------------------------------------------------
(* _degrade, which nothing but a restart takes back; only ingest calls it. *)
(* (Mutant: it is not called.)                                             *)
DegradeMutant(unavailable) == UNCHANGED reasons
Degrade(unavailable) == reasons' = (reasons \/ (request.kind = "ingest" /\ unavailable))

(* upsert_entities: one statement.                                         *)
Nodes ==
    /\ pc = "nodes" /\ available["neo4j"] /\ pc' = "edges"
    /\ \/ neo' = Merge(neo, Only(request.facts, Entities)) /\ UNCHANGED available
       \/ neo' \in {neo, Merge(neo, Only(request.facts, Entities))} /\ Lose("neo4j")
    /\ UNCHANGED <<memory, file, points, reasons, request, history>>

NoNeo4j ==
    /\ pc = "nodes" /\ ~available["neo4j"] /\ pc' = "vectors"
    /\ Degrade(TRUE)
    /\ UNCHANGED <<memory, stores, available, request, history>>

(* upsert_relations: one statement per type, tried even when the entities  *)
(* failed; MATCH passes over a relation without its ends.                  *)
Matched == {r \in Relations : \A e \in Ends[r] : neo[e] # None}

Edges ==
    /\ pc = "edges" /\ pc' = "vectors"
    /\ \/ neo' = Merge(neo, Only(request.facts, Matched)) /\ UNCHANGED available
       \/ \E R \in SUBSET Matched : neo' = Merge(neo, Only(request.facts, R)) /\ Lose("neo4j")
    /\ Degrade(~available'["neo4j"])
    /\ UNCHANGED <<memory, file, points, request, history>>

(* The versions Neo4j may hold once the request has been answered.         *)
Promise(f) ==
    IF available["neo4j"] /\ request.facts[f] # None THEN {request.facts[f]} ELSE promised[f]

(* Qdrant's two upserts, the second tried in any case, and the response.   *)
Vectors ==
    /\ pc = "vectors" /\ pc' = "idle"
    /\ \/ ~available["qdrant"] /\ UNCHANGED <<points, available>>
       \/ available["qdrant"] /\ points' = Merge(points, request.facts) /\ UNCHANGED available
       \/ available["qdrant"] /\ Lose("qdrant")
          /\ \E F \in {{}, Entities, Relations, Facts} : points' = Merge(points, Only(request.facts, F))
    /\ Degrade(~available'["qdrant"])
    /\ Answered
    /\ IF request.kind = "ingest"
       THEN /\ acked' = Merge(acked, request.facts)
            /\ shaken' = {f \in shaken : request.facts[f] = None}
            /\ promised' = [f \in Facts |-> IF f \in Entities THEN Promise(f) ELSE {}]
       ELSE acked' = Empty /\ shaken' = {} /\ UNCHANGED promised
    /\ UNCHANGED <<memory, file, neo, loaded, blind>>
-----------------------------------------------------------------------------
(* A dry run ingests the seed into a store of its own, which has the same  *)
(* graph.json and saves to it.                                             *)
DryRun ==
    /\ pc = "idle"
    /\ file' \in {Seed, file, Torn}
    /\ UNCHANGED <<memory, neo, points, flags, pc, request, history>>

(* ensure_storage connects where a flag is down.  It loads nothing.        *)
EnsureStorage ==
    /\ pc = "idle"
    /\ available' \in [Backends -> BOOLEAN]
    /\ reasons' \in {reasons, reasons \/ \E b \in Backends : ~available[b] /\ ~available'[b]}
    /\ UNCHANGED <<memory, stores, pc, request, history>>

(* A search in Qdrant or the counts of a backend find it gone.             *)
Probe(b) ==
    /\ pc = "idle" /\ available[b] /\ Lose(b)
    /\ UNCHANGED <<memory, stores, reasons, pc, request, history>>

(* The process dies, in the middle of write_text or elsewhere.             *)
Crash ==
    /\ pc # "down" /\ pc' = "down"
    /\ file' \in IF pc \in {"save", "resave"} THEN {file, Torn} ELSE {file}
    /\ memory' = Empty /\ request' = Nothing
    /\ acked' = Empty /\ shaken' = {} /\ loaded' = FALSE
    /\ available' = [b \in Backends |-> FALSE] /\ reasons' = FALSE
    /\ UNCHANGED <<neo, points, promised, blind>>

Next ==
    \/ Start \/ Load \/ Hydrate
    \/ \E batch \in Batches : Ingest(batch)
    \/ Rebuild \/ Reset \/ Clear \/ Save \/ SaveFails
    \/ Nodes \/ NoNeo4j \/ Edges \/ Vectors
    \/ DryRun \/ EnsureStorage \/ (\E b \in Backends : Probe(b)) \/ Crash

Spec == Init /\ [][Next]_vars
-----------------------------------------------------------------------------
(* What an ingest acknowledged is served from memory until a rebuild       *)
(* succeeds, and stands in Neo4j and Qdrant in the version acknowledged    *)
(* last, or else the store says that it is degraded: whichever calls       *)
(* failed and came back since, and although a retry finds the fact already *)
(* in memory.  A failed rebuild spares memory alone: see shaken.           *)
AckedOrDegraded ==
    pc = "idle" => \A e \in Entities : acked[e] # None =>
        /\ memory[e] # None
        /\ degraded \/ e \in shaken \/ (neo[e] = acked[e] /\ points[e] = acked[e])

(* A start empties a graph in Neo4j only if graph.json is unreadable: never*)
(* because Neo4j did not answer, or because the file was empty.            *)
WipedOnlyBlind ==
    [][request.kind = "startup" /\ neo # Empty /\ neo' = Empty => file = Torn]_vars

(* An entity that Neo4j took when it was acknowledged is served by every   *)
(* process that has loaded Neo4j's graph, over all crashes and outages, in *)
(* that version or one sent later, until an operator rebuilds: unless some *)
(* start was blind, which empties Neo4j although production_store.py calls *)
(* it the durable store.                                                   *)
PromiseKept ==
    pc = "idle" /\ loaded /\ ~blind =>
        \A e \in Entities : promised[e] # {} => memory[e] \in promised[e]
=============================================================================
