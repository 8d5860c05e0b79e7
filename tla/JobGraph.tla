------------------------------ MODULE JobGraph ------------------------------
(***************************************************************************)
(* What the refresh registry of the API promises about a run of jobs that  *)
(* need each other, without its plan, its preflight or its callers: jobs   *)
(* are taken in any order their needs allow.  DailyRefresh, with the loop  *)
(* of runAll, implements it.                                               *)
(***************************************************************************)
CONSTANTS
    Runs,   \* runs at a time
    Jobs,   \* the jobs of the registry
    Needs,  \* the jobs a job depends on, directly or not
    Raced   \* the jobs that may be given up while they work

VARIABLES
    enabled, \* jobs the configuration enables
    phase,   \* where each run is
    result,  \* of each job in each run
    left     \* jobs a run has given up that still work

graphVars == <<enabled, phase, result, left>>

NoResult == [j \in Jobs |-> "none"]

Fresh ==
    /\ phase = [r \in Runs |-> "free"]
    /\ result = [r \in Runs |-> NoResult]
    /\ left = [r \in Runs |-> {}]

GraphInit == enabled \subseteq Jobs /\ Fresh

Open(r) ==
    /\ phase[r] = "free"
    /\ phase' = [phase EXCEPT ![r] = "on"]
    /\ UNCHANGED <<result, left>>

(* A job gets a result once in a run.                                      *)
Pending(r) == {j \in Jobs : phase[r] = "on" /\ result[r][j] = "none"}
Settled(r, j, v) == result' = [result EXCEPT ![r][j] = v] /\ UNCHANGED phase

(* It works when it is enabled and all it needs has been done in this run, *)
Ready(r, j) == j \in enabled /\ \A d \in Needs[j] : result[r][d] = "ok"

Work(r, j) ==
    /\ Ready(r, j)
    /\ \E v \in {"ok", "failed"} : Settled(r, j, v)
    /\ UNCHANGED left

(* and is answered for as failed when it is given up while it works.       *)
GiveUp(r, j) ==
    /\ Ready(r, j) /\ j \in Raced
    /\ Settled(r, j, "failed")
    /\ left' = [left EXCEPT ![r] = @ \cup {j}]

WorkEnds(r, j) ==
    /\ left' = [left EXCEPT ![r] = @ \ {j}]
    /\ UNCHANGED <<phase, result>>

(* It is barred for a reason only.                                         *)
Bar(r, j) ==
    /\ j \notin enabled \/ \E d \in Needs[j] : result[r][d] \in {"failed", "barred"}
    /\ Settled(r, j, "barred")
    /\ UNCHANGED left

(* The answer comes when no job is left without a result, and is ok when   *)
(* none has failed.                                                        *)
Close(r) ==
    /\ phase[r] = "on" /\ \A j \in Jobs : result[r][j] # "none"
    /\ phase' = [phase EXCEPT ![r] = IF \E j \in Jobs : result[r][j] = "failed"
                                     THEN "failed" ELSE "ok"]
    /\ result' = [result EXCEPT ![r] = NoResult]
    /\ UNCHANGED left

(* A run is forgotten once nothing of it works any more.                   *)
Forget(r) ==
    /\ phase[r] \in {"ok", "failed"} /\ left[r] = {}
    /\ phase' = [phase EXCEPT ![r] = "free"]
    /\ UNCHANGED <<result, left>>

(* The process that holds the runs dies.                                   *)
Lose == Fresh'

RunStep(r) ==
    \/ Open(r) \/ Close(r) \/ Forget(r)
    \/ \E j \in Pending(r) : Work(r, j) \/ GiveUp(r, j) \/ Bar(r, j)
    \/ \E j \in left[r] : WorkEnds(r, j)

GraphNext ==
    /\ UNCHANGED enabled
    /\ (\E r \in Runs : RunStep(r)) \/ Lose

GraphSpec == GraphInit /\ [][GraphNext]_graphVars
=============================================================================
