---------------------------- MODULE ExternalSync ----------------------------
(***************************************************************************)
(* The synchronisation of the external investments (IBKR, Binance) by the  *)
(* worker: jobs popped from a Redis list, a claim that makes a request     *)
(* sync a connection once, a run record, a lock per connection, and the    *)
(* connection's status.  Code: external-investments-sync.ts, the           *)
(* repository of packages/external-investments, consumeJobs of index.ts.   *)
(*                                                                         *)
(* An action is one call to Redis, PostgreSQL or the provider.  Providers  *)
(* are enabled and have credentials; what is imported, the health counters,*)
(* the advisor bundle and what a status says while no sync runs are left   *)
(* out.                                                                    *)
(***************************************************************************)
EXTENDS Naturals, Sequences

CONSTANTS Workers,
          Connections, \* one per provider, made from the environment
          Requests,    \* request ids that may come more than once
          None,        \* any other request id; no worker, no connection
          Jobs,        \* jobs that are pushed
          MaxQueue,    \* bound: length of the list
          MaxRuns,     \* bound: run records of one request that are counted
          MaxFaults    \* bound: calls that fail and workers that die

Job == [req : Requests \cup {None}, todo : Seq(Connections)]

ASSUME ExternalAssumption ==
    /\ None \notin Workers /\ None \notin Connections /\ None \notin Requests
    /\ \A j \in Jobs : j \in Job /\ j.todo # <<>>
    /\ MaxQueue \in Nat /\ MaxRuns \in Nat \ {0} /\ MaxFaults \in Nat

VARIABLES
    status,  \* external_investment_connection.status; "settled" stands for
             \* 'configured', 'connected', 'degraded' and 'error'
    runs,    \* run records with the request's id and the connection's
    claimed, \* external-sync:<request>:<connection> in Redis
    lock,    \* external-investments:lock:connection:<id> in Redis
    queue,   \* external-investments:jobs
    wk,      \* the workers
    cut,     \* history: claims whose request stopped before its run record
    faults

tables == <<status, runs>>
redis == <<claimed, lock, queue>>
bounds == <<cut, faults>>
vars == <<tables, redis, wk, bounds>>
-----------------------------------------------------------------------------
Pairs == Requests \X Connections

LockedPcs == {"mark", "sync", "settle", "finish", "failState", "failRun"}
Pcs == {"idle", "ensure", "claim", "find", "create", "lock"} \cup LockedPcs

(* `won` is the answer to the worker's claim.                              *)
Worker == [pc : Pcs, req : Requests \cup {None}, todo : Seq(Connections), won : BOOLEAN]

TypeOK ==
    /\ status \in [Connections -> {"settled", "syncing"}]
    /\ runs \in [Pairs -> 0..MaxRuns]
    /\ claimed \subseteq Pairs /\ cut \subseteq Pairs
    /\ lock \in [Connections -> Workers \cup {None}]
    /\ queue \in Seq(Jobs) /\ Len(queue) <= MaxQueue
    /\ wk \in [Workers -> Worker]
    /\ \A w \in Workers : wk[w].todo = <<>> => wk[w].pc = "idle"
    /\ faults \in 0..MaxFaults

Idle == [pc |-> "idle", req |-> None, todo |-> <<>>, won |-> FALSE]

Init ==
    /\ status = [c \in Connections |-> "settled"]
    /\ runs = [p \in Pairs |-> 0]
    /\ claimed = {} /\ cut = {}
    /\ lock = [c \in Connections |-> None]
    /\ queue = <<>>
    /\ wk = [w \in Workers |-> Idle]
    /\ faults = 0

At(w, p) == wk[w].pc = p
Conn(w) == Head(wk[w].todo)
Pair(w) == <<wk[w].req, Conn(w)>>
Goto(w, p) == wk' = [wk EXCEPT ![w].pc = p]
Fault == faults < MaxFaults /\ faults' = faults + 1

(* handleJob goes on with the next provider, or is done.                   *)
Continue(w) ==
    wk' = [wk EXCEPT ![w] = IF Len(wk[w].todo) = 1 THEN Idle
                            ELSE [pc |-> "ensure", req |-> wk[w].req,
                                  todo |-> Tail(wk[w].todo), won |-> FALSE]]
-----------------------------------------------------------------------------
Push(j) ==
    /\ Len(queue) < MaxQueue
    /\ queue' = Append(queue, j)
    /\ UNCHANGED <<tables, claimed, lock, wk, bounds>>

(* BLPOP of consumeJobs: from here on the job is nowhere but in the worker.*)
Pop(w) ==
    /\ At(w, "idle") /\ queue # <<>>
    /\ wk' = [wk EXCEPT ![w] = [pc |-> "ensure", req |-> Head(queue).req,
                                todo |-> Head(queue).todo, won |-> FALSE]]
    /\ queue' = Tail(queue)
    /\ UNCHANGED <<tables, claimed, lock, bounds>>

(* ensureConnection: the upsert, duplicate or not, before anything else,   *)
(* writes 'configured' unless a sync is on.                                *)
Ensured(s) == IF s = "syncing" THEN "syncing" ELSE "settled"

Ensure(w) ==
    /\ At(w, "ensure")
    /\ status' = [status EXCEPT ![Conn(w)] = Ensured(@)]
    /\ Goto(w, IF wk[w].req = None THEN "create" ELSE "claim")
    /\ UNCHANGED <<runs, redis, bounds>>

(* SET external-sync:... NX EX 6h                                          *)
Claim(w) ==
    /\ At(w, "claim")
    /\ claimed' = claimed \cup {Pair(w)}
    /\ wk' = [wk EXCEPT ![w].pc = "find", ![w].won = Pair(w) \notin claimed]
    /\ UNCHANGED <<tables, lock, queue, bounds>>

(* findSyncRunForRequestConnection; a duplicate is skipped.  (Mutants: the *)
(* claim does not count; the run record does not.)                         *)
DuplicateMutant(w) == runs[Pair(w)] > 0
ForgetfulMutant(w) == ~wk[w].won
Duplicate(w) == ~wk[w].won \/ runs[Pair(w)] > 0

Find(w) ==
    /\ At(w, "find")
    /\ IF Duplicate(w) THEN Continue(w) ELSE wk' = [wk EXCEPT ![w].pc = "create", ![w].won = FALSE]
    /\ UNCHANGED <<tables, redis, bounds>>

(* The claim's six hours.  Its worker has made its run record or stopped:  *)
(* nothing before the record takes hours.                                  *)
ClaimExpires(p) ==
    /\ p \in claimed
    /\ \A w \in Workers : wk[w].pc \in {"find", "create"} => Pair(w) # p
    /\ claimed' = claimed \ {p}
    /\ cut' = cut \ {p}
    /\ UNCHANGED <<tables, lock, queue, wk, faults>>

OneMoreRun(w) ==
    [p \in Pairs |-> IF p = Pair(w) /\ runs[p] < MaxRuns THEN runs[p] + 1 ELSE runs[p]]

(* createSyncRun.  (Mutant: only if the connection is not locked.)         *)
CreateRunMutant(w) ==
    /\ At(w, "create")
    /\ IF lock[Conn(w)] = None THEN runs' = OneMoreRun(w) /\ Goto(w, "lock")
                               ELSE UNCHANGED runs /\ Continue(w)
    /\ UNCHANGED <<status, redis, bounds>>
CreateRun(w) ==
    /\ At(w, "create")
    /\ runs' = OneMoreRun(w)
    /\ Goto(w, "lock")
    /\ UNCHANGED <<status, redis, bounds>>

Acquire(w) ==
    /\ At(w, "lock")
    /\ lock[Conn(w)] = None
    /\ lock' = [lock EXCEPT ![Conn(w)] = w]
    /\ Goto(w, "mark")
    /\ UNCHANGED <<tables, claimed, queue, bounds>>

(* finishSyncRun 'skipped', and the health row.                            *)
Locked(w) ==
    /\ At(w, "lock")
    /\ lock[Conn(w)] # None
    /\ Continue(w)
    /\ UNCHANGED <<tables, redis, bounds>>

(* The 15 minutes of the lock; its AbortSignal fires.                      *)
LockExpires(c) ==
    /\ lock[c] # None
    /\ lock' = [lock EXCEPT ![c] = None]
    /\ UNCHANGED <<tables, claimed, queue, wk, bounds>>
-----------------------------------------------------------------------------
Mark(w) ==
    /\ At(w, "mark")
    /\ status' = [status EXCEPT ![Conn(w)] = "syncing"]
    /\ Goto(w, "sync")
    /\ UNCHANGED <<runs, redis, bounds>>

(* The snapshot of a query is stored, and the status with it: IBKR has     *)
(* several queries, and one that succeeds is enough.                       *)
Store(w) ==
    /\ At(w, "sync") \/ At(w, "settle")
    /\ status' = [status EXCEPT ![Conn(w)] = "settled"]
    /\ Goto(w, "settle")
    /\ UNCHANGED <<runs, redis, bounds>>

(* PROVIDER_NO_ACTIVITY: nothing to import is a success.                   *)
NoActivity(w) ==
    /\ At(w, "sync")
    /\ Goto(w, "settle")
    /\ UNCHANGED <<tables, redis, bounds>>

(* Every query failed, by itself or because the lease has ended.           *)
SyncFails(w) ==
    /\ At(w, "sync")
    /\ Goto(w, "failState")
    /\ UNCHANGED <<tables, redis, bounds>>

(* updateConnectionSyncState at the end of a sync.  (Mutant: not for a     *)
(* clean one, as the comment there remembers.)                             *)
SettleMutant(w) ==
    /\ At(w, "settle")
    /\ Goto(w, "finish")
    /\ UNCHANGED <<tables, redis, bounds>>
Settle(w) ==
    /\ At(w, "settle")
    /\ status' = [status EXCEPT ![Conn(w)] = "settled"]
    /\ Goto(w, "finish")
    /\ UNCHANGED <<runs, redis, bounds>>

(* The catch block: updateConnectionSyncState first.                       *)
FailState(w) ==
    /\ At(w, "failState")
    /\ status' = [status EXCEPT ![Conn(w)] = "settled"]
    /\ Goto(w, "failRun")
    /\ UNCHANGED <<runs, redis, bounds>>

(* The finally block: compare and delete.  (Mutant: the key is deleted     *)
(* whoever owns it.)                                                       *)
UnlockedMutant(w) == [lock EXCEPT ![Conn(w)] = None]
Unlocked(w) == IF lock[Conn(w)] = w THEN [lock EXCEPT ![Conn(w)] = None] ELSE lock

(* finishSyncRun, the health row, and the finally block, whose delete may  *)
(* be answered 'error' and never throws; a failure has been handled, and   *)
(* the job goes on.  (Mutant: a failed provider ends the job.)             *)
LeaveMutant(w) ==
    /\ wk[w].pc \in {"finish", "failRun"}
    /\ \/ lock' = Unlocked(w) /\ UNCHANGED faults
       \/ Fault /\ UNCHANGED lock
    /\ IF At(w, "finish") THEN Continue(w) ELSE wk' = [wk EXCEPT ![w] = Idle]
    /\ UNCHANGED <<tables, claimed, queue, cut>>
Leave(w) ==
    /\ wk[w].pc \in {"finish", "failRun"}
    /\ \/ lock' = Unlocked(w) /\ UNCHANGED faults
       \/ Fault /\ UNCHANGED lock
    /\ Continue(w)
    /\ UNCHANGED <<tables, claimed, queue, cut>>
-----------------------------------------------------------------------------
Claimed(w) == At(w, "create") \/ (At(w, "find") /\ wk[w].won)

(* A worker that is entitled to make the run record of a request.          *)
Claimant(w) == wk[w].req # None /\ Claimed(w)
CutBy(w) == IF Claimant(w) THEN {Pair(w)} ELSE {}

(* A call outside the try block throws, or the worker dies: the job is     *)
(* lost, and a run record may say running for ever.                        *)
Stop(w) ==
    /\ ~At(w, "idle")
    /\ Fault
    /\ cut' = cut \cup CutBy(w)
    /\ wk' = [wk EXCEPT ![w] = Idle]
    /\ UNCHANGED <<tables, redis>>

(* SET NX was applied and its reply is lost: of the claim, of the lock.    *)
ClaimUnknown(w) ==
    /\ At(w, "claim") /\ Pair(w) \notin claimed
    /\ Fault
    /\ claimed' = claimed \cup {Pair(w)}
    /\ cut' = cut \cup {Pair(w)}
    /\ wk' = [wk EXCEPT ![w] = Idle]
    /\ UNCHANGED <<tables, lock, queue>>

LockUnknown(w) ==
    /\ At(w, "lock") /\ lock[Conn(w)] = None
    /\ Fault
    /\ lock' = [lock EXCEPT ![Conn(w)] = w]
    /\ wk' = [wk EXCEPT ![w] = Idle]
    /\ UNCHANGED <<tables, claimed, queue, cut>>

(* A call of the try block throws: the catch block.  The run is failed,    *)
(* even when it was recorded as a success just before.                     *)
Caught(w) ==
    /\ wk[w].pc \in {"mark", "settle", "finish"}
    /\ Fault
    /\ Goto(w, "failState")
    /\ UNCHANGED <<tables, redis, cut>>

(* A call of the catch block throws: the finally block still deletes the   *)
(* key, and what is left of the job is lost in consumeJobs.                *)
CatchThrows(w) ==
    /\ wk[w].pc \in {"failState", "failRun"}
    /\ Fault
    /\ lock' = Unlocked(w)
    /\ wk' = [wk EXCEPT ![w] = Idle]
    /\ UNCHANGED <<tables, claimed, queue, cut>>

Step(w) ==
    \/ Pop(w) \/ Ensure(w) \/ Claim(w) \/ Find(w) \/ CreateRun(w)
    \/ Acquire(w) \/ Locked(w)
    \/ Mark(w) \/ Store(w) \/ NoActivity(w) \/ SyncFails(w)
    \/ Settle(w) \/ FailState(w) \/ Leave(w)

Broken(w) ==
    Stop(w) \/ ClaimUnknown(w) \/ LockUnknown(w) \/ Caught(w) \/ CatchThrows(w)

Next ==
    \/ \E j \in Jobs : Push(j)
    \/ \E w \in Workers : Step(w) \/ Broken(w)
    \/ \E c \in Connections : LockExpires(c)
    \/ \E p \in Pairs : ClaimExpires(p)

Spec == Init /\ [][Next]_vars

Scheduled == UNION {{j.todo[i] : i \in DOMAIN j.todo} : j \in {k \in Jobs : k.req = None}}

(* The scheduled refresh pushes jobs again and again, each with a request  *)
(* id of its own; a worker goes on with its job, and a provider has only   *)
(* so many queries; Redis ends what has a TTL.                             *)
FairSpec ==
    /\ Spec
    /\ \A j \in {i \in Jobs : i.req = None} : SF_vars(Push(j))
    /\ \A w \in Workers : WF_vars(Step(w)) /\ WF_vars(Settle(w))
    /\ \A c \in Connections : WF_vars(LockExpires(c))
-----------------------------------------------------------------------------
(* A request makes one run of a connection, however often its job comes    *)
(* and whatever workers take it (the duplicate check).                     *)
OncePerRequest == \A p \in Pairs : runs[p] <= 1

(* A request is refused as a duplicate only if there is a run of it, or    *)
(* there will be, or its worker stopped between the claim and the run: the *)
(* claim then keeps the request from being retried for six hours.          *)
ClaimedMeansRun ==
    \A p \in claimed : runs[p] > 0 \/ p \in cut
        \/ \E w \in Workers : Claimed(w) /\ Pair(w) = p

(* A request's synchronisation of a connection is done as OnceOnly says:   *)
(* once, by the worker whose claim came first, and no more after a worker  *)
(* that stopped, for as long as its claim lasts.  Neither the claim, which *)
(* ends, nor the look for the run record, which another may be about to    *)
(* make, would do alone.                                                   *)
O == INSTANCE OnceOnly WITH
         Doers <- Workers, Things <- Pairs, times <- runs,
         taken <- {x \in Workers \X Pairs :
                      Claimant(x[1]) /\ Pair(x[1]) = x[2] /\ runs[x[2]] = 0},
         spoilt <- {p \in cut : runs[p] = 0}

RequestKept == O!OnceSpec

Inside(w) == IF wk[w].pc \in LockedPcs THEN Conn(w) ELSE None

(* As long as no call fails and no worker dies, a connection nobody is in  *)
(* is unlocked and not 'syncing'.                                          *)
NothingLeftBehind ==
    faults = 0 =>
        \A c \in Connections :
            (\A w \in Workers : Inside(w) # c) => lock[c] = None /\ status[c] # "syncing"

(* A provider that fails does not keep the next one of the job from its    *)
(* turn: a request with a run of one has, or gets, a run of the others.    *)
EveryProviderTried ==
    faults = 0 =>
        \A j \in Jobs : j.req # None =>
            \A i \in 2..Len(j.todo) :
                runs[<<j.req, j.todo[i - 1]>>] > 0 =>
                    \/ runs[<<j.req, j.todo[i]>>] > 0
                    \/ \E w \in Workers : wk[w].req = j.req /\ wk[w].pc # "idle"

(* The lock is used as packages/redis means it: a refinement of Lease.     *)
inside == [w \in Workers |-> Inside(w)]
lapsed == {w \in Workers : Inside(w) # None /\ lock[Inside(w)] # w}

L == INSTANCE Lease WITH Keys <- Connections, Clients <- Workers, holder <- lock
LeaseKept == L!LeaseSpec

(* The status 'syncing' does not last, even if the worker that wrote it is *)
(* dead: no sweep looks at these tables, a later job takes it up.          *)
SyncingEnds ==
    \A c \in Scheduled : status[c] = "syncing" ~> status[c] # "syncing"
=============================================================================
