----------------------------- MODULE PowensSync -----------------------------
(***************************************************************************)
(* Bank synchronisation through Powens: the API (callback, disconnect,     *)
(* manual sync), the Redis job queue, the worker that consumes it and      *)
(* synchronises one connection at a time under a Redis lock, and the three *)
(* tables it writes.  Code: apps/worker/src/index.ts and                   *)
(* apps/api/src/routes/integrations/powens.                                *)
(*                                                                         *)
(* Each await of the worker that reads or writes shared state is a step of *)
(* its own.  A call that fails after it took effect is the step followed   *)
(* by Fail at the next one.  Balances, transactions and metrics are left   *)
(* out; tokens are the generations of the user's consent, and an IBAN is   *)
(* the normalised one.                                                     *)
(***************************************************************************)
EXTENDS Naturals, Sequences, FiniteSets

CONSTANTS Workers,      \* worker processes (production runs one)
          Connections,  \* Powens connections
          Accounts,     \* Powens account ids
          Ibans,        \* normalised IBANs
          Owner,        \* the connection Powens lists an account under
          Iban,         \* the IBAN of an account, or None
          SyncAll,      \* the powens.syncAll job; any other job is its connection
          None,         \* absence of an IBAN, a lock owner, a connection
          MaxQueue,     \* bound: jobs waiting in the Redis list
          MaxGrant,     \* bound: consents given or withdrawn per connection
          MaxFaults,    \* bound: calls that fail
          MaxCrashes    \* bound: process deaths and restarts

ASSUME SyncAssumption ==
    /\ Owner \in [Accounts -> Connections]
    /\ Iban \in [Accounts -> Ibans \cup {None}]
    /\ SyncAll \notin Connections
    /\ None \notin Connections \cup Workers \cup Ibans
    /\ MaxQueue \in Nat /\ MaxGrant \in Nat /\ MaxFaults \in Nat /\ MaxCrashes \in Nat

VARIABLES
    conn,      \* table powens_connection
    accOn,     \* rows of financial_account with enabled = true
    assetOn,   \* rows of asset with enabled = true
    stuck,     \* connections with a run record that nobody will ever end
    lock,      \* Redis: owner token of each connection lock
    queue,     \* Redis: the job list
    cooldown,  \* Redis: the manual sync slot is taken
    grant,     \* Powens: the consent generation whose token is accepted
    callback,  \* API: the token of a callback being handled, and its next step
    wk,        \* the worker processes
    lapsed,    \* history: workers whose lease ended while they were inside
    overtaken, \* history: connections archived under a sync that had
               \* selected them, or that was archiving them unaware of another
    met,       \* history: per worker, what syncs of other connections enabled
               \* since its own looked: IBANs, and connections it is archiving
    crossed,   \* history: IBANs last enabled by a sync that had met them
    apart,     \* history: accounts of which a sync, cut off or overtaken, has
               \* written the row and not, or too late, the asset
    faults, crashes

dbVars == <<conn, accOn, assetOn, stuck>>
histVars == <<overtaken, met, crossed>>
apiVars == <<cooldown, grant, callback, histVars, apart>>
vars == <<conn, accOn, assetOn, stuck, lock, queue, cooldown, grant, callback,
          wk, lapsed, overtaken, met, crossed, apart, faults, crashes>>
-----------------------------------------------------------------------------
Tokens == 0..MaxGrant
Jobs == Connections \cup {SyncAll}

(* Steps of syncConnection: those inside its try block, those of its catch *)
(* block, and all of those between acquiring and releasing the lock.       *)
TryPcs == {"select", "skip", "mark", "fetch", "supersede", "disableAccounts",
           "disableAssets", "remaining", "archive", "upsertAccounts",
           "upsertAssets", "import", "succeed", "record", "metric"}
CatchPcs == {"catch", "recordFailure"}

(* The connection has been selected, its accounts are not enabled yet.     *)
EnablingPcs == {"mark", "fetch", "supersede", "disableAccounts", "disableAssets",
                "remaining", "archive", "upsertAccounts"}

(* It has looked for the accounts they supersede.                          *)
LookedPcs == EnablingPcs \ {"mark", "fetch", "supersede"}

InsidePcs == {"start", "release"} \cup TryPcs \cup CatchPcs
Pcs == {"idle", "list"} \cup InsidePcs

(* No row yet, the four values of the column, and reconnect_required once  *)
(* the last attempt and failure, which that status comes with, are a day   *)
(* old.                                                                    *)
Statuses == {"absent", "connected", "syncing", "error", "reconnect_required",
             "reconnect_due"}

ConnectionRow == [status : Statuses, archived : BOOLEAN, token : Tokens]

Worker == [pc : Pcs,
           todo : SUBSET Connections,        \* still to do for the job in hand
           cur : Connections \cup {None},    \* connection being synchronised
           tok : Tokens,                     \* token read by the select
           listed : SUBSET Accounts,         \* accounts Powens returned,
           on : SUBSET Accounts,             \* and those it says are enabled
           sup : SUBSET Accounts,            \* accounts superseded by them
           full : SUBSET Connections,        \* connections left without account
           result : {"error", "reconnect_required"},
           open : BOOLEAN]                   \* its run record says running

(* A worker between two syncs, with the rest of its job.                   *)
Between(todo) == [pc |-> "idle", todo |-> todo, cur |-> None, tok |-> 0,
                  listed |-> {}, on |-> {}, sup |-> {}, full |-> {},
                  result |-> "error", open |-> FALSE]
Idle == Between({})

TypeOK ==
    /\ conn \in [Connections -> ConnectionRow]
    /\ accOn \subseteq Accounts
    /\ assetOn \subseteq Accounts
    /\ stuck \subseteq Connections
    /\ lock \in [Connections -> Workers \cup {None}]
    /\ queue \in Seq(Jobs)
    /\ cooldown \in BOOLEAN
    /\ grant \in [Connections -> Tokens]
    /\ callback \in [Connections -> [pc : {"none", "upsert", "enqueue"}, tok : Tokens]]
    /\ wk \in [Workers -> Worker]
    /\ lapsed \subseteq Workers
    /\ overtaken \subseteq Connections
    /\ met \in [Workers -> SUBSET (Ibans \cup Connections)]
    /\ crossed \subseteq Ibans
    /\ apart \subseteq Accounts
    /\ faults \in 0..MaxFaults
    /\ crashes \in 0..MaxCrashes

Init ==
    /\ conn = [c \in Connections |-> [status |-> "absent", archived |-> FALSE, token |-> 0]]
    /\ accOn = {} /\ assetOn = {} /\ stuck = {}
    /\ lock = [c \in Connections |-> None]
    /\ queue = <<>>
    /\ cooldown = FALSE
    /\ grant = [c \in Connections |-> 0]
    /\ callback = [c \in Connections |-> [pc |-> "none", tok |-> 0]]
    /\ wk = [w \in Workers |-> Idle]
    /\ lapsed = {} /\ overtaken = {}
    /\ met = [w \in Workers |-> {}] /\ crossed = {} /\ apart = {}
    /\ faults = 0 /\ crashes = 0

Fault == faults < MaxFaults /\ faults' = faults + 1
At(w, p) == wk[w].pc = p
Goto(w, p) == wk' = [wk EXCEPT ![w].pc = p]
Enqueue(job) == Len(queue) < MaxQueue /\ queue' = Append(queue, job)
Inside(w) == IF wk[w].pc \in InsidePcs THEN wk[w].cur ELSE None
Selected(c) == \E w \in Workers : wk[w].pc \in EnablingPcs /\ wk[w].cur = c

(* Accounts whose rows w has written and not yet their assets; and what    *)
(* becomes apart when those of S are written while others are half-way, or *)
(* when w does not come to the assets.                                     *)
HalfWay(w) == CASE At(w, "disableAssets") -> wk[w].sup
                [] At(w, "upsertAssets") -> wk[w].listed
                [] OTHER -> {}
Unlike == (accOn \ assetOn) \cup (assetOn \ accOn)
Rewritten(S, others) == (apart \ S) \cup (S \cap UNION {HalfWay(v) : v \in others})
LeftApart(w) == apart \cup (HalfWay(w) \cap Unlike)

(* A worker that has left the scope of the try block's variables.          *)
Beyond(w, pc, tok, result) ==
    [pc |-> pc, todo |-> wk[w].todo, cur |-> wk[w].cur, tok |-> tok, listed |-> {},
     on |-> {}, sup |-> {}, full |-> {}, result |-> result, open |-> wk[w].open]
Caught(w, result) == wk' = [wk EXCEPT ![w] = Beyond(w, "catch", 0, result)]
-----------------------------------------------------------------------------
(* The API, Powens and the passing of time.                                *)

(* The user consents at Powens, which then accepts the new token; the      *)
(* callback exchanges the code.  A failed exchange changes nothing here.   *)
Consent(c) ==
    /\ callback[c].pc = "none"
    /\ grant[c] < MaxGrant
    /\ grant' = [grant EXCEPT ![c] = @ + 1]
    /\ \/ callback' = [callback EXCEPT ![c] = [pc |-> "upsert", tok |-> grant[c] + 1]]
          /\ UNCHANGED faults
       \/ Fault /\ UNCHANGED callback
    /\ UNCHANGED <<dbVars, lock, queue, cooldown, wk, lapsed, histVars, apart, crashes>>

(* The consent is withdrawn or expires: no token is accepted any more.     *)
Revoke(c) ==
    /\ grant[c] < MaxGrant
    /\ grant' = [grant EXCEPT ![c] = @ + 1]
    /\ UNCHANGED <<dbVars, lock, queue, cooldown, callback, wk, lapsed, histVars, apart,
                   faults, crashes>>

CallbackUpsert(c) ==
    /\ callback[c].pc = "upsert"
    /\ conn' = [conn EXCEPT ![c].status = "connected", ![c].archived = FALSE,
                            ![c].token = callback[c].tok]
    /\ callback' = [callback EXCEPT ![c].pc = "enqueue"]
    /\ overtaken' = overtaken \ {c}
    /\ UNCHANGED <<accOn, assetOn, stuck, lock, queue, cooldown, grant, wk,
                   lapsed, met, crossed, apart, faults, crashes>>

CallbackEnqueue(c) ==
    /\ callback[c].pc = "enqueue"
    /\ Enqueue(c)
    /\ callback' = [callback EXCEPT ![c] = [pc |-> "none", tok |-> 0]]
    /\ UNCHANGED <<dbVars, lock, cooldown, grant, wk, lapsed, histVars, apart,
                   faults, crashes>>

(* The database, Redis or the API process fails under the callback: 502,   *)
(* and whatever it had not done yet is never done.                         *)
CallbackFail(c) ==
    /\ callback[c].pc # "none"
    /\ Fault
    /\ callback' = [callback EXCEPT ![c] = [pc |-> "none", tok |-> 0]]
    /\ UNCHANGED <<dbVars, lock, queue, cooldown, grant, wk, lapsed, histVars, apart,
                   crashes>>

(* One transaction: archive the connection, disable its accounts, assets.  *)
Disconnect(c) ==
    /\ conn[c].status # "absent"
    /\ conn' = [conn EXCEPT ![c].archived = TRUE]
    /\ accOn' = {a \in accOn : Owner[a] # c}
    /\ assetOn' = {a \in assetOn : Owner[a] # c}
    /\ overtaken' = IF Selected(c) THEN overtaken \cup {c} ELSE overtaken \ {c}
    /\ apart' = Rewritten({a \in Accounts : Owner[a] = c}, Workers)
    /\ UNCHANGED <<stuck, lock, queue, cooldown, grant, callback, wk, lapsed,
                   met, crossed, faults, crashes>>

(* The cooldown slot is taken before the job is pushed; when the push      *)
(* fails the slot stays taken.                                             *)
RequestSync(job) ==
    /\ ~cooldown
    /\ cooldown' = TRUE
    /\ \/ Enqueue(job) /\ UNCHANGED faults
       \/ Fault /\ UNCHANGED queue
    /\ UNCHANGED <<dbVars, lock, grant, callback, wk, lapsed, histVars, apart, crashes>>

CooldownEnds ==
    /\ cooldown
    /\ cooldown' = FALSE
    /\ UNCHANGED <<dbVars, lock, queue, grant, callback, wk, lapsed, histVars, apart,
                   faults, crashes>>

(* The worker's interval timer.                                            *)
Tick ==
    /\ Enqueue(SyncAll)
    /\ UNCHANGED <<dbVars, lock, apiVars, wk, lapsed, faults, crashes>>

(* 24 hours after the last attempt and failure of a connection.            *)
DayPasses(c) ==
    /\ conn[c].status = "reconnect_required"
    /\ conn' = [conn EXCEPT ![c].status = "reconnect_due"]
    /\ UNCHANGED <<accOn, assetOn, stuck, lock, queue, apiVars, wk,
                   lapsed, faults, crashes>>

(* Redis ends a lease; nothing tells the worker that is still inside.      *)
LockExpires(c) ==
    /\ lock[c] # None
    /\ lock' = [lock EXCEPT ![c] = None]
    /\ lapsed' = lapsed \cup {w \in Workers : w = lock[c] /\ Inside(w) = c}
    /\ UNCHANGED <<dbVars, queue, apiVars, wk, faults, crashes>>
-----------------------------------------------------------------------------
(* The worker: the job in hand.                                            *)

(* handleJob tells powens.syncAll from the jobs of one connection.         *)
(* (Mutant: it does not.)                                                  *)
JobTodoMutant(job) == {job}
JobTodo(job) == IF job = SyncAll THEN {} ELSE {job}

Pop(w) ==
    /\ At(w, "idle") /\ wk[w].todo = {}
    /\ queue # <<>>
    /\ queue' = Tail(queue)
    /\ wk' = [wk EXCEPT ![w].pc = IF Head(queue) = SyncAll THEN "list" ELSE "idle",
                        ![w].todo = JobTodo(Head(queue))]
    /\ UNCHANGED <<dbVars, lock, apiVars, lapsed, faults, crashes>>

(* A connection that needs the user again is tried once a day.  (Mutants:  *)
(* it is given up; one that says syncing is taken for being synchronised.) *)
RecoveryMutantGivenUp(row) == row.status \notin {"reconnect_required", "reconnect_due"}
RecoveryMutantInProgress(row) == row.status \notin {"reconnect_required", "syncing"}
ShouldRunReconnectRecovery(row) == row.status # "reconnect_required"

(* syncAll selects the connections that are not archived, in any order.    *)
List(w) ==
    /\ At(w, "list")
    /\ wk' = [wk EXCEPT ![w].pc = "idle",
                        ![w].todo = {c \in Connections :
                            /\ conn[c].status # "absent" /\ ~conn[c].archived
                            /\ ShouldRunReconnectRecovery(conn[c])}]
    /\ UNCHANGED <<dbVars, lock, queue, apiVars, lapsed, faults, crashes>>

ListFails(w) ==
    /\ At(w, "list")
    /\ Fault
    /\ Goto(w, "idle")
    /\ UNCHANGED <<dbVars, lock, queue, apiVars, lapsed, crashes>>

Acquire(w, c) ==
    /\ At(w, "idle") /\ c \in wk[w].todo
    /\ lock[c] = None
    /\ lock' = [lock EXCEPT ![c] = w]
    /\ wk' = [wk EXCEPT ![w].pc = "start", ![w].cur = c, ![w].todo = @ \ {c}]
    /\ UNCHANGED <<dbVars, queue, apiVars, lapsed, faults, crashes>>

(* The lock is held: the connection is dropped from the job, not requeued. *)
SkipLocked(w, c) ==
    /\ At(w, "idle") /\ c \in wk[w].todo
    /\ lock[c] # None
    /\ wk' = [wk EXCEPT ![w].todo = @ \ {c}]
    /\ UNCHANGED <<dbVars, lock, queue, apiVars, lapsed, faults, crashes>>

(* The SET throws, and may have been applied.                              *)
AcquireFails(w, c) ==
    /\ At(w, "idle") /\ c \in wk[w].todo
    /\ Fault
    /\ \/ UNCHANGED lock
       \/ lock[c] = None /\ lock' = [lock EXCEPT ![c] = w]
    /\ wk' = [wk EXCEPT ![w].todo = @ \ {c}]
    /\ UNCHANGED <<dbVars, queue, apiVars, lapsed, crashes>>
-----------------------------------------------------------------------------
(* The worker: syncConnection under the lock.                              *)

StartRun(w) ==
    /\ At(w, "start")
    /\ wk' = [wk EXCEPT ![w].pc = "select", ![w].open = TRUE]
    /\ UNCHANGED <<dbVars, lock, queue, apiVars, lapsed, faults, crashes>>

(* recordSyncRunStarted is called before the try block: when it throws     *)
(* nothing releases the lock, and the record may exist already.            *)
StartRunFails(w) ==
    /\ At(w, "start")
    /\ Fault
    /\ \/ UNCHANGED stuck
       \/ stuck' = stuck \cup {wk[w].cur}
    /\ wk' = [wk EXCEPT ![w] = Between(wk[w].todo)]
    /\ lapsed' = lapsed \ {w}
    /\ UNCHANGED <<conn, accOn, assetOn, lock, queue, apiVars, crashes>>

(* (Mutant: an archived connection is synchronised like the others.)       *)
SelectMutant(w) ==
    LET row == conn[wk[w].cur] IN
    /\ At(w, "select")
    /\ wk' = IF row.status = "absent" THEN [wk EXCEPT ![w].pc = "skip"]
             ELSE [wk EXCEPT ![w].pc = "mark", ![w].tok = row.token]
    /\ UNCHANGED <<dbVars, lock, queue, apiVars, lapsed, faults, crashes>>

Select(w) ==
    LET row == conn[wk[w].cur] IN
    /\ At(w, "select")
    /\ wk' = IF row.status = "absent" \/ row.archived
             THEN [wk EXCEPT ![w].pc = "skip"]
             ELSE [wk EXCEPT ![w].pc = "mark", ![w].tok = row.token]
    /\ UNCHANGED <<dbVars, lock, queue, apiVars, lapsed, faults, crashes>>

(* Mutant of Skip: the early return forgets to end the run record.         *)
SkipMutant(w) ==
    /\ At(w, "skip")
    /\ Goto(w, "release")
    /\ UNCHANGED <<dbVars, lock, queue, apiVars, lapsed, faults, crashes>>

Skip(w) ==
    /\ At(w, "skip")
    /\ wk' = [wk EXCEPT ![w].pc = "release", ![w].open = FALSE]
    /\ UNCHANGED <<dbVars, lock, queue, apiVars, lapsed, faults, crashes>>

Mark(w) ==
    /\ At(w, "mark")
    /\ conn' = [conn EXCEPT ![wk[w].cur].status = "syncing"]
    /\ Goto(w, "fetch")
    /\ UNCHANGED <<accOn, assetOn, stuck, lock, queue, apiVars, lapsed,
                   faults, crashes>>

(* listConnectionAccounts: any part of the connection's accounts, each     *)
(* enabled or not.  A token of an older consent may still be accepted.     *)
Fetch(w) ==
    /\ At(w, "fetch")
    /\ \E listed \in SUBSET {a \in Accounts : Owner[a] = wk[w].cur} :
       \E on \in SUBSET listed :
         wk' = [wk EXCEPT ![w].pc = IF listed = {} THEN "import" ELSE "supersede",
                          ![w].listed = listed, ![w].on = on]
    /\ UNCHANGED <<dbVars, lock, queue, apiVars, lapsed, faults, crashes>>

FetchRefused(w) ==
    /\ At(w, "fetch")
    /\ wk[w].tok # grant[wk[w].cur]
    /\ Caught(w, "reconnect_required")
    /\ UNCHANGED <<dbVars, lock, queue, apiVars, lapsed, faults, crashes>>

(* Accounts of other connections that are enabled under the IBAN of an     *)
(* account this connection is about to enable.                             *)
ActiveIbans(w) == {Iban[a] : a \in wk[w].on} \ {None}
SupersededMutant(w) == \* mutant: looks at connections in use only
    {b \in accOn : /\ Owner[b] # wk[w].cur /\ Iban[b] \in ActiveIbans(w)
                   /\ ~conn[Owner[b]].archived}
Superseded(w) == {b \in accOn : Owner[b] # wk[w].cur /\ Iban[b] \in ActiveIbans(w)}

Supersede(w) ==
    /\ At(w, "supersede")
    /\ wk' = [wk EXCEPT ![w].sup = Superseded(w),
                        ![w].pc = IF Superseded(w) = {} THEN "upsertAccounts"
                                                        ELSE "disableAccounts"]
    /\ met' = [met EXCEPT ![w] = {}]
    /\ UNCHANGED <<dbVars, lock, queue, cooldown, grant, callback, lapsed,
                   overtaken, crossed, apart, faults, crashes>>

DisableAccounts(w) ==
    /\ At(w, "disableAccounts")
    /\ accOn' = accOn \ wk[w].sup
    /\ Goto(w, "disableAssets")
    /\ apart' = Rewritten(wk[w].sup, Workers \ {w})
    /\ UNCHANGED <<conn, assetOn, stuck, lock, queue, cooldown, grant, callback,
                   lapsed, histVars, faults, crashes>>

DisableAssets(w) ==
    /\ At(w, "disableAssets")
    /\ assetOn' = assetOn \ wk[w].sup
    /\ Goto(w, "remaining")
    /\ UNCHANGED <<conn, accOn, stuck, lock, queue, apiVars, lapsed,
                   faults, crashes>>

Remaining(w) ==
    LET full == {Owner[b] : b \in wk[w].sup} \ {Owner[a] : a \in accOn} IN
    /\ At(w, "remaining")
    /\ wk' = [wk EXCEPT ![w].full = full,
                        ![w].pc = IF full = {} THEN "upsertAccounts" ELSE "archive"]
    /\ UNCHANGED <<dbVars, lock, queue, apiVars, lapsed, faults, crashes>>

Archive(w) ==
    /\ At(w, "archive")
    /\ conn' = [c \in Connections |->
                  IF c \in wk[w].full THEN [conn[c] EXCEPT !.archived = TRUE]
                                      ELSE conn[c]]
    /\ Goto(w, "upsertAccounts")
    /\ overtaken' = (overtaken \ wk[w].full)
                       \cup {c \in wk[w].full : c \in met[w] \/ Selected(c)}
    /\ UNCHANGED <<accOn, assetOn, stuck, lock, queue, cooldown, grant, callback,
                   lapsed, met, crossed, apart, faults, crashes>>

(* What v meets when w enables its accounts.                               *)
Meets(v, w) ==
    IF wk[v].pc \in LookedPcs /\ wk[v].cur # wk[w].cur
    THEN ActiveIbans(w) \cup (wk[v].full \cap {Owner[a] : a \in wk[w].on})
    ELSE {}

UpsertAccounts(w) ==
    /\ At(w, "upsertAccounts")
    /\ accOn' = (accOn \ wk[w].listed) \cup wk[w].on
    /\ wk' = [wk EXCEPT ![w].pc = "upsertAssets", ![w].sup = {}, ![w].full = {}]
    /\ met' = [v \in Workers |-> met[v] \cup Meets(v, w)]
    /\ crossed' = (crossed \ ActiveIbans(w)) \cup (met[w] \cap ActiveIbans(w))
    /\ apart' = Rewritten(wk[w].listed, Workers \ {w})
    /\ UNCHANGED <<conn, assetOn, stuck, lock, queue, cooldown, grant, callback,
                   lapsed, overtaken, faults, crashes>>

(* (Mutant: the conflict clause leaves enabled alone.)                     *)
UpsertAssetsMutant(w) ==
    /\ At(w, "upsertAssets")
    /\ assetOn' = assetOn \cup wk[w].on
    /\ wk' = [wk EXCEPT ![w].pc = "import", ![w].on = {}]
    /\ UNCHANGED <<conn, accOn, stuck, lock, queue, apiVars, lapsed,
                   faults, crashes>>

UpsertAssets(w) ==
    /\ At(w, "upsertAssets")
    /\ assetOn' = (assetOn \ wk[w].listed) \cup wk[w].on
    /\ wk' = [wk EXCEPT ![w].pc = "import", ![w].on = {}]
    /\ UNCHANGED <<conn, accOn, stuck, lock, queue, apiVars, lapsed,
                   faults, crashes>>

(* Raw imports and the transactions of every account.  Powens may refuse   *)
(* the token here too.                                                     *)
Import(w) ==
    /\ At(w, "import")
    /\ \/ Goto(w, "succeed")
       \/ /\ wk[w].listed # {} /\ wk[w].tok # grant[wk[w].cur]
          /\ Caught(w, "reconnect_required")
    /\ UNCHANGED <<dbVars, lock, queue, apiVars, lapsed, faults, crashes>>

Succeed(w) ==
    /\ At(w, "succeed")
    /\ conn' = [conn EXCEPT ![wk[w].cur].status = "connected"]
    /\ wk' = [wk EXCEPT ![w] = Beyond(w, "record", wk[w].tok, "error")]
    /\ UNCHANGED <<accOn, assetOn, stuck, lock, queue, apiVars, lapsed, faults, crashes>>

Record(w) ==
    /\ At(w, "record")
    /\ wk' = [wk EXCEPT ![w].pc = "metric", ![w].open = FALSE, ![w].tok = 0]
    /\ UNCHANGED <<dbVars, lock, queue, apiVars, lapsed, faults, crashes>>

Metric(w) ==
    /\ At(w, "metric")
    /\ Goto(w, "release")
    /\ UNCHANGED <<dbVars, lock, queue, apiVars, lapsed, faults, crashes>>

(* A call of the try block throws, which the catch block reports; one of   *)
(* the catch block throws, and the finally block still runs.               *)
Fail(w) ==
    /\ wk[w].pc \in TryPcs \cup CatchPcs
    /\ Fault
    /\ IF wk[w].pc \in TryPcs THEN Caught(w, "error") ELSE Goto(w, "release")
    /\ apart' = LeftApart(w)
    /\ UNCHANGED <<dbVars, lock, queue, cooldown, grant, callback, lapsed,
                   histVars, crashes>>

(* The update names the connection only: archived or reconnected since the *)
(* select, its row is overwritten all the same.                            *)
Catch(w) ==
    LET c == wk[w].cur IN
    /\ At(w, "catch")
    /\ conn' = IF conn[c].status = "absent" THEN conn
               ELSE [conn EXCEPT ![c].status = wk[w].result]
    /\ wk' = [wk EXCEPT ![w].pc = "recordFailure", ![w].result = "error"]
    /\ UNCHANGED <<accOn, assetOn, stuck, lock, queue, apiVars, lapsed,
                   faults, crashes>>

RecordFailure(w) ==
    /\ At(w, "recordFailure")
    /\ wk' = [wk EXCEPT ![w].pc = "release", ![w].open = FALSE]
    /\ UNCHANGED <<dbVars, lock, queue, apiVars, lapsed, faults, crashes>>

(* The record of a run that is over and not ended stays running.           *)
StuckAfter(w) ==
    IF Inside(w) # None /\ wk[w].open THEN stuck \cup {Inside(w)} ELSE stuck

(* The compare-and-delete script.                                          *)
ComparedAndDeleted(w) ==
    IF lock[wk[w].cur] = w THEN [lock EXCEPT ![wk[w].cur] = None] ELSE lock

(* An error of the script leaves the key to its expiry.                    *)
Release(w) ==
    /\ At(w, "release")
    /\ \/ lock' = ComparedAndDeleted(w) /\ UNCHANGED faults
       \/ Fault /\ UNCHANGED lock
    /\ stuck' = StuckAfter(w)
    /\ wk' = [wk EXCEPT ![w] = Between(wk[w].todo)]
    /\ lapsed' = lapsed \ {w}
    /\ UNCHANGED <<conn, accOn, assetOn, queue, apiVars, crashes>>

(* The process dies, or SIGTERM makes it exit without waiting for the job, *)
(* and it starts again.  The job in hand is lost, Redis keeps the lock.    *)
Crash(w) ==
    /\ wk[w] # Idle
    /\ crashes < MaxCrashes
    /\ crashes' = crashes + 1
    /\ stuck' = StuckAfter(w)
    /\ wk' = [wk EXCEPT ![w] = Idle]
    /\ lapsed' = lapsed \ {w}
    /\ apart' = LeftApart(w)
    /\ UNCHANGED <<conn, accOn, assetOn, lock, queue, cooldown, grant, callback,
                   histVars, faults>>
-----------------------------------------------------------------------------
Environment ==
    \/ \E c \in Connections :
          \/ Consent(c) \/ Revoke(c)
          \/ CallbackUpsert(c) \/ CallbackEnqueue(c) \/ CallbackFail(c)
          \/ Disconnect(c) \/ DayPasses(c) \/ LockExpires(c)
    \/ \E job \in Jobs : RequestSync(job)
    \/ CooldownEnds
    \/ Tick

(* What syncConnection and the job loop do when nothing goes wrong.        *)
InsideStep(w) ==
    \/ StartRun(w) \/ Select(w) \/ Skip(w) \/ Mark(w)
    \/ Fetch(w) \/ FetchRefused(w) \/ Supersede(w)
    \/ DisableAccounts(w) \/ DisableAssets(w) \/ Remaining(w) \/ Archive(w)
    \/ UpsertAccounts(w) \/ UpsertAssets(w) \/ Import(w)
    \/ Succeed(w) \/ Record(w) \/ Metric(w)
    \/ Catch(w) \/ RecordFailure(w)

SyncStep(w) == InsideStep(w) \/ Release(w)

JobStep(w) ==
    \/ Pop(w) \/ List(w)
    \/ \E c \in Connections : Acquire(w, c) \/ SkipLocked(w, c)

Disturbance(w) ==
    \/ ListFails(w) \/ StartRunFails(w) \/ Fail(w) \/ Crash(w)
    \/ \E c \in Connections : AcquireFails(w, c)

Next ==
    \/ Environment
    \/ \E w \in Workers : JobStep(w) \/ SyncStep(w) \/ Disturbance(w)

Spec == Init /\ [][Next]_vars

(* A worker keeps taking the steps of its loop, the timer keeps firing,    *)
(* Redis ends leases and days pass.  Nothing is assumed of the user, of    *)
(* Powens, of failures or of crashes.                                      *)
Fairness ==
    /\ \A w \in Workers : WF_vars(JobStep(w)) /\ WF_vars(SyncStep(w))
    /\ WF_vars(Tick)
    /\ \A c \in Connections : WF_vars(LockExpires(c)) /\ WF_vars(DayPasses(c))

FairSpec == Spec /\ Fairness
-----------------------------------------------------------------------------
(* Until its lease ends, a worker inside a connection's sync is the owner  *)
(* of its lock and works alone on it; what Lease promises, for the locks   *)
(* of syncConnection.                                                      *)
L == INSTANCE Lease WITH Keys <- Connections, Clients <- Workers,
        holder <- lock, inside <- [w \in Workers |-> Inside(w)]

LeaseKept == L!LeaseSpec

(* One bank account listed under two connections is counted once: two      *)
(* enabled account rows of different connections never share an IBAN,      *)
(* whatever fails and wherever a sync is cut off, unless two syncs ran at  *)
(* the same time and the one enabled it after the other had looked; the    *)
(* next sync of either that meets nobody puts it right.  One worker meets  *)
(* nobody.                                                                 *)
IbanCountedOnce ==
    \A a, b \in accOn :
        Owner[a] # Owner[b] =>
            Iban[a] = None \/ Iban[a] # Iban[b] \/ Iban[a] \in crossed

(* What the user owns is summed over the assets, what the banks hold over  *)
(* the accounts: an asset is enabled exactly if its account is, unless a   *)
(* sync is between the two statements that write them, or was cut off      *)
(* there, or something else wrote the account meanwhile.                   *)
AssetFollowsAccount == Unlike \subseteq apart \cup UNION {HalfWay(w) : w \in Workers}

(* An archived connection has no enabled account, unless a sync that had   *)
(* selected it before went on with what it had read, or enabled accounts   *)
(* after the sync that archived it had found none: a sync that starts      *)
(* later, of whatever job, keeps to it.  One worker only ever archives     *)
(* connections that no sync has selected.                                  *)
DisconnectKept ==
    \A a \in accOn : conn[Owner[a]].archived => Owner[a] \in overtaken

(* While no call fails and no process dies, a sync leaves nothing behind:  *)
(* no run record that says running, no lock without its worker, and no     *)
(* connection that says syncing while no sync is on its way to end that.   *)
NothingLeftBehind ==
    faults = 0 /\ crashes = 0 =>
        /\ stuck = {}
        /\ \A c \in Connections : lock[c] # None => Inside(lock[c]) = c
        /\ \A c \in Connections : conn[c].status = "syncing" =>
              \E w \in Workers : Inside(w) = c /\ wk[w].pc # "release"

(* The sync of a connection whose consent still stands is done in the end: *)
(* by the callback's job or, when that was lost, skipped or failed, by a   *)
(* later tick; unless the connection is archived or loses its consent.     *)
SyncedWith(c, g) == \E w \in Workers : At(w, "record") /\ wk[w].cur = c /\ wk[w].tok = g

FreshTokenSynced ==
    \A c \in Connections, g \in Tokens \ {0} :
        conn[c].token = g /\ grant[c] = g /\ ~conn[c].archived
            ~> SyncedWith(c, g) \/ grant[c] # g \/ conn[c].archived

(* A connection does not say syncing for ever, even when the sync that     *)
(* marked it was cut off.                                                  *)
SyncingEnds ==
    \A c \in Connections :
        []<>(conn[c].status # "syncing" \/ conn[c].archived)
=============================================================================
