-------------------------- MODULE PowensSync_proofs --------------------------
(***************************************************************************)
(* The bank synchronisation, for every number of workers, connections and  *)
(* accounts and for every bound.                                           *)
(***************************************************************************)
EXTENDS PowensSync, TLAPS

USE SyncAssumption

-----------------------------------------------------------------------------
(* The records: what an update makes of a row and of a worker.             *)

LEMMA RowUpdates ==
    ASSUME NEW r \in ConnectionRow
    PROVE  /\ r.token \in Tokens
           /\ [r EXCEPT !.archived = TRUE] \in ConnectionRow
           /\ \A s \in Statuses : [r EXCEPT !.status = s] \in ConnectionRow
           /\ \A t \in Tokens : [r EXCEPT !.status = "connected", !.archived = FALSE,
                                          !.token = t] \in ConnectionRow
  BY DEF ConnectionRow, Statuses

LEMMA WorkerFields ==
    ASSUME NEW r \in Worker
    PROVE  /\ r.pc \in Pcs /\ r.todo \in SUBSET Connections
           /\ r.cur \in Connections \cup {None} /\ r.tok \in Tokens
           /\ r.listed \in SUBSET Accounts /\ r.on \in SUBSET Accounts
           /\ r.sup \in SUBSET Accounts /\ r.full \in SUBSET Connections
           /\ r.result \in {"error", "reconnect_required"} /\ r.open \in BOOLEAN
  BY DEF Worker

LEMMA BetweenWorker ==
    ASSUME NEW todo \in SUBSET Connections
    PROVE  Between(todo) \in Worker /\ Between(todo).pc = "idle"
  BY DEF Between, Worker, Pcs, Tokens

(* What the worker keeps of its record when only its pc changes.           *)
LEMMA GotoEffect ==
    ASSUME wk \in [Workers -> Worker], NEW w \in Workers, NEW p \in Pcs, Goto(w, p)
    PROVE  /\ wk' \in [Workers -> Worker]
           /\ wk'[w].pc = p /\ wk'[w].cur = wk[w].cur
           /\ wk'[w].listed = wk[w].listed /\ wk'[w].on = wk[w].on
           /\ wk'[w].sup = wk[w].sup /\ wk'[w].full = wk[w].full
           /\ \A v \in Workers \ {w} : wk'[v] = wk[v]
<1>1. wk[w] \in Worker
    OBVIOUS
<1>2. [wk[w] EXCEPT !.pc = p] \in Worker
    BY <1>1 DEF Worker
<1>3. /\ [wk[w] EXCEPT !.pc = p].pc = p
      /\ [wk[w] EXCEPT !.pc = p].cur = wk[w].cur
      /\ [wk[w] EXCEPT !.pc = p].listed = wk[w].listed
      /\ [wk[w] EXCEPT !.pc = p].on = wk[w].on
      /\ [wk[w] EXCEPT !.pc = p].sup = wk[w].sup
      /\ [wk[w] EXCEPT !.pc = p].full = wk[w].full
    BY <1>1 DEF Worker
<1> QED BY <1>2, <1>3 DEF Goto

(* And when the try block is left.                                         *)
LEMMA BeyondWorker ==
    ASSUME wk \in [Workers -> Worker], NEW w \in Workers, NEW p \in Pcs,
           NEW t \in Tokens, NEW e \in {"error", "reconnect_required"}
    PROVE  /\ Beyond(w, p, t, e) \in Worker
           /\ Beyond(w, p, t, e).pc = p /\ Beyond(w, p, t, e).cur = wk[w].cur
<1>1. wk[w] \in Worker
    OBVIOUS
<1> QED BY <1>1 DEF Beyond, Worker

-----------------------------------------------------------------------------
(* Type correctness.  A worker inside a sync has a connection in hand,     *)
(* without which the updates of conn could not be typed.                   *)

InHand == \A w \in Workers : wk[w].pc \in InsidePcs => wk[w].cur \in Connections
SyncTyped == TypeOK /\ InHand

LEMMA TypeInitial == Init => SyncTyped
<1> SUFFICES ASSUME Init PROVE SyncTyped
    OBVIOUS
<1>1. conn \in [Connections -> ConnectionRow]
    BY DEF Init, ConnectionRow, Statuses, Tokens
<1>2. callback \in [Connections -> [pc : {"none", "upsert", "enqueue"}, tok : Tokens]]
    BY DEF Init, Tokens
<1>3. wk \in [Workers -> Worker] /\ InHand
    BY BetweenWorker DEF Init, Idle, InHand, InsidePcs, TryPcs, CatchPcs
<1>4. queue \in Seq(Jobs)
    BY DEF Init
<1>5. /\ grant \in [Connections -> Tokens]
      /\ faults \in 0..MaxFaults /\ crashes \in 0..MaxCrashes
      /\ met \in [Workers -> SUBSET (Ibans \cup Connections)]
    BY DEF Init, Tokens
<1> QED BY <1>1, <1>2, <1>3, <1>4, <1>5 DEF SyncTyped, TypeOK, Init

LEMMA TypeEnvironment == SyncTyped /\ Environment => SyncTyped'
<1> SUFFICES ASSUME SyncTyped, Environment
             PROVE  SyncTyped'
    OBVIOUS
<1> USE DEF SyncTyped, TypeOK, InHand, dbVars, apiVars, histVars, Fault, Enqueue
<1>1. ASSUME NEW c \in Connections, Consent(c)
      PROVE  SyncTyped'
  <2>1. grant' \in [Connections -> Tokens] /\ faults' \in 0..MaxFaults
      BY <1>1 DEF Consent, Tokens
  <2>2. callback' \in [Connections -> [pc : {"none", "upsert", "enqueue"}, tok : Tokens]]
    <3>1. grant[c] + 1 \in Tokens
        BY <1>1 DEF Consent, Tokens
    <3> QED BY <1>1, <3>1 DEF Consent
  <2> QED BY <1>1, <2>1, <2>2 DEF Consent
<1>2. ASSUME NEW c \in Connections, Revoke(c)
      PROVE  SyncTyped'
    BY <1>2 DEF Revoke, Tokens
<1>3. ASSUME NEW c \in Connections, CallbackUpsert(c)
      PROVE  SyncTyped'
  <2>1. conn' \in [Connections -> ConnectionRow]
      BY <1>3, RowUpdates DEF CallbackUpsert
  <2> QED BY <1>3, <2>1 DEF CallbackUpsert
<1>4. ASSUME NEW c \in Connections, CallbackEnqueue(c)
      PROVE  SyncTyped'
    BY <1>4 DEF CallbackEnqueue, Jobs, Tokens
<1>5. ASSUME NEW c \in Connections, CallbackFail(c)
      PROVE  SyncTyped'
    BY <1>5 DEF CallbackFail, Tokens
<1>6. ASSUME NEW c \in Connections, Disconnect(c)
      PROVE  SyncTyped'
  <2>1. conn' \in [Connections -> ConnectionRow]
      BY <1>6, RowUpdates DEF Disconnect
  <2>2. accOn' \subseteq Accounts /\ assetOn' \subseteq Accounts
      BY <1>6 DEF Disconnect
  <2>3. overtaken' = overtaken \cup {c} \/ overtaken' = overtaken \ {c}
      BY <1>6 DEF Disconnect
  <2>4. overtaken' \subseteq Connections
      BY <2>3
  <2>5. apart' \subseteq Accounts
      BY <1>6 DEF Disconnect, Rewritten
  <2> QED BY <1>6, <2>1, <2>2, <2>4, <2>5 DEF Disconnect
<1>7. ASSUME NEW c \in Connections, DayPasses(c)
      PROVE  SyncTyped'
    BY <1>7, RowUpdates DEF DayPasses, Statuses
<1>8. ASSUME NEW c \in Connections, LockExpires(c)
      PROVE  SyncTyped'
    BY <1>8 DEF LockExpires
<1>9. ASSUME NEW job \in Jobs, RequestSync(job)
      PROVE  SyncTyped'
  <2>1. queue' \in Seq(Jobs)
    <3>1. queue' = Append(queue, job) \/ queue' = queue
        BY <1>9 DEF RequestSync
    <3>2. queue \in Seq(Jobs)
        OBVIOUS
    <3>3. Append(queue, job) \in Seq(Jobs)
        BY <3>2
    <3> QED BY <3>1, <3>2, <3>3
  <2>2. faults' \in 0..MaxFaults
      BY <1>9 DEF RequestSync
  <2> QED BY <1>9, <2>1, <2>2 DEF RequestSync
<1>10. CASE CooldownEnds
    BY <1>10 DEF CooldownEnds
<1>11. CASE Tick
    BY <1>11 DEF Tick, Jobs
<1> QED BY <1>1, <1>2, <1>3, <1>4, <1>5, <1>6, <1>7, <1>8, <1>9, <1>10, <1>11
        DEF Environment

(* A worker between two syncs works on its job.                            *)
StaysOutside(w) ==
    /\ wk[w].pc \notin InsidePcs
    /\ wk' \in [Workers -> Worker]
    /\ wk'[w].pc \notin InsidePcs
    /\ \A v \in Workers \ {w} : wk'[v] = wk[v]

LEMMA OutsideStepStays ==
    ASSUME SyncTyped, NEW w \in Workers,
           Pop(w) \/ List(w) \/ ListFails(w)
               \/ \E c \in Connections : SkipLocked(w, c) \/ AcquireFails(w, c)
    PROVE  StaysOutside(w)
<1> wk \in [Workers -> Worker] /\ wk[w] \in Worker
    BY DEF SyncTyped, TypeOK
<1> USE DEF At, Pcs, InsidePcs, TryPcs, CatchPcs
<1>1. CASE Pop(w)
  <2> DEFINE r == [wk[w] EXCEPT !.pc = IF Head(queue) = SyncAll THEN "list" ELSE "idle",
                                !.todo = JobTodo(Head(queue))]
  <2>1. queue \in Seq(Jobs) /\ queue # <<>>
      BY <1>1 DEF Pop, SyncTyped, TypeOK
  <2>2. JobTodo(Head(queue)) \in SUBSET Connections
      BY <2>1 DEF JobTodo, Jobs
  <2>3. r \in Worker /\ r.pc \in {"list", "idle"}
      BY <2>2 DEF Worker
  <2>4. wk' = [wk EXCEPT ![w] = r] /\ wk[w].pc = "idle"
      BY <1>1 DEF Pop
  <2> HIDE DEF r
  <2> QED BY <2>3, <2>4 DEF StaysOutside
<1>2. CASE List(w)
  <2> DEFINE r == [wk[w] EXCEPT !.pc = "idle",
                                !.todo = {c \in Connections :
                                     /\ conn[c].status # "absent" /\ ~conn[c].archived
                                     /\ ShouldRunReconnectRecovery(conn[c])}]
  <2>1. r \in Worker /\ r.pc = "idle"
      BY DEF Worker
  <2>2. wk' = [wk EXCEPT ![w] = r] /\ wk[w].pc = "list"
      BY <1>2 DEF List
  <2> HIDE DEF r
  <2> QED BY <2>1, <2>2 DEF StaysOutside
<1>3. CASE ListFails(w)
    BY <1>3, GotoEffect DEF ListFails, StaysOutside
<1>4. ASSUME NEW c \in Connections, SkipLocked(w, c) \/ AcquireFails(w, c)
      PROVE  StaysOutside(w)
  <2> DEFINE r == [wk[w] EXCEPT !.todo = @ \ {c}]
  <2>1. r \in Worker /\ r.pc = wk[w].pc
      BY DEF Worker
  <2>2. wk' = [wk EXCEPT ![w] = r] /\ wk[w].pc = "idle"
      BY <1>4 DEF SkipLocked, AcquireFails
  <2> HIDE DEF r
  <2> QED BY <2>1, <2>2 DEF StaysOutside
<1> QED BY <1>1, <1>2, <1>3, <1>4

LEMMA AcquireEnters ==
    ASSUME SyncTyped, NEW w \in Workers, NEW c \in Connections, Acquire(w, c)
    PROVE  /\ wk[w].pc \notin InsidePcs
           /\ wk' \in [Workers -> Worker]
           /\ wk'[w].pc = "start" /\ wk'[w].cur = c
           /\ \A v \in Workers \ {w} : wk'[v] = wk[v]
<1> DEFINE r == [wk[w] EXCEPT !.pc = "start", !.cur = c, !.todo = @ \ {c}]
<1> wk \in [Workers -> Worker] /\ wk[w] \in Worker
    BY DEF SyncTyped, TypeOK
<1>1. r \in Worker /\ r.pc = "start" /\ r.cur = c
    BY DEF Worker, Pcs, InsidePcs
<1>2. wk' = [wk EXCEPT ![w] = r] /\ wk[w].pc = "idle"
    BY DEF Acquire, At
<1> HIDE DEF r
<1> QED BY <1>1, <1>2 DEF InsidePcs, TryPcs, CatchPcs

LEMMA TypeOutside ==
    ASSUME SyncTyped, NEW w \in Workers,
           JobStep(w) \/ ListFails(w) \/ \E c \in Connections : AcquireFails(w, c)
    PROVE  SyncTyped'
<1>1. CASE Pop(w)
  <2>1. queue' \in Seq(Jobs)
      BY <1>1 DEF Pop, SyncTyped, TypeOK
  <2>2. wk' \in [Workers -> Worker] /\ InHand'
      BY <1>1, OutsideStepStays DEF StaysOutside, SyncTyped, InHand
  <2> QED BY <1>1, <2>1, <2>2 DEF Pop, SyncTyped, TypeOK, dbVars, apiVars, histVars
<1>2. CASE List(w) \/ ListFails(w) \/ \E c \in Connections : SkipLocked(w, c)
  <2>1. wk' \in [Workers -> Worker] /\ InHand'
      BY <1>2, OutsideStepStays DEF StaysOutside, SyncTyped, InHand
  <2> QED BY <1>2, <2>1
          DEF List, ListFails, SkipLocked, Fault, SyncTyped, TypeOK, dbVars, apiVars, histVars
<1>3. ASSUME NEW c \in Connections, Acquire(w, c)
      PROVE  SyncTyped'
  <2>1. wk' \in [Workers -> Worker] /\ InHand'
      BY <1>3, AcquireEnters DEF SyncTyped, InHand
  <2> QED BY <1>3, <2>1 DEF Acquire, SyncTyped, TypeOK, dbVars, apiVars, histVars
<1>4. ASSUME NEW c \in Connections, AcquireFails(w, c)
      PROVE  SyncTyped'
  <2>1. wk' \in [Workers -> Worker] /\ InHand'
      BY <1>4, OutsideStepStays DEF StaysOutside, SyncTyped, InHand
  <2>2. lock' \in [Connections -> Workers \cup {None}]
      BY <1>4 DEF AcquireFails, SyncTyped, TypeOK
  <2> QED BY <1>4, <2>1, <2>2 DEF AcquireFails, Fault, SyncTyped, TypeOK, dbVars, apiVars, histVars
<1> QED BY <1>1, <1>2, <1>3, <1>4 DEF JobStep

(* A worker inside a sync takes its record from one step of it to another  *)
(* of the same connection.                                                 *)
StaysInside(w) ==
    /\ wk[w].pc \in InsidePcs
    /\ wk' \in [Workers -> Worker]
    /\ wk'[w].pc \in InsidePcs /\ wk'[w].cur = wk[w].cur
    /\ \A v \in Workers \ {w} : wk'[v] = wk[v]
    /\ UNCHANGED <<lock, lapsed>>

LEMMA InsideStepStays ==
    ASSUME SyncTyped, NEW w \in Workers, InsideStep(w) \/ Fail(w)
    PROVE  StaysInside(w)
<1> wk \in [Workers -> Worker] /\ wk[w] \in Worker
    BY DEF SyncTyped, TypeOK
<1> 0 \in Tokens
    BY DEF Tokens
<1> USE DEF At, Pcs, InsidePcs, TryPcs, CatchPcs
<1>1. CASE StartRun(w)
  <2>1. wk' = [wk EXCEPT ![w] = [wk[w] EXCEPT !.pc = "select", !.open = TRUE]]
      BY <1>1 DEF StartRun
  <2>2. LET s == [wk[w] EXCEPT !.pc = "select", !.open = TRUE]
        IN  s \in Worker /\ s.pc = "select" /\ s.cur = wk[w].cur
      BY DEF Worker
  <2> QED BY <1>1, <2>1, <2>2 DEF StartRun, StaysInside
<1>2. CASE Select(w)
  <2> DEFINE skip == [wk[w] EXCEPT !.pc = "skip"]
             mark == [wk[w] EXCEPT !.pc = "mark", !.tok = conn[wk[w].cur].token]
  <2>1. conn[wk[w].cur].token \in Tokens
      BY <1>2, RowUpdates DEF Select, SyncTyped, TypeOK, InHand
  <2>2. wk' = [wk EXCEPT ![w] = skip] \/ wk' = [wk EXCEPT ![w] = mark]
      BY <1>2 DEF Select
  <2>3. skip \in Worker /\ skip.pc = "skip" /\ skip.cur = wk[w].cur
      BY DEF Worker
  <2>4. mark \in Worker /\ mark.pc = "mark" /\ mark.cur = wk[w].cur
      BY <2>1 DEF Worker
  <2> HIDE DEF skip, mark
  <2>5. wk[w].pc \in InsidePcs /\ UNCHANGED <<lock, lapsed>>
      BY <1>2 DEF Select
  <2> QED BY <2>2, <2>3, <2>4, <2>5 DEF StaysInside
<1>3. CASE Skip(w)
  <2>1. wk' = [wk EXCEPT ![w] = [wk[w] EXCEPT !.pc = "release", !.open = FALSE]]
      BY <1>3 DEF Skip
  <2>2. LET s == [wk[w] EXCEPT !.pc = "release", !.open = FALSE]
        IN  s \in Worker /\ s.pc = "release" /\ s.cur = wk[w].cur
      BY DEF Worker
  <2> QED BY <1>3, <2>1, <2>2 DEF Skip, StaysInside
<1>4. CASE Mark(w)
    BY <1>4, GotoEffect DEF Mark, StaysInside
<1>5. CASE Fetch(w)
  <2>1. PICK listed \in SUBSET {a \in Accounts : Owner[a] = wk[w].cur}, on \in SUBSET Accounts :
             wk' = [wk EXCEPT ![w].pc = IF listed = {} THEN "import" ELSE "supersede",
                              ![w].listed = listed, ![w].on = on]
      BY <1>5 DEF Fetch
  <2> DEFINE s == [wk[w] EXCEPT !.pc = IF listed = {} THEN "import" ELSE "supersede",
                                !.listed = listed, !.on = on]
  <2>2. s \in Worker /\ s.pc \in {"import", "supersede"} /\ s.cur = wk[w].cur
      BY DEF Worker
  <2>3. wk' = [wk EXCEPT ![w] = s]
      BY <2>1
  <2> QED BY <1>5, <2>2, <2>3 DEF Fetch, StaysInside
<1>6. CASE FetchRefused(w)
    BY <1>6, BeyondWorker DEF FetchRefused, Caught, StaysInside
<1>7. CASE Supersede(w)
  <2> DEFINE s == [wk[w] EXCEPT !.sup = Superseded(w),
                                !.pc = IF Superseded(w) = {} THEN "upsertAccounts"
                                                             ELSE "disableAccounts"]
  <2>1. Superseded(w) \in SUBSET Accounts
      BY DEF Superseded, SyncTyped, TypeOK
  <2>2. s \in Worker /\ s.pc \in {"upsertAccounts", "disableAccounts"} /\ s.cur = wk[w].cur
      BY <2>1 DEF Worker
  <2>3. wk' = [wk EXCEPT ![w] = s]
      BY <1>7 DEF Supersede
  <2> HIDE DEF s
  <2>4. wk[w].pc \in InsidePcs /\ UNCHANGED <<lock, lapsed>>
      BY <1>7 DEF Supersede
  <2> QED BY <2>2, <2>3, <2>4 DEF StaysInside
<1>8. CASE DisableAccounts(w)
    BY <1>8, GotoEffect DEF DisableAccounts, StaysInside
<1>9. CASE DisableAssets(w)
    BY <1>9, GotoEffect DEF DisableAssets, StaysInside
<1>10. CASE Remaining(w)
  <2> DEFINE full == {Owner[b] : b \in wk[w].sup} \ {Owner[a] : a \in accOn}
             s == [wk[w] EXCEPT !.full = full,
                                !.pc = IF full = {} THEN "upsertAccounts" ELSE "archive"]
  <2>1. full \in SUBSET Connections
      BY WorkerFields
  <2>2. s \in Worker /\ s.pc \in {"upsertAccounts", "archive"} /\ s.cur = wk[w].cur
      BY <2>1 DEF Worker
  <2>3. wk' = [wk EXCEPT ![w] = s]
      BY <1>10 DEF Remaining
  <2> HIDE DEF s
  <2>4. wk[w].pc \in InsidePcs /\ UNCHANGED <<lock, lapsed>>
      BY <1>10 DEF Remaining
  <2> QED BY <2>2, <2>3, <2>4 DEF StaysInside
<1>11. CASE Archive(w)
    BY <1>11, GotoEffect DEF Archive, StaysInside
<1>12. CASE UpsertAccounts(w)
  <2> DEFINE s == [wk[w] EXCEPT !.pc = "upsertAssets", !.sup = {}, !.full = {}]
  <2>1. s \in Worker /\ s.pc = "upsertAssets" /\ s.cur = wk[w].cur
      BY DEF Worker
  <2>2. wk' = [wk EXCEPT ![w] = s]
      BY <1>12 DEF UpsertAccounts
  <2> QED BY <1>12, <2>1, <2>2 DEF UpsertAccounts, StaysInside
<1>13. CASE UpsertAssets(w)
  <2> DEFINE s == [wk[w] EXCEPT !.pc = "import", !.on = {}]
  <2>1. s \in Worker /\ s.pc = "import" /\ s.cur = wk[w].cur
      BY DEF Worker
  <2>2. wk' = [wk EXCEPT ![w] = s]
      BY <1>13 DEF UpsertAssets
  <2> QED BY <1>13, <2>1, <2>2 DEF UpsertAssets, StaysInside
<1>14. CASE Import(w)
  <2>1. CASE Goto(w, "succeed")
      BY <1>14, <2>1, GotoEffect DEF Import, StaysInside
  <2>2. CASE Caught(w, "reconnect_required")
      BY <1>14, <2>2, BeyondWorker DEF Import, Caught, StaysInside
  <2> QED BY <1>14, <2>1, <2>2 DEF Import
<1>15. CASE Succeed(w)
    BY <1>15, BeyondWorker, WorkerFields DEF Succeed, StaysInside
<1>16. CASE Record(w)
  <2> DEFINE s == [wk[w] EXCEPT !.pc = "metric", !.open = FALSE, !.tok = 0]
  <2>1. s \in Worker /\ s.pc = "metric" /\ s.cur = wk[w].cur
      BY DEF Worker
  <2>2. wk' = [wk EXCEPT ![w] = s]
      BY <1>16 DEF Record
  <2> QED BY <1>16, <2>1, <2>2 DEF Record, StaysInside
<1>17. CASE Metric(w)
    BY <1>17, GotoEffect DEF Metric, StaysInside
<1>18. CASE Catch(w)
  <2> DEFINE s == [wk[w] EXCEPT !.pc = "recordFailure", !.result = "error"]
  <2>1. s \in Worker /\ s.pc = "recordFailure" /\ s.cur = wk[w].cur
      BY DEF Worker
  <2>2. wk' = [wk EXCEPT ![w] = s]
      BY <1>18 DEF Catch
  <2> QED BY <1>18, <2>1, <2>2 DEF Catch, StaysInside
<1>19. CASE RecordFailure(w)
  <2> DEFINE s == [wk[w] EXCEPT !.pc = "release", !.open = FALSE]
  <2>1. s \in Worker /\ s.pc = "release" /\ s.cur = wk[w].cur
      BY DEF Worker
  <2>2. wk' = [wk EXCEPT ![w] = s]
      BY <1>19 DEF RecordFailure
  <2> QED BY <1>19, <2>1, <2>2 DEF RecordFailure, StaysInside
<1>20. CASE Fail(w)
  <2>1. CASE Goto(w, "release")
      BY <1>20, <2>1, GotoEffect DEF Fail, StaysInside
  <2>2. CASE Caught(w, "error")
      BY <1>20, <2>2, BeyondWorker DEF Fail, Caught, StaysInside
  <2> QED BY <1>20, <2>1, <2>2 DEF Fail
<1> QED BY <1>1, <1>2, <1>3, <1>4, <1>5, <1>6, <1>7, <1>8, <1>9, <1>10, <1>11, <1>12,
           <1>13, <1>14, <1>15, <1>16, <1>17, <1>18, <1>19, <1>20 DEF InsideStep

LEMMA InsideStepTyped ==
    ASSUME SyncTyped, NEW w \in Workers, InsideStep(w) \/ Fail(w)
    PROVE  SyncTyped'
<1>1. StaysInside(w)
    BY InsideStepStays
<1>2. wk[w] \in Worker /\ wk[w].cur \in Connections
    BY <1>1 DEF SyncTyped, TypeOK, InHand, StaysInside
<1>3. wk' \in [Workers -> Worker] /\ InHand'
    BY <1>1, <1>2 DEF SyncTyped, InHand, StaysInside
<1>4. conn' \in [Connections -> ConnectionRow]
  <2> conn \in [Connections -> ConnectionRow]
      BY DEF SyncTyped, TypeOK
  <2>1. CASE Mark(w)
      BY <2>1, <1>2, RowUpdates DEF Mark, Statuses
  <2>2. CASE Archive(w)
      BY <2>2, RowUpdates DEF Archive
  <2>3. CASE Succeed(w)
      BY <2>3, <1>2, RowUpdates DEF Succeed, Statuses
  <2>4. CASE Catch(w)
    <3>1. wk[w].result \in Statuses
        BY <1>2, WorkerFields DEF Statuses
    <3> QED BY <2>4, <3>1, <1>2, RowUpdates DEF Catch
  <2>5. CASE UNCHANGED conn
      BY <2>5
  <2> QED BY <2>1, <2>2, <2>3, <2>4, <2>5
          DEF InsideStep, StartRun, Select, Skip, Fetch, FetchRefused, Supersede,
              DisableAccounts, DisableAssets, Remaining, UpsertAccounts, UpsertAssets,
              Import, Record, Metric, RecordFailure, Fail, dbVars
<1>5. accOn' \subseteq Accounts /\ assetOn' \subseteq Accounts
    BY <1>2, WorkerFields
       DEF SyncTyped, TypeOK, InsideStep, StartRun, Select, Skip, Mark, Fetch, FetchRefused,
           Supersede, DisableAccounts, DisableAssets, Remaining, Archive, UpsertAccounts,
           UpsertAssets, Import, Succeed, Record, Metric, Catch, RecordFailure, Fail, dbVars
<1>8. /\ overtaken' \subseteq Connections /\ crossed' \subseteq Ibans
      /\ met' \in [Workers -> SUBSET (Ibans \cup Connections)]
  <2> /\ overtaken \subseteq Connections /\ crossed \subseteq Ibans
      /\ met \in [Workers -> SUBSET (Ibans \cup Connections)]
      BY DEF SyncTyped, TypeOK
  <2>1. CASE Archive(w)
      BY <2>1, <1>2, WorkerFields DEF Archive
  <2>2. CASE UpsertAccounts(w)
    <3>1. ActiveIbans(w) \subseteq Ibans
        BY <1>2, WorkerFields DEF ActiveIbans
    <3>2. \A v \in Workers : Meets(v, w) \subseteq Ibans \cup Connections
        BY <3>1, <1>2, WorkerFields DEF Meets, SyncTyped, TypeOK
    <3> QED BY <2>2, <3>1, <3>2 DEF UpsertAccounts
  <2>3. CASE Supersede(w)
      BY <2>3 DEF Supersede
  <2>4. CASE UNCHANGED histVars
      BY <2>4 DEF histVars
  <2> QED BY <2>1, <2>2, <2>3, <2>4
          DEF InsideStep, StartRun, Select, Skip, Mark, Fetch, FetchRefused,
              DisableAccounts, DisableAssets, Remaining, UpsertAssets, Import, Succeed,
              Record, Metric, Catch, RecordFailure, Fail, apiVars
<1>9. apart' \subseteq Accounts
  <2> apart \subseteq Accounts
      BY DEF SyncTyped, TypeOK
  <2>1. CASE DisableAccounts(w)
      BY <2>1, <1>2, WorkerFields DEF DisableAccounts, Rewritten
  <2>2. CASE UpsertAccounts(w)
      BY <2>2, <1>2, WorkerFields DEF UpsertAccounts, Rewritten
  <2>3. CASE Fail(w)
      BY <2>3 DEF Fail, LeftApart, Unlike, SyncTyped, TypeOK
  <2>4. CASE UNCHANGED apart
      BY <2>4
  <2> QED BY <2>1, <2>2, <2>3, <2>4
          DEF InsideStep, StartRun, Select, Skip, Mark, Fetch, FetchRefused, Supersede,
              DisableAssets, Remaining, Archive, UpsertAssets, Import, Succeed,
              Record, Metric, Catch, RecordFailure, apiVars
<1>6. CASE Fail(w)
    BY <1>3, <1>4, <1>5, <1>6, <1>8, <1>9 DEF Fail, Fault, SyncTyped, TypeOK, dbVars, apiVars
<1>7. CASE InsideStep(w)
  <2>1. UNCHANGED <<stuck, lock, queue, cooldown, grant, callback, lapsed,
                    faults, crashes>>
      BY <1>7 DEF InsideStep, StartRun, Select, Skip, Mark, Fetch, FetchRefused,
           Supersede, DisableAccounts, DisableAssets, Remaining, Archive, UpsertAccounts,
           UpsertAssets, Import, Succeed, Record, Metric, Catch, RecordFailure,
           dbVars, apiVars, histVars
  <2> QED BY <1>3, <1>4, <1>5, <1>8, <1>9, <2>1 DEF SyncTyped, TypeOK
<1> QED BY <1>6, <1>7

(* The sync ends: released, given up before its try block, or cut off.     *)
Leaves(w) ==
    /\ wk' \in [Workers -> Worker]
    /\ wk'[w].pc = "idle"
    /\ \A v \in Workers \ {w} : wk'[v] = wk[v]

LEMMA LeavingSteps ==
    ASSUME SyncTyped, NEW w \in Workers, Release(w) \/ StartRunFails(w) \/ Crash(w)
    PROVE  Leaves(w) /\ lapsed' = lapsed \ {w}
<1> wk \in [Workers -> Worker] /\ wk[w] \in Worker
    BY DEF SyncTyped, TypeOK
<1>1. PICK todo \in SUBSET Connections : wk' = [wk EXCEPT ![w] = Between(todo)]
  <2>1. wk[w].todo \in SUBSET Connections /\ {} \in SUBSET Connections
      BY WorkerFields
  <2> QED BY <2>1 DEF Release, StartRunFails, Crash, Idle
<1>2. lapsed' = lapsed \ {w}
    BY DEF Release, StartRunFails, Crash
<1> QED BY <1>1, <1>2, BetweenWorker DEF Leaves

LEMMA TypeLeaving ==
    ASSUME SyncTyped, NEW w \in Workers, Release(w) \/ StartRunFails(w) \/ Crash(w)
    PROVE  SyncTyped'
<1>1. /\ wk' \in [Workers -> Worker] /\ InHand'
      /\ lapsed' \subseteq Workers
    BY LeavingSteps DEF Leaves, SyncTyped, TypeOK, InHand, InsidePcs, TryPcs, CatchPcs
<1>2. stuck' \subseteq Connections
  <2>1. StuckAfter(w) \subseteq Connections
      BY DEF StuckAfter, Inside, SyncTyped, TypeOK, InHand
  <2>2. StartRunFails(w) => stuck' \subseteq Connections
      BY DEF StartRunFails, At, SyncTyped, TypeOK, InHand, InsidePcs
  <2> QED BY <2>1, <2>2 DEF Release, Crash
<1>3. lock' \in [Connections -> Workers \cup {None}]
    BY DEF Release, StartRunFails, Crash, ComparedAndDeleted, SyncTyped, TypeOK
<1>4. faults' \in 0..MaxFaults /\ crashes' \in 0..MaxCrashes
    BY DEF Release, StartRunFails, Crash, Fault, SyncTyped, TypeOK
<1>5. UNCHANGED <<conn, accOn, assetOn, queue, cooldown, grant, callback, histVars>>
    BY DEF Release, StartRunFails, Crash, apiVars
<1>6. apart' \subseteq Accounts
    BY DEF Release, StartRunFails, Crash, apiVars, LeftApart, Unlike, SyncTyped, TypeOK
<1> QED BY <1>1, <1>2, <1>3, <1>4, <1>5, <1>6 DEF SyncTyped, TypeOK, histVars

LEMMA TypeInductive == SyncTyped /\ [Next]_vars => SyncTyped'
<1> SUFFICES ASSUME SyncTyped, [Next]_vars
             PROVE  SyncTyped'
    OBVIOUS
<1>1. CASE Environment
    BY <1>1, TypeEnvironment
<1>2. ASSUME NEW w \in Workers, JobStep(w)
      PROVE  SyncTyped'
    BY <1>2, TypeOutside
<1>3. ASSUME NEW w \in Workers, SyncStep(w)
      PROVE  SyncTyped'
    BY <1>3, InsideStepTyped, TypeLeaving DEF SyncStep
<1>4. ASSUME NEW w \in Workers, Disturbance(w)
      PROVE  SyncTyped'
    BY <1>4, InsideStepTyped, TypeLeaving, TypeOutside DEF Disturbance
<1>5. CASE UNCHANGED vars
    BY <1>5 DEF vars, SyncTyped, TypeOK, InHand
<1> QED BY <1>1, <1>2, <1>3, <1>4, <1>5 DEF Next

(* Every variable keeps its type, in every behaviour.                      *)
THEOREM TypeCorrect == Spec => []TypeOK
<1>1. SyncTyped => TypeOK
    BY DEF SyncTyped
<1> QED BY <1>1, TypeInitial, TypeInductive, PTL DEF Spec

-----------------------------------------------------------------------------
(* The lock.  syncConnection implements the discipline of Lease: whatever  *)
(* happens inside a sync leaves the key alone, and a worker leaves a sync  *)
(* by its own release or without touching the key.  The history variable   *)
(* lapsed must only name workers that are inside, or a crash between two   *)
(* syncs would change it.                                                  *)

LapsedInside == \A w \in lapsed : wk[w].pc \in InsidePcs
LockInv == SyncTyped /\ LapsedInside

LEMMA InsideValue ==
    ASSUME SyncTyped, NEW w \in Workers
    PROVE  Inside(w) # None <=> wk[w].pc \in InsidePcs
  BY DEF SyncTyped, InHand, Inside

LEMMA LockInitial == Init => LockInv /\ L!LeaseInit
<1> SUFFICES ASSUME Init PROVE LockInv /\ L!LeaseInit
    OBVIOUS
<1>1. SyncTyped
    BY TypeInitial
<1>2. \A w \in Workers : Inside(w) = None
  <2>1. \A w \in Workers : wk[w].pc = "idle"
      BY BetweenWorker DEF Init, Idle
  <2> QED BY <2>1 DEF Inside, InsidePcs, TryPcs, CatchPcs
<1> QED BY <1>1, <1>2 DEF LockInv, LapsedInside, Init, L!LeaseInit

(* What changes neither lock nor lapsed nor where the workers are.         *)
LEMMA NobodyMoves ==
    ASSUME LockInv, UNCHANGED <<lock, lapsed>>,
           \A v \in Workers : /\ (wk[v].pc \in InsidePcs <=> wk'[v].pc \in InsidePcs)
                             /\ (wk[v].pc \in InsidePcs => wk'[v].cur = wk[v].cur)
    PROVE  LapsedInside' /\ UNCHANGED L!leaseVars
<1>1. \A v \in Workers : Inside(v)' = Inside(v)
    BY DEF Inside
<1>2. [w \in Workers |-> Inside(w)]' = [w \in Workers |-> Inside(w)]
    BY <1>1
<1>3. LapsedInside'
    BY DEF LockInv, SyncTyped, TypeOK, LapsedInside
<1> QED BY <1>2, <1>3 DEF L!leaseVars

LEMMA LockStep == LockInv /\ [Next]_vars => LapsedInside' /\ [L!LeaseNext]_(L!leaseVars)
<1> SUFFICES ASSUME LockInv, [Next]_vars
             PROVE  LapsedInside' /\ [L!LeaseNext]_(L!leaseVars)
    OBVIOUS
<1> SyncTyped /\ wk \in [Workers -> Worker] /\ lapsed \subseteq Workers
    BY DEF LockInv, SyncTyped, TypeOK
<1>1. ASSUME NEW c \in Connections, LockExpires(c)
      PROVE  LapsedInside' /\ L!Expire(c)
  <2>1. L!Expire(c)
      BY <1>1 DEF LockExpires, L!Expire, Inside, apiVars, histVars
  <2>2. LapsedInside'
      BY <1>1, InsideValue DEF LockExpires, LockInv, LapsedInside
  <2> QED BY <2>1, <2>2
<1>2. ASSUME Environment, \A c \in Connections : ~LockExpires(c)
      PROVE  LapsedInside' /\ UNCHANGED L!leaseVars
  <2>1. UNCHANGED <<wk, lock, lapsed>>
      BY <1>2 DEF Environment, Consent, Revoke, CallbackUpsert, CallbackEnqueue, CallbackFail,
                  Disconnect, DayPasses, RequestSync, CooldownEnds, Tick
  <2> QED BY <2>1, NobodyMoves
<1>3. ASSUME NEW w \in Workers,
             \/ Pop(w) \/ List(w) \/ ListFails(w)
             \/ \E c \in Connections : SkipLocked(w, c) \/ (AcquireFails(w, c) /\ UNCHANGED lock)
      PROVE  LapsedInside' /\ UNCHANGED L!leaseVars
  <2>1. UNCHANGED <<lock, lapsed>>
      BY <1>3 DEF Pop, List, ListFails, SkipLocked, AcquireFails
  <2>2. StaysOutside(w)
      BY <1>3, OutsideStepStays
  <2> QED BY <2>1, <2>2, NobodyMoves DEF StaysOutside
<1>4. ASSUME NEW w \in Workers, NEW c \in Connections, AcquireFails(w, c), ~UNCHANGED lock
      PROVE  LapsedInside' /\ L!AcquireUnknown(w, c)
  <2>1. StaysOutside(w)
      BY <1>4, OutsideStepStays
  <2>2. \A v \in Workers : Inside(v)' = Inside(v)
      BY <2>1 DEF StaysOutside, Inside
  <2>3. Inside(w) = None
      BY <2>1 DEF StaysOutside, Inside
  <2>4. lock[c] = None /\ lock' = [lock EXCEPT ![c] = w] /\ UNCHANGED lapsed
      BY <1>4 DEF AcquireFails
  <2>5. LapsedInside'
      BY <2>1, <2>4 DEF LockInv, LapsedInside, StaysOutside
  <2> QED BY <2>2, <2>3, <2>4, <2>5 DEF L!AcquireUnknown
<1>5. ASSUME NEW w \in Workers, NEW c \in Connections, Acquire(w, c)
      PROVE  LapsedInside' /\ L!Acquire(w, c)
  <2>1. /\ wk[w].pc \notin InsidePcs /\ wk'[w].pc \in InsidePcs /\ wk'[w].cur = c
        /\ \A v \in Workers \ {w} : wk'[v] = wk[v]
      BY <1>5, AcquireEnters DEF InsidePcs
  <2>2. [v \in Workers |-> Inside(v)]' = [[v \in Workers |-> Inside(v)] EXCEPT ![w] = c]
      BY <2>1 DEF Inside
  <2>3. Inside(w) = None
      BY <2>1 DEF Inside
  <2>4. lock[c] = None /\ lock' = [lock EXCEPT ![c] = w] /\ UNCHANGED lapsed
      BY <1>5 DEF Acquire
  <2>5. LapsedInside'
      BY <2>1, <2>4 DEF LockInv, LapsedInside
  <2> QED BY <2>2, <2>3, <2>4, <2>5 DEF L!Acquire
<1>6. ASSUME NEW w \in Workers, InsideStep(w) \/ Fail(w)
      PROVE  LapsedInside' /\ UNCHANGED L!leaseVars
    BY <1>6, InsideStepStays, NobodyMoves DEF StaysInside
<1>7. ASSUME NEW w \in Workers, Release(w) \/ StartRunFails(w) \/ Crash(w)
      PROVE  LapsedInside' /\ (L!Release(w) \/ L!Leave({w}) \/ UNCHANGED L!leaseVars)
  <2>1. Leaves(w) /\ lapsed' = lapsed \ {w}
      BY <1>7, LeavingSteps
  <2>2. wk'[w].pc \notin InsidePcs
      BY <2>1 DEF Leaves, InsidePcs, TryPcs, CatchPcs
  <2>3. [v \in Workers |-> Inside(v)]' = [[v \in Workers |-> Inside(v)] EXCEPT ![w] = None]
      BY <2>1, <2>2 DEF Leaves, Inside
  <2>4. LapsedInside'
      BY <2>1 DEF Leaves, LockInv, LapsedInside
  <2>5. CASE Inside(w) # None /\ lock' = lock
      BY <2>1, <2>3, <2>4, <2>5 DEF L!Leave
  <2>6. CASE Inside(w) # None /\ lock' = ComparedAndDeleted(w)
    <3>1. wk[w].cur = Inside(w) /\ wk[w].cur \in Connections
        BY <2>6, InsideValue DEF Inside, SyncTyped, InHand
    <3>2. lock' = [k \in Connections |-> IF k = Inside(w) /\ lock[k] = w THEN None ELSE lock[k]]
        BY <2>6, <3>1 DEF ComparedAndDeleted, SyncTyped, TypeOK
    <3>3. L!Release(w)
        BY <2>1, <2>3, <2>6, <3>2 DEF L!Release, L!Deletes
    <3> QED BY <3>3, <2>4
  <2>7. CASE Inside(w) = None
    <3>1. Crash(w) /\ wk[w].pc \notin InsidePcs
        BY <1>7, <2>7, InsideValue DEF Release, StartRunFails, At, InsidePcs
    <3>2. lock' = lock /\ lapsed' = lapsed
        BY <3>1, <2>1 DEF Crash, LockInv, LapsedInside
    <3>3. [v \in Workers |-> Inside(v)]' = [v \in Workers |-> Inside(v)]
        BY <2>3, <2>7
    <3> QED BY <3>2, <3>3, <2>4 DEF L!leaseVars
  <2>8. lock' = lock \/ lock' = ComparedAndDeleted(w)
      BY <1>7 DEF Release, StartRunFails, Crash
  <2> QED BY <2>5, <2>6, <2>7, <2>8
<1>8. CASE UNCHANGED vars
    BY <1>8, NobodyMoves DEF vars
<1> DEFINE Goal == LapsedInside' /\ [L!LeaseNext]_(L!leaseVars)
<1>9. CASE Environment
    BY <1>1, <1>2, <1>9 DEF L!LeaseNext
<1>10. ASSUME NEW w \in Workers, NEW c \in Connections, AcquireFails(w, c)
       PROVE  Goal
    BY <1>3, <1>4, <1>10 DEF L!LeaseNext
<1>11. ASSUME NEW w \in Workers, JobStep(w)
       PROVE  Goal
  <2>1. ASSUME NEW c \in Connections, Acquire(w, c)
        PROVE  Goal
    <3>1. LapsedInside' /\ L!Acquire(w, c)
        BY <1>5, <2>1
    <3>2. L!LeaseNext
        BY <3>1 DEF L!LeaseNext
    <3> QED BY <3>1, <3>2
  <2>2. ASSUME NEW c \in Connections, SkipLocked(w, c)
        PROVE  Goal
    <3>1. \E d \in Connections : SkipLocked(w, d) \/ (AcquireFails(w, d) /\ UNCHANGED lock)
        BY <2>2
    <3> QED BY <1>3, <3>1
  <2>3. CASE Pop(w) \/ List(w)
      BY <1>3, <2>3
  <2> QED BY <1>11, <2>1, <2>2, <2>3 DEF JobStep
<1>12. ASSUME NEW w \in Workers, Release(w) \/ StartRunFails(w) \/ Crash(w)
       PROVE  Goal
    BY <1>7, <1>12 DEF L!LeaseNext
<1>13. ASSUME NEW w \in Workers, SyncStep(w)
       PROVE  Goal
    BY <1>6, <1>12, <1>13 DEF SyncStep
<1>14. ASSUME NEW w \in Workers, Disturbance(w)
       PROVE  Goal
    BY <1>3, <1>6, <1>10, <1>12, <1>14 DEF Disturbance
<1> QED BY <1>8, <1>9, <1>11, <1>13, <1>14 DEF Next

(* syncConnection implements the lock discipline of Lease.                 *)
THEOREM SyncImplementsLease == Spec => LeaseKept
<1>1. LockInv /\ [Next]_vars => LockInv'
    BY TypeInductive, LockStep DEF LockInv
<1> QED BY <1>1, LockInitial, LockStep, PTL DEF Spec, LeaseKept, L!LeaseSpec

-----------------------------------------------------------------------------
(* One bank account is counted once.  Between the moment a sync has        *)
(* disabled the superseded accounts and the moment it enables its own,     *)
(* nothing supersedes any more but what the sync has met: only a worker    *)
(* enables accounts, and it tells the others that have looked.             *)

SupersedePcs == LookedPcs \cup {"supersede"}
ClearedPcs == LookedPcs \ {"disableAccounts"}

ListsOwn(w) == wk[w].pc \in SupersedePcs =>
                 /\ wk[w].on \subseteq wk[w].listed
                 /\ \A a \in wk[w].listed : Owner[a] = wk[w].cur
Clears(w) == /\ wk[w].pc = "disableAccounts" =>
                  \A b \in Superseded(w) : b \in wk[w].sup \/ Iban[b] \in met[w]
             /\ wk[w].pc \in ClearedPcs =>
                  \A b \in Superseded(w) : Iban[b] \in met[w]

CountInv == /\ SyncTyped /\ IbanCountedOnce
            /\ \A w \in Workers : ListsOwn(w) /\ Clears(w)

LEMMA CountInitial == Init => CountInv
<1> SUFFICES ASSUME Init PROVE CountInv
    OBVIOUS
<1>1. \A w \in Workers : wk[w].pc = "idle"
    BY BetweenWorker DEF Init, Idle
<1> QED BY <1>1, TypeInitial DEF CountInv, ListsOwn, Clears, SupersedePcs, LookedPcs,
           EnablingPcs, ClearedPcs, Init, IbanCountedOnce

(* A worker that does not move keeps its part while nothing is enabled.    *)
LEMMA StandsClear ==
    ASSUME CountInv, accOn' \subseteq accOn,
           NEW v \in Workers, wk'[v] = wk[v], met'[v] = met[v]
    PROVE  (ListsOwn(v) /\ Clears(v))'
<1>1. Superseded(v)' \subseteq Superseded(v)
    BY DEF Superseded, ActiveIbans
<1> QED BY <1>1 DEF CountInv, ListsOwn, Clears

(* Steps that enable no account and leave every worker that supersedes     *)
(* where it is, or takes it out of superseding.                            *)
LEMMA NothingEnabled ==
    ASSUME CountInv, SyncTyped', accOn' \subseteq accOn, UNCHANGED <<met, crossed>>,
           \A w \in Workers : wk'[w] = wk[w] \/ wk'[w].pc \notin SupersedePcs
    PROVE  CountInv'
<1>1. ASSUME NEW v \in Workers
      PROVE  (ListsOwn(v) /\ Clears(v))'
  <2>1. CASE wk'[v] = wk[v]
      BY <2>1, StandsClear
  <2>2. CASE wk'[v].pc \notin SupersedePcs
      BY <2>2 DEF ListsOwn, Clears, SupersedePcs, ClearedPcs, LookedPcs, EnablingPcs
  <2> QED BY <2>1, <2>2
<1>2. IbanCountedOnce'
    BY DEF CountInv, IbanCountedOnce
<1> QED BY <1>1, <1>2 DEF CountInv

(* What a step of superseding leaves of the worker's record.               *)
LEMMA SupersedeSteps ==
    ASSUME SyncTyped, NEW w \in Workers
    PROVE  /\ Supersede(w) =>
                /\ wk'[w].sup = Superseded(w)
                /\ wk'[w].pc = IF Superseded(w) = {} THEN "upsertAccounts"
                                                     ELSE "disableAccounts"
           /\ Supersede(w) \/ DisableAccounts(w) \/ DisableAssets(w) \/ Remaining(w)
                 \/ Archive(w) =>
                wk'[w].on = wk[w].on /\ wk'[w].listed = wk[w].listed
           /\ Remaining(w) =>
                /\ wk'[w].pc \in {"upsertAccounts", "archive"}
                /\ wk'[w].full = {Owner[b] : b \in wk[w].sup} \ {Owner[a] : a \in accOn}
           /\ DisableAccounts(w) \/ DisableAssets(w) \/ Archive(w) =>
                wk'[w].sup = wk[w].sup /\ wk'[w].full = wk[w].full
<1> wk \in [Workers -> Worker] /\ wk[w] \in Worker
    BY DEF SyncTyped, TypeOK
<1>1. CASE Supersede(w)
  <2> DEFINE s == [wk[w] EXCEPT !.sup = Superseded(w),
                                !.pc = IF Superseded(w) = {} THEN "upsertAccounts"
                                                             ELSE "disableAccounts"]
  <2>1. /\ s.sup = Superseded(w) /\ s.on = wk[w].on /\ s.listed = wk[w].listed
        /\ s.pc = IF Superseded(w) = {} THEN "upsertAccounts" ELSE "disableAccounts"
      BY DEF Worker
  <2>2. wk' = [wk EXCEPT ![w] = s] /\ wk[w].pc = "supersede"
      BY <1>1 DEF Supersede, At
  <2> HIDE DEF s
  <2>3. wk'[w] = s
      BY <2>2
  <2> QED BY <2>1, <2>2, <2>3 DEF DisableAccounts, DisableAssets, Remaining, Archive, At
<1>2. CASE Remaining(w)
  <2> DEFINE full == {Owner[b] : b \in wk[w].sup} \ {Owner[a] : a \in accOn}
             s == [wk[w] EXCEPT !.full = full,
                                !.pc = IF full = {} THEN "upsertAccounts" ELSE "archive"]
  <2>1. /\ s.on = wk[w].on /\ s.listed = wk[w].listed /\ s.full = full
        /\ s.pc \in {"upsertAccounts", "archive"}
      BY DEF Worker
  <2>2. wk' = [wk EXCEPT ![w] = s] /\ wk[w].pc = "remaining"
      BY <1>2 DEF Remaining, At
  <2> HIDE DEF s
  <2>3. wk'[w] = s
      BY <2>2
  <2> QED BY <2>1, <2>2, <2>3 DEF Supersede, DisableAccounts, DisableAssets, Archive, At
<1>3. CASE DisableAccounts(w) \/ DisableAssets(w) \/ Archive(w)
  <2>1. PICK p \in Pcs : Goto(w, p)
      BY <1>3 DEF DisableAccounts, DisableAssets, Archive, Pcs, InsidePcs, TryPcs
  <2> QED BY <1>3, <2>1, GotoEffect
          DEF DisableAccounts, DisableAssets, Archive, Supersede, Remaining, At
<1> QED BY <1>1, <1>2, <1>3

(* The steps of one worker through superseding and enabling.               *)
LEMMA CountSupersede ==
    ASSUME CountInv, SyncTyped', NEW w \in Workers,
           Supersede(w) \/ DisableAccounts(w) \/ DisableAssets(w) \/ Remaining(w) \/ Archive(w)
    PROVE  CountInv'
<1> SyncTyped /\ wk \in [Workers -> Worker]
       /\ met \in [Workers -> SUBSET (Ibans \cup Connections)]
    BY DEF CountInv, SyncTyped, TypeOK
<1> USE DEF LookedPcs, EnablingPcs
<1>1. StaysInside(w)
    BY InsideStepStays DEF InsideStep
<1>2. /\ wk'[w].on = wk[w].on /\ wk'[w].listed = wk[w].listed /\ wk'[w].cur = wk[w].cur
      /\ wk[w].pc \in SupersedePcs /\ accOn' \subseteq accOn /\ crossed' = crossed
      /\ \A v \in Workers \ {w} : wk'[v] = wk[v] /\ met'[v] = met[v]
    BY <1>1, SupersedeSteps DEF StaysInside, Supersede, DisableAccounts, DisableAssets,
       Remaining, Archive, At, SupersedePcs, dbVars, apiVars, histVars
<1>3. ListsOwn(w)'
    BY <1>2 DEF CountInv, ListsOwn
<1>4. IbanCountedOnce'
    BY <1>2 DEF CountInv, IbanCountedOnce
<1>5. Superseded(w)' = Superseded(w) \cap accOn'
    BY <1>2 DEF Superseded, ActiveIbans
<1>6. Clears(w)'
  <2>1. CASE Supersede(w)
    <3>1. Superseded(w)' = Superseded(w)
        BY <1>5, <2>1 DEF Supersede, dbVars, Superseded
    <3>2. CASE Superseded(w) = {}
        BY <3>1, <3>2 DEF Clears
    <3>3. CASE Superseded(w) # {}
        BY <3>1, <3>3, <2>1, SupersedeSteps DEF Clears, ClearedPcs
    <3> QED BY <3>2, <3>3
  <2>2. CASE DisableAccounts(w)
    <3>1. wk'[w].pc = "disableAssets" /\ accOn' = accOn \ wk[w].sup /\ met' = met
        BY <2>2, GotoEffect DEF DisableAccounts, Pcs, InsidePcs, TryPcs, apiVars, histVars
    <3>2. \A b \in Superseded(w) : b \in wk[w].sup \/ Iban[b] \in met[w]
        BY <2>2 DEF DisableAccounts, At, CountInv, Clears
    <3> QED BY <3>1, <3>2, <1>5 DEF Clears
  <2>3. CASE DisableAssets(w) \/ Remaining(w) \/ Archive(w)
    <3>1. wk'[w].pc \in ClearedPcs
      <4>1. CASE Remaining(w)
          BY <4>1, SupersedeSteps DEF ClearedPcs
      <4>2. CASE DisableAssets(w) \/ Archive(w)
          BY <4>2, GotoEffect DEF DisableAssets, Archive, Pcs, InsidePcs, TryPcs, ClearedPcs
      <4> QED BY <2>3, <4>1, <4>2
    <3>2. \A b \in Superseded(w) : Iban[b] \in met[w]
        BY <2>3 DEF DisableAssets, Remaining, Archive, At, CountInv, Clears, ClearedPcs
    <3>3. met' = met
        BY <2>3 DEF DisableAssets, Remaining, Archive, apiVars, histVars
    <3> QED BY <3>1, <3>2, <3>3, <1>5 DEF Clears, ClearedPcs
  <2> QED BY <2>1, <2>2, <2>3
<1>7. ASSUME NEW v \in Workers
      PROVE  (ListsOwn(v) /\ Clears(v))'
    BY <1>2, <1>3, <1>6, StandsClear
<1> QED BY <1>4, <1>7 DEF CountInv

(* Enabling: the sync's own IBANs are now enabled once, or met; and every  *)
(* other sync that has looked meets them.                                  *)
LEMMA UpsertLeaves ==
    ASSUME SyncTyped, NEW w \in Workers, UpsertAccounts(w)
    PROVE  /\ wk[w].pc = "upsertAccounts" /\ wk'[w].pc = "upsertAssets"
           /\ \A v \in Workers \ {w} : wk'[v] = wk[v]
<1> DEFINE s == [wk[w] EXCEPT !.pc = "upsertAssets", !.sup = {}, !.full = {}]
<1> wk \in [Workers -> Worker] /\ wk[w] \in Worker
    BY DEF SyncTyped, TypeOK
<1>1. s.pc = "upsertAssets"
    BY DEF Worker
<1>2. wk' = [wk EXCEPT ![w] = s] /\ wk[w].pc = "upsertAccounts"
    BY DEF UpsertAccounts, At
<1> HIDE DEF s
<1> QED BY <1>1, <1>2

LEMMA CountEnable ==
    ASSUME CountInv, SyncTyped', NEW w \in Workers, UpsertAccounts(w)
    PROVE  CountInv'
<1> SyncTyped /\ wk \in [Workers -> Worker] /\ accOn \subseteq Accounts
    BY DEF CountInv, SyncTyped, TypeOK
<1>1. /\ wk[w].pc = "upsertAccounts" /\ wk'[w].pc = "upsertAssets"
      /\ \A v \in Workers \ {w} : wk'[v] = wk[v]
      /\ accOn' = (accOn \ wk[w].listed) \cup wk[w].on
      /\ crossed' = (crossed \ ActiveIbans(w)) \cup (met[w] \cap ActiveIbans(w))
      /\ \A v \in Workers : met'[v] = met[v] \cup Meets(v, w)
    BY UpsertLeaves DEF UpsertAccounts
<1>2. \A a \in wk[w].on : Owner[a] = wk[w].cur /\ (Iban[a] = None \/ Iban[a] \in ActiveIbans(w))
    BY <1>1 DEF CountInv, ListsOwn, SupersedePcs, LookedPcs, EnablingPcs, ActiveIbans
<1>3. ASSUME NEW b \in accOn, Owner[b] # wk[w].cur, Iban[b] \in ActiveIbans(w)
      PROVE  Iban[b] \in crossed'
    BY <1>1, <1>3 DEF CountInv, Clears, ClearedPcs, LookedPcs, EnablingPcs, Superseded
<1>4. IbanCountedOnce'
  <2> SUFFICES ASSUME NEW a \in accOn', NEW b \in accOn', Owner[a] # Owner[b],
                      Iban[a] # None, Iban[a] = Iban[b]
               PROVE  Iban[a] \in crossed'
      BY DEF IbanCountedOnce
  <2>1. CASE Iban[a] \in ActiveIbans(w)
    <3>1. PICK x \in {a, b} : Owner[x] # wk[w].cur
        OBVIOUS
    <3>2. x \in accOn /\ Iban[x] = Iban[a]
        BY <1>1, <1>2, <3>1
    <3> QED BY <1>3, <2>1, <3>1, <3>2
  <2>2. CASE Iban[a] \notin ActiveIbans(w)
    <3>1. a \in accOn /\ b \in accOn
        BY <1>1, <1>2, <2>2
    <3>2. Iban[a] \in crossed
        BY <3>1 DEF CountInv, IbanCountedOnce
    <3> QED BY <1>1, <2>2, <3>2
  <2> QED BY <2>1, <2>2
<1>5. ASSUME NEW v \in Workers
      PROVE  (ListsOwn(v) /\ Clears(v))'
  <2>1. CASE v = w
      BY <1>1, <2>1 DEF ListsOwn, Clears, SupersedePcs, ClearedPcs, LookedPcs, EnablingPcs
  <2>2. CASE v # w
    <3>1. wk'[v] = wk[v] /\ ListsOwn(v)'
        BY <1>1, <2>2 DEF CountInv, ListsOwn
    <3>2. ASSUME NEW b \in Superseded(v)', wk[v].pc \in LookedPcs
          PROVE  b \in Superseded(v) \/ Iban[b] \in met'[v]
      <4>1. b \in accOn' /\ Owner[b] # wk[v].cur /\ Iban[b] \in ActiveIbans(v)
          BY <3>1 DEF Superseded, ActiveIbans
      <4>2. CASE b \in accOn
          BY <4>1, <4>2 DEF Superseded
      <4>3. CASE b \in wk[w].on
        <5>1. Owner[b] = wk[w].cur /\ Iban[b] \in ActiveIbans(w)
            BY <1>2, <4>1, <4>3 DEF ActiveIbans
        <5> QED BY <1>1, <3>2, <4>1, <5>1 DEF Meets
      <4> QED BY <1>1, <4>1, <4>2, <4>3
    <3>3. Clears(v) /\ met[v] \subseteq met'[v]
        BY <1>1 DEF CountInv
    <3>4. wk[v].pc = "disableAccounts" \/ wk[v].pc \in ClearedPcs => wk[v].pc \in LookedPcs
        BY DEF ClearedPcs, LookedPcs, EnablingPcs
    <3>5. Clears(v)'
        BY <3>1, <3>2, <3>3, <3>4 DEF Clears
    <3> QED BY <3>1, <3>5
  <2> QED BY <2>1, <2>2
<1> QED BY <1>4, <1>5 DEF CountInv

LEMMA CountFetch ==
    ASSUME CountInv, SyncTyped', NEW w \in Workers, Fetch(w)
    PROVE  CountInv'
<1> SyncTyped /\ wk \in [Workers -> Worker] /\ wk[w] \in Worker
    BY DEF CountInv, SyncTyped, TypeOK
<1>1. PICK listed \in SUBSET {a \in Accounts : Owner[a] = wk[w].cur},
           on \in SUBSET Accounts :
           on \subseteq listed /\ wk' = [wk EXCEPT ![w].pc = IF listed = {} THEN "import" ELSE "supersede",
                            ![w].listed = listed, ![w].on = on]
    BY DEF Fetch
<1> DEFINE s == [wk[w] EXCEPT !.pc = IF listed = {} THEN "import" ELSE "supersede",
                              !.listed = listed, !.on = on]
<1>2. s.pc \in {"import", "supersede"} /\ s.cur = wk[w].cur
      /\ s.listed = listed /\ s.on = on
    BY DEF Worker
<1>3. wk' = [wk EXCEPT ![w] = s]
    BY <1>1
<1> HIDE DEF s
<1>4. wk'[w] = s /\ \A v \in Workers \ {w} : wk'[v] = wk[v]
    BY <1>3
<1>5. ListsOwn(w)'
    BY <1>1, <1>2, <1>4 DEF ListsOwn
<1>6. Clears(w)'
    BY <1>2, <1>4 DEF Clears, ClearedPcs, LookedPcs, EnablingPcs
<1>7. IbanCountedOnce' /\ accOn' = accOn /\ met' = met
    BY DEF Fetch, dbVars, apiVars, histVars, CountInv, IbanCountedOnce
<1>8. ASSUME NEW v \in Workers
      PROVE  (ListsOwn(v) /\ Clears(v))'
    BY <1>4, <1>5, <1>6, <1>7, StandsClear
<1> QED BY <1>7, <1>8 DEF CountInv

(* The other steps inside a sync do not lead to enabling an account or an  *)
(* asset.                                                                  *)
LEMMA OtherInsideSteps ==
    ASSUME SyncTyped, NEW w \in Workers,
           StartRun(w) \/ Skip(w) \/ FetchRefused(w) \/ UpsertAssets(w)
               \/ Import(w) \/ Succeed(w) \/ Record(w) \/ Metric(w) \/ Catch(w)
               \/ RecordFailure(w) \/ Fail(w)
    PROVE  wk'[w].pc \notin EnablingPcs \cup {"upsertAssets"}
<1> wk \in [Workers -> Worker] /\ wk[w] \in Worker
    BY DEF SyncTyped, TypeOK
<1> DEFINE writing == EnablingPcs \cup {"upsertAssets"}
<1> USE DEF EnablingPcs
<1>1. CASE \E p \in Pcs \ writing : Goto(w, p)
    BY <1>1, GotoEffect
<1>2. ASSUME NEW p \in Pcs \ writing, NEW t \in Tokens,
             NEW e \in {"error", "reconnect_required"},
             wk' = [wk EXCEPT ![w] = Beyond(w, p, t, e)]
      PROVE  wk'[w].pc \notin writing
    BY <1>2, BeyondWorker
<1>3. 0 \in Tokens /\ wk[w].tok \in Tokens
      /\ {"release", "succeed", "catch", "record"} \subseteq Pcs
    BY WorkerFields DEF Tokens, Pcs, InsidePcs, TryPcs, CatchPcs
<1>4. CASE Metric(w)
    BY <1>1, <1>3, <1>4 DEF Metric
<1>5. CASE FetchRefused(w) \/ Succeed(w)
    BY <1>2, <1>3, <1>5 DEF FetchRefused, Succeed, Caught
<1>6. CASE Import(w) \/ Fail(w)
  <2>1. Goto(w, "succeed") \/ Goto(w, "release") \/ Caught(w, "error")
            \/ Caught(w, "reconnect_required")
      BY <1>6 DEF Import, Fail
  <2> QED BY <2>1, <1>1, <1>2, <1>3 DEF Caught
<1>7. CASE StartRun(w) \/ Skip(w) \/ UpsertAssets(w) \/ Record(w) \/ Catch(w) \/ RecordFailure(w)
  <2>1. /\ [wk[w] EXCEPT !.pc = "select", !.open = TRUE].pc = "select"
        /\ [wk[w] EXCEPT !.pc = "release", !.open = FALSE].pc = "release"
        /\ [wk[w] EXCEPT !.pc = "import", !.on = {}].pc = "import"
        /\ [wk[w] EXCEPT !.pc = "metric", !.open = FALSE, !.tok = 0].pc = "metric"
        /\ [wk[w] EXCEPT !.pc = "recordFailure", !.result = "error"].pc = "recordFailure"
      BY DEF Worker
  <2> QED BY <1>7, <2>1 DEF StartRun, Skip, UpsertAssets, Record, Catch, RecordFailure
<1> QED BY <1>4, <1>5, <1>6, <1>7

LEMMA SelectingSteps ==
    ASSUME SyncTyped, NEW w \in Workers
    PROVE  /\ Select(w) => \/ wk'[w].pc = "skip"
                           \/ wk'[w].pc = "mark" /\ ~conn[wk[w].cur].archived
           /\ Mark(w) => wk'[w].pc = "fetch"
<1> wk \in [Workers -> Worker] /\ wk[w] \in Worker
    BY DEF SyncTyped, TypeOK
<1>1. /\ [wk[w] EXCEPT !.pc = "skip"].pc = "skip"
      /\ [wk[w] EXCEPT !.pc = "mark", !.tok = conn[wk[w].cur].token].pc = "mark"
    BY DEF Worker
<1>2. Select(w) => \/ wk'[w].pc = "skip"
                   \/ wk'[w].pc = "mark" /\ ~conn[wk[w].cur].archived
    BY <1>1 DEF Select
<1>3. Mark(w) => wk'[w].pc = "fetch"
    BY GotoEffect DEF Mark, Pcs, InsidePcs, TryPcs
<1> QED BY <1>2, <1>3

(* A step of a worker outside the supersession and the enabling.           *)
LEMMA OtherSteps ==
    ASSUME SyncTyped, NEW w \in Workers,
           \/ JobStep(w) \/ ListFails(w) \/ (\E c \in Connections : AcquireFails(w, c))
           \/ Release(w) \/ StartRunFails(w) \/ Crash(w)
           \/ StartRun(w) \/ Skip(w) \/ FetchRefused(w) \/ UpsertAssets(w)
               \/ Import(w) \/ Succeed(w) \/ Record(w) \/ Metric(w) \/ Catch(w)
               \/ RecordFailure(w) \/ Fail(w)
    PROVE  /\ wk'[w].pc \notin EnablingPcs
           /\ \A v \in Workers \ {w} : wk'[v] = wk[v]
           /\ UNCHANGED <<accOn, histVars>>
<1>1. CASE JobStep(w) \/ ListFails(w) \/ (\E c \in Connections : AcquireFails(w, c))
  <2>1. UNCHANGED <<accOn, histVars>>
      BY <1>1 DEF JobStep, Pop, List, ListFails, Acquire, SkipLocked, AcquireFails, dbVars,
                  apiVars
  <2>2. wk'[w].pc \notin EnablingPcs /\ \A v \in Workers \ {w} : wk'[v] = wk[v]
      BY <1>1, OutsideStepStays, AcquireEnters
         DEF JobStep, StaysOutside, EnablingPcs, InsidePcs, TryPcs
  <2> QED BY <2>1, <2>2
<1>2. CASE Release(w) \/ StartRunFails(w) \/ Crash(w)
  <2>1. UNCHANGED <<accOn, histVars>>
      BY <1>2 DEF Release, StartRunFails, Crash, apiVars
  <2> QED BY <1>2, <2>1, LeavingSteps DEF Leaves, EnablingPcs
<1>3. CASE StartRun(w) \/ Skip(w) \/ FetchRefused(w) \/ UpsertAssets(w)
               \/ Import(w) \/ Succeed(w) \/ Record(w) \/ Metric(w) \/ Catch(w)
               \/ RecordFailure(w) \/ Fail(w)
  <2>1. UNCHANGED <<accOn, histVars>>
      BY <1>3 DEF StartRun, Skip, FetchRefused, UpsertAssets, Import, Succeed, Record,
                  Metric, Catch, RecordFailure, Fail, dbVars, apiVars
  <2>2. InsideStep(w) \/ Fail(w)
      BY <1>3 DEF InsideStep
  <2>3. \A v \in Workers \ {w} : wk'[v] = wk[v]
      BY <2>2, InsideStepStays DEF StaysInside
  <2> QED BY <1>3, <2>1, <2>3, OtherInsideSteps
<1> QED BY <1>1, <1>2, <1>3

LEMMA CountInductive == CountInv /\ [Next]_vars => CountInv'
<1> SUFFICES ASSUME CountInv, [Next]_vars
             PROVE  CountInv'
    OBVIOUS
<1> SyncTyped /\ SyncTyped'
    BY TypeInductive DEF CountInv
<1>1. CASE Environment
  <2>1. UNCHANGED <<wk, met, crossed>> /\ accOn' \subseteq accOn
      BY <1>1 DEF Environment, Consent, Revoke, CallbackUpsert, CallbackEnqueue, CallbackFail,
         Disconnect, DayPasses, LockExpires, RequestSync, CooldownEnds, Tick, dbVars, apiVars,
         histVars
  <2> QED BY <2>1, NothingEnabled
<1>2. ASSUME NEW w \in Workers,
             \/ JobStep(w) \/ ListFails(w) \/ (\E c \in Connections : AcquireFails(w, c))
             \/ Release(w) \/ StartRunFails(w) \/ Crash(w)
             \/ StartRun(w) \/ Skip(w) \/ FetchRefused(w) \/ UpsertAssets(w)
               \/ Import(w) \/ Succeed(w) \/ Record(w) \/ Metric(w) \/ Catch(w)
               \/ RecordFailure(w) \/ Fail(w)
      PROVE  CountInv'
    BY <1>2, OtherSteps, NothingEnabled DEF histVars, EnablingPcs, SupersedePcs, LookedPcs
<1>3. ASSUME NEW w \in Workers, InsideStep(w)
      PROVE  CountInv'
  <2>1. CASE Supersede(w) \/ DisableAccounts(w) \/ DisableAssets(w) \/ Remaining(w) \/ Archive(w)
      BY <2>1, CountSupersede
  <2>2. CASE UpsertAccounts(w)
      BY <2>2, CountEnable
  <2>3. CASE Fetch(w)
      BY <2>3, CountFetch
  <2>4. CASE Select(w) \/ Mark(w)
    <3>1. UNCHANGED <<accOn, met, crossed>>
        BY <2>4 DEF Select, Mark, dbVars, apiVars, histVars
    <3>2. wk'[w].pc \notin SupersedePcs /\ \A v \in Workers \ {w} : wk'[v] = wk[v]
        BY <1>3, <2>4, SelectingSteps, InsideStepStays
           DEF SupersedePcs, LookedPcs, EnablingPcs, StaysInside
    <3> QED BY <3>1, <3>2, NothingEnabled
  <2> QED BY <1>2, <1>3, <2>1, <2>2, <2>3, <2>4 DEF InsideStep
<1>4. CASE UNCHANGED vars
    BY <1>4, NothingEnabled DEF vars
<1> QED BY <1>1, <1>2, <1>3, <1>4 DEF Next, SyncStep, Disturbance

(* A bank account listed under two connections is enabled under both only  *)
(* after two syncs that list it ran at the same time, and until the next   *)
(* sync of either that meets no other.                                     *)
THEOREM AccountCountedOnce == Spec => []IbanCountedOnce
<1>1. CountInv => IbanCountedOnce
    BY DEF CountInv
<1> QED BY <1>1, CountInitial, CountInductive, PTL DEF Spec

-----------------------------------------------------------------------------
(* A disconnection is kept.  A worker past its select either holds a       *)
(* connection in use or has been overtaken; and the connections a sync     *)
(* archives are others than its own, and have no account left but what the *)
(* sync has met.                                                           *)

Selects(w) == wk[w].pc \in EnablingPcs /\ conn[wk[w].cur].archived
                   => wk[w].cur \in overtaken
NotItself(w) == wk[w].pc \in {"disableAccounts", "disableAssets", "remaining"} =>
                    \A b \in wk[w].sup : Owner[b] # wk[w].cur
Empties(w) == wk[w].pc = "archive" =>
                  /\ wk[w].cur \notin wk[w].full
                  /\ \A a \in accOn : Owner[a] \in wk[w].full => Owner[a] \in met[w]

DisconnectInv == /\ CountInv /\ DisconnectKept
                 /\ \A w \in Workers : Selects(w) /\ NotItself(w) /\ Empties(w)

LEMMA DisconnectInitial == Init => DisconnectInv
<1> SUFFICES ASSUME Init PROVE DisconnectInv
    OBVIOUS
<1>1. \A w \in Workers : wk[w].pc = "idle"
    BY BetweenWorker DEF Init, Idle
<1> QED BY <1>1, CountInitial
        DEF DisconnectInv, Selects, NotItself, Empties, EnablingPcs, DisconnectKept, Init

(* Steps that enable nothing, archive nothing but what they remember, and  *)
(* leave the workers where they are or take them out of enabling.          *)
LEMMA NothingArchived ==
    ASSUME DisconnectInv, SyncTyped', CountInv', accOn' \subseteq accOn, UNCHANGED met,
           \A c \in Connections :
              \/ conn'[c].archived = conn[c].archived /\ (c \in overtaken => c \in overtaken')
              \/ ~conn'[c].archived
              \/ /\ \A a \in accOn' : Owner[a] # c
                 /\ \/ c \in overtaken'
                    \/ \A w \in Workers : wk[w].pc \in EnablingPcs => wk[w].cur # c,
           \A w \in Workers : wk'[w] = wk[w] \/ wk'[w].pc \notin EnablingPcs
    PROVE  DisconnectInv'
<1>0. SyncTyped /\ \A a \in accOn : a \in Accounts /\ Owner[a] \in Connections
    BY DEF DisconnectInv, CountInv, SyncTyped, TypeOK
<1>1. DisconnectKept'
    BY <1>0 DEF DisconnectInv, DisconnectKept
<1>2. ASSUME NEW w \in Workers
      PROVE  (Selects(w) /\ NotItself(w) /\ Empties(w))'
  <2>1. CASE wk'[w].pc \notin EnablingPcs
      BY <2>1 DEF Selects, NotItself, Empties, EnablingPcs
  <2>2. CASE wk'[w] = wk[w] /\ wk[w].pc \in EnablingPcs
    <3>1. wk[w].cur \in Connections
        BY <1>0, <2>2 DEF SyncTyped, InHand, EnablingPcs, InsidePcs, TryPcs
    <3>2. Selects(w)'
        BY <2>2, <3>1 DEF DisconnectInv, Selects
    <3>3. NotItself(w)' /\ Empties(w)'
        BY <2>2 DEF DisconnectInv, NotItself, Empties
    <3> QED BY <3>2, <3>3
  <2> QED BY <2>1, <2>2
<1> QED BY <1>1, <1>2 DEF DisconnectInv

LEMMA DisconnectEnvironment ==
    ASSUME DisconnectInv, SyncTyped', CountInv', Environment
    PROVE  DisconnectInv'
<1>0. conn \in [Connections -> ConnectionRow]
    BY DEF DisconnectInv, CountInv, SyncTyped, TypeOK
<1>1. ASSUME NEW c \in Connections, Disconnect(c)
      PROVE  DisconnectInv'
  <2>1. /\ UNCHANGED <<wk, met>> /\ accOn' = {a \in accOn : Owner[a] # c}
        /\ \A d \in Connections \ {c} :
              conn'[d] = conn[d] /\ (d \in overtaken => d \in overtaken')
      BY <1>0, <1>1 DEF Disconnect
  <2>2. c \in overtaken' \/ \A w \in Workers : wk[w].pc \in EnablingPcs => wk[w].cur # c
      BY <1>1 DEF Disconnect, Selected
  <2>3. \A a \in accOn' : Owner[a] # c
      BY <2>1
  <2> QED BY <2>1, <2>2, <2>3, NothingArchived
<1>2. ASSUME NEW c \in Connections, CallbackUpsert(c)
      PROVE  DisconnectInv'
  <2>1. /\ UNCHANGED <<wk, accOn, met>> /\ ~conn'[c].archived
        /\ \A d \in Connections \ {c} :
              conn'[d] = conn[d] /\ (d \in overtaken => d \in overtaken')
      BY <1>0, <1>2 DEF CallbackUpsert, ConnectionRow
  <2> QED BY <2>1, NothingArchived
<1>3. ASSUME NEW c \in Connections, DayPasses(c)
      PROVE  DisconnectInv'
  <2>1. /\ UNCHANGED <<wk, accOn, overtaken, met>>
        /\ \A d \in Connections : conn'[d].archived = conn[d].archived
      BY <1>0, <1>3 DEF DayPasses, ConnectionRow, apiVars, histVars
  <2> QED BY <2>1, NothingArchived
<1>4. CASE UNCHANGED <<wk, accOn, conn, overtaken, met>>
    BY <1>4, NothingArchived
<1>5. \/ \E c \in Connections : Disconnect(c) \/ CallbackUpsert(c) \/ DayPasses(c)
      \/ UNCHANGED <<wk, accOn, conn, overtaken, met>>
    BY DEF Environment, Consent, Revoke, CallbackEnqueue, CallbackFail, LockExpires,
           RequestSync, CooldownEnds, Tick, dbVars, apiVars, histVars
<1> QED BY <1>1, <1>2, <1>3, <1>4, <1>5

LEMMA StatusOnly ==
    ASSUME conn \in [Connections -> ConnectionRow], NEW c, NEW e,
           conn' = [conn EXCEPT ![c].status = e]
    PROVE  \A d \in Connections : conn'[d].archived = conn[d].archived
  BY DEF ConnectionRow

(* What the enabling steps before Archive have in common.                  *)
LEMMA QuietSteps ==
    ASSUME SyncTyped, NEW w \in Workers,
           \/ Select(w) \/ Mark(w) \/ Fetch(w) \/ Supersede(w) \/ DisableAccounts(w)
           \/ DisableAssets(w) \/ Remaining(w)
    PROVE  /\ accOn' \subseteq accOn /\ UNCHANGED overtaken
           /\ \A v \in Workers \ {w} : met'[v] = met[v]
           /\ \A d \in Connections : conn'[d].archived = conn[d].archived
<1> conn \in [Connections -> ConnectionRow]
       /\ met \in [Workers -> SUBSET (Ibans \cup Connections)]
    BY DEF SyncTyped, TypeOK
<1>1. CASE Mark(w)
    BY <1>1, StatusOnly DEF Mark, apiVars, histVars
<1>2. CASE ~Mark(w)
    BY <1>2 DEF Select, Fetch, Supersede, DisableAccounts, DisableAssets, Remaining,
       dbVars, apiVars, histVars
<1> QED BY <1>1, <1>2

LEMMA QuietInvariant ==
    ASSUME DisconnectInv, SyncTyped', CountInv', NEW w \in Workers,
           \/ Select(w) \/ Mark(w) \/ Fetch(w) \/ Supersede(w) \/ DisableAccounts(w)
           \/ DisableAssets(w) \/ Remaining(w),
           (Selects(w) /\ NotItself(w) /\ Empties(w))'
    PROVE  DisconnectInv'
<1>0. SyncTyped /\ \A a \in accOn : a \in Accounts /\ Owner[a] \in Connections
    BY DEF DisconnectInv, CountInv, SyncTyped, TypeOK
<1>1. \A v \in Workers \ {w} : wk'[v] = wk[v]
    BY <1>0, InsideStepStays DEF InsideStep, StaysInside
<1>2. DisconnectKept'
    BY <1>0, QuietSteps DEF DisconnectInv, DisconnectKept
<1>3. ASSUME NEW v \in Workers, v # w
      PROVE  (Selects(v) /\ NotItself(v) /\ Empties(v))'
  <2>1. wk'[v] = wk[v] /\ met'[v] = met[v] /\ accOn' \subseteq accOn /\ overtaken' = overtaken
      BY <1>0, <1>1, <1>3, QuietSteps
  <2>2. wk[v].pc \in EnablingPcs => conn'[wk[v].cur].archived = conn[wk[v].cur].archived
    <3>1. wk[v].pc \in EnablingPcs => wk[v].cur \in Connections
        BY <1>0 DEF SyncTyped, InHand, EnablingPcs, InsidePcs, TryPcs
    <3> QED BY <1>0, <3>1, QuietSteps
  <2> QED BY <2>1, <2>2 DEF DisconnectInv, Selects, NotItself, Empties
<1> QED BY <1>2, <1>3 DEF DisconnectInv

(* The sync that enables accounts.                                         *)
LEMMA DisconnectSelecting ==
    ASSUME DisconnectInv, SyncTyped', CountInv', NEW w \in Workers,
           \/ Select(w) \/ Mark(w) \/ Fetch(w) \/ Supersede(w) \/ DisableAccounts(w)
           \/ DisableAssets(w) \/ Remaining(w)
    PROVE  DisconnectInv'
<1> DEFINE c == wk[w].cur
<1>0. /\ SyncTyped /\ conn \in [Connections -> ConnectionRow] /\ wk[w] \in Worker
      /\ wk \in [Workers -> Worker]
    BY DEF DisconnectInv, CountInv, SyncTyped, TypeOK
<1>1. StaysInside(w) /\ wk'[w].cur = c /\ c \in Connections
    BY <1>0, InsideStepStays DEF InsideStep, StaysInside, SyncTyped, InHand
<1>2. Selects(w) /\ NotItself(w) /\ UNCHANGED overtaken
         /\ conn'[c].archived = conn[c].archived
    BY <1>0, <1>1, QuietSteps DEF DisconnectInv
<1> SUFFICES (Selects(w) /\ NotItself(w) /\ Empties(w))'
    BY QuietInvariant
<1> USE DEF Selects, NotItself, Empties, EnablingPcs
<1>4. CASE Select(w)
  <2>1. wk'[w].pc = "skip" \/ (wk'[w].pc = "mark" /\ ~conn[c].archived)
      BY <1>0, <1>4, SelectingSteps
  <2> QED BY <1>1, <1>2, <2>1
<1>5. CASE Mark(w)
  <2>1. wk'[w].pc = "fetch" /\ wk[w].pc = "mark"
      BY <1>0, <1>5, SelectingSteps DEF Mark, At
  <2> QED BY <1>1, <1>2, <2>1
<1>6. CASE Fetch(w)
  <2>1. wk[w].pc = "fetch"
      BY <1>6 DEF Fetch, At
  <2>2. wk'[w].pc \in {"import", "supersede"}
    <3>1. PICK listed, on :
             wk' = [wk EXCEPT ![w].pc = IF listed = {} THEN "import" ELSE "supersede",
                              ![w].listed = listed, ![w].on = on]
        BY <1>6 DEF Fetch
    <3> QED BY <1>0, <3>1 DEF Worker
  <2> QED BY <1>1, <1>2, <2>1, <2>2
<1>7. CASE Supersede(w)
  <2>1. /\ wk[w].pc = "supersede" /\ wk'[w].sup = Superseded(w)
        /\ wk'[w].pc \in {"upsertAccounts", "disableAccounts"}
      BY <1>0, <1>7, SupersedeSteps DEF Supersede, At
  <2>2. \A b \in wk'[w].sup : Owner[b] # c
      BY <2>1 DEF Superseded
  <2> QED BY <1>1, <1>2, <2>1, <2>2
<1>8. CASE DisableAccounts(w) \/ DisableAssets(w)
  <2>1. /\ wk'[w].sup = wk[w].sup
        /\ wk[w].pc \in {"disableAccounts", "disableAssets"}
        /\ wk'[w].pc \in {"disableAssets", "remaining"}
      BY <1>0, <1>8, SupersedeSteps, GotoEffect
         DEF DisableAccounts, DisableAssets, At, Pcs, InsidePcs, TryPcs
  <2> QED BY <1>1, <1>2, <2>1
<1>9. CASE Remaining(w)
  <2>1. /\ accOn' = accOn /\ wk[w].pc = "remaining"
        /\ wk'[w].pc \in {"upsertAccounts", "archive"}
        /\ wk'[w].full = {Owner[b] : b \in wk[w].sup} \ {Owner[a] : a \in accOn}
      BY <1>0, <1>9, SupersedeSteps DEF Remaining, dbVars, At
  <2>2. c \notin wk'[w].full /\ \A a \in accOn : Owner[a] \notin wk'[w].full
      BY <1>2, <2>1
  <2> QED BY <1>1, <1>2, <2>1, <2>2
<1> QED BY <1>4, <1>5, <1>6, <1>7, <1>8, <1>9

(* Archiving: a connection that is being brought back, or was, is          *)
(* remembered as overtaken.                                                *)
LEMMA DisconnectArchiving ==
    ASSUME DisconnectInv, SyncTyped', CountInv', NEW w \in Workers, Archive(w)
    PROVE  DisconnectInv'
<1>0. /\ SyncTyped /\ conn \in [Connections -> ConnectionRow] /\ wk \in [Workers -> Worker]
      /\ \A a \in accOn : a \in Accounts /\ Owner[a] \in Connections
    BY DEF DisconnectInv, CountInv, SyncTyped, TypeOK
<1>1. /\ conn' = [d \in Connections |->
                    IF d \in wk[w].full THEN [conn[d] EXCEPT !.archived = TRUE] ELSE conn[d]]
      /\ overtaken' = (overtaken \ wk[w].full)
                         \cup {c \in wk[w].full : c \in met[w] \/ Selected(c)}
      /\ accOn' = accOn /\ met' = met
      /\ wk[w].pc = "archive" /\ wk'[w].pc = "upsertAccounts" /\ wk'[w].cur = wk[w].cur
      /\ \A v \in Workers \ {w} : wk'[v] = wk[v]
    BY <1>0, GotoEffect DEF Archive, At, Pcs, InsidePcs, TryPcs
<1>2. /\ wk[w].cur \notin wk[w].full
      /\ \A a \in accOn : Owner[a] \in wk[w].full => Owner[a] \in met[w]
    BY <1>1 DEF DisconnectInv, Empties
<1>3. DisconnectKept'
  <2> SUFFICES ASSUME NEW a \in accOn, conn'[Owner[a]].archived
               PROVE  Owner[a] \in overtaken'
      BY <1>1 DEF DisconnectKept
  <2>1. CASE Owner[a] \in wk[w].full
      BY <1>1, <1>2, <2>1
  <2>2. CASE Owner[a] \notin wk[w].full
    <3>1. conn'[Owner[a]] = conn[Owner[a]]
        BY <1>0, <1>1, <2>2
    <3> QED BY <1>1, <2>2, <3>1 DEF DisconnectInv, DisconnectKept
  <2> QED BY <2>1, <2>2
<1>4. ASSUME NEW v \in Workers
      PROVE  Selects(v)'
  <2> SUFFICES ASSUME wk'[v].pc \in EnablingPcs, conn'[wk'[v].cur].archived
               PROVE  wk'[v].cur \in overtaken'
      BY DEF Selects
  <2>1. wk'[v].cur = wk[v].cur /\ wk[v].pc \in EnablingPcs
      BY <1>1 DEF EnablingPcs
  <2>2. wk[v].cur \in Connections
      BY <1>0, <2>1 DEF SyncTyped, InHand, EnablingPcs, InsidePcs, TryPcs
  <2>3. CASE wk[v].cur \in wk[w].full
    <3>1. Selected(wk[v].cur)
        BY <2>1 DEF Selected
    <3> QED BY <1>1, <2>1, <2>3, <3>1
  <2>4. CASE wk[v].cur \notin wk[w].full
      BY <1>1, <2>1, <2>2, <2>4 DEF DisconnectInv, Selects
  <2> QED BY <2>3, <2>4
<1>5. ASSUME NEW v \in Workers
      PROVE  (NotItself(v) /\ Empties(v))'
  <2>1. CASE v = w
      BY <1>1, <2>1 DEF NotItself, Empties
  <2>2. CASE v # w
      BY <1>1, <2>2 DEF DisconnectInv, NotItself, Empties
  <2> QED BY <2>1, <2>2
<1> QED BY <1>3, <1>4, <1>5 DEF DisconnectInv

LEMMA DisconnectUpserting ==
    ASSUME DisconnectInv, SyncTyped', CountInv', NEW w \in Workers, UpsertAccounts(w)
    PROVE  DisconnectInv'
<1>0. SyncTyped
    BY DEF DisconnectInv, CountInv
<1>1. /\ wk[w].pc = "upsertAccounts" /\ wk'[w].pc = "upsertAssets"
      /\ \A v \in Workers \ {w} : wk'[v] = wk[v]
      /\ conn' = conn /\ accOn' = (accOn \ wk[w].listed) \cup wk[w].on
      /\ \A v \in Workers : met'[v] = met[v] \cup Meets(v, w)
      /\ overtaken' = overtaken
    BY <1>0, UpsertLeaves DEF UpsertAccounts
<1>2. \A a \in wk[w].on : Owner[a] = wk[w].cur
    BY <1>1 DEF DisconnectInv, CountInv, ListsOwn, SupersedePcs, LookedPcs, EnablingPcs
<1>3. conn[wk[w].cur].archived => wk[w].cur \in overtaken
    BY <1>1 DEF DisconnectInv, Selects, EnablingPcs
<1>4. DisconnectKept'
    BY <1>1, <1>2, <1>3 DEF DisconnectInv, DisconnectKept
<1>5. ASSUME NEW v \in Workers
      PROVE  (Selects(v) /\ NotItself(v) /\ Empties(v))'
  <2>1. CASE v = w
      BY <1>1, <2>1 DEF Selects, NotItself, Empties, EnablingPcs
  <2>2. CASE v # w
    <3>1. wk'[v] = wk[v] /\ Selects(v) /\ NotItself(v) /\ Empties(v)
        BY <1>1, <2>2 DEF DisconnectInv
    <3>2. ASSUME wk[v].pc = "archive", NEW a \in accOn', Owner[a] \in wk[v].full
          PROVE  Owner[a] \in met'[v]
      <4>1. CASE a \in accOn
          BY <1>1, <3>1, <3>2, <4>1 DEF Empties
      <4>2. CASE a \in wk[w].on
        <5>1. wk[v].cur # wk[w].cur /\ wk[v].pc \in LookedPcs
            BY <1>2, <3>1, <3>2, <4>2 DEF Empties, LookedPcs, EnablingPcs
        <5>2. Owner[a] \in Meets(v, w)
            BY <3>2, <4>2, <5>1 DEF Meets
        <5> QED BY <1>1, <5>2
      <4> QED BY <1>1, <4>1, <4>2
    <3>3. Empties(v)'
        BY <3>1, <3>2 DEF Empties
    <3>4. Selects(v)' /\ NotItself(v)'
        BY <1>1, <3>1 DEF Selects, NotItself
    <3> QED BY <3>3, <3>4
  <2> QED BY <2>1, <2>2
<1> QED BY <1>4, <1>5 DEF DisconnectInv

LEMMA DisconnectInductive == DisconnectInv /\ [Next]_vars => DisconnectInv'
<1> SUFFICES ASSUME DisconnectInv, [Next]_vars
             PROVE  DisconnectInv'
    OBVIOUS
<1>0. SyncTyped /\ SyncTyped' /\ CountInv' /\ conn \in [Connections -> ConnectionRow]
    BY TypeInductive, CountInductive DEF DisconnectInv, CountInv, SyncTyped, TypeOK
<1>1. CASE Environment
    BY <1>0, <1>1, DisconnectEnvironment
<1>2. ASSUME NEW w \in Workers,
             \/ JobStep(w) \/ ListFails(w) \/ (\E c \in Connections : AcquireFails(w, c))
             \/ Release(w) \/ StartRunFails(w) \/ Crash(w)
             \/ StartRun(w) \/ Skip(w) \/ FetchRefused(w) \/ UpsertAssets(w)
               \/ Import(w) \/ Succeed(w) \/ Record(w) \/ Metric(w) \/ Catch(w)
               \/ RecordFailure(w) \/ Fail(w)
      PROVE  DisconnectInv'
  <2>1. /\ UNCHANGED <<accOn, overtaken, met>>
        /\ \A v \in Workers : wk'[v] = wk[v] \/ wk'[v].pc \notin EnablingPcs
      BY <1>0, <1>2, OtherSteps DEF histVars
  <2>2. \A d \in Connections : conn'[d].archived = conn[d].archived
    <3>1. CASE Succeed(w) \/ Catch(w)
      <4>1. \/ conn' = conn
            \/ conn' = [conn EXCEPT ![wk[w].cur].status = "connected"]
            \/ conn' = [conn EXCEPT ![wk[w].cur].status = wk[w].result]
          BY <3>1 DEF Succeed, Catch
      <4> QED BY <1>0, <4>1, StatusOnly
    <3>2. CASE UNCHANGED conn
        BY <3>2
    <3> QED BY <1>2, <3>1, <3>2
            DEF JobStep, Pop, List, ListFails, Acquire, SkipLocked, AcquireFails, Release,
                StartRunFails, Crash, StartRun, Skip, FetchRefused, UpsertAssets, Import,
                Record, Metric, RecordFailure, Fail, dbVars
  <2> QED BY <1>0, <2>1, <2>2, NothingArchived
<1>3. ASSUME NEW w \in Workers, InsideStep(w)
      PROVE  DisconnectInv'
    BY <1>0, <1>2, <1>3, DisconnectSelecting, DisconnectArchiving, DisconnectUpserting
       DEF InsideStep
<1>4. CASE UNCHANGED vars
    BY <1>0, <1>4, NothingArchived DEF vars
<1> QED BY <1>1, <1>2, <1>3, <1>4 DEF Next, SyncStep, Disturbance

(* A connection that is archived keeps no enabled account but those of a   *)
(* sync that had selected it when it was archived, or that ran between the *)
(* look and the archiving of the sync that did it.                         *)
THEOREM DisconnectStays == Spec => []DisconnectKept
<1>1. DisconnectInv => DisconnectKept
    BY DEF DisconnectInv
<1> QED BY <1>1, DisconnectInitial, DisconnectInductive, PTL DEF Spec

-----------------------------------------------------------------------------
(* With one worker nobody meets anybody, so both properties lose their     *)
(* exceptions but one: a disconnection by the user.                        *)

SingleWorker == \A v, w \in Workers : v = w
MeetsNobody == crossed = {} /\ \A w \in Workers : met[w] = {}

LEMMA MeetsNobodyInductive ==
    SingleWorker /\ SyncTyped /\ MeetsNobody /\ [Next]_vars => MeetsNobody'
<1> SUFFICES ASSUME SingleWorker, SyncTyped, MeetsNobody, [Next]_vars
             PROVE  MeetsNobody'
    OBVIOUS
<1> met \in [Workers -> SUBSET (Ibans \cup Connections)]
    BY DEF SyncTyped, TypeOK
<1> USE DEF MeetsNobody
<1>1. CASE UNCHANGED <<met, crossed>>
    BY <1>1
<1>2. ASSUME NEW w \in Workers, Supersede(w)
      PROVE  MeetsNobody'
    BY <1>2 DEF Supersede
<1>3. ASSUME NEW w \in Workers, UpsertAccounts(w)
      PROVE  MeetsNobody'
  <2>1. \A v \in Workers : Meets(v, w) = {}
      BY DEF SingleWorker, Meets
  <2> QED BY <1>3, <2>1 DEF UpsertAccounts
<1>4. ASSUME NEW w \in Workers, InsideStep(w)
      PROVE  MeetsNobody'
    BY <1>1, <1>2, <1>3, <1>4
       DEF InsideStep, StartRun, Select, Skip, Mark, Fetch, FetchRefused, DisableAccounts,
           DisableAssets, Remaining, Archive, UpsertAssets, Import, Succeed, Record, Metric,
           Catch, RecordFailure, apiVars, histVars
<1>5. CASE Environment
    BY <1>1, <1>5 DEF Environment, Consent, Revoke, CallbackUpsert, CallbackEnqueue,
       CallbackFail, Disconnect, DayPasses, LockExpires, RequestSync, CooldownEnds, Tick,
       apiVars, histVars
<1>6. ASSUME NEW w \in Workers, JobStep(w) \/ Release(w) \/ Disturbance(w)
      PROVE  MeetsNobody'
    BY <1>1, <1>6 DEF JobStep, Pop, List, Acquire, SkipLocked, Release, Disturbance, ListFails,
       StartRunFails, Fail, Crash, AcquireFails, apiVars, histVars
<1>7. CASE UNCHANGED vars
    BY <1>1, <1>7 DEF vars
<1> QED BY <1>4, <1>5, <1>6, <1>7 DEF Next, SyncStep

(* A bank account is counted once, whatever fails and wherever a sync is   *)
(* cut off, when one worker runs, as in production.                        *)
CountedOnce == \A a, b \in accOn : Owner[a] # Owner[b] => Iban[a] = None \/ Iban[a] # Iban[b]

THEOREM CountedOnceByOneWorker == SingleWorker => (Spec => []CountedOnce)
<1> SUFFICES ASSUME SingleWorker PROVE Spec => []CountedOnce
    OBVIOUS
<1>1. Init => MeetsNobody
    BY DEF Init, MeetsNobody
<1>2. SyncTyped /\ MeetsNobody /\ [Next]_vars => MeetsNobody'
    BY MeetsNobodyInductive
<1>3. MeetsNobody /\ IbanCountedOnce => CountedOnce
    BY DEF MeetsNobody, IbanCountedOnce, CountedOnce
<1> QED BY <1>1, <1>2, <1>3, TypeInitial, TypeInductive, AccountCountedOnce, PTL DEF Spec

(* One worker never archives a connection that is being, or has been,      *)
(* brought back: only the user's disconnection can overtake a sync.        *)
ArchivesTheEmpty ==
    [][\A w \in Workers : Archive(w) => overtaken' \subseteq overtaken]_vars

THEOREM ArchivedWhenEmpty == SingleWorker => (Spec => ArchivesTheEmpty)
<1> SUFFICES ASSUME SingleWorker PROVE Spec => ArchivesTheEmpty
    OBVIOUS
<1>1. Init => MeetsNobody
    BY DEF Init, MeetsNobody
<1>2. SyncTyped /\ MeetsNobody /\ [Next]_vars => MeetsNobody'
    BY MeetsNobodyInductive
<1>3. DisconnectInv /\ MeetsNobody =>
          \A w \in Workers : Archive(w) => overtaken' \subseteq overtaken
  <2> SUFFICES ASSUME DisconnectInv, MeetsNobody, NEW w \in Workers, Archive(w)
               PROVE  overtaken' \subseteq overtaken
      OBVIOUS
  <2>1. wk[w].cur \notin wk[w].full
      BY DEF Archive, At, DisconnectInv, Empties
  <2>2. \A c \in wk[w].full : ~Selected(c)
      BY <2>1 DEF SingleWorker, Selected
  <2> QED BY <2>2 DEF Archive, MeetsNobody
<1>4. DisconnectInv => SyncTyped
    BY DEF DisconnectInv, CountInv
<1> QED BY <1>1, <1>2, <1>3, <1>4, DisconnectInitial, DisconnectInductive, PTL
        DEF Spec, ArchivesTheEmpty

-----------------------------------------------------------------------------
(* While nothing fails, a sync leaves nothing behind.  Its record is open  *)
(* in the steps that end by closing it, the holder of a key is inside, and *)
(* who marked a connection syncing is on a path that marks it again.       *)

OpenPcs == (TryPcs \ {"metric"}) \cup CatchPcs
MarkedPcs == {"fetch", "supersede", "disableAccounts", "disableAssets", "remaining",
              "archive", "upsertAccounts", "upsertAssets", "import", "succeed", "catch"}

OpenRecord(w) == wk[w].open => wk[w].pc \in OpenPcs
Syncs(w, c) == wk[w].cur = c /\ wk[w].pc \in MarkedPcs
HolderInside == \A c \in Connections : lock[c] # None => Inside(lock[c]) = c
MarkedInside == \A c \in Connections :
                    conn[c].status = "syncing" => \E w \in Workers : Syncs(w, c)

LeftInv == faults = 0 /\ crashes = 0 =>
               /\ \A w \in Workers : OpenRecord(w)
               /\ stuck = {} /\ HolderInside /\ MarkedInside

(* Where the steps go whose next pc depends on what they read.             *)
LEMMA BranchingSteps ==
    ASSUME SyncTyped, NEW w \in Workers
    PROVE  /\ Fetch(w) => wk'[w].pc \in {"import", "supersede"}
           /\ Supersede(w) => wk'[w].pc \in {"upsertAccounts", "disableAccounts"}
           /\ Remaining(w) => wk'[w].pc \in {"upsertAccounts", "archive"}
           /\ Import(w) => wk'[w].pc \in {"succeed", "catch"}
           /\ Select(w) => wk'[w].pc \in {"skip", "mark"}
<1> wk \in [Workers -> Worker] /\ wk[w] \in Worker
    BY DEF SyncTyped, TypeOK
<1>1. Fetch(w) => wk'[w].pc \in {"import", "supersede"}
  <2> SUFFICES ASSUME Fetch(w) PROVE wk'[w].pc \in {"import", "supersede"}
      OBVIOUS
  <2>1. PICK listed \in SUBSET Accounts, on \in SUBSET Accounts :
             wk' = [wk EXCEPT ![w].pc = IF listed = {} THEN "import" ELSE "supersede",
                              ![w].listed = listed, ![w].on = on]
      BY DEF Fetch
  <2> QED BY <2>1 DEF Worker
<1>2. Import(w) => wk'[w].pc \in {"succeed", "catch"}
    BY DEF Import, Goto, Caught, Beyond, Worker
<1>3. Select(w) => wk'[w].pc \in {"skip", "mark"}
    BY DEF Select, Worker
<1> QED BY <1>1, <1>2, <1>3, SupersedeSteps

(* What a step inside a sync does to the run record.                       *)
LEMMA InsideRecord ==
    ASSUME SyncTyped, NEW w \in Workers, InsideStep(w), OpenRecord(w)
    PROVE  OpenRecord(w)'
<1> wk \in [Workers -> Worker] /\ wk[w] \in Worker /\ 0 \in Tokens
    BY DEF SyncTyped, TypeOK, Tokens
<1> USE DEF OpenRecord, OpenPcs, TryPcs, CatchPcs, At
<1>1. CASE StartRun(w) \/ Select(w) \/ Mark(w) \/ Fetch(w) \/ Supersede(w) \/ DisableAccounts(w)
           \/ DisableAssets(w) \/ Remaining(w) \/ Archive(w) \/ UpsertAccounts(w)
           \/ UpsertAssets(w)
  <2>1. wk'[w].pc \in {"select", "skip", "mark", "fetch", "import", "supersede", "upsertAccounts",
                       "disableAccounts", "disableAssets", "remaining", "archive",
                       "upsertAssets"}
    <3>1. CASE Select(w) \/ Fetch(w) \/ Supersede(w) \/ Remaining(w)
        BY <3>1, BranchingSteps
    <3>2. CASE StartRun(w) \/ Mark(w) \/ DisableAccounts(w) \/ DisableAssets(w) \/ Archive(w)
               \/ UpsertAccounts(w) \/ UpsertAssets(w)
        BY <3>2 DEF Worker, Goto, StartRun, Mark, DisableAccounts, DisableAssets, Archive,
                    UpsertAccounts, UpsertAssets
    <3> QED BY <1>1, <3>1, <3>2
  <2> QED BY <2>1
<1>2. CASE FetchRefused(w) \/ Import(w) \/ Succeed(w) \/ Catch(w)
  <2>1. wk'[w].pc \in {"catch", "succeed", "record", "recordFailure"}
      BY <1>2 DEF Worker, Goto, Caught, Beyond, FetchRefused, Import, Succeed, Catch
  <2> QED BY <2>1
<1>3. CASE Skip(w) \/ Record(w) \/ RecordFailure(w)
  <2>1. wk'[w].open = FALSE
      BY <1>3 DEF Worker, Skip, Record, RecordFailure
  <2> QED BY <2>1
<1>4. CASE Metric(w)
  <2>1. wk'[w].open = wk[w].open /\ wk[w].pc = "metric"
      BY <1>4 DEF Worker, Metric, Goto
  <2> QED BY <2>1
<1> QED BY <1>1, <1>2, <1>3, <1>4 DEF InsideStep

(* And to the status: it says syncing because the step says so, or because *)
(* it did before and the step is not the end of the one who marked it.     *)
LEMMA InsideStatus ==
    ASSUME SyncTyped, NEW w \in Workers, InsideStep(w),
           NEW c \in Connections, conn'[c].status = "syncing"
    PROVE  \/ Syncs(w, c)'
           \/ conn[c].status = "syncing" /\ ~Syncs(w, c)
<1>0. StaysInside(w)
    BY InsideStepStays
<1> /\ wk \in [Workers -> Worker] /\ wk[w] \in Worker /\ wk'[w] \in Worker
    /\ conn \in [Connections -> ConnectionRow] /\ wk'[w].cur = wk[w].cur
    /\ wk[w].cur \in Connections
    BY <1>0 DEF StaysInside, SyncTyped, TypeOK, InHand
<1> USE DEF Syncs, MarkedPcs, At
<1>1. CASE StartRun(w) \/ Select(w) \/ Skip(w) \/ Record(w) \/ Metric(w) \/ RecordFailure(w)
  <2>1. conn' = conn /\ wk[w].pc \notin MarkedPcs
      BY <1>1 DEF StartRun, Select, Skip, Record, Metric, RecordFailure, dbVars
  <2> QED BY <2>1
<1>2. CASE Mark(w)
  <2>1. wk'[w].pc = "fetch" /\ wk[w].pc = "mark"
      BY <1>2 DEF Mark, Goto, Worker
  <2>2. c # wk[w].cur => conn'[c] = conn[c]
      BY <1>2 DEF Mark
  <2> QED BY <2>1, <2>2
<1>3. CASE Fetch(w) \/ FetchRefused(w) \/ Supersede(w) \/ DisableAccounts(w) \/ DisableAssets(w)
           \/ Remaining(w) \/ UpsertAccounts(w) \/ UpsertAssets(w) \/ Import(w)
  <2>1. conn' = conn
      BY <1>3 DEF Fetch, FetchRefused, Supersede, DisableAccounts, DisableAssets, Remaining,
                  UpsertAccounts, UpsertAssets, Import, dbVars
  <2>2. wk'[w].pc \in MarkedPcs
    <3>1. CASE Fetch(w) \/ Supersede(w) \/ Remaining(w) \/ Import(w)
        BY <3>1, BranchingSteps
    <3>2. CASE FetchRefused(w) \/ DisableAccounts(w) \/ DisableAssets(w) \/ UpsertAccounts(w)
               \/ UpsertAssets(w)
        BY <3>2 DEF Worker, Goto, Caught, Beyond, FetchRefused, DisableAccounts,
                    DisableAssets, UpsertAccounts, UpsertAssets
    <3> QED BY <1>3, <3>1, <3>2
  <2> QED BY <2>1, <2>2
<1>4. CASE Archive(w)
  <2>1. conn'[c] = conn[c] \/ conn'[c] = [conn[c] EXCEPT !.archived = TRUE]
      BY <1>4 DEF Archive
  <2>2. conn'[c].status = conn[c].status
      BY <2>1 DEF ConnectionRow
  <2>3. wk'[w].pc = "upsertAccounts"
      BY <1>4 DEF Archive, Goto, Worker
  <2> QED BY <2>2, <2>3
<1>5. CASE Succeed(w)
  <2>1. c = wk[w].cur => conn'[c].status = "connected"
      BY <1>5 DEF Succeed, ConnectionRow
  <2>2. c # wk[w].cur => conn'[c] = conn[c]
      BY <1>5 DEF Succeed
  <2> QED BY <2>1, <2>2
<1>6. CASE Catch(w)
  <2>1. wk[w].result # "syncing"
      BY WorkerFields
  <2>2. c = wk[w].cur => conn'[c].status # "syncing"
      BY <1>6, <2>1 DEF Catch, ConnectionRow
  <2>3. c # wk[w].cur => conn'[c] = conn[c]
      BY <1>6 DEF Catch
  <2> QED BY <2>2, <2>3
<1> QED BY <1>1, <1>2, <1>3, <1>4, <1>5, <1>6 DEF InsideStep

LEMMA LeftInductive == SyncTyped /\ LeftInv /\ [Next]_vars => LeftInv'
<1> SUFFICES ASSUME SyncTyped, LeftInv, [Next]_vars, faults' = 0, crashes' = 0
             PROVE  LeftInv'
    BY DEF LeftInv
<1>0. /\ wk \in [Workers -> Worker] /\ conn \in [Connections -> ConnectionRow]
      /\ lock \in [Connections -> Workers \cup {None}] /\ faults \in Nat /\ crashes \in Nat
    BY DEF SyncTyped, TypeOK
<1>1. CASE Environment
  <2>1. UNCHANGED <<wk, stuck, crashes>> /\ (faults' = faults \/ faults' = faults + 1)
      BY <1>1 DEF Environment, Consent, Revoke, CallbackUpsert, CallbackEnqueue, CallbackFail,
                  Disconnect, DayPasses, LockExpires, RequestSync, CooldownEnds, Tick, Fault,
                  dbVars, apiVars, histVars
  <2>2. faults = 0 /\ crashes = 0
      BY <1>0, <2>1
  <2>3. \A c \in Connections : lock'[c] # None => lock'[c] = lock[c]
      BY <1>0, <1>1 DEF Environment, Consent, Revoke, CallbackUpsert, CallbackEnqueue,
                  CallbackFail, Disconnect, DayPasses, LockExpires, RequestSync, CooldownEnds,
                  Tick, Fault
  <2>4. \A c \in Connections : conn'[c].status = "syncing" => conn[c].status = "syncing"
    <3>1. ASSUME NEW d \in Connections, CallbackUpsert(d) \/ Disconnect(d) \/ DayPasses(d)
          PROVE  \A c \in Connections : conn'[c].status = "syncing" => conn[c].status = "syncing"
        BY <1>0, <3>1 DEF CallbackUpsert, Disconnect, DayPasses, ConnectionRow
    <3>2. \/ conn' = conn
          \/ \E d \in Connections : CallbackUpsert(d) \/ Disconnect(d) \/ DayPasses(d)
        BY <1>1 DEF Environment, Consent, Revoke, CallbackEnqueue, CallbackFail,
                  LockExpires, RequestSync, CooldownEnds, Tick, dbVars
    <3> QED BY <3>1, <3>2
  <2>5. \A v \in Workers : OpenRecord(v)'
      BY <2>1, <2>2 DEF LeftInv, OpenRecord
  <2>6. \A c \in Connections, v \in Workers : Syncs(v, c) => Syncs(v, c)'
      BY <2>1 DEF Syncs
  <2>7. HolderInside'
      BY <2>1, <2>2, <2>3 DEF LeftInv, HolderInside, Inside
  <2>8. MarkedInside'
      BY <2>2, <2>4, <2>6 DEF LeftInv, MarkedInside
  <2> QED BY <2>1, <2>2, <2>5, <2>7, <2>8 DEF LeftInv
<1>2. ASSUME NEW w \in Workers, Pop(w) \/ List(w) \/ \E c \in Connections : SkipLocked(w, c)
      PROVE  LeftInv'
  <2>1. UNCHANGED <<conn, stuck, lock, faults, crashes>>
      BY <1>2 DEF Pop, List, SkipLocked, dbVars
  <2>2. StaysOutside(w)
      BY <1>2, OutsideStepStays
  <2>3. OpenRecord(w)' 
    <3>1. ~wk[w].open
        BY <2>1, <2>2 DEF LeftInv, OpenRecord, OpenPcs, StaysOutside, InsidePcs
    <3>2. wk'[w].open = wk[w].open
        BY <1>0, <1>2 DEF Pop, List, SkipLocked, Worker
    <3> QED BY <3>1, <3>2 DEF OpenRecord
  <2>4. \A v \in Workers : OpenRecord(v)'
      BY <2>1, <2>2, <2>3 DEF LeftInv, OpenRecord, StaysOutside
  <2>5. HolderInside'
      BY <1>0, <2>1, <2>2 DEF LeftInv, HolderInside, Inside, StaysOutside
  <2>6. MarkedInside'
      BY <2>1, <2>2 DEF LeftInv, MarkedInside, Syncs, StaysOutside, MarkedPcs, InsidePcs,
                        TryPcs, CatchPcs
  <2> QED BY <2>1, <2>4, <2>5, <2>6 DEF LeftInv
<1>3. ASSUME NEW w \in Workers, NEW c \in Connections, Acquire(w, c)
      PROVE  LeftInv'
  <2>1. /\ UNCHANGED <<conn, stuck, faults, crashes>>
        /\ lock' = [lock EXCEPT ![c] = w]
      BY <1>3 DEF Acquire, dbVars
  <2>2. /\ wk[w].pc \notin InsidePcs
        /\ wk'[w].pc = "start" /\ wk'[w].cur = c
        /\ \A v \in Workers \ {w} : wk'[v] = wk[v]
      BY <1>3, AcquireEnters
  <2>3. OpenRecord(w)'
    <3>1. ~wk[w].open
        BY <2>1, <2>2 DEF LeftInv, OpenRecord, OpenPcs, InsidePcs
    <3>2. wk'[w].open = wk[w].open
        BY <1>0, <1>3 DEF Acquire, Worker
    <3> QED BY <3>1, <3>2 DEF OpenRecord
  <2>4. \A v \in Workers : OpenRecord(v)'
      BY <2>1, <2>2, <2>3 DEF LeftInv, OpenRecord
  <2>5. HolderInside'
    <3>1. ASSUME NEW d \in Connections, d # c, lock'[d] # None
          PROVE  Inside(lock[d])' = d /\ lock'[d] = lock[d]
      <4>1. lock'[d] = lock[d] /\ Inside(lock[d]) = d
          BY <1>0, <2>1, <3>1 DEF LeftInv, HolderInside
      <4>2. lock[d] # w
          BY <2>2, <4>1 DEF Inside
      <4> QED BY <1>0, <2>2, <3>1, <4>1, <4>2 DEF Inside
    <3>2. lock'[c] = w /\ Inside(w)' = c
        BY <1>0, <2>1, <2>2 DEF Inside, InsidePcs
    <3> QED BY <3>1, <3>2 DEF HolderInside
  <2>6. MarkedInside'
      BY <2>1, <2>2 DEF LeftInv, MarkedInside, Syncs, MarkedPcs, InsidePcs, TryPcs, CatchPcs
  <2> QED BY <2>1, <2>4, <2>5, <2>6 DEF LeftInv
<1>4. ASSUME NEW w \in Workers, InsideStep(w)
      PROVE  LeftInv'
  <2>1. StaysInside(w) /\ UNCHANGED <<stuck, faults, crashes>>
      BY <1>4, InsideStepStays DEF InsideStep, StartRun, Select, Skip, Mark, Fetch, FetchRefused,
           Supersede, DisableAccounts, DisableAssets, Remaining, Archive, UpsertAccounts,
           UpsertAssets, Import, Succeed, Record, Metric, Catch, RecordFailure, dbVars
  <2>2. \A v \in Workers : OpenRecord(v)'
      BY <1>4, <2>1, InsideRecord DEF LeftInv, OpenRecord, StaysInside
  <2>3. HolderInside'
      BY <1>0, <2>1 DEF LeftInv, HolderInside, Inside, StaysInside
  <2>4. MarkedInside'
    <3> SUFFICES ASSUME NEW c \in Connections, conn'[c].status = "syncing", ~Syncs(w, c)'
                 PROVE  \E v \in Workers : Syncs(v, c)'
        BY DEF MarkedInside
    <3>1. conn[c].status = "syncing" /\ ~Syncs(w, c)
        BY <1>4, InsideStatus
    <3>2. PICK v \in Workers : Syncs(v, c)
        BY <2>1, <3>1 DEF LeftInv, MarkedInside
    <3>3. wk'[v] = wk[v]
        BY <2>1, <3>1, <3>2 DEF StaysInside
    <3> QED BY <3>2, <3>3 DEF Syncs
  <2> QED BY <2>1, <2>2, <2>3, <2>4 DEF LeftInv
<1>5. ASSUME NEW w \in Workers, Release(w)
      PROVE  LeftInv'
  <2>1. /\ Leaves(w) /\ wk[w].pc = "release" /\ wk[w].cur \in Connections
        /\ conn' = conn /\ faults' = faults /\ crashes' = crashes
        /\ lock' = ComparedAndDeleted(w) /\ stuck' = StuckAfter(w)
    <3>1. faults' # faults + 1
        BY <1>0
    <3> QED BY <1>5, <3>1, LeavingSteps
            DEF Release, Fault, At, SyncTyped, InHand, InsidePcs
  <2>2. \A v \in Workers : OpenRecord(v)'
    <3>1. wk'[w].open = FALSE
        BY <1>0, <1>5 DEF Release, Between
    <3> QED BY <2>1, <3>1 DEF LeftInv, OpenRecord, Leaves
  <2>3. stuck' = {}
    <3>1. ~wk[w].open
        BY <2>1 DEF LeftInv, OpenRecord, OpenPcs, TryPcs, CatchPcs
    <3> QED BY <2>1, <3>1 DEF LeftInv, StuckAfter
  <2>4. HolderInside'
    <3> SUFFICES ASSUME NEW c \in Connections, lock'[c] # None
                 PROVE  Inside(lock[c])' = c /\ lock'[c] = lock[c]
        BY DEF HolderInside
    <3>1. lock'[c] = lock[c] /\ (c = wk[w].cur => lock[c] # w)
        BY <1>0, <2>1 DEF ComparedAndDeleted
    <3>2. Inside(lock[c]) = c
        BY <2>1, <3>1 DEF LeftInv, HolderInside
    <3>3. lock[c] # w
        BY <3>1, <3>2 DEF Inside
    <3> QED BY <1>0, <2>1, <3>1, <3>2, <3>3 DEF Leaves, Inside
  <2>5. MarkedInside'
      BY <2>1 DEF LeftInv, MarkedInside, Syncs, Leaves, MarkedPcs
  <2> QED BY <2>1, <2>2, <2>3, <2>4, <2>5 DEF LeftInv
<1>6. ASSUME NEW w \in Workers, Disturbance(w)
      PROVE  FALSE
  <2>1. faults' # faults + 1 /\ crashes' # crashes + 1
      BY <1>0
  <2> QED BY <1>6, <2>1 DEF Disturbance, ListFails, StartRunFails, Fail, Crash, AcquireFails,
                            Fault
<1>7. CASE UNCHANGED vars
  <2>1. (\A v \in Workers : OpenRecord(v)') /\ HolderInside' /\ MarkedInside' /\ stuck' = {}
      BY <1>7 DEF vars, LeftInv, OpenRecord, HolderInside, MarkedInside, Syncs, Inside
  <2> QED BY <2>1 DEF LeftInv
<1> QED BY <1>1, <1>2, <1>3, <1>4, <1>5, <1>6, <1>7 DEF Next, JobStep, SyncStep

(* While no call fails and no process dies, a sync leaves nothing behind,  *)
(* however many workers there are and whenever leases end.                 *)
THEOREM NothingIsLeft == Spec => []NothingLeftBehind
<1>1. Init => LeftInv
  <2> SUFFICES ASSUME Init PROVE LeftInv
      OBVIOUS
  <2>1. \A w \in Workers : ~wk[w].open
      BY DEF Init, Idle, Between
  <2>2. \A c \in Connections : lock[c] = None /\ conn[c].status # "syncing"
      BY DEF Init
  <2> QED BY <2>1, <2>2 DEF Init, LeftInv, OpenRecord, HolderInside, MarkedInside
<1>2. SyncTyped /\ LeftInv => NothingLeftBehind
  <2> SUFFICES ASSUME SyncTyped, LeftInv, faults = 0, crashes = 0
               PROVE  \A c \in Connections : conn[c].status = "syncing" =>
                          \E w \in Workers : Inside(w) = c /\ wk[w].pc # "release"
      BY DEF LeftInv, HolderInside, NothingLeftBehind
  <2>1. \A w \in Workers, c \in Connections :
            Syncs(w, c) => Inside(w) = c /\ wk[w].pc # "release"
      BY DEF Syncs, Inside, MarkedPcs, InsidePcs, TryPcs, CatchPcs
  <2> QED BY <2>1 DEF LeftInv, MarkedInside
<1>3. SyncTyped /\ LeftInv /\ [Next]_vars => (SyncTyped /\ LeftInv)'
    BY TypeInductive, LeftInductive
<1> QED BY <1>1, <1>2, <1>3, TypeInitial, PTL DEF Spec
-----------------------------------------------------------------------------
(* Accounts and assets.  An account that is not apart is half-way in one   *)
(* sync at most, which wrote its row last; so the asset that sync writes   *)
(* next is like it.                                                        *)

HalfPcs == {"disableAssets", "upsertAssets"}
LastWriter(w, a) ==
    /\ \A v \in Workers : a \in HalfWay(v) => v = w
    /\ a \in accOn <=> wk[w].pc = "upsertAssets" /\ a \in wk[w].on

PairInv ==
    /\ AssetFollowsAccount
    /\ \A w \in Workers : wk[w].pc = "upsertAssets" => wk[w].on \subseteq wk[w].listed
    /\ \A w \in Workers : \A a \in HalfWay(w) \ apart : LastWriter(w, a)

LEMMA PairInitial == Init => PairInv
<1> SUFFICES ASSUME Init PROVE PairInv
    OBVIOUS
<1>1. \A w \in Workers : wk[w].pc = "idle"
    BY BetweenWorker DEF Init, Idle
<1> QED BY <1>1 DEF PairInv, AssetFollowsAccount, Unlike, HalfWay, At, Init

LEMMA HalfWayPcs ==
    ASSUME NEW w \in Workers
    PROVE  /\ wk[w].pc \notin HalfPcs => HalfWay(w) = {}
           /\ wk[w].pc = "disableAssets" => HalfWay(w) = wk[w].sup
           /\ wk[w].pc = "upsertAssets" => HalfWay(w) = wk[w].listed
           /\ wk'[w].pc \notin HalfPcs => HalfWay(w)' = {}
           /\ wk'[w].pc = "disableAssets" => HalfWay(w)' = wk'[w].sup
           /\ wk'[w].pc = "upsertAssets" => HalfWay(w)' = wk'[w].listed
  BY DEF HalfWay, At, HalfPcs

(* A worker goes where nothing is half written, or stops on the way.       *)
LEMMA PairLeaves ==
    ASSUME PairInv, NEW w \in Workers, UNCHANGED <<accOn, assetOn>>, apart' = LeftApart(w),
           wk'[w].pc \notin HalfPcs, \A v \in Workers \ {w} : wk'[v] = wk[v]
    PROVE  PairInv'
<1>1. HalfWay(w)' = {} /\ \A v \in Workers \ {w} : HalfWay(v)' = HalfWay(v)
    BY HalfWayPcs DEF HalfWay, At
<1>2. Unlike' = Unlike
    BY DEF Unlike
<1>3. AssetFollowsAccount'
    BY <1>1, <1>2 DEF PairInv, AssetFollowsAccount, LeftApart
<1>4. \A v \in Workers : wk'[v].pc = "upsertAssets" => wk'[v].on \subseteq wk'[v].listed
    BY DEF PairInv, HalfPcs
<1>5. ASSUME NEW v \in Workers, NEW a \in HalfWay(v)' \ apart'
      PROVE  LastWriter(v, a)'
  <2>1. v # w /\ a \in HalfWay(v) \ apart
      BY <1>1, <1>5 DEF LeftApart
  <2>2. LastWriter(v, a)
      BY <2>1 DEF PairInv
  <2> QED BY <1>1, <2>1, <2>2 DEF LastWriter
<1> QED BY <1>3, <1>4, <1>5 DEF PairInv

LEMMA PairQuiet ==
    ASSUME PairInv, NEW w \in Workers, UNCHANGED <<accOn, assetOn, apart>>,
           wk[w].pc \notin HalfPcs,
           wk'[w].pc \notin HalfPcs, \A v \in Workers \ {w} : wk'[v] = wk[v]
    PROVE  PairInv'
<1>1. apart' = LeftApart(w)
    BY HalfWayPcs DEF LeftApart
<1> QED BY <1>1, PairLeaves

(* The rows of S are written: those others have in hand are apart, the     *)
(* rest of S no more.                                                      *)
LEMMA RewrittenParts ==
    ASSUME NEW S, NEW others, apart' = Rewritten(S, others)
    PROVE  \A a : a \notin apart' <=> IF a \in S THEN \A v \in others : a \notin HalfWay(v)
                                                 ELSE a \notin apart
  BY DEF Rewritten

LEMMA PairDisconnect ==
    ASSUME SyncTyped, PairInv, NEW c \in Connections, Disconnect(c)
    PROVE  PairInv'
<1> DEFINE S == {a \in Accounts : Owner[a] = c}
<1>1. /\ accOn' = {a \in accOn : Owner[a] # c} /\ assetOn' = {a \in assetOn : Owner[a] # c}
      /\ wk' = wk /\ accOn \subseteq Accounts /\ assetOn \subseteq Accounts
    BY DEF Disconnect, SyncTyped, TypeOK
<1>2. \A a : a \notin apart' <=> IF a \in S THEN \A v \in Workers : a \notin HalfWay(v)
                                            ELSE a \notin apart
    BY RewrittenParts DEF Disconnect
<1>3. \A v \in Workers : HalfWay(v)' = HalfWay(v)
    BY <1>1 DEF HalfWay, At
<1>4. Unlike' = Unlike \ S /\ accOn' = accOn \ S
    BY <1>1 DEF Unlike
<1> HIDE DEF S
<1>5. AssetFollowsAccount'
    BY <1>2, <1>3, <1>4 DEF PairInv, AssetFollowsAccount
<1>6. ASSUME NEW v \in Workers, NEW a \in HalfWay(v)' \ apart'
      PROVE  LastWriter(v, a)'
  <2>1. a \notin S /\ a \in HalfWay(v) \ apart
      BY <1>2, <1>3, <1>6
  <2>2. LastWriter(v, a)
      BY <2>1 DEF PairInv
  <2> QED BY <1>1, <1>3, <1>4, <2>1, <2>2 DEF LastWriter
<1> QED BY <1>1, <1>5, <1>6 DEF PairInv

(* The two statements of a sync: it comes half-way with S, of which it     *)
(* enables E, and then writes the assets.                                  *)
LEMMA PairBegins ==
    ASSUME PairInv, NEW w \in Workers, NEW S, NEW E,
           wk[w].pc \notin HalfPcs, wk'[w].pc \in HalfPcs, HalfWay(w)' = S,
           E \subseteq S, wk'[w].pc = "upsertAssets" => E = wk'[w].on,
           wk'[w].pc = "disableAssets" => E = {},
           accOn' = (accOn \ S) \cup E, assetOn' = assetOn,
           apart' = Rewritten(S, Workers \ {w}),
           \A v \in Workers \ {w} : wk'[v] = wk[v]
    PROVE  PairInv'
<1>1. \A v \in Workers \ {w} : HalfWay(v)' = HalfWay(v)
    BY DEF HalfWay, At
<1>2. \A a : a \notin apart' <=> IF a \in S THEN \A v \in Workers \ {w} : a \notin HalfWay(v)
                                            ELSE a \notin apart
    BY DEF Rewritten
<1>3. HalfWay(w) = {}
    BY HalfWayPcs
<1>4. AssetFollowsAccount'
  <2> SUFFICES ASSUME NEW a \in Unlike', a \notin apart', a \notin HalfWay(w)'
               PROVE  \E v \in Workers : a \in HalfWay(v)'
      BY DEF AssetFollowsAccount
  <2>1. a \in Unlike /\ a \notin apart
      BY <1>2 DEF Unlike
  <2>2. PICK v \in Workers : a \in HalfWay(v)
      BY <2>1 DEF PairInv, AssetFollowsAccount
  <2> QED BY <1>1, <1>3, <2>2
<1>5. \A v \in Workers : wk'[v].pc = "upsertAssets" => wk'[v].on \subseteq wk'[v].listed
    BY HalfWayPcs DEF PairInv
<1>6. ASSUME NEW v \in Workers, NEW a \in HalfWay(v)' \ apart'
      PROVE  LastWriter(v, a)'
  <2>1. CASE v = w
    <3>1. a \in S /\ \A u \in Workers \ {w} : a \notin HalfWay(u)'
        BY <1>1, <1>2, <1>6, <2>1
    <3>2. a \in accOn' <=> wk'[w].pc = "upsertAssets" /\ a \in wk'[w].on
        BY <3>1 DEF HalfPcs
    <3> QED BY <2>1, <3>1, <3>2 DEF LastWriter
  <2>2. CASE v # w
    <3>1. a \in HalfWay(v) /\ a \notin S /\ a \notin apart
        BY <1>1, <1>2, <1>6, <2>2
    <3>2. LastWriter(v, a)
        BY <3>1 DEF PairInv
    <3> QED BY <1>1, <2>2, <3>1, <3>2 DEF LastWriter
  <2> QED BY <2>1, <2>2
<1> QED BY <1>4, <1>5, <1>6 DEF PairInv

LEMMA PairEnds ==
    ASSUME PairInv, NEW w \in Workers, NEW E,
           wk[w].pc \in HalfPcs, wk'[w].pc \notin HalfPcs,
           wk[w].pc = "upsertAssets" => E = wk[w].on, wk[w].pc = "disableAssets" => E = {},
           assetOn' = (assetOn \ HalfWay(w)) \cup E, UNCHANGED <<accOn, apart>>,
           \A v \in Workers \ {w} : wk'[v] = wk[v]
    PROVE  PairInv'
<1>1. HalfWay(w)' = {} /\ \A v \in Workers \ {w} : HalfWay(v)' = HalfWay(v)
    BY HalfWayPcs DEF HalfWay, At
<1>2. E \subseteq HalfWay(w)
    BY HalfWayPcs DEF PairInv, HalfPcs
<1>3. \A a \in HalfWay(w) \ apart : a \in accOn <=> a \in E
    BY DEF PairInv, LastWriter, HalfPcs
<1>4. AssetFollowsAccount'
  <2> SUFFICES ASSUME NEW a \in Unlike', a \notin apart
               PROVE  \E v \in Workers : a \in HalfWay(v)'
      BY DEF AssetFollowsAccount
  <2>1. a \notin HalfWay(w)
      BY <1>3 DEF Unlike
  <2>2. a \in Unlike
      BY <1>2, <2>1 DEF Unlike
  <2>3. PICK v \in Workers : a \in HalfWay(v)
      BY <2>2 DEF PairInv, AssetFollowsAccount
  <2> QED BY <1>1, <2>1, <2>3
<1>5. \A v \in Workers : wk'[v].pc = "upsertAssets" => wk'[v].on \subseteq wk'[v].listed
    BY DEF PairInv, HalfPcs
<1>6. ASSUME NEW v \in Workers, NEW a \in HalfWay(v)' \ apart'
      PROVE  LastWriter(v, a)'
  <2>1. v # w /\ a \in HalfWay(v) \ apart
      BY <1>1, <1>6
  <2>2. LastWriter(v, a)
      BY <2>1 DEF PairInv
  <2> QED BY <1>1, <2>1, <2>2 DEF LastWriter
<1> QED BY <1>4, <1>5, <1>6 DEF PairInv

LEMMA PairWrites ==
    ASSUME CountInv, SyncTyped', PairInv, NEW w \in Workers,
           DisableAccounts(w) \/ DisableAssets(w) \/ UpsertAccounts(w) \/ UpsertAssets(w)
    PROVE  PairInv'
<1> wk \in [Workers -> Worker] /\ wk[w] \in Worker /\ SyncTyped
    BY DEF CountInv, SyncTyped, TypeOK
<1>0. InsideStep(w)
    BY DEF InsideStep
<1>1. \A v \in Workers \ {w} : wk'[v] = wk[v]
    BY <1>0, InsideStepStays DEF StaysInside
<1>2. CASE DisableAccounts(w)
  <2> DEFINE none == {}
  <2>1. /\ wk[w].pc = "disableAccounts" /\ wk'[w].pc = "disableAssets"
        /\ wk'[w].sup = wk[w].sup
      BY <1>2, GotoEffect DEF DisableAccounts, At, Pcs, InsidePcs, TryPcs
  <2>2. HalfWay(w)' = wk[w].sup
      BY <2>1, HalfWayPcs
  <2>3. /\ accOn' = (accOn \ wk[w].sup) \cup none /\ assetOn' = assetOn
        /\ apart' = Rewritten(wk[w].sup, Workers \ {w})
      BY <1>2 DEF DisableAccounts
  <2>4. none \subseteq wk[w].sup /\ (wk'[w].pc = "disableAssets" => none = {})
      OBVIOUS
  <2> HIDE DEF none
  <2> QED BY <1>1, <2>1, <2>2, <2>3, <2>4, PairBegins DEF HalfPcs
<1>3. CASE UpsertAccounts(w)
  <2>1. /\ wk[w].pc = "upsertAccounts" /\ wk'[w].pc = "upsertAssets"
        /\ wk'[w].on = wk[w].on /\ wk'[w].listed = wk[w].listed
      BY <1>3 DEF UpsertAccounts, At, Worker
  <2>2. HalfWay(w)' = wk[w].listed /\ wk[w].on \subseteq wk[w].listed
      BY <2>1, HalfWayPcs DEF CountInv, ListsOwn, SupersedePcs, LookedPcs, EnablingPcs
  <2>3. /\ accOn' = (accOn \ wk[w].listed) \cup wk[w].on /\ assetOn' = assetOn
        /\ apart' = Rewritten(wk[w].listed, Workers \ {w})
      BY <1>3 DEF UpsertAccounts
  <2> QED BY <1>1, <2>1, <2>2, <2>3, PairBegins DEF HalfPcs
<1>4. CASE DisableAssets(w)
  <2> DEFINE none == {}
  <2>1. wk[w].pc = "disableAssets" /\ wk'[w].pc = "remaining"
      BY <1>4, GotoEffect DEF DisableAssets, At, Pcs, InsidePcs, TryPcs
  <2>2. /\ assetOn' = (assetOn \ HalfWay(w)) \cup none
        /\ UNCHANGED <<accOn, apart>>
      BY <1>4, <2>1, HalfWayPcs DEF DisableAssets, apiVars
  <2>3. wk[w].pc = "disableAssets" => none = {}
      OBVIOUS
  <2> HIDE DEF none
  <2> QED BY <1>1, <2>1, <2>2, <2>3, PairEnds DEF HalfPcs
<1>5. CASE UpsertAssets(w)
  <2>1. wk[w].pc = "upsertAssets" /\ wk'[w].pc = "import"
      BY <1>5 DEF UpsertAssets, At, Worker
  <2>2. /\ assetOn' = (assetOn \ HalfWay(w)) \cup wk[w].on
        /\ UNCHANGED <<accOn, apart>>
      BY <1>5, <2>1, HalfWayPcs DEF UpsertAssets, apiVars
  <2> QED BY <1>1, <2>1, <2>2, PairEnds DEF HalfPcs
<1> QED BY <1>2, <1>3, <1>4, <1>5

LEMMA PairInductive == CountInv /\ PairInv /\ [Next]_vars => PairInv'
<1> SUFFICES ASSUME CountInv, PairInv, [Next]_vars
             PROVE  PairInv'
    OBVIOUS
<1>0. SyncTyped /\ SyncTyped'
    BY TypeInductive DEF CountInv
<1>1. ASSUME NEW c \in Connections, Disconnect(c)
      PROVE  PairInv'
    BY <1>0, <1>1, PairDisconnect
<1>2. CASE UNCHANGED <<wk, accOn, assetOn, apart>>
    BY <1>2 DEF PairInv, AssetFollowsAccount, LastWriter, HalfWay, Unlike, At
<1>3. ASSUME Environment, \A c \in Connections : ~Disconnect(c)
      PROVE  UNCHANGED <<wk, accOn, assetOn, apart>>
    BY <1>3 DEF Environment, Consent, Revoke, CallbackUpsert, CallbackEnqueue, CallbackFail,
                DayPasses, LockExpires, RequestSync, CooldownEnds, Tick, dbVars, apiVars
<1>4. ASSUME NEW w \in Workers,
             DisableAccounts(w) \/ DisableAssets(w) \/ UpsertAccounts(w) \/ UpsertAssets(w)
      PROVE  PairInv'
    BY <1>0, <1>4, PairWrites
<1>5. ASSUME NEW w \in Workers, Fail(w) \/ Crash(w)
      PROVE  PairInv'
  <2>1. UNCHANGED <<accOn, assetOn>> /\ apart' = LeftApart(w)
      BY <1>5 DEF Fail, Crash, dbVars
  <2>2. wk'[w].pc \notin HalfPcs /\ \A v \in Workers \ {w} : wk'[v] = wk[v]
    <3>1. CASE Fail(w)
        BY <1>0, <3>1, OtherInsideSteps, InsideStepStays
           DEF StaysInside, HalfPcs, EnablingPcs
    <3>2. CASE Crash(w)
        BY <1>0, <3>2, LeavingSteps DEF Leaves, HalfPcs
    <3> QED BY <1>5, <3>1, <3>2
  <2> QED BY <2>1, <2>2, PairLeaves
<1>6. ASSUME NEW w \in Workers, InsideStep(w),
             ~(DisableAccounts(w) \/ DisableAssets(w) \/ UpsertAccounts(w) \/ UpsertAssets(w))
      PROVE  PairInv'
  <2>1. UNCHANGED <<accOn, assetOn, apart>> /\ wk[w].pc \notin HalfPcs
      BY <1>6 DEF InsideStep, StartRun, Select, Skip, Mark, Fetch, FetchRefused, Supersede,
                  Remaining, Archive, Import, Succeed, Record, Metric, Catch, RecordFailure,
                  At, HalfPcs, dbVars, apiVars
  <2>2. wk'[w].pc \notin HalfPcs
    <3>1. CASE Select(w) \/ Mark(w) \/ Fetch(w) \/ Supersede(w) \/ Remaining(w)
        BY <1>0, <3>1, SelectingSteps, BranchingSteps DEF HalfPcs
    <3>2. CASE Archive(w)
        BY <1>0, <3>2, GotoEffect
           DEF Archive, HalfPcs, Pcs, InsidePcs, TryPcs, SyncTyped, TypeOK
    <3> QED BY <1>0, <1>6, <3>1, <3>2, OtherInsideSteps DEF InsideStep, HalfPcs, EnablingPcs
  <2>3. \A v \in Workers \ {w} : wk'[v] = wk[v]
      BY <1>0, <1>6, InsideStepStays DEF StaysInside
  <2> QED BY <2>1, <2>2, <2>3, PairQuiet
<1>7. ASSUME NEW w \in Workers,
             \/ JobStep(w) \/ ListFails(w) \/ (\E c \in Connections : AcquireFails(w, c))
             \/ Release(w) \/ StartRunFails(w)
      PROVE  PairInv'
  <2>1. UNCHANGED <<accOn, assetOn, apart>> /\ wk[w].pc \notin HalfPcs
      BY <1>7 DEF JobStep, Pop, List, ListFails, Acquire, SkipLocked, AcquireFails, Release,
                  StartRunFails, At, HalfPcs, dbVars, apiVars
  <2>2. wk'[w].pc \notin HalfPcs /\ \A v \in Workers \ {w} : wk'[v] = wk[v]
      BY <1>0, <1>7, OutsideStepStays, AcquireEnters, LeavingSteps
         DEF JobStep, StaysOutside, Leaves, HalfPcs, InsidePcs, TryPcs
  <2> QED BY <2>1, <2>2, PairQuiet
<1>8. CASE UNCHANGED vars
    BY <1>2, <1>8 DEF vars
<1> QED BY <1>1, <1>2, <1>3, <1>4, <1>5, <1>6, <1>7, <1>8
        DEF Next, SyncStep, Disturbance

(* An asset is enabled exactly if its account is, however many syncs and   *)
(* disconnects there are at a time, but for what was written half or       *)
(* overtaken half-way.                                                     *)
THEOREM AssetsFollow == Spec => []AssetFollowsAccount
<1>1. PairInv => AssetFollowsAccount
    BY DEF PairInv
<1> QED BY <1>1, CountInitial, CountInductive, PairInitial, PairInductive, PTL DEF Spec

(* With one worker, only a failure, a crash or a disconnect that comes     *)
(* between the two statements takes an asset apart from its account.       *)
ApartOnlyWhenCut ==
    [][\/ apart' \subseteq apart
       \/ faults' # faults \/ crashes' # crashes
       \/ \E c \in Connections : Disconnect(c)]_vars

THEOREM ApartByOneWorker == SingleWorker => (Spec => ApartOnlyWhenCut)
<1> SUFFICES ASSUME SingleWorker PROVE Spec => ApartOnlyWhenCut
    OBVIOUS
<1> DEFINE Step == \/ apart' \subseteq apart
                   \/ faults' # faults \/ crashes' # crashes
                   \/ \E c \in Connections : Disconnect(c)
<1>1. ASSUME SyncTyped, [Next]_vars
      PROVE  [Step]_vars
  <2>1. ASSUME NEW w \in Workers, Fail(w) \/ Crash(w)
        PROVE  faults' # faults \/ crashes' # crashes
      BY <1>1, <2>1, SyncAssumption DEF Fail, Crash, Fault, SyncTyped, TypeOK
  <2>2. ASSUME NEW w \in Workers, DisableAccounts(w) \/ UpsertAccounts(w)
        PROVE  apart' \subseteq apart
    <3>1. Workers \ {w} = {}
        BY DEF SingleWorker
    <3> QED BY <2>2, <3>1 DEF DisableAccounts, UpsertAccounts, Rewritten
  <2>3. ASSUME NEW w \in Workers, JobStep(w) \/ SyncStep(w) \/ Disturbance(w),
               ~(DisableAccounts(w) \/ UpsertAccounts(w) \/ Fail(w) \/ Crash(w))
        PROVE  apart' = apart
      BY <2>3 DEF JobStep, Pop, List, Acquire, SkipLocked, SyncStep, InsideStep, StartRun,
         Select, Skip, Mark, Fetch, FetchRefused, Supersede, DisableAssets, Remaining, Archive,
         UpsertAssets, Import, Succeed, Record, Metric, Catch, RecordFailure, Release,
         Disturbance, ListFails, StartRunFails, AcquireFails, apiVars
  <2>4. ASSUME Environment, \A c \in Connections : ~Disconnect(c)
        PROVE  apart' = apart
      BY <2>4 DEF Environment, Consent, Revoke, CallbackUpsert, CallbackEnqueue, CallbackFail,
         DayPasses, LockExpires, RequestSync, CooldownEnds, Tick, apiVars
  <2> QED BY <1>1, <2>1, <2>2, <2>3, <2>4 DEF Next
<1> QED BY <1>1, TypeInitial, TypeInductive, PTL DEF Spec, ApartOnlyWhenCut
=============================================================================
