---------------------- MODULE DerivedRecompute_proofs ----------------------
(***************************************************************************)
(* Proofs about DerivedRecompute: its types, that there is one current     *)
(* snapshot unless two recomputes have run at a time, and that the last    *)
(* one is not lost while the replies to commits arrive.                    *)
(***************************************************************************)
EXTENDS DerivedRecompute, FiniteSetTheorems, TLAPS

(* The advisory lock is taken once by a request, so its count leaves room  *)
(* for the requests that have not tried yet.                               *)
New == {r \in Runs : At(r, "new")}
RoomLeft == lock.depth + Cardinality(New) <= Cardinality(Runs)

TypeInv == TypeOK /\ RoomLeft

(* Requests in the body of the route are one, unless two have overlapped;  *)
(* the transaction of that one has found every current row.                *)
Alone == \A p, q \in Running : p = q
FoundAll ==
    \A r \in Runs : /\ At(r, "lockRows") => task[r].seen = Current
                    /\ At(r, "commit") => task[r].rows = Current
Single == \A p, q \in Current : p = q

SnapshotInv == ~overlapped => Alone /\ FoundAll /\ Single
-----------------------------------------------------------------------------
LEMMA PlainTyped ==
    ASSUME NEW p \in {"new", "done"} \cup LockedPcs
    PROVE  Plain(p) \in Task
BY DEF Plain, Task

LEMMA GotoTyped ==
    ASSUME task \in [Runs -> Task], NEW r \in Runs,
           NEW p \in {"new", "done"} \cup LockedPcs, Goto(r, p)
    PROVE  task' \in [Runs -> Task]
BY PlainTyped DEF Goto

LEMMA NewFinite ==
    IsFiniteSet(New) /\ Cardinality(New) \in Nat /\ Cardinality(Runs) \in Nat
<1>1. IsFiniteSet(Runs)
  BY RecomputeAssumption
<1>2. New \subseteq Runs
  BY DEF New
<1> QED
  BY <1>1, <1>2, FS_Subset, FS_CardinalityType

(* A request that is past its first step, and goes on, leaves New alone.   *)
LEMMA SameNew ==
    ASSUME task \in [Runs -> Task], NEW r \in Runs, task[r].pc # "new",
           NEW s, s.pc # "new", task' = [task EXCEPT ![r] = s]
    PROVE  New' = New
BY DEF New, At

LEMMA SameNewGoto ==
    ASSUME task \in [Runs -> Task], NEW r \in Runs, task[r].pc # "new",
           NEW p, p # "new", Goto(r, p)
    PROVE  New' = New
<1>1. Plain(p).pc # "new"
  BY DEF Plain
<1> QED
  BY <1>1, SameNew DEF Goto

(* What a step may do to the lock when it is not the one that takes it.    *)
LockStays == lock' = lock
LockFreed == lock' = Free
LockLessHeld == lock.depth # 0 /\ lock.depth # 1 /\ lock' = [lock EXCEPT !.depth = @ - 1]

LEMMA LockNotTaken ==
    ASSUME TypeInv, New' \subseteq New, LockStays \/ LockFreed \/ LockLessHeld
    PROVE  /\ lock' \in [session : Sessions \cup {None}, depth : 0..Cardinality(Runs)]
           /\ lock'.session = None <=> lock'.depth = 0
           /\ RoomLeft'
<1>1. /\ Cardinality(New) \in Nat /\ Cardinality(Runs) \in Nat
      /\ Cardinality(New') \in Nat /\ Cardinality(New') <= Cardinality(New)
  BY NewFinite, FS_Subset, FS_CardinalityType
<1>2. /\ lock \in [session : Sessions \cup {None}, depth : 0..Cardinality(Runs)]
      /\ lock.session = None <=> lock.depth = 0
      /\ lock.depth + Cardinality(New) <= Cardinality(Runs)
  BY DEF TypeInv, TypeOK, RoomLeft
<1>3. CASE LockStays
  BY <1>1, <1>2, <1>3 DEF LockStays, RoomLeft
<1>4. CASE LockFreed
  <2>1. Cardinality(New') <= Cardinality(Runs)
    BY <1>1, <1>2
  <2> QED
    BY <1>1, <1>4, <2>1 DEF LockFreed, Free, RoomLeft
<1>5. CASE LockLessHeld
  <2>1. /\ lock'.session = lock.session /\ lock'.depth = lock.depth - 1
        /\ lock' = [session |-> lock'.session, depth |-> lock'.depth]
    BY <1>2, <1>5 DEF LockLessHeld
  <2>2. lock'.depth \in 0..Cardinality(Runs) /\ lock'.depth # 0
    BY <1>1, <1>2, <1>5, <2>1 DEF LockLessHeld
  <2> QED
    BY <1>1, <1>2, <1>5, <2>1, <2>2 DEF LockLessHeld, RoomLeft
<1> QED
  BY <1>3, <1>4, <1>5

LEMMA LockTaken ==
    ASSUME TypeInv, NEW r \in Runs, NEW s \in Sessions, At(r, "new"),
           lock.session \in {None, s},
           lock' = [session |-> s, depth |-> lock.depth + 1], Goto(r, "create")
    PROVE  /\ lock' \in [session : Sessions \cup {None}, depth : 0..Cardinality(Runs)]
           /\ lock'.session = None <=> lock'.depth = 0
           /\ RoomLeft'
<1>1. New' = New \ {r}
  BY DEF TypeInv, TypeOK, New, At, Goto, Plain
<1>2. r \in New
  BY DEF New
<1>3. /\ Cardinality(New) \in Nat /\ Cardinality(Runs) \in Nat
      /\ Cardinality(New') = Cardinality(New) - 1 /\ Cardinality(New') \in Nat
  BY <1>1, <1>2, NewFinite, FS_RemoveElement, FS_CardinalityType
<1>4. lock.depth \in Nat /\ lock.depth + Cardinality(New) <= Cardinality(Runs)
  BY NewFinite DEF TypeInv, TypeOK, RoomLeft
<1>5. /\ lock'.session = s /\ lock'.depth = lock.depth + 1 /\ s # None
  BY RecomputeAssumption
<1>6. lock'.depth + Cardinality(New') <= Cardinality(Runs)
  BY <1>3, <1>4, <1>5
<1>7. lock'.depth \in 0..Cardinality(Runs) /\ lock'.depth # 0
  BY <1>3, <1>4, <1>5, <1>6
<1> QED
  BY <1>5, <1>6, <1>7 DEF RoomLeft
-----------------------------------------------------------------------------
LEMMA InitTyped == Init => TypeInv
<1> SUFFICES ASSUME Init PROVE TypeInv
  OBVIOUS
<1>1. Plain("new") \in Task
  BY PlainTyped
<1>2. TypeOK
  <2>1. run \in [Runs -> Row] /\ task \in [Runs -> Task] /\ overlapped \in BOOLEAN
    BY <1>1 DEF Init, Row
  <2>2. /\ lock \in [session : Sessions \cup {None}, depth : 0..Cardinality(Runs)]
        /\ lock.session = None <=> lock.depth = 0
    BY NewFinite DEF Init, Free
  <2>3. faults \in 0..MaxFaults /\ lost \in 0..MaxLostAcks /\ crashes \in 0..MaxCrashes
    BY RecomputeAssumption DEF Init
  <2> QED
    BY <2>1, <2>2, <2>3 DEF TypeOK
<1>3. New = Runs
  BY DEF Init, New, At, Plain
<1>4. RoomLeft
  BY <1>3, NewFinite DEF Init, RoomLeft, Free
<1> QED
  BY <1>2, <1>4 DEF TypeInv

LEMMA CountersTyped ==
    ASSUME TypeOK,
           \/ Fault /\ UNCHANGED <<lost, crashes>>
           \/ lost < MaxLostAcks /\ lost' = lost + 1 /\ UNCHANGED <<faults, crashes>>
           \/ crashes < MaxCrashes /\ crashes' = crashes + 1 /\ UNCHANGED <<faults, lost>>
           \/ UNCHANGED <<faults, lost, crashes>>
    PROVE  faults' \in 0..MaxFaults /\ lost' \in 0..MaxLostAcks /\ crashes' \in 0..MaxCrashes
BY RecomputeAssumption DEF TypeOK, Fault

LEMMA StepTyped == TypeInv /\ [Next]_vars => TypeInv'
<1> SUFFICES ASSUME TypeInv, [Next]_vars PROVE TypeInv'
  OBVIOUS
<1> USE DEF TypeInv
<1>0. /\ task \in [Runs -> Task] /\ run \in [Runs -> Row] /\ overlapped \in BOOLEAN
      /\ lock.session \in Sessions \cup {None} /\ lock.depth \in Nat
      /\ lock.session = None <=> lock.depth = 0
  BY NewFinite DEF TypeOK
<1>1. ASSUME NEW r \in Runs, Acquire(r) PROVE TypeInv'
  <2>1. PICK s \in Sessions :
          \/ /\ lock.session \in {None, s}
             /\ lock' = [session |-> s, depth |-> lock.depth + 1]
             /\ Goto(r, "create")
             /\ overlapped' = (overlapped \/ Running # {})
          \/ Goto(r, "done") /\ UNCHANGED <<lock, overlapped>>
    BY <1>1 DEF Acquire, Pool
  <2>2. task' \in [Runs -> Task]
    BY <1>0, <2>1, GotoTyped DEF LockedPcs
  <2>3. run' \in [Runs -> Row] /\ UNCHANGED <<faults, lost, crashes>> /\ At(r, "new")
    BY <1>0, <1>1 DEF Acquire
  <2>4. CASE Goto(r, "done") /\ UNCHANGED <<lock, overlapped>>
    <3>1. New' \subseteq New
      BY <1>0, <2>3, <2>4 DEF Goto, Plain, New, At
    <3> QED
      BY <1>0, <2>2, <2>3, <2>4, <3>1, LockNotTaken, CountersTyped DEF TypeOK, LockStays
  <2>5. CASE /\ lock.session \in {None, s}
             /\ lock' = [session |-> s, depth |-> lock.depth + 1]
             /\ Goto(r, "create")
             /\ overlapped' = (overlapped \/ Running # {})
    BY <1>0, <2>2, <2>3, <2>5, LockTaken, CountersTyped DEF TypeOK
  <2> QED
    BY <2>1, <2>4, <2>5
<1>2. ASSUME NEW r \in Runs, Create(r) \/ CreateFails(r) PROVE TypeInv'
  <2>1. run' \in [Runs -> Row]
    BY <1>0, <1>2 DEF Create, CreateFails, Row
  <2>2. PICK p \in {"begin", "done"} : Goto(r, p)
    BY <1>2 DEF Create, CreateFails
  <2>3. task' \in [Runs -> Task] /\ New' = New
    BY <1>0, <1>2, <2>2, GotoTyped, SameNewGoto
    DEF Create, CreateFails, At, LockedPcs, TryPcs
  <2>4. /\ LockStays /\ overlapped' = overlapped
        /\ (Fault /\ UNCHANGED <<lost, crashes>>) \/ UNCHANGED <<faults, lost, crashes>>
    BY <1>2 DEF Create, CreateFails, LockStays
  <2> QED
    BY <1>0, <2>1, <2>3, <2>4, LockNotTaken, CountersTyped DEF TypeOK
<1>3. ASSUME NEW r \in Runs, Begin(r) \/ Demote(r) \/ LockRows(r) PROVE TypeInv'
  <2>1. PICK s : s \in Task /\ s.pc # "new" /\ task' = [task EXCEPT ![r] = s]
    <3>0. task[r] \in Task
      BY <1>0
    <3>1. CASE Begin(r)
      <4>1. PICK q \in Sessions :
              task' = [task EXCEPT ![r].pc = "demote", ![r].session = q]
        BY <3>1 DEF Begin, Pool
      <4> DEFINE s == [task[r] EXCEPT !.pc = "demote", !.session = q]
      <4>2. s \in Task /\ s.pc # "new"
        BY <3>0 DEF Task, LockedPcs, TryPcs, TransactionPcs
      <4>3. task' = [task EXCEPT ![r] = s]
        BY <1>0, <4>1
      <4> QED
        BY <4>2, <4>3
    <3>2. CASE Demote(r)
      <4> DEFINE s == [task[r] EXCEPT !.pc = "lockRows", !.seen = Found]
      <4>1. s \in Task /\ s.pc # "new"
        BY <3>0 DEF Task, LockedPcs, TryPcs, TransactionPcs, Found, Current
      <4>2. task' = [task EXCEPT ![r] = s]
        BY <1>0, <3>2 DEF Demote
      <4> QED
        BY <4>1, <4>2
    <3>3. CASE LockRows(r)
      <4> DEFINE s == [task[r] EXCEPT !.pc = "commit", !.seen = {},
                                      !.rows = task[r].seen \cap Current]
      <4>1. s \in Task /\ s.pc # "new"
        BY <3>0 DEF Task, LockedPcs, TryPcs, TransactionPcs, Current
      <4>2. task' = [task EXCEPT ![r] = s]
        BY <1>0, <3>3 DEF LockRows
      <4> QED
        BY <4>1, <4>2
    <3> QED
      BY <1>3, <3>1, <3>2, <3>3
  <2>2. task' \in [Runs -> Task]
    BY <1>0, <2>1
  <2>3. New' = New
    BY <1>0, <1>3, <2>1, SameNew DEF Begin, Demote, LockRows, At
  <2>4. LockStays /\ UNCHANGED <<run, overlapped, faults, lost, crashes>>
    BY <1>3 DEF Begin, Demote, LockRows, LockStays
  <2> QED
    BY <1>0, <2>2, <2>3, <2>4, LockNotTaken, CountersTyped DEF TypeOK
<1>4. ASSUME NEW r \in Runs, Commit(r) PROVE TypeInv'
  <2>1. run' \in [Runs -> Row]
    BY <1>0, <1>4 DEF Commit, Applied, Row
  <2>2. PICK p \in {"unlock", "markFailed"} : Goto(r, p)
    BY <1>4 DEF Commit
  <2>3. task' \in [Runs -> Task] /\ New' = New
    BY <1>0, <1>4, <2>2, GotoTyped, SameNewGoto DEF Commit, At, LockedPcs
  <2>4. /\ LockStays /\ overlapped' = overlapped
        /\ \/ UNCHANGED <<faults, lost, crashes>>
           \/ lost < MaxLostAcks /\ lost' = lost + 1 /\ UNCHANGED <<faults, crashes>>
    BY <1>4 DEF Commit, LockStays
  <2> QED
    BY <1>0, <2>1, <2>3, <2>4, LockNotTaken, CountersTyped DEF TypeOK
<1>5. ASSUME NEW r \in Runs, Abort(r) PROVE TypeInv'
  <2>1. task[r].pc # "new" /\ Goto(r, "markFailed")
    BY <1>5 DEF Abort, TryPcs, TransactionPcs
  <2>2. task' \in [Runs -> Task] /\ New' = New
    BY <1>0, <2>1, GotoTyped, SameNewGoto DEF LockedPcs
  <2>3. /\ LockStays \/ LockFreed
        /\ Fault /\ UNCHANGED <<run, overlapped, lost, crashes>>
    BY <1>5 DEF Abort, LockStays, LockFreed
  <2> QED
    BY <1>0, <2>2, <2>3, LockNotTaken, CountersTyped DEF TypeOK
<1>6. ASSUME NEW r \in Runs, MarkFailed(r) \/ MarkFails(r) PROVE TypeInv'
  <2>1. task[r].pc # "new" /\ Goto(r, "unlock")
    BY <1>6 DEF MarkFailed, MarkFails, At
  <2>2. task' \in [Runs -> Task] /\ New' = New
    BY <1>0, <2>1, GotoTyped, SameNewGoto DEF LockedPcs
  <2>3. run' \in [Runs -> Row]
    <3>1. [status |-> "failed", current |-> FALSE] \in Row
      BY DEF Row
    <3>2. run' = [run EXCEPT ![r] = [status |-> "failed", current |-> FALSE]] \/ run' = run
      BY <1>6 DEF MarkFailed, MarkFails
    <3> QED
      BY <1>0, <3>1, <3>2
  <2>4. /\ LockStays /\ overlapped' = overlapped
        /\ (Fault /\ UNCHANGED <<lost, crashes>>) \/ UNCHANGED <<faults, lost, crashes>>
    BY <1>6 DEF MarkFailed, MarkFails, LockStays
  <2> QED
    BY <1>0, <2>2, <2>3, <2>4, LockNotTaken, CountersTyped DEF TypeOK
<1>7. ASSUME NEW r \in Runs, Unlock(r) PROVE TypeInv'
  <2>1. task[r].pc # "new" /\ Goto(r, "done")
    BY <1>7 DEF Unlock, At
  <2>2. task' \in [Runs -> Task] /\ New' = New
    BY <1>0, <2>1, GotoTyped, SameNewGoto
  <2>3. LockStays \/ LockFreed \/ LockLessHeld
    <3>1. \/ lock' = lock
          \/ \E s \in Sessions : lock.session = s /\ lock' = Unlocked
      BY <1>7 DEF Unlock, Pool
    <3> QED
      BY <1>0, <3>1, RecomputeAssumption
      DEF Unlocked, LockStays, LockFreed, LockLessHeld
  <2>4. /\ UNCHANGED <<run, overlapped>>
        /\ (Fault /\ UNCHANGED <<lost, crashes>>) \/ UNCHANGED <<faults, lost, crashes>>
    BY <1>7 DEF Unlock
  <2> QED
    BY <1>0, <2>2, <2>3, <2>4, LockNotTaken, CountersTyped DEF TypeOK
<1>8. CASE SessionEnds
  <2>1. New' = New
    BY <1>8 DEF SessionEnds, New, At
  <2> QED
    BY <1>0, <1>8, <2>1, LockNotTaken, CountersTyped DEF SessionEnds, TypeOK, LockFreed
<1>9. CASE Crash
  <2>1. task' \in [Runs -> Task] /\ New' \subseteq New
    <3>1. Plain("done") \in Task /\ Plain("done").pc # "new"
      BY PlainTyped DEF Plain
    <3> QED
      BY <1>0, <1>9, <3>1 DEF Crash, New, At
  <2> QED
    BY <1>0, <1>9, <2>1, LockNotTaken, CountersTyped DEF Crash, TypeOK, LockFreed
<1>10. CASE UNCHANGED vars
  <2>1. New' = New
    BY <1>10 DEF vars, New, At
  <2> QED
    BY <1>0, <1>10, <2>1, LockNotTaken, CountersTyped DEF vars, TypeOK, LockStays
<1> QED
  BY <1>1, <1>2, <1>3, <1>4, <1>5, <1>6, <1>7, <1>8, <1>9, <1>10 DEF Next

(* Every value stays of its type: in particular the advisory lock is never *)
(* taken more often than there are requests, and is free exactly when its  *)
(* count is zero, whichever session each call is given.                    *)
THEOREM TypeCorrect == Spec => []TypeOK
<1>1. TypeInv => TypeOK
  BY DEF TypeInv
<1> QED
  BY InitTyped, StepTyped, <1>1, PTL DEF Spec
-----------------------------------------------------------------------------
(* Who is at the two points that FoundAll speaks of is inside.             *)
LEMMA AtIsRunning ==
    ASSUME NEW r \in Runs,
           \E p \in LockedPcs : At(r, p)
    PROVE  r \in Running
BY DEF Running, At

(* A step of the one request inside: the others stay outside, so only what *)
(* it has found itself matters.                                            *)
LEMMA OneInsideSteps ==
    ASSUME TypeOK, Alone, NEW r \in Running,
           NEW s, task' = [task EXCEPT ![r] = s],
           s.pc = "lockRows" => s.seen = Current',
           s.pc = "commit" => s.rows = Current'
    PROVE  Alone' /\ FoundAll'
<1>1. task \in [Runs -> Task] /\ r \in Runs
  BY DEF TypeOK, Running
<1>2. \A q \in Runs : q = r \/ task[q].pc \notin LockedPcs
  BY DEF Alone, Running
<1>3. \A q \in Runs : task'[q] = IF q = r THEN s ELSE task[q]
  BY <1>1
<1>4. Alone'
  BY <1>2, <1>3 DEF Alone, Running
<1>5. "lockRows" \in LockedPcs /\ "commit" \in LockedPcs
  BY DEF LockedPcs, TryPcs, TransactionPcs
<1>6. FoundAll'
  <2> SUFFICES ASSUME NEW q \in Runs
               PROVE  /\ task'[q].pc = "lockRows" => task'[q].seen = Current'
                      /\ task'[q].pc = "commit" => task'[q].rows = Current'
    BY DEF FoundAll, At
  <2> QED
    BY <1>2, <1>3, <1>5
<1> QED
  BY <1>4, <1>6

(* The same for a step that ends at a point without session or rows.       *)
LEMMA OneInsideGoes ==
    ASSUME TypeOK, Alone, NEW r \in Running,
           NEW p, p # "lockRows", p # "commit", Goto(r, p)
    PROVE  Alone' /\ FoundAll'
<1>1. Plain(p).pc # "lockRows" /\ Plain(p).pc # "commit"
  BY DEF Plain
<1> QED
  BY <1>1, OneInsideSteps DEF Goto

LEMMA InitSnapshot == Init => SnapshotInv
<1> SUFFICES ASSUME Init PROVE SnapshotInv
  OBVIOUS
<1>1. \A r \in Runs : task[r].pc = "new" /\ ~run[r].current
  BY DEF Init, Plain
<1>2. "new" \notin LockedPcs
  BY DEF LockedPcs, TryPcs, TransactionPcs
<1>3. Running = {} /\ Current = {}
  BY <1>1, <1>2 DEF Running, Current
<1> QED
  BY <1>1, <1>3 DEF SnapshotInv, Alone, Single, FoundAll, At

LEMMA StepSnapshot == TypeInv /\ SnapshotInv /\ [Next]_vars => SnapshotInv'
<1> SUFFICES ASSUME TypeInv, SnapshotInv, [Next]_vars, ~overlapped'
             PROVE  Alone' /\ FoundAll' /\ Single'
  BY DEF SnapshotInv
<1>0. /\ task \in [Runs -> Task] /\ run \in [Runs -> Row] /\ overlapped \in BOOLEAN
      /\ TypeOK
  BY DEF TypeInv, TypeOK
<1>1. ~overlapped
  <2>1. (overlapped' = (overlapped \/ Running # {})) \/ overlapped' = overlapped
    BY DEF Next, vars, Acquire, Create, CreateFails, Begin, Demote, LockRows, Commit,
           Abort, MarkFailed, MarkFails, Unlock, SessionEnds, Crash
  <2> QED
    BY <1>0, <2>1
<1>2. Alone /\ FoundAll /\ Single
  BY <1>1 DEF SnapshotInv
<1>3. ASSUME run' = run PROVE Current' = Current /\ Single'
  BY <1>2, <1>3 DEF Current, Single
<1>4. ASSUME NEW r \in Runs, Acquire(r) PROVE Alone' /\ FoundAll' /\ Single'
  <2>1. run' = run /\ At(r, "new")
    BY <1>4 DEF Acquire
  <2>2. \/ /\ Goto(r, "create")
           /\ overlapped' = (overlapped \/ Running # {})
        \/ Goto(r, "done") /\ overlapped' = overlapped
    BY <1>4 DEF Acquire
  <2>3. \A q \in Runs \ {r} : task'[q] = task[q]
    BY <1>0, <2>2 DEF Goto
  <2>4. task'[r].pc \in {"create", "done"}
    BY <1>0, <2>2 DEF Goto, Plain
  <2>5. FoundAll'
    BY <1>2, <1>3, <2>1, <2>3, <2>4 DEF FoundAll, At
  <2>6. Alone'
    <3>1. CASE Goto(r, "create")
      <4>1. Running = {}
        <5>1. overlapped' = (overlapped \/ Running # {})
          BY <1>0, <2>2, <3>1 DEF Goto, Plain
        <5> QED
          BY <5>1
      <4> QED
        BY <2>3, <4>1 DEF Running, Alone
    <3>2. CASE Goto(r, "done")
      <4>1. task'[r].pc \notin LockedPcs
        BY <1>0, <3>2 DEF Goto, Plain, LockedPcs, TryPcs, TransactionPcs
      <4> QED
        BY <1>2, <2>3, <4>1 DEF Running, Alone
    <3> QED
      BY <2>2, <3>1, <3>2
  <2> QED
    BY <1>3, <2>1, <2>5, <2>6
<1>5. ASSUME NEW r \in Runs, Create(r) \/ CreateFails(r) PROVE Alone' /\ FoundAll' /\ Single'
  <2>1. r \in Running
    BY <1>5, AtIsRunning DEF Create, CreateFails, LockedPcs
  <2>2. Goto(r, "begin") \/ Goto(r, "done")
    BY <1>5 DEF Create, CreateFails
  <2>3. Alone' /\ FoundAll'
    BY <1>0, <1>2, <2>1, <2>2, OneInsideGoes
  <2>4. run' = [run EXCEPT ![r].status = "running"] \/ run' = run
    BY <1>5 DEF Create, CreateFails
  <2>5. Current' = Current
    BY <1>0, <2>4 DEF Current, Row
  <2> QED
    BY <1>2, <2>3, <2>5 DEF Single
<1>6. ASSUME NEW r \in Runs, Begin(r) PROVE Alone' /\ FoundAll' /\ Single'
  <2>1. r \in Running
    BY <1>6, AtIsRunning DEF Begin, LockedPcs, TryPcs
  <2>2. PICK q \in Sessions : task' = [task EXCEPT ![r].pc = "demote", ![r].session = q]
    BY <1>6 DEF Begin, Pool
  <2> DEFINE s == [task[r] EXCEPT !.pc = "demote", !.session = q]
  <2>3. s.pc = "demote"
    BY <1>0, <1>6 DEF Task
  <2>4. task' = [task EXCEPT ![r] = s]
    BY <1>0, <2>2
  <2> HIDE DEF s
  <2>5. Alone' /\ FoundAll'
    BY <1>0, <1>2, <2>1, <2>3, <2>4, OneInsideSteps
  <2> QED
    BY <1>3, <1>6, <2>5 DEF Begin
<1>7. ASSUME NEW r \in Runs, Demote(r) PROVE Alone' /\ FoundAll' /\ Single'
  <2>1. r \in Running
    BY <1>7, AtIsRunning DEF Demote, LockedPcs, TryPcs, TransactionPcs
  <2>2. Current' = Current /\ Single'
    BY <1>3, <1>7 DEF Demote
  <2> DEFINE s == [task[r] EXCEPT !.pc = "lockRows", !.seen = Found]
  <2>3. s.pc = "lockRows" /\ s.seen = Current
    BY <1>0, <1>7 DEF Task, Found
  <2>4. task' = [task EXCEPT ![r] = s]
    BY <1>0, <1>7 DEF Demote
  <2> HIDE DEF s
  <2> QED
    BY <1>0, <1>2, <2>1, <2>2, <2>3, <2>4, OneInsideSteps
<1>8. ASSUME NEW r \in Runs, LockRows(r) PROVE Alone' /\ FoundAll' /\ Single'
  <2>1. r \in Running
    BY <1>8, AtIsRunning DEF LockRows, LockedPcs, TryPcs, TransactionPcs
  <2>2. Current' = Current /\ Single'
    BY <1>3, <1>8 DEF LockRows
  <2>3. task[r].seen = Current
    BY <1>2, <1>8 DEF LockRows, FoundAll
  <2> DEFINE s == [task[r] EXCEPT !.pc = "commit", !.seen = {},
                                  !.rows = task[r].seen \cap Current]
  <2>4. s.pc = "commit" /\ s.rows = Current
    BY <1>0, <1>8, <2>3 DEF Task
  <2>5. task' = [task EXCEPT ![r] = s]
    BY <1>0, <1>8 DEF LockRows
  <2> HIDE DEF s
  <2> QED
    BY <1>0, <1>2, <2>1, <2>2, <2>4, <2>5, OneInsideSteps
<1>9. ASSUME NEW r \in Runs, Commit(r) PROVE Alone' /\ FoundAll' /\ Single'
  <2>1. r \in Running
    BY <1>9, AtIsRunning DEF Commit, LockedPcs, TryPcs, TransactionPcs
  <2>2. Goto(r, "unlock") \/ Goto(r, "markFailed")
    BY <1>9 DEF Commit
  <2>3. Alone' /\ FoundAll'
    BY <1>0, <1>2, <2>1, <2>2, OneInsideGoes
  <2>4. task[r].rows = Current
    BY <1>2, <1>9 DEF Commit, FoundAll
  <2>5. \A p \in Runs \ {r} : ~run'[p].current
    <3> SUFFICES ASSUME NEW p \in Runs \ {r} PROVE ~run'[p].current
      OBVIOUS
    <3>1. run'[p] = IF p \in Current THEN [run[p] EXCEPT !.current = FALSE] ELSE run[p]
      BY <1>9, <2>4 DEF Commit, Applied
    <3>2. run[p] \in Row
      BY <1>0
    <3> QED
      BY <3>1, <3>2 DEF Current, Row
  <2>6. Single'
    BY <2>5 DEF Single, Current
  <2> QED
    BY <2>3, <2>6
<1>10. ASSUME NEW r \in Runs, Abort(r) PROVE Alone' /\ FoundAll' /\ Single'
  <2>1. r \in Running /\ Goto(r, "markFailed") /\ run' = run
    BY <1>10 DEF Abort, Running, LockedPcs
  <2> QED
    BY <1>0, <1>2, <1>3, <2>1, OneInsideGoes
<1>11. ASSUME NEW r \in Runs, MarkFailed(r) \/ MarkFails(r) PROVE Alone' /\ FoundAll' /\ Single'
  <2>1. r \in Running
    BY <1>11, AtIsRunning DEF MarkFailed, MarkFails, LockedPcs
  <2>2. Goto(r, "unlock")
    BY <1>11 DEF MarkFailed, MarkFails
  <2>3. Alone' /\ FoundAll'
    BY <1>0, <1>2, <2>1, <2>2, OneInsideGoes
  <2>4. Current' \subseteq Current
    BY <1>0, <1>11 DEF MarkFailed, MarkFails, Current
  <2> QED
    BY <1>2, <2>3, <2>4 DEF Single
<1>12. ASSUME NEW r \in Runs, Unlock(r) PROVE Alone' /\ FoundAll' /\ Single'
  <2>1. r \in Running
    BY <1>12, AtIsRunning DEF Unlock, LockedPcs
  <2>2. Goto(r, "done") /\ run' = run
    BY <1>12 DEF Unlock
  <2> QED
    BY <1>0, <1>2, <1>3, <2>1, <2>2, OneInsideGoes
<1>13. CASE Crash
  <2>1. \A r \in Runs : task'[r].pc \in {"new", "done"}
    BY <1>0, <1>13 DEF Crash, Plain, At
  <2>2. Running' = {}
    BY <2>1 DEF Running, LockedPcs, TryPcs, TransactionPcs
  <2>3. Alone' /\ FoundAll'
    BY <2>1, <2>2 DEF Alone, FoundAll, At
  <2> QED
    BY <1>3, <1>13, <2>3 DEF Crash
<1>14. CASE SessionEnds \/ UNCHANGED vars
  <2>1. task' = task /\ run' = run
    BY <1>14 DEF SessionEnds, vars
  <2>2. Current' = Current /\ Running' = Running
    BY <2>1 DEF Current, Running
  <2> QED
    BY <1>2, <2>1, <2>2 DEF Alone, FoundAll, Single, At
<1> QED
  BY <1>4, <1>5, <1>6, <1>7, <1>8, <1>9, <1>10, <1>11, <1>12, <1>13, <1>14 DEF Next

(* As long as no two recomputes have been past the lock at a time, the     *)
(* table has one current snapshot at most, for any number of requests and  *)
(* sessions and whatever fails, crashes or is not acknowledged.            *)
THEOREM OneCurrentSnapshot == Spec => []OneSnapshotUnlessOverlap
<1>1. TypeInv /\ SnapshotInv => OneSnapshotUnlessOverlap
  <2> SUFFICES ASSUME SnapshotInv, ~overlapped PROVE Cardinality(Current) <= 1
    BY DEF OneSnapshotUnlessOverlap
  <2>1. CASE Current = {}
    BY <2>1, FS_EmptySet
  <2>2. CASE \E r : Current = {r}
    <3>1. PICK r : Current = {r}
      BY <2>2
    <3>2. Cardinality({r}) = 1
      BY FS_Singleton
    <3> QED
      BY <3>1, <3>2
  <2>3. Current = {} \/ \E r : Current = {r}
    <3> SUFFICES ASSUME NEW r \in Current PROVE Current = {r}
      OBVIOUS
    <3>1. \A p \in Current : p = r
      BY DEF SnapshotInv, Single
    <3> QED
      BY <3>1
  <2> QED
    BY <2>1, <2>2, <2>3
<1> QED
  BY InitTyped, InitSnapshot, StepTyped, StepSnapshot, <1>1, PTL DEF Spec
-----------------------------------------------------------------------------
(* While no reply to a commit is lost, a request whose row is current is   *)
(* past the catch block, which is what could take it back.                 *)
PastCatch ==
    lost = 0 => \A r \in Runs : run[r].current => task[r].pc \in {"unlock", "done"}

LEMMA CatchInit == Init => PastCatch
  BY DEF Init, PastCatch

(* The rows that are current stay so, and their requests are over.         *)
LEMMA CatchKept ==
    ASSUME PastCatch, lost' = lost,
           \A r \in Runs : run'[r].current =>
               \/ task'[r].pc \in {"unlock", "done"}
               \/ run[r].current /\ task'[r].pc = task[r].pc
    PROVE  PastCatch'
  BY DEF PastCatch

LEMMA CatchStep == TypeOK /\ PastCatch /\ [Next]_vars => PastCatch'
<1> SUFFICES ASSUME TypeOK, PastCatch, [Next]_vars PROVE PastCatch'
  OBVIOUS
<1>0. run \in [Runs -> Row] /\ task \in [Runs -> Task] /\ lost \in Nat
  BY RecomputeAssumption DEF TypeOK
<1>1. ASSUME NEW r \in Runs, Acquire(r)
      PROVE  PastCatch'
  <2>1. run' = run /\ lost' = lost /\ \A q \in Runs \ {r} : task'[q] = task[q]
    BY <1>0, <1>1 DEF Acquire, Goto
  <2>2. lost = 0 => ~run[r].current
    BY <1>1 DEF Acquire, At, PastCatch
  <2> QED
    BY <2>1, <2>2 DEF PastCatch
<1>2. ASSUME NEW r \in Runs, Create(r) \/ CreateFails(r) \/ Begin(r) \/ Demote(r) \/ LockRows(r)
                               \/ Abort(r)
      PROVE  PastCatch'
  <2>1. task[r].pc \in {"create", "begin", "demote", "lockRows", "commit"}
    BY <1>2 DEF Create, CreateFails, Begin, Demote, LockRows, Abort, At, TryPcs, TransactionPcs
  <2>2. \A q \in Runs \ {r} : task'[q] = task[q]
    BY <1>0, <1>2 DEF Create, CreateFails, Begin, Demote, LockRows, Abort, Goto
  <2>3. lost' = lost /\ \A q \in Runs : run'[q].current = run[q].current
    BY <1>0, <1>2 DEF Create, CreateFails, Begin, Demote, LockRows, Abort, Row
  <2> QED
    BY <2>1, <2>2, <2>3 DEF PastCatch
<1>3. ASSUME NEW r \in Runs, Commit(r)
      PROVE  PastCatch'
  <2>1. CASE lost' = lost + 1
    BY <1>0, <2>1 DEF PastCatch
  <2>2. CASE Goto(r, "unlock") /\ lost' = lost
    <3>1. task'[r].pc = "unlock" /\ \A q \in Runs \ {r} : task'[q] = task[q]
      BY <1>0, <2>2 DEF Goto, Plain
    <3>2. \A q \in Runs \ {r} : run'[q].current => run[q].current
      BY <1>0, <1>3 DEF Commit, Applied, Row
    <3> QED
      BY <2>2, <3>1, <3>2, CatchKept
  <2> QED
    BY <1>3, <2>1, <2>2 DEF Commit
<1>4. ASSUME NEW r \in Runs, MarkFailed(r) \/ MarkFails(r) \/ Unlock(r)
      PROVE  PastCatch'
  <2>1. task'[r].pc \in {"unlock", "done"} /\ \A q \in Runs \ {r} : task'[q] = task[q]
    BY <1>0, <1>4 DEF MarkFailed, MarkFails, Unlock, Goto, Plain
  <2>2. lost' = lost /\ \A q \in Runs \ {r} : run'[q] = run[q]
    BY <1>0, <1>4 DEF MarkFailed, MarkFails, Unlock
  <2> QED
    BY <2>1, <2>2, CatchKept
<1>5. CASE Crash
  <2>1. \A r \in Runs : task'[r] = task[r] \/ task'[r].pc = "done"
    BY <1>0, <1>5 DEF Crash, Plain
  <2> QED
    BY <1>5, <2>1, CatchKept DEF Crash
<1>6. CASE SessionEnds \/ UNCHANGED vars
  BY <1>6 DEF SessionEnds, vars, PastCatch
<1> QED
  BY <1>1, <1>2, <1>3, <1>4, <1>5, <1>6 DEF Next

(* Only the transaction replaces the current snapshot, by its own run; and *)
(* only the catch block takes one away, that of its own run.               *)
LEMMA StepKeepsSnapshot ==
    TypeOK /\ PastCatch /\ [Next]_vars => (lost = 0 /\ Current # {} => Current' # {})
<1> SUFFICES ASSUME TypeOK, PastCatch, [Next]_vars, lost = 0, NEW p \in Current
             PROVE  Current' # {}
  OBVIOUS
<1>0. run \in [Runs -> Row]
  BY DEF TypeOK
<1>1. ASSUME NEW r \in Runs, Commit(r)
      PROVE  Current' # {}
  <2>1. run'[r].current
    BY <1>0, <1>1 DEF Commit, Applied
  <2> QED
    BY <2>1 DEF Current
<1>2. ASSUME NEW r \in Runs, MarkFailed(r)
      PROVE  Current' # {}
  <2>1. p # r
    BY <1>2 DEF MarkFailed, At, PastCatch, Current
  <2> QED
    BY <1>0, <1>2, <2>1 DEF MarkFailed, Current
<1>3. ASSUME NEW r \in Runs, Create(r) \/ CreateFails(r)
      PROVE  Current' # {}
  BY <1>0, <1>3 DEF Create, CreateFails, Current, Row
<1>4. ASSUME NEW r \in Runs, Acquire(r) \/ Begin(r) \/ Demote(r) \/ LockRows(r) \/ Abort(r)
                               \/ MarkFails(r) \/ Unlock(r)
      PROVE  Current' # {}
  BY <1>4 DEF Acquire, Begin, Demote, LockRows, Abort, MarkFails, Unlock, Current
<1>5. CASE SessionEnds \/ Crash \/ UNCHANGED vars
  BY <1>5 DEF SessionEnds, Crash, vars, Current
<1> QED
  BY <1>1, <1>2, <1>3, <1>4, <1>5 DEF Next

(* While no commit reply is lost nothing takes the last current snapshot   *)
(* away, overlapping runs included.                                        *)
THEOREM SnapshotStays == Spec => SnapshotKept
<1>1. TypeOK /\ PastCatch /\ [Next]_vars => [lost = 0 /\ Current # {} => Current' # {}]_vars
  BY StepKeepsSnapshot
<1> QED
  BY <1>1, TypeCorrect, CatchInit, CatchStep, PTL DEF Spec, SnapshotKept
=============================================================================
