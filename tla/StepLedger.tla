----------------------------- MODULE StepLedger -----------------------------
(***************************************************************************)
(* What the rows of an operation and of its steps promise a reader, with   *)
(* neither the lock nor the tasks that write them: the steps are worked on *)
(* in order, each until it has a good outcome, and the verdict follows     *)
(* from the outcomes.  Anybody may fail an operation or close its steps    *)
(* meanwhile; a live operation takes no notice of that, one that is over   *)
(* stays as it is but for what is active still.  ManualOperation           *)
(* implements it.                                                          *)
(***************************************************************************)
EXTENDS Integers

CONSTANTS Operations, Steps

VARIABLES
    status, \* of each operation
    mark,   \* of each step of it
    live    \* operations at work

ledgerVars == <<status, mark, live>>

Unsettled == {"queued", "running"}
Good == {"completed", "skipped", "degraded"}

LedgerInit ==
    /\ status = [o \in Operations |-> "absent"]
    /\ mark = [o \in Operations |-> [s \in Steps |-> "absent"]]
    /\ live = {}

Open(o) ==
    /\ status[o] = "absent"
    /\ status' = [status EXCEPT ![o] = "queued"]
    /\ live' = live \cup {o}
    /\ UNCHANGED mark

Write(o, s, value) == mark' = [mark EXCEPT ![o][s] = value] /\ UNCHANGED <<status, live>>

List(o, s) == mark[o][s] = "absent" /\ Write(o, s, "queued")

Wake(o) == status' = [status EXCEPT ![o] = "running"] /\ UNCHANGED <<mark, live>>

(* A step's turn comes when those before it are done, and passes for good  *)
(* once it is done itself; that somebody has closed it does not matter.    *)
Turn(o, s) == \A r \in Steps : r < s => mark[o][r] \in Good

Work(o, s) ==
    /\ Turn(o, s) /\ mark[o][s] \in {"queued", "failed"}
    /\ Write(o, s, "running")

Result(o, s) ==
    /\ Turn(o, s) /\ mark[o][s] \in {"running", "failed"}
    /\ \E value \in Good \cup {"failed"} : Write(o, s, value)

Conclude(o) ==
    /\ \A s \in Steps : mark[o][s] \in Good
    /\ status' = [status EXCEPT ![o] = IF \E s \in Steps : mark[o][s] = "degraded"
                                       THEN "degraded" ELSE "completed"]
    /\ UNCHANGED <<mark, live>>

(* A failure, of an operation that is live or looks so.                    *)
Fail(O) ==
    /\ \A o \in O : o \in live \/ status[o] \in Unsettled
    /\ status' = [o \in Operations |-> IF o \in O THEN "failed" ELSE status[o]]
    /\ UNCHANGED <<mark, live>>

Close(X) ==
    /\ \A x \in X : mark[x[1]][x[2]] \in Unsettled
    /\ mark' = [o \in Operations |-> [s \in Steps |->
                  IF <<o, s>> \in X THEN "failed" ELSE mark[o][s]]]
    /\ UNCHANGED <<status, live>>

End(O) == live' = live \ O /\ UNCHANGED <<status, mark>>

Progress(o) ==
    \/ Wake(o) \/ Conclude(o)
    \/ \E s \in Steps : List(o, s) \/ Work(o, s) \/ Result(o, s)

LedgerNext ==
    \/ \E o \in Operations : Open(o)
    \/ \E o \in live : Progress(o)
    \/ \E O \in SUBSET Operations : Fail(O) \/ End(O)
    \/ \E X \in SUBSET (Operations \X Steps) : Close(X)

LedgerSpec == LedgerInit /\ [][LedgerNext]_ledgerVars
=============================================================================
