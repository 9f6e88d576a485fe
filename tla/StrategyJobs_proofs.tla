------------------------ MODULE StrategyJobs_proofs ------------------------
(***************************************************************************)
(* Theorems about the strategy job ledger, for any number of instances,     *)
(* jobs, months and lease generations.                                      *)
(***************************************************************************)
EXTENDS StrategyJobs, TLAPS

-----------------------------------------------------------------------------
(* The operators the handlers are built from.                               *)

\* A freshly inserted row is a row.
LEMMA NewRowIsRow ==
    ASSUME NEW type \in JobType, NEW parent \in Nat, NEW source \in Nat, NEW pinned \in Nat
    PROVE  NewRow(type, parent, source, pinned) \in Row
  BY DEF NewRow, Row, NoFence, Fence, Failure

\* Closing a row by one of the terminal UPDATEs leaves a row.
LEMMA ClosedIsRow ==
    ASSUME NEW row \in Row, NEW status \in Terminal, NEW failure \in Failure
    PROVE  /\ Closed(row, status, failure) \in Row
           /\ Closed(row, status, failure).status = status
           /\ [Closed(row, status, failure) EXCEPT !.cancel = TRUE] \in Row
           /\ [Closed(row, status, failure) EXCEPT !.cancel = TRUE].status = status
  BY DEF Closed, Row, NoFence, Fence, Terminal

\* The outbox keeps its type under the upsert.
LEMMA UpsertedType ==
    ASSUME NEW new \in [JobIds -> Row], NEW S,
           outbox \in [JobIds -> [version : Nat, pending : BOOLEAN]]
    PROVE  Upserted(S, new) \in [JobIds -> [version : Nat, pending : BOOLEAN]]
<1> SUFFICES ASSUME NEW j \in JobIds
             PROVE  (IF j \in S /\ new[j].version > outbox[j].version
                     THEN [outbox[j] EXCEPT !.version = new[j].version, !.pending = TRUE]
                     ELSE outbox[j]) \in [version : Nat, pending : BOOLEAN]
  BY DEF Upserted
<1>1. new[j].version \in Nat
  BY DEF Row
<1> QED
  BY <1>1

\* An UPDATE or INSERT of a row keeps the ledger's rows and outbox in type and
\* touches one row.
LEMMA WriteType ==
    ASSUME TypeOK, NEW j \in JobIds, NEW row \in Row, Write(j, row)
    PROVE  /\ jobs' \in [JobIds -> Row]
           /\ outbox' \in [JobIds -> [version : Nat, pending : BOOLEAN]]
           /\ jobs' = [jobs EXCEPT ![j] = [row EXCEPT !.version = jobs[j].version + 1]]
<1>1. jobs[j].version + 1 \in Nat
  BY DEF TypeOK, Row
<1>2. [row EXCEPT !.version = jobs[j].version + 1] \in Row
  BY <1>1 DEF Row
<1>3. jobs' = [jobs EXCEPT ![j] = [row EXCEPT !.version = jobs[j].version + 1]]
  BY DEF Write
<1>4. jobs' \in [JobIds -> Row]
  BY <1>2, <1>3 DEF TypeOK
<1>5. outbox' = Upserted({j}, jobs')
  BY <1>3 DEF Write
<1> QED
  BY <1>3, <1>4, <1>5, UpsertedType DEF TypeOK

LEMMA InsertType ==
    ASSUME TypeOK, NEW j \in JobIds, NEW row \in Row, Insert(j, row)
    PROVE  /\ jobs' \in [JobIds -> Row]
           /\ outbox' \in [JobIds -> [version : Nat, pending : BOOLEAN]]
           /\ jobs' = [jobs EXCEPT ![j] = row]
<1>1. jobs' = [jobs EXCEPT ![j] = row]
  BY DEF Insert
<1>2. jobs' \in [JobIds -> Row]
  BY <1>1 DEF TypeOK
<1>3. outbox' = Upserted({j}, jobs')
  BY <1>1 DEF Insert
<1> QED
  BY <1>1, <1>2, <1>3, UpsertedType DEF TypeOK

-----------------------------------------------------------------------------
(* One lemma per family of handlers: what it writes is well-typed, and only  *)
(* a claim makes a job run.                                                  *)

NoNewRunning == With("running")' \subseteq With("running")

\* A step of any handler, whatever its caller presents, however often it reports
\* progress: Next without its bound on versions.
Reports(j, token, version, fence) ==
    \E step \in 1..(MonthCount + 3) : \/ SetCurrentMonth(j, token, version, fence, step)
                                       \/ SetCurrentStage(j, token, version, fence, step)

Handled ==
    \/ \E i \in Instances : AcquireOrRenew(i)
    \/ ExpireLease
    \/ \E fence : Reconcile(fence)
    \/ \E j \in JobIds, p \in {NoJob} \cup Parents : Submit(j, p)
    \/ \E j \in JobIds : \E version \in Nat : Ask(j, version)
    \/ \E j \in JobIds, fence \in Fences : ClaimNext(j, fence)
    \/ \E j \in With("running") :
         \E token, version, fence :
            Reports(j, token, version, fence) \/ WorkerWrite(j, token, version, fence)

LEMMA NextHandled == Next => Handled
  BY DEF Next, Handled, Versions


\* An UPDATE that does not start its job makes no job run.
LEMMA WriteStartsNothing ==
    ASSUME TypeOK, NEW j \in JobIds, NEW row \in Row, Write(j, row),
           row.status = "running" => jobs[j].status = "running"
    PROVE  NoNewRunning
<1>1. jobs' = [jobs EXCEPT ![j] = [row EXCEPT !.version = jobs[j].version + 1]]
  BY WriteType
<1>2. [row EXCEPT !.version = jobs[j].version + 1].status = row.status
  BY DEF Row
<1>3. \A k \in JobIds : jobs'[k].status = "running" => jobs[k].status = "running"
  BY <1>1, <1>2 DEF TypeOK
<1> QED
  BY <1>3 DEF NoNewRunning, With

\* Nor does an INSERT of a queued row.
LEMMA InsertStartsNothing ==
    ASSUME TypeOK, NEW j \in JobIds, NEW row \in Row, Insert(j, row), row.status = "queued"
    PROVE  NoNewRunning
<1>1. \A k \in JobIds : jobs'[k].status = "running" => jobs[k].status = "running"
  BY InsertType DEF TypeOK
<1> QED
  BY <1>1 DEF NoNewRunning, With

\* The new row of every submission and restart.
LEMMA InsertStep ==
    ASSUME TypeOK, NEW j \in JobIds, NEW type \in JobType, NEW parent \in Nat,
           NEW source \in Nat, NEW pinned \in Nat,
           Insert(j, NewRow(type, parent, source, pinned)),
           UNCHANGED <<lease, claims, profile, staging, results>>,
           restarts' \in [JobIds -> Nat]
    PROVE  TypeOK' /\ NoNewRunning
<1>1. NewRow(type, parent, source, pinned) \in Row
  BY NewRowIsRow
<1>2. NewRow(type, parent, source, pinned).status = "queued"
  BY DEF NewRow
<1>3. NoNewRunning
  BY <1>1, <1>2, InsertStartsNothing
<1>4. TypeOK'
  BY <1>1, InsertType DEF TypeOK
<1> QED
  BY <1>3, <1>4

\* A submission by any user.
LEMMA SubmitStep ==
    ASSUME TypeOK, NEW j \in JobIds, NEW p \in {NoJob} \cup Parents, Submit(j, p)
    PROVE  TypeOK' /\ NoNewRunning
<1>1. p \in Nat /\ NoJob \in Nat /\ 0 \in Nat /\ profile.seq \in Nat
  BY LedgerAssumption DEF NoJob, TypeOK
<1>2. restarts \in [JobIds -> Nat]
  BY DEF TypeOK
<1>3. CASE CreateInitialization(j, p)
  BY <1>1, <1>2, <1>3, InsertStep DEF CreateInitialization, JobType
<1>4. CASE \E refresh \in BOOLEAN : CreateBootstrap(j, p, refresh)
  BY <1>1, <1>2, <1>4, InsertStep DEF CreateBootstrap, JobType
<1>5. CASE CreatePreparation(j, p)
  BY <1>1, <1>2, <1>5, InsertStep DEF CreatePreparation, JobType
<1>6. CASE CreateStageJob(j, p)
  BY <1>1, <1>2, <1>6, InsertStep DEF CreateStageJob, JobType
<1>7. CASE CreateBacktest(j, p)
  BY <1>1, <1>2, <1>7, InsertStep DEF CreateBacktest, JobType
<1> QED
  BY <1>3, <1>4, <1>5, <1>6, <1>7 DEF Submit

\* Whatever else is written with one UPDATE.
LEMMA WriteStep ==
    ASSUME TypeOK, NEW j \in JobIds, NEW row \in Row, Write(j, row),
           row.status = "running" => jobs[j].status = "running",
           UNCHANGED <<lease, claims, restarts>>,
           profile' \in [by : Nat, seq : Nat],
           staging' \subseteq JobIds, results' \subseteq JobIds
    PROVE  TypeOK' /\ NoNewRunning
<1>1. NoNewRunning
  BY WriteStartsNothing
<1>2. TypeOK'
  BY WriteType DEF TypeOK
<1> QED
  BY <1>1, <1>2

\* Cancellation, deletion, restart and acknowledgement.
LEMMA AskStep ==
    ASSUME TypeOK, NEW j \in JobIds, NEW version \in Nat, Ask(j, version)
    PROVE  TypeOK' /\ NoNewRunning
<1> USE DEF TypeOK
<1>1. jobs[j] \in Row /\ j \in Nat /\ NoJob \in Nat
  BY DEF JobIds, NoJob
<1>2. CASE RequestCancellation(j, version)
  <2>1. CASE Write(j, [Closed(jobs[j], "cancelled", "none") EXCEPT !.cancel = TRUE])
    <3>1. /\ [Closed(jobs[j], "cancelled", "none") EXCEPT !.cancel = TRUE] \in Row
          /\ [Closed(jobs[j], "cancelled", "none") EXCEPT !.cancel = TRUE].status # "running"
      BY <1>1, ClosedIsRow DEF Terminal, Failure
    <3> QED
      BY <1>2, <2>1, <3>1, WriteStep DEF RequestCancellation
  <2>2. CASE jobs[j].status = "running" /\ Write(j, [jobs[j] EXCEPT !.cancel = TRUE])
    <3>1. [jobs[j] EXCEPT !.cancel = TRUE] \in Row
      BY <1>1 DEF Row
    <3> QED
      BY <1>2, <2>2, <3>1, WriteStep DEF RequestCancellation
  <2> QED
    BY <1>2, <2>1, <2>2 DEF RequestCancellation
<1>3. CASE Delete(j, version)
  <2>1. /\ [jobs[j] EXCEPT !.deleted = TRUE, !.source = NoJob] \in Row
        /\ [jobs[j] EXCEPT !.deleted = TRUE, !.source = NoJob].status = jobs[j].status
    BY <1>1 DEF Row
  <2> QED
    BY <1>3, <2>1, WriteStep DEF Delete
<1>4. CASE Acknowledge(j, version)
  <2>1. outbox' \in [JobIds -> [version : Nat, pending : BOOLEAN]]
    BY <1>4 DEF Acknowledge
  <2> QED
    BY <1>4, <2>1 DEF Acknowledge, NoNewRunning, With
<1>5. ASSUME NEW child \in JobIds, RestartInitialization(j, version, child)
      PROVE  TypeOK' /\ NoNewRunning
  <2>1. restarts' \in [JobIds -> Nat]
    BY <1>5 DEF RestartInitialization, JobIds
  <2> QED
    BY <1>1, <1>5, <2>1, InsertStep DEF RestartInitialization, JobType
<1>6. ASSUME NEW child \in JobIds, RestartBacktest(j, version, child)
      PROVE  TypeOK' /\ NoNewRunning
  <2>1. restarts' \in [JobIds -> Nat]
    BY <1>6 DEF RestartBacktest, JobIds
  <2> QED
    BY <1>1, <1>6, <2>1, InsertStep DEF RestartBacktest, JobType
<1> QED
  BY <1>2, <1>3, <1>4, <1>5, <1>6 DEF Ask

\* What the compare-and-set predicate tells of the row it accepts.
LEMMA OwnedRow ==
    ASSUME TypeOK, NEW j \in JobIds, NEW token, NEW version, NEW fence,
           Owned(j, token, version, fence)
    PROVE  jobs[j] \in Row /\ jobs[j].status = "running" /\ ~jobs[j].cancel
  BY DEF Owned, TypeOK

\* Every write of a dispatcher or worker child to a job it claimed.
LEMMA WorkerStep ==
    ASSUME TypeOK, NEW j \in With("running"), NEW token, NEW version, NEW fence,
           Reports(j, token, version, fence) \/ WorkerWrite(j, token, version, fence)
    PROVE  TypeOK' /\ NoNewRunning
<1>1. /\ j \in JobIds /\ jobs[j] \in Row /\ jobs[j].status = "running"
      /\ profile \in [by : Nat, seq : Nat] /\ staging \subseteq JobIds
      /\ results \subseteq JobIds
  BY DEF With, TypeOK
<1>2. \A failure \in Failure : Closed(jobs[j], "failed", failure) \in Row
  BY <1>1, ClosedIsRow DEF Terminal
<1>3. Closed(jobs[j], "complete", "none") \in Row /\ Closed(jobs[j], "cancelled", "none") \in Row
  BY <1>1, ClosedIsRow DEF Terminal, Failure
<1>4. CASE Reports(j, token, version, fence)
  <2>1. PICK step \in 1..(MonthCount + 3) :
            \/ SetCurrentMonth(j, token, version, fence, step)
            \/ SetCurrentStage(j, token, version, fence, step)
    BY <1>4 DEF Reports
  <2>2. [jobs[j] EXCEPT !.step = step] \in Row
    BY <1>1 DEF Row
  <2> QED
    BY <1>1, <2>1, <2>2, WriteStep DEF SetCurrentMonth, SetCurrentStage
<1>5. CASE CompleteStageJob(j, token, version, fence)
  BY <1>1, <1>3, <1>5, WriteStep DEF CompleteStageJob
<1>6. ASSUME NEW same \in BOOLEAN, ActivateProfileAndComplete(j, token, version, fence, same)
      PROVE  TypeOK' /\ NoNewRunning
  <2>1. profile' \in [by : Nat, seq : Nat]
    BY <1>1, <1>6 DEF ActivateProfileAndComplete, JobIds
  <2> QED
    BY <1>1, <1>3, <1>6, <2>1, WriteStep DEF ActivateProfileAndComplete
<1>7. CASE CancelClaimed(j, token, version, fence)
  <2>1. staging' \subseteq JobIds
    BY <1>1, <1>7 DEF CancelClaimed
  <2> QED
    BY <1>1, <1>3, <1>7, <2>1, WriteStep DEF CancelClaimed
<1>8. ASSUME NEW failure \in Failure, FailClaimed(j, token, version, fence, failure)
      PROVE  TypeOK' /\ NoNewRunning
  BY <1>1, <1>2, <1>8, WriteStep DEF FailClaimed
<1>9. CASE CompleteInitialization(j, token, version, fence)
  BY <1>1, <1>3, <1>9, WriteStep DEF CompleteInitialization
<1>10. CASE WriteStaging(j, token, version, fence)
  <2>1. staging' \subseteq JobIds /\ UNCHANGED <<lease, jobs, claims, profile, results, restarts, outbox>>
    BY <1>1, <1>10 DEF WriteStaging
  <2> QED
    BY <2>1 DEF TypeOK, NoNewRunning, With
<1>11. CASE CompleteBacktest(j, token, version, fence)
  <2>1. staging' \subseteq JobIds /\ results' \subseteq JobIds
    BY <1>1, <1>11 DEF CompleteBacktest
  <2> QED
    BY <1>1, <1>3, <1>11, <2>1, WriteStep DEF CompleteBacktest
<1>12. ASSUME NEW child \in JobIds, SealPreparation(j, token, version, fence, child)
       PROVE  TypeOK' /\ NoNewRunning
  <2> DEFINE done == [Closed(jobs[j], "complete", "none") EXCEPT !.version = jobs[j].version + 1]
             new == NewRow("backtest", NoJob, j, 0)
  <2>1. done \in Row /\ done.status = "complete"
    <3>1. jobs[j].version + 1 \in Nat
      BY <1>1 DEF Row
    <3>2. Closed(jobs[j], "complete", "none").status = "complete"
      BY <1>1, ClosedIsRow DEF Terminal, Failure
    <3> QED
      BY <1>3, <3>1, <3>2 DEF Row
  <2>2. new \in Row /\ new.status = "queued"
    BY <1>1, NewRowIsRow DEF JobIds, JobType, NoJob, NewRow
  <2> HIDE DEF done, new
  <2>3. /\ jobs' = [jobs EXCEPT ![j] = done, ![child] = new]
        /\ outbox' = Upserted({j, child}, jobs')
        /\ UNCHANGED <<lease, claims, profile, staging, results, restarts>>
    BY <1>12 DEF SealPreparation, done, new
  <2>4. jobs' \in [JobIds -> Row]
    BY <1>1, <2>1, <2>2, <2>3 DEF TypeOK
  <2>5. TypeOK'
    BY <2>3, <2>4, UpsertedType DEF TypeOK
  <2>6. NoNewRunning
    BY <1>1, <2>1, <2>2, <2>3 DEF TypeOK, NoNewRunning, With
  <2> QED
    BY <2>5, <2>6
<1> QED
  BY <1>4, <1>5, <1>6, <1>7, <1>8, <1>9, <1>10, <1>11, <1>12 DEF WorkerWrite, Progress, Reports

\* Reconciliation ends jobs and starts none.
LEMMA ReconcileStep ==
    ASSUME TypeOK, NEW fence, Reconcile(fence)
    PROVE  TypeOK' /\ NoNewRunning
<1> DEFINE lost == Abandoned(fence)
           Lost(j) == [Closed(jobs[j], "failed", "worker_interrupted")
                       EXCEPT !.version = jobs[j].version + 1]
<1>1. \A j \in JobIds : Lost(j) \in Row /\ Lost(j).status = "failed"
  <2> SUFFICES ASSUME NEW j \in JobIds PROVE Lost(j) \in Row /\ Lost(j).status = "failed"
    OBVIOUS
  <2>1. jobs[j] \in Row /\ jobs[j].version + 1 \in Nat
    BY DEF TypeOK, Row
  <2>2. /\ Closed(jobs[j], "failed", "worker_interrupted") \in Row
        /\ Closed(jobs[j], "failed", "worker_interrupted").status = "failed"
    BY <2>1, ClosedIsRow DEF Terminal, Failure
  <2> QED
    BY <2>1, <2>2 DEF Row
<1>2. /\ jobs' = [j \in JobIds |-> IF j \in lost THEN Lost(j) ELSE jobs[j]]
      /\ outbox' = Upserted(lost, jobs')
      /\ UNCHANGED <<lease, claims, profile, staging, results, restarts>>
  BY DEF Reconcile
<1> HIDE DEF lost, Lost
<1>3. jobs' \in [JobIds -> Row]
  BY <1>1, <1>2 DEF TypeOK
<1>4. TypeOK'
  BY <1>2, <1>3, UpsertedType DEF TypeOK
<1>5. NoNewRunning
  BY <1>1, <1>2 DEF NoNewRunning, With
<1> QED
  BY <1>4, <1>5

\* A claim makes its own job run, and only when no job does.
LEMMA ClaimStep ==
    ASSUME TypeOK, NEW j \in JobIds, NEW fence \in Fences, ClaimNext(j, fence)
    PROVE  TypeOK' /\ With("running") = {} /\ With("running")' \subseteq {j}
<1> DEFINE row == [jobs[j] EXCEPT !.status = "running", !.token = claims + 1,
                                  !.step = 0, !.owner = fence]
<1>1. fence \in Fence
  BY DEF Fences, Fence, NoFence, TypeOK
<1>2. claims + 1 \in Nat /\ jobs[j] \in Row
  BY DEF TypeOK
<1>3. row \in Row
  BY <1>1, <1>2 DEF Row
<1>4. /\ Write(j, row) /\ claims' = claims + 1
      /\ UNCHANGED <<lease, profile, staging, results, restarts>>
      /\ With("running") = {}
  BY DEF ClaimNext
<1> HIDE DEF row
<1>5. TypeOK'
  BY <1>2, <1>3, <1>4, WriteType DEF TypeOK
<1>6. \A k \in JobIds \ {j} : jobs'[k] = jobs[k]
  BY <1>3, <1>4, WriteType DEF TypeOK
<1> QED
  BY <1>4, <1>5, <1>6 DEF With

\* The lease moves no row.
LEMMA LeaseStep ==
    ASSUME TypeOK, (\E i \in Instances : AcquireOrRenew(i)) \/ ExpireLease
    PROVE  TypeOK' /\ NoNewRunning
<1>1. lease' \in [instance : Instances \cup {NoInstance}, generation : Nat, expired : BOOLEAN]
  <2>1. ASSUME NEW i \in Instances, AcquireOrRenew(i)
        PROVE  lease' \in [instance : Instances \cup {NoInstance}, generation : Nat, expired : BOOLEAN]
    BY <2>1 DEF AcquireOrRenew, TypeOK
  <2>2. CASE ExpireLease
    BY <2>2 DEF ExpireLease, TypeOK
  <2> QED
    BY <2>1, <2>2
<1>2. UNCHANGED <<jobs, claims, profile, staging, results, restarts, outbox>>
  BY DEF AcquireOrRenew, ExpireLease
<1> QED
  BY <1>1, <1>2 DEF TypeOK, NoNewRunning, With

-----------------------------------------------------------------------------
(* Type correctness, and one job at a time.                                 *)

\* The tables are empty but for an activated profile.
LEMMA InitType == Init => TypeOK
<1> SUFFICES ASSUME Init PROVE TypeOK
  OBVIOUS
<1>1. AbsentRow \in Row
  <2>1. NewRow("initialization", NoJob, NoJob, 0) \in Row
    BY NewRowIsRow DEF JobType, NoJob
  <2> QED
    BY <2>1 DEF AbsentRow, Row
<1>2. NoMessage \in [version : Nat, pending : BOOLEAN]
  BY DEF NoMessage
<1>3. profile \in [by : Nat, seq : Nat] /\ NoJob \in Nat
  BY DEF Init, NoJob
<1> QED
  BY <1>1, <1>2, <1>3 DEF Init, TypeOK

\* Whatever a step does, it makes at most one job run, and none beside another.
LEMMA HandledStep ==
    ASSUME TypeOK, Handled
    PROVE  /\ TypeOK'
           /\ \/ NoNewRunning
              \/ With("running") = {} /\ \E j \in JobIds : With("running")' \subseteq {j}
<1>1. CASE (\E i \in Instances : AcquireOrRenew(i)) \/ ExpireLease
  BY <1>1, LeaseStep
<1>2. CASE \E fence : Reconcile(fence)
  BY <1>2, ReconcileStep
<1>3. CASE \E j \in JobIds, p \in {NoJob} \cup Parents : Submit(j, p)
  BY <1>3, SubmitStep
<1>4. CASE \E j \in JobIds : \E version \in Nat : Ask(j, version)
  BY <1>4, AskStep
<1>5. CASE \E j \in JobIds, fence \in Fences : ClaimNext(j, fence)
  BY <1>5, ClaimStep
<1>6. CASE \E j \in With("running") :
             \E token, version, fence :
                Reports(j, token, version, fence) \/ WorkerWrite(j, token, version, fence)
  BY <1>6, WorkerStep
<1> QED
  BY <1>1, <1>2, <1>3, <1>4, <1>5, <1>6 DEF Handled

\* Every column of every table keeps its domain.
THEOREM TypeCorrect == Spec => []TypeOK
<1>1. Init => TypeOK
  BY InitType
<1>2. TypeOK /\ [Next]_ledger => TypeOK'
  <2>1. TypeOK /\ UNCHANGED ledger => TypeOK'
    BY DEF TypeOK, ledger
  <2> QED
    BY <2>1, HandledStep, NextHandled
<1> QED
  BY <1>1, <1>2, PTL DEF Spec

\* What makes a job run makes no other run beside it.
LEMMA StillOneRunning ==
    ASSUME TypeOK, OneRunning, Handled
    PROVE  OneRunning'
<1>1. CASE NoNewRunning
  BY <1>1 DEF OneRunning, NoNewRunning
<1>2. CASE \E j \in JobIds : With("running")' \subseteq {j}
  BY <1>2 DEF OneRunning
<1> QED
  BY <1>1, <1>2, HandledStep

\* At most one job runs, however many processes claim, take over, reconcile and
\* write late: OneRunning is inductive beside TypeOK, because only ClaimNext
\* makes a job run and it looks at the whole table.
THEOREM OneRunningAlways == Spec => []OneRunning
<1>1. Init => OneRunning
  BY DEF Init, OneRunning, With, AbsentRow, NewRow
<1>2. TypeOK /\ OneRunning /\ [Next]_ledger => OneRunning'
  <2>1. OneRunning /\ UNCHANGED ledger => OneRunning'
    BY DEF OneRunning, With, ledger
  <2> QED
    BY <2>1, StillOneRunning, NextHandled
<1> QED
  BY <1>1, <1>2, TypeCorrect, PTL DEF Spec

-----------------------------------------------------------------------------
(* How a step moves the tables: what every handler has in common, and all    *)
(* that the safety properties need of any of them.                          *)

Bump(row, old) == [row EXCEPT !.version = old.version + 1]

\* Progress, or an acknowledged cancellation, of a running job.
Proceeds(old, new) ==
    /\ old.status = "running" /\ ~old.cancel
    /\ \/ new = Bump([old EXCEPT !.cancel = TRUE], old)
       \/ \E step \in Steps(old.type) \ {old.step} : new = Bump([old EXCEPT !.step = step], old)

\* A claim.
Starts(old, new) ==
    /\ old.status = "queued"
    /\ \E token \in Nat \ {0}, owner \in Fence :
         /\ (owner.instance = NoInstance) = (owner.generation = 0)
         /\ new = Bump([old EXCEPT !.status = "running", !.token = token,
                                   !.step = 0, !.owner = owner], old)

\* An end.
Ends(old, new) ==
    \/ /\ old.status = "queued"
       /\ new = Bump([Closed(old, "cancelled", "none") EXCEPT !.cancel = TRUE], old)
    \/ /\ old.status = "running" /\ ~old.cancel
       /\ \/ new = Bump(Closed(old, "complete", "none"), old)
          \/ new = Bump(Closed(old, "failed", "error"), old)
    \/ /\ old.status = "running" /\ old.cancel
       /\ new = Bump(Closed(old, "cancelled", "none"), old)
    \/ /\ old.status = "running"
       /\ new = Bump(Closed(old, "failed", "worker_interrupted"), old)

\* A deletion.
Vanishes(old, new) ==
    /\ old.status \in {"failed", "cancelled"} /\ ~old.deleted
    /\ new = Bump([old EXCEPT !.deleted = TRUE, !.source = NoJob], old)

Moves(old, new) ==
    Proceeds(old, new) \/ Starts(old, new) \/ Ends(old, new) \/ Vanishes(old, new)

Born(k) ==
    /\ NextSeq(k)
    /\ \E type \in JobType, parent \in Nat, source \in Nat, pinned \in Nat :
         jobs'[k] = NewRow(type, parent, source, pinned)

RowsMove == \A k \in JobIds : jobs'[k] = jobs[k] \/ Moves(jobs[k], jobs'[k]) \/ Born(k)

ResultsMove ==
    results' = results \cup {k \in JobIds : /\ jobs[k].status # "complete"
                                            /\ jobs'[k].status = "complete"
                                            /\ jobs'[k].type = "backtest"}

ProfileMove ==
    \/ profile' = profile
    \/ /\ profile'.by \in JobIds
       /\ jobs'[profile'.by].status = "complete" /\ jobs'[profile'.by].type = "bootstrap"

StagingMove ==
    \A k \in staging' : /\ jobs'[k].type = "backtest" /\ ~jobs'[k].deleted
                        /\ jobs'[k].status \in {"running", "failed"}

\* A job gets a source by being sealed, with the one step that completes it.
Sealed(k) ==
    LET s == jobs'[k].source IN
    /\ s \in JobIds
    /\ jobs[s].status = "running" /\ jobs'[s].status = "complete"
    /\ jobs'[s].pinned > 0
    /\ \A l \in JobIds : jobs'[l].source = s => l = k \/ jobs[l].source = s

SourcesMove ==
    \A k \in JobIds : jobs'[k].source \in {NoJob, jobs[k].source} \/ Sealed(k)

RestartsMove ==
    \/ restarts' = restarts
    \/ \E s, c \in JobIds :
         /\ jobs[s].status \in {"failed", "cancelled"} /\ restarts[s] = NoJob
         /\ restarts' = [restarts EXCEPT ![s] = c]
         /\ Born(c) /\ jobs'[c].parent = s /\ jobs'[c].type = jobs[s].type

OutboxMove ==
    \A k \in JobIds :
      /\ jobs'[k] = jobs[k] => outbox'[k].version = outbox[k].version
      /\ jobs'[k] # jobs[k] /\ jobs'[k].version > outbox[k].version
           => outbox'[k].version = jobs'[k].version /\ outbox'[k].pending

LeaseMove ==
    /\ lease.generation # 0 /\ lease'.instance # lease.instance
         => lease'.generation = lease.generation + 1
    /\ lease'.generation >= lease.generation

LedgerMove ==
    /\ TypeOK' /\ RowsMove /\ ResultsMove /\ ProfileMove /\ StagingMove
    /\ SourcesMove /\ RestartsMove /\ OutboxMove /\ LeaseMove

\* The numbers given out have no gap; a row not there yet is blank; the outbox
\* is level with the jobs.
NoGap == \A j \in Existing, k \in JobIds : k < j => k \in Existing
Blank == \A j \in JobIds : jobs[j].status = "absent" => jobs[j] = AbsentRow
OutboxLevel == \A j \in JobIds : outbox[j].version = jobs[j].version

LedgerInv ==
    /\ TypeOK /\ NoGap /\ Blank /\ OutboxLevel
    /\ ChecksHold /\ CancellationHonoured /\ OutcomesFollowCompletion /\ RestartLineage

-----------------------------------------------------------------------------
(* What the moves keep.                                                     *)

\* The CHECK constraints of one row.
Checked(row) ==
    /\ row.status = "queued" => row.token = 0 /\ row.step = 0 /\ row.owner = NoFence
    /\ row.status = "running" => row.token > 0 /\ ~row.deleted
    /\ (row.owner.instance = NoInstance) = (row.owner.generation = 0)
    /\ row.status \in Terminal => row.step = 0 /\ row.owner = NoFence
    /\ row.step # 0 => row.step \in Steps(row.type)
    /\ (row.status = "failed") = (row.failure # "none")
    /\ row.status = "cancelled" => row.cancel
    /\ row.deleted => row.status \in {"failed", "cancelled"}

\* A move of a row is what the triggers allow and the constraints accept.
LEMMA MovesLegally ==
    ASSUME NEW old \in Row, NEW new \in Row, Moves(old, new), Checked(old)
    PROVE  /\ Checked(new) /\ LegalUpdate(old, new)
           /\ old.status # "absent" /\ new.status # "absent"
           /\ old.status # "complete" /\ new.status # "queued"
           /\ new.pinned = old.pinned
<1> USE DEF Bump, Closed, Row, Checked, LegalUpdate, LegalArcs, Terminal, Failure, NoFence, Fence
<1>1. CASE Proceeds(old, new)
  <2>1. CASE new = Bump([old EXCEPT !.cancel = TRUE], old)
    BY <1>1, <2>1 DEF Proceeds
  <2>2. ASSUME NEW step \in Steps(old.type) \ {old.step}, new = Bump([old EXCEPT !.step = step], old)
        PROVE  /\ Checked(new) /\ LegalUpdate(old, new)
               /\ old.status # "absent" /\ new.status # "absent"
               /\ old.status # "complete" /\ new.status # "queued"
               /\ new.pinned = old.pinned
    BY <1>1, <2>2 DEF Proceeds
  <2> QED
    BY <1>1, <2>1, <2>2 DEF Proceeds
<1>2. CASE Starts(old, new)
  <2>1. PICK token \in Nat \ {0}, owner \in Fence :
          /\ (owner.instance = NoInstance) = (owner.generation = 0)
          /\ new = Bump([old EXCEPT !.status = "running", !.token = token,
                                    !.step = 0, !.owner = owner], old)
    BY <1>2 DEF Starts
  <2>2. /\ new.status = "running" /\ new.token = token /\ new.step = 0 /\ new.owner = owner
        /\ new.failure = old.failure /\ new.deleted = old.deleted /\ new.type = old.type
        /\ new.pinned = old.pinned /\ new.parent = old.parent /\ new.cancel = old.cancel
        /\ new.version = old.version + 1 /\ old.status = "queued"
    BY <1>2, <2>1 DEF Starts
  <2>3. Checked(new)
    BY <2>1, <2>2
  <2>4. LegalUpdate(old, new)
    BY <2>2
  <2> QED
    BY <2>2, <2>3, <2>4
<1>3. CASE Ends(old, new)
  <2> DEFINE Cleared == /\ new.token = 0 /\ new.step = 0 /\ new.owner = NoFence
                        /\ new.deleted = old.deleted /\ new.type = old.type
                        /\ new.pinned = old.pinned /\ new.parent = old.parent
                        /\ new.version = old.version + 1
             Honest == /\ old.status \in {"queued", "running"}
                       /\ new.status \in Terminal
                       /\ old.status = "queued" => new.status = "cancelled"
                       /\ new.status = "cancelled" => new.cancel
                       /\ (new.status = "failed") = (new.failure # "none")
  <2>a1. ASSUME old.status = "queued", new = Bump([Closed(old, "cancelled", "none") EXCEPT !.cancel = TRUE], old)
         PROVE  Cleared /\ Honest
    <3>1. Cleared
      BY <2>a1
    <3>2. new.status = "cancelled" /\ new.failure = "none" /\ new.cancel = TRUE
      BY <2>a1
    <3> QED
      BY <3>1, <3>2, <2>a1
  <2>a2. ASSUME old.status = "running", new = Bump(Closed(old, "complete", "none"), old)
         PROVE  Cleared /\ Honest
    <3>1. Cleared
      BY <2>a2
    <3>2. new.status = "complete" /\ new.failure = "none" /\ new.cancel = old.cancel
      BY <2>a2
    <3> QED
      BY <3>1, <3>2, <2>a2
  <2>a3. ASSUME old.status = "running", new = Bump(Closed(old, "failed", "error"), old)
         PROVE  Cleared /\ Honest
    <3>1. Cleared
      BY <2>a3
    <3>2. new.status = "failed" /\ new.failure = "error" /\ new.cancel = old.cancel
      BY <2>a3
    <3> QED
      BY <3>1, <3>2, <2>a3
  <2>a4. ASSUME old.status = "running", old.cancel, new = Bump(Closed(old, "cancelled", "none"), old)
         PROVE  Cleared /\ Honest
    <3>1. Cleared
      BY <2>a4
    <3>2. new.status = "cancelled" /\ new.failure = "none" /\ new.cancel = old.cancel
      BY <2>a4
    <3> QED
      BY <3>1, <3>2, <2>a4
  <2>a5. ASSUME old.status = "running", new = Bump(Closed(old, "failed", "worker_interrupted"), old)
         PROVE  Cleared /\ Honest
    <3>1. Cleared
      BY <2>a5
    <3>2. new.status = "failed" /\ new.failure = "worker_interrupted" /\ new.cancel = old.cancel
      BY <2>a5
    <3> QED
      BY <3>1, <3>2, <2>a5
  <2>e. Cleared /\ Honest
    BY <1>3, <2>a1, <2>a2, <2>a3, <2>a4, <2>a5 DEF Ends
  <2>1. /\ old.status \in {"queued", "running"}
        /\ new.status \in Terminal /\ Cleared
    BY <2>e
  <2>2. Honest
    BY <2>e
  <2>3. Checked(new)
    BY <2>1, <2>2
  <2>4. LegalUpdate(old, new)
    BY <2>1, <2>2
  <2> QED
    BY <2>1, <2>3, <2>4
<1>4. CASE Vanishes(old, new)
  BY <1>4 DEF Vanishes
<1> QED
  BY <1>1, <1>2, <1>3, <1>4 DEF Moves

\* A move of a cancelled or failed row and of a row whose cancellation was
\* acknowledged.
LEMMA MovesHonestly ==
    ASSUME NEW old \in Row, NEW new \in Row, Moves(old, new)
    PROVE  /\ old.status \in {"failed", "cancelled"} => new.status = old.status
           /\ old.status = "failed" => new.failure = old.failure
           /\ new.cancel => \/ new.status \in {"running", "cancelled"}
                            \/ new.status = "failed" /\ new.failure = "worker_interrupted"
                            \/ old.cancel /\ new.status = old.status /\ new.failure = old.failure
                            \/ old.cancel /\ old.status = "queued"
  BY ZenonT(40) DEF Moves, Proceeds, Starts, Ends, Vanishes, Bump, Closed, Row, Terminal, Failure

LEMMA NewRowChecked ==
    ASSUME NEW type \in JobType, NEW parent \in Nat, NEW source \in Nat, NEW pinned \in Nat
    PROVE  Checked(NewRow(type, parent, source, pinned))
  BY LedgerAssumption DEF Checked, NewRow, NoFence, Terminal, Fence

-----------------------------------------------------------------------------
(* The invariants under any move of the tables.                             *)

ChecksOf == \A j \in Existing : Checked(jobs[j])

LEMMA ChecksAreChecked == ChecksHold <=> ChecksOf
  BY DEF ChecksHold, ChecksOf, Checked

\* What a step makes of a row that was there, and of one that was not.
LEMMA RowMoved ==
    ASSUME LedgerInv, LedgerMove, NEW k \in JobIds
    PROVE  /\ jobs[k] \in Row /\ jobs'[k] \in Row
           /\ \/ jobs'[k] = jobs[k]
              \/ /\ Moves(jobs[k], jobs'[k]) /\ Checked(jobs[k]) /\ Checked(jobs'[k])
                 /\ LegalUpdate(jobs[k], jobs'[k])
                 /\ jobs[k].status # "absent" /\ jobs'[k].status # "absent"
                 /\ jobs[k].status # "complete" /\ jobs'[k].status # "queued"
                 /\ jobs'[k].pinned = jobs[k].pinned
              \/ /\ Born(k) /\ Checked(jobs'[k])
                 /\ jobs[k].status = "absent" /\ jobs'[k].status = "queued"
                 /\ jobs'[k].version = 1 /\ ~jobs'[k].cancel
<1>1. jobs[k] \in Row /\ jobs'[k] \in Row
  BY DEF LedgerInv, LedgerMove, TypeOK
<1>2. CASE Moves(jobs[k], jobs'[k])
  <2>1. jobs[k].status # "absent"
    BY <1>2 DEF Moves, Proceeds, Starts, Ends, Vanishes
  <2>2. Checked(jobs[k])
    BY <2>1, ChecksAreChecked DEF LedgerInv, ChecksOf, Existing
  <2> QED
    BY <1>1, <1>2, <2>2, MovesLegally
<1>3. CASE Born(k)
  <2>1. PICK type \in JobType, parent \in Nat, source \in Nat, pinned \in Nat :
            jobs'[k] = NewRow(type, parent, source, pinned)
    BY <1>3 DEF Born
  <2>2. Checked(jobs'[k])
    BY <2>1, NewRowChecked
  <2>3. jobs[k].status = "absent"
    BY <1>3 DEF Born, NextSeq, Existing
  <2> QED
    BY <1>1, <1>3, <2>1, <2>2, <2>3 DEF NewRow
<1> QED
  BY <1>1, <1>2, <1>3 DEF LedgerMove, RowsMove

LEMMA ChecksKept == ASSUME LedgerInv, LedgerMove PROVE ChecksHold'
<1>1. \A k \in JobIds : jobs'[k].status # "absent" => Checked(jobs'[k])
  <2> SUFFICES ASSUME NEW k \in JobIds, jobs'[k].status # "absent" PROVE Checked(jobs'[k])
    OBVIOUS
  <2>1. CASE jobs'[k] = jobs[k]
    BY <2>1, ChecksAreChecked DEF LedgerInv, ChecksOf, Existing
  <2> QED
    BY <2>1, RowMoved
<1> QED
  BY <1>1 DEF ChecksHold, Checked, Existing

\* Numbers are given out in turn, and no row is taken away.
LEMMA NumbersKept == ASSUME LedgerInv, LedgerMove PROVE NoGap' /\ Blank' /\ Existing \subseteq Existing'
<1>1. \A k \in JobIds : jobs'[k] = jobs[k] \/ k \in Existing'
  BY RowMoved DEF Existing
<1>2. Existing \subseteq Existing'
  BY <1>1 DEF Existing
<1>3. Blank'
  BY <1>1 DEF LedgerInv, Blank, Existing
<1>4. NoGap'
  <2> SUFFICES ASSUME NEW j \in Existing', NEW k \in JobIds, k < j PROVE k \in Existing'
    BY DEF NoGap
  <2>1. CASE j \in Existing
    BY <1>2, <2>1 DEF LedgerInv, NoGap
  <2>2. CASE j \notin Existing
    <3>1. j \in JobIds /\ NextSeq(j)
      BY <2>2, RowMoved DEF Born, Existing
    <3> QED
      BY <1>2, <3>1 DEF NextSeq
  <2> QED
    BY <2>1, <2>2
<1> QED
  BY <1>2, <1>3, <1>4

\* Level outbox rows stay level, and a row that moves is pending.
LEMMA OutboxKept ==
    ASSUME LedgerInv, LedgerMove
    PROVE  \A j \in JobIds : /\ outbox'[j].version = jobs'[j].version
                             /\ jobs'[j] # jobs[j] => outbox'[j].pending
<1> SUFFICES ASSUME NEW j \in JobIds
             PROVE  /\ outbox'[j].version = jobs'[j].version
                    /\ jobs'[j] # jobs[j] => outbox'[j].pending
  OBVIOUS
<1>1. jobs[j].version = outbox[j].version /\ jobs[j].version \in Nat
  BY DEF LedgerInv, OutboxLevel, TypeOK, Row
<1>2. CASE jobs'[j] = jobs[j]
  BY <1>1, <1>2 DEF LedgerMove, OutboxMove
<1>3. CASE jobs'[j] # jobs[j]
  <2>1. jobs'[j].version > jobs[j].version
    <3>1. CASE LegalUpdate(jobs[j], jobs'[j])
      BY <1>1, <3>1 DEF LegalUpdate
    <3>2. CASE jobs[j].status = "absent" /\ jobs'[j].version = 1
      <4>1. AbsentRow.version = 0
        BY DEF AbsentRow, NewRow
      <4> QED
        BY <3>2, <4>1 DEF LedgerInv, Blank
    <3> QED
      BY <1>3, <3>1, <3>2, RowMoved
  <2> QED
    BY <1>1, <1>3, <2>1 DEF LedgerMove, OutboxMove
<1> QED
  BY <1>2, <1>3

LEMMA OutcomesKept == ASSUME LedgerInv, LedgerMove PROVE OutcomesFollowCompletion'
<1> USE DEF LedgerInv, LedgerMove
<1>1. \A j \in With("complete") : jobs'[j] = jobs[j]
  BY RowMoved DEF With
<1>2. \A j \in JobIds : jobs'[j].status # "absent" /\ jobs[j].status # "absent" =>
         jobs'[j].type = jobs[j].type
  BY RowMoved DEF LegalUpdate
<1>3. (results = {j \in With("complete") : jobs[j].type = "backtest"})'
  BY <1>1 DEF OutcomesFollowCompletion, ResultsMove, With
<1>4. \A k \in JobIds : jobs'[k].source # NoJob =>
         /\ jobs'[k].source \in With("complete")'
         /\ jobs'[jobs'[k].source].pinned > 0
         /\ \A l \in JobIds : jobs'[l].source = jobs'[k].source => l = k
  <2> SUFFICES ASSUME NEW k \in JobIds, jobs'[k].source # NoJob
               PROVE  /\ jobs'[k].source \in With("complete")'
                      /\ jobs'[jobs'[k].source].pinned > 0
                      /\ \A l \in JobIds : jobs'[l].source = jobs'[k].source => l = k
    OBVIOUS
  <2> DEFINE s == jobs'[k].source
  <2>1. CASE s = jobs[k].source
    <3>1. s \in With("complete") /\ jobs[s].pinned > 0 /\ s \in JobIds
      BY <2>1 DEF OutcomesFollowCompletion, With
    <3>2. jobs'[s] = jobs[s] /\ s \in With("complete")'
      BY <1>1, <3>1 DEF With
    <3>3. ASSUME NEW l \in JobIds, jobs'[l].source = s PROVE l = k
      <4>1. jobs[s].status = "complete"
        BY <3>1 DEF With
      <4>2. jobs[l].source = s
        BY <3>3, <4>1 DEF SourcesMove, Sealed
      <4> QED
        BY <2>1, <4>2 DEF OutcomesFollowCompletion
    <3> QED
      BY <3>1, <3>2, <3>3
  <2>2. CASE s # jobs[k].source
    <3>1. Sealed(k)
      BY <2>2 DEF SourcesMove
    <3>2. s \in JobIds /\ jobs[s].status = "running"
      BY <3>1 DEF Sealed
    <3>3. \A l \in JobIds : jobs[l].source # s
      BY <2>2, <3>2 DEF OutcomesFollowCompletion, With
    <3> QED
      BY <3>1, <3>3 DEF Sealed, With
  <2> QED
    BY <2>1, <2>2
<1>5. profile'.by # NoJob => /\ profile'.by \in With("complete")'
                             /\ jobs'[profile'.by].type = "bootstrap"
  BY <1>1 DEF OutcomesFollowCompletion, ProfileMove, With
<1>6. (\A j \in staging : /\ jobs[j].type = "backtest"
                          /\ jobs[j].status \in {"running", "failed"}
                          /\ ~jobs[j].deleted)'
  BY DEF StagingMove
<1> QED
  BY <1>3, <1>4, <1>5, <1>6 DEF OutcomesFollowCompletion

\* What was cancelled stays cancelled, so that nothing it could leave is left.
LEMMA CancellationKept == ASSUME LedgerInv, LedgerMove PROVE CancellationHonoured'
<1> SUFFICES ASSUME NEW j \in JobIds, jobs'[j].cancel
             PROVE  /\ \/ jobs'[j].status \in {"running", "cancelled"}
                       \/ jobs'[j].status = "failed" /\ jobs'[j].failure = "worker_interrupted"
                    /\ j \notin results'
                    /\ profile'.by # j
                    /\ \A k \in JobIds : jobs'[k].source # j
  BY DEF CancellationHonoured
<1>1. \/ jobs'[j].status \in {"running", "cancelled"}
      \/ jobs'[j].status = "failed" /\ jobs'[j].failure = "worker_interrupted"
  <2>1. jobs[j].cancel => \/ jobs[j].status \in {"running", "cancelled"}
                          \/ jobs[j].status = "failed" /\ jobs[j].failure = "worker_interrupted"
    BY DEF LedgerInv, CancellationHonoured
  <2>2. CASE jobs'[j] = jobs[j]
    BY <2>1, <2>2
  <2>3. CASE Moves(jobs[j], jobs'[j])
    BY <2>1, <2>3, RowMoved, MovesHonestly
  <2> QED
    BY <2>2, <2>3, RowMoved
<1>2. OutcomesFollowCompletion' /\ j # NoJob
  BY OutcomesKept DEF JobIds, NoJob
<1>3. j \notin With("complete")'
  BY <1>1 DEF With
<1> QED
  BY <1>1, <1>2, <1>3 DEF OutcomesFollowCompletion

LEMMA LineageKept == ASSUME LedgerInv, LedgerMove PROVE RestartLineage'
<1> USE DEF LedgerInv, LedgerMove
<1>1. \A s \in JobIds : jobs[s].status \in {"failed", "cancelled"} =>
         jobs'[s].status = jobs[s].status /\ jobs'[s].type = jobs[s].type
  BY RowMoved, MovesHonestly DEF LegalUpdate
<1>2. \A c \in Existing : c \in Existing' /\ jobs'[c].parent = jobs[c].parent
                          /\ jobs'[c].type = jobs[c].type
  BY RowMoved DEF LegalUpdate, Existing
<1>3. CASE restarts' = restarts
  BY <1>1, <1>2, <1>3 DEF RestartLineage
<1>4. ASSUME NEW s \in JobIds, NEW c \in JobIds,
             jobs[s].status \in {"failed", "cancelled"}, restarts[s] = NoJob,
             restarts' = [restarts EXCEPT ![s] = c],
             Born(c), jobs'[c].parent = s, jobs'[c].type = jobs[s].type
      PROVE  RestartLineage'
  <2>1. c \notin Existing /\ s \in Existing /\ s # c
    BY <1>4 DEF Born, NextSeq, Existing
  <2>2. s < c
    BY <2>1 DEF NoGap, JobIds
  <2>3. c \in Existing'
    BY <1>4, <2>1, RowMoved DEF Born, Existing, NewRow
  <2>4. \A t \in JobIds : restarts[t] # c
    BY <2>1 DEF RestartLineage, NoJob, JobIds
  <2>5. \A t \in JobIds : restarts'[t] = IF t = s THEN c ELSE restarts[t]
    BY <1>4 DEF TypeOK
  <2>6. jobs'[s].status \in {"failed", "cancelled"} /\ jobs'[s].type = jobs[s].type
    BY <1>1, <1>4
  <2>7. ASSUME NEW r \in JobIds, restarts'[r] # NoJob
        PROVE  LET d == restarts'[r] IN
               /\ r < d /\ d \in Existing'
               /\ jobs'[r].status \in {"failed", "cancelled"}
               /\ jobs'[d].parent = r /\ jobs'[d].type = jobs'[r].type
               /\ \A t \in JobIds : restarts'[t] = d => t = r
    <3>1. CASE r = s
      BY <1>4, <2>2, <2>3, <2>4, <2>5, <2>6, <3>1
    <3>2. CASE r # s
      <4>1. restarts'[r] = restarts[r] /\ restarts[r] # c /\ restarts[r] \in Existing
        BY <2>4, <2>5, <2>7, <3>2 DEF RestartLineage
      <4> QED
        BY <1>1, <1>2, <2>5, <2>7, <3>2, <4>1 DEF RestartLineage
    <3> QED
      BY <3>1, <3>2
  <2> QED
    BY <2>7 DEF RestartLineage
<1> QED
  BY <1>3, <1>4 DEF RestartsMove

\* The invariant, and what one step may do.
LEMMA MoveKeeps ==
    ASSUME LedgerInv, LedgerMove
    PROVE  LedgerInv'
  BY ChecksKept, NumbersKept, OutboxKept, OutcomesKept, CancellationKept, LineageKept
     DEF LedgerInv, LedgerMove, OutboxLevel

-----------------------------------------------------------------------------
(* Every handler is a move of the tables.                                   *)

\* The upsert, for a row of S and for any other.
LEMMA UpsertedMoves ==
    ASSUME NEW S, NEW k \in JobIds, outbox' = Upserted(S, jobs'),
           outbox \in [JobIds -> [version : Nat, pending : BOOLEAN]],
           jobs'[k] # jobs[k] => k \in S
    PROVE  /\ k \notin S => outbox'[k] = outbox[k]
           /\ jobs'[k] # jobs[k] /\ jobs'[k].version > outbox[k].version
                => outbox'[k].version = jobs'[k].version /\ outbox'[k].pending
  BY DEF Upserted

\* One UPDATE that moves its row.
LEMMA WriteMoves ==
    ASSUME LedgerInv, NEW j \in JobIds, NEW row \in Row, Write(j, row),
           Moves(jobs[j], Bump(row, jobs[j])), row.source \in {jobs[j].source, NoJob},
           UNCHANGED <<lease, restarts>>
    PROVE  /\ RowsMove /\ SourcesMove /\ RestartsMove /\ OutboxMove /\ LeaseMove
           /\ jobs'[j].status = row.status /\ jobs'[j].type = row.type
           /\ jobs'[j].deleted = row.deleted
           /\ jobs'[j].status = "complete" => jobs[j].status = "running"
           /\ \A k \in JobIds \ {j} : jobs'[k] = jobs[k]
<1> USE DEF LedgerInv
<1>1. jobs' = [jobs EXCEPT ![j] = Bump(row, jobs[j])] /\ outbox' = Upserted({j}, jobs')
  BY DEF Write, Bump
<1>2. \A k \in JobIds : jobs'[k] = IF k = j THEN Bump(row, jobs[j]) ELSE jobs[k]
  BY <1>1 DEF TypeOK
<1>3. RowsMove
  BY <1>2 DEF RowsMove
<1>4. /\ Bump(row, jobs[j]).status = row.status /\ Bump(row, jobs[j]).type = row.type
      /\ Bump(row, jobs[j]).deleted = row.deleted /\ Bump(row, jobs[j]).source = row.source
      /\ Bump(row, jobs[j]) # jobs[j]
  BY DEF Bump, Row, TypeOK
<1>5. SourcesMove
  BY <1>2, <1>4 DEF SourcesMove
<1>6. OutboxMove
  <2> SUFFICES ASSUME NEW k \in JobIds
               PROVE  /\ jobs'[k] = jobs[k] => outbox'[k].version = outbox[k].version
                      /\ jobs'[k] # jobs[k] /\ jobs'[k].version > outbox[k].version
                           => outbox'[k].version = jobs'[k].version /\ outbox'[k].pending
    BY DEF OutboxMove
  <2>1. jobs'[k] # jobs[k] <=> k \in {j}
    BY <1>2, <1>4
  <2> QED
    BY <1>1, <2>1, UpsertedMoves DEF TypeOK
<1>7. RestartsMove /\ LeaseMove
  <2>1. lease.generation \in Nat
    BY DEF TypeOK
  <2> QED
    BY <2>1 DEF RestartsMove, LeaseMove
<1>8. Bump(row, jobs[j]).status = "complete" => jobs[j].status = "running"
  <2>1. jobs[j] \in Row
    BY DEF TypeOK
  <2> QED
    BY <2>1 DEF Moves, Proceeds, Starts, Ends, Vanishes, Bump, Closed, Row
<1> QED
  BY <1>2, <1>3, <1>4, <1>5, <1>6, <1>7, <1>8

\* One UPDATE that leaves the other tables alone.
LEMMA QuietWriteMoves ==
    ASSUME LedgerInv, TypeOK', NEW j \in JobIds, NEW row \in Row, Write(j, row),
           Moves(jobs[j], Bump(row, jobs[j])), row.source \in {jobs[j].source, NoJob},
           row.type = jobs[j].type,
           row.status = "complete" => row.type # "backtest",
           j \in staging => row.status \in {"running", "failed"} /\ ~row.deleted,
           UNCHANGED <<lease, restarts, profile, staging, results>>
    PROVE  LedgerMove
<1>1. /\ RowsMove /\ SourcesMove /\ RestartsMove /\ OutboxMove /\ LeaseMove
      /\ jobs'[j].status = row.status /\ jobs'[j].type = row.type
      /\ jobs'[j].deleted = row.deleted
      /\ \A k \in JobIds \ {j} : jobs'[k] = jobs[k]
  BY WriteMoves
<1>2. ResultsMove
  BY <1>1 DEF ResultsMove
<1>3. ProfileMove
  BY DEF ProfileMove
<1>4. StagingMove
  <2>1. \A k \in staging : k \in JobIds
    BY DEF LedgerInv, TypeOK
  <2> QED
    BY <1>1, <2>1 DEF StagingMove, LedgerInv, OutcomesFollowCompletion
<1> QED
  BY <1>1, <1>2, <1>3, <1>4 DEF LedgerMove

\* Steps that leave the jobs alone.
LEMMA NoRowMoves ==
    ASSUME LedgerInv, TypeOK', UNCHANGED <<jobs, profile, results, restarts>>,
           \A k \in JobIds : outbox'[k].version = outbox[k].version,
           StagingMove, LeaseMove
    PROVE  LedgerMove
  BY DEF LedgerMove, RowsMove, ResultsMove, ProfileMove, SourcesMove, RestartsMove, OutboxMove

\* A submission or a restart: one new row.
LEMMA BirthMoves ==
    ASSUME LedgerInv, TypeOK', NEW j \in JobIds, NEW type \in JobType, NEW parent \in Nat,
           NEW pinned \in Nat, NextSeq(j), Insert(j, NewRow(type, parent, NoJob, pinned)),
           UNCHANGED <<lease, profile, staging, results>>,
           \/ restarts' = restarts
           \/ /\ parent \in JobIds /\ jobs[parent].status \in {"failed", "cancelled"}
              /\ restarts[parent] = NoJob /\ jobs[parent].type = type
              /\ restarts' = [restarts EXCEPT ![parent] = j]
    PROVE  LedgerMove
<1> USE DEF LedgerInv
<1> DEFINE new == NewRow(type, parent, NoJob, pinned)
<1>1. /\ new.status = "queued" /\ new.parent = parent /\ new.type = type /\ new.source = NoJob
      /\ new.version = 1
  BY DEF NewRow
<1>2. jobs' = [jobs EXCEPT ![j] = new] /\ outbox' = Upserted({j}, jobs')
  BY DEF Insert
<1>3. Born(j)
  <2>1. jobs'[j] = new
    BY <1>2 DEF TypeOK
  <2> QED
    BY <2>1 DEF Born, NoJob
<1>4. jobs[j].status = "absent"
  BY DEF NextSeq, Existing
<1> HIDE DEF new
<1>5. \A k \in JobIds : jobs'[k] = IF k = j THEN new ELSE jobs[k]
  BY <1>2 DEF TypeOK
<1>6. RowsMove
  BY <1>3, <1>5 DEF RowsMove
<1>7. ResultsMove /\ ProfileMove /\ SourcesMove
  BY <1>1, <1>5 DEF ResultsMove, ProfileMove, SourcesMove
<1>8. StagingMove
  <2>1. j \notin staging
    BY <1>4 DEF OutcomesFollowCompletion
  <2> QED
    BY <1>5, <2>1 DEF StagingMove, TypeOK, OutcomesFollowCompletion
<1>9. RestartsMove
  BY <1>1, <1>3, <1>5 DEF RestartsMove
<1>10. OutboxMove
  <2> SUFFICES ASSUME NEW k \in JobIds
               PROVE  /\ jobs'[k] = jobs[k] => outbox'[k].version = outbox[k].version
                      /\ jobs'[k] # jobs[k] /\ jobs'[k].version > outbox[k].version
                           => outbox'[k].version = jobs'[k].version /\ outbox'[k].pending
    BY DEF OutboxMove
  <2>1. jobs'[k] # jobs[k] <=> k \in {j}
    BY <1>1, <1>4, <1>5
  <2> QED
    BY <1>2, <2>1, UpsertedMoves DEF TypeOK
<1>11. LeaseMove
  BY DEF LeaseMove, TypeOK
<1> QED
  BY <1>6, <1>7, <1>8, <1>9, <1>10, <1>11 DEF LedgerMove

LEMMA SubmitMoves ==
    ASSUME LedgerInv, NEW j \in JobIds, NEW p \in {NoJob} \cup Parents, Submit(j, p)
    PROVE  LedgerMove
<1>1. TypeOK'
  BY SubmitStep DEF LedgerInv
<1>2. p \in Nat /\ 0 \in Nat /\ profile.seq \in Nat
  BY LedgerAssumption DEF NoJob, LedgerInv, TypeOK
<1>3. PICK type \in JobType, pinned \in Nat :
        /\ NextSeq(j) /\ Insert(j, NewRow(type, p, NoJob, pinned))
        /\ UNCHANGED <<lease, profile, staging, results, restarts>>
  BY <1>2 DEF Submit, CreateInitialization, CreateBootstrap, CreatePreparation,
              CreateStageJob, CreateBacktest, JobType
<1> QED
  BY <1>1, <1>2, <1>3, BirthMoves

\* A job that runs has not been deleted, nor has one that waits.
LEMMA LiveRow ==
    ASSUME LedgerInv, NEW j \in JobIds, jobs[j].status \in {"queued", "running"}
    PROVE  /\ jobs[j] \in Row /\ ~jobs[j].deleted
           /\ jobs[j].status = "queued" => j \notin staging /\ ~jobs[j].cancel
  BY DEF LedgerInv, TypeOK, ChecksHold, Existing, OutcomesFollowCompletion, CancellationHonoured

LEMMA AskMoves ==
    ASSUME LedgerInv, NEW j \in JobIds, NEW version \in Nat, Ask(j, version)
    PROVE  LedgerMove
<1>1. TypeOK' /\ TypeOK /\ jobs[j] \in Row /\ j \in Nat
  <2>1. TypeOK /\ TypeOK'
    BY AskStep DEF LedgerInv
  <2>2. jobs[j] \in Row
    BY <2>1 DEF TypeOK
  <2> QED
    BY <2>1, <2>2 DEF JobIds
<1>2. CASE RequestCancellation(j, version)
  <2>1. CASE /\ jobs[j].status = "queued"
             /\ Write(j, [Closed(jobs[j], "cancelled", "none") EXCEPT !.cancel = TRUE])
    <3> DEFINE row == [Closed(jobs[j], "cancelled", "none") EXCEPT !.cancel = TRUE]
    <3>1. row \in Row /\ row.status = "cancelled" /\ row.type = jobs[j].type
          /\ row.source = jobs[j].source
      <4>1. row \in Row /\ row.status = "cancelled"
        BY <1>1, ClosedIsRow DEF Terminal, Failure
      <4> QED
        BY <1>1, <4>1 DEF Closed, Row
    <3>2. Moves(jobs[j], Bump(row, jobs[j]))
      BY <2>1 DEF Moves, Ends
    <3>3. j \notin staging
      BY <2>1, LiveRow
    <3> HIDE DEF row
    <3>4. Write(j, row)
      BY <2>1 DEF row
    <3> QED
      BY <1>1, <1>2, <3>1, <3>2, <3>3, <3>4, QuietWriteMoves DEF RequestCancellation
  <2>2. CASE /\ jobs[j].status = "running" /\ ~jobs[j].cancel
             /\ Write(j, [jobs[j] EXCEPT !.cancel = TRUE])
    <3> DEFINE row == [jobs[j] EXCEPT !.cancel = TRUE]
    <3>1. row \in Row /\ row.status = "running" /\ row.type = jobs[j].type
          /\ row.source = jobs[j].source /\ row.deleted = jobs[j].deleted
      BY <1>1, <2>2 DEF Row
    <3>2. Moves(jobs[j], Bump(row, jobs[j]))
      BY <2>2 DEF Moves, Proceeds
    <3>3. ~row.deleted
      BY <2>2, <3>1, LiveRow
    <3> HIDE DEF row
    <3>4. Write(j, row)
      BY <2>2 DEF row
    <3> QED
      BY <1>1, <1>2, <3>1, <3>2, <3>3, <3>4, QuietWriteMoves DEF RequestCancellation
  <2> QED
    BY <1>2, <2>1, <2>2 DEF RequestCancellation
<1>3. CASE Delete(j, version)
  <2> DEFINE row == [jobs[j] EXCEPT !.deleted = TRUE, !.source = NoJob]
  <2>1. row \in Row /\ row.status = jobs[j].status /\ row.source = NoJob
    BY <1>1 DEF Row, NoJob
  <2>2. Moves(jobs[j], Bump(row, jobs[j]))
    BY <1>3 DEF Moves, Vanishes, Delete
  <2> HIDE DEF row
  <2>3. Write(j, row) /\ staging' = staging \ {j} /\ row.status # "complete"
        /\ UNCHANGED <<lease, claims, profile, results, restarts>>
    BY <1>3, <2>1 DEF Delete, row
  <2>4. /\ RowsMove /\ SourcesMove /\ RestartsMove /\ OutboxMove /\ LeaseMove
        /\ jobs'[j].status = row.status
        /\ \A k \in JobIds \ {j} : jobs'[k] = jobs[k]
    BY <2>1, <2>2, <2>3, WriteMoves
  <2>5. ResultsMove /\ ProfileMove
    BY <2>3, <2>4 DEF ResultsMove, ProfileMove
  <2>6. StagingMove
    BY <2>3, <2>4 DEF StagingMove, LedgerInv, TypeOK, OutcomesFollowCompletion
  <2> QED
    BY <1>1, <2>4, <2>5, <2>6 DEF LedgerMove
<1>4. CASE Acknowledge(j, version)
  <2>1. \A k \in JobIds : outbox'[k].version = outbox[k].version
    BY <1>1, <1>4 DEF Acknowledge, TypeOK
  <2>2. StagingMove /\ LeaseMove
    BY <1>4 DEF Acknowledge, StagingMove, LeaseMove, LedgerInv, OutcomesFollowCompletion, TypeOK
  <2> QED
    BY <1>1, <1>4, <2>1, <2>2, NoRowMoves DEF Acknowledge
<1>5. ASSUME NEW child \in JobIds, RestartInitialization(j, version, child)
      PROVE  LedgerMove
  BY <1>1, <1>5, BirthMoves DEF RestartInitialization, Restartable, JobType
<1>6. ASSUME NEW child \in JobIds, RestartBacktest(j, version, child)
      PROVE  LedgerMove
  BY <1>1, <1>6, BirthMoves DEF RestartBacktest, Restartable, JobType
<1> QED
  BY <1>2, <1>3, <1>4, <1>5, <1>6 DEF Ask

LEMMA ClaimMoves ==
    ASSUME LedgerInv, NEW j \in JobIds, NEW fence \in Fences, ClaimNext(j, fence)
    PROVE  LedgerMove
<1> DEFINE row == [jobs[j] EXCEPT !.status = "running", !.token = claims + 1,
                                  !.step = 0, !.owner = fence]
<1>1. TypeOK' /\ jobs[j] \in Row /\ claims + 1 \in Nat \ {0} /\ jobs[j].status = "queued"
  <2>1. TypeOK /\ TypeOK'
    BY ClaimStep DEF LedgerInv
  <2>2. jobs[j] \in Row /\ claims + 1 \in Nat \ {0}
    BY <2>1 DEF TypeOK
  <2>3. jobs[j].status = "queued"
    BY DEF ClaimNext, With
  <2> QED
    BY <2>1, <2>2, <2>3
<1>2. fence \in Fence /\ (fence.instance = NoInstance) = (fence.generation = 0)
  BY LedgerAssumption DEF Fences, Fence, NoFence, LedgerInv, TypeOK
<1>3. row \in Row /\ row.status = "running" /\ row.type = jobs[j].type
      /\ row.source = jobs[j].source /\ row.deleted = jobs[j].deleted
  BY <1>1, <1>2 DEF Row
<1>4. Moves(jobs[j], Bump(row, jobs[j]))
  BY <1>1, <1>2 DEF Moves, Starts
<1>5. ~row.deleted
  BY <1>1, <1>3, LiveRow
<1> HIDE DEF row
<1>6. Write(j, row) /\ UNCHANGED <<lease, profile, staging, results, restarts>>
  BY DEF ClaimNext, row
<1> QED
  BY <1>1, <1>3, <1>4, <1>5, <1>6, QuietWriteMoves

LEMMA LeaseMoves ==
    ASSUME LedgerInv, (\E i \in Instances : AcquireOrRenew(i)) \/ ExpireLease
    PROVE  LedgerMove
<1>1. TypeOK' /\ lease.generation \in Nat
  BY LeaseStep DEF LedgerInv, TypeOK
<1>2. UNCHANGED <<jobs, claims, profile, staging, results, restarts, outbox>>
  BY DEF AcquireOrRenew, ExpireLease
<1>3. LeaseMove
  <2>1. ASSUME NEW i \in Instances, AcquireOrRenew(i) PROVE LeaseMove
    BY <1>1, <2>1 DEF AcquireOrRenew, LeaseMove
  <2>2. CASE ExpireLease
    BY <1>1, <2>2 DEF ExpireLease, LeaseMove, LedgerInv, TypeOK
  <2> QED
    BY <2>1, <2>2
<1>4. StagingMove
  BY <1>2 DEF StagingMove, LedgerInv, OutcomesFollowCompletion
<1> QED
  BY <1>1, <1>2, <1>3, <1>4, NoRowMoves

LEMMA ReconcileMoves ==
    ASSUME LedgerInv, NEW fence, Reconcile(fence)
    PROVE  LedgerMove
<1> DEFINE lost == Abandoned(fence)
           Lost(k) == Bump(Closed(jobs[k], "failed", "worker_interrupted"), jobs[k])
<1>1. TypeOK' /\ TypeOK /\ lost \subseteq With("running")
  BY ReconcileStep DEF LedgerInv, Abandoned
<1>2. /\ jobs' = [k \in JobIds |-> IF k \in lost THEN Lost(k) ELSE jobs[k]]
      /\ outbox' = Upserted(lost, jobs')
      /\ UNCHANGED <<lease, claims, profile, staging, results, restarts>>
  BY DEF Reconcile, Bump
<1>3. \A k \in JobIds : /\ k \in lost => Moves(jobs[k], Lost(k))
                        /\ Lost(k).status = "failed" /\ Lost(k).source = jobs[k].source
                        /\ Lost(k).type = jobs[k].type /\ Lost(k).deleted = jobs[k].deleted
  BY <1>1 DEF Moves, Ends, With, TypeOK, Bump, Closed, Row
<1> HIDE DEF lost, Lost
<1>4. RowsMove
  BY <1>2, <1>3 DEF RowsMove
<1>5. ResultsMove /\ ProfileMove /\ SourcesMove
  BY <1>2, <1>3 DEF ResultsMove, ProfileMove, SourcesMove
<1>6. RestartsMove /\ LeaseMove
  BY <1>1, <1>2 DEF RestartsMove, LeaseMove, TypeOK
<1>7. StagingMove
  BY <1>1, <1>2, <1>3 DEF StagingMove, LedgerInv, OutcomesFollowCompletion, TypeOK
<1>8. OutboxMove
  <2> SUFFICES ASSUME NEW k \in JobIds
               PROVE  /\ jobs'[k] = jobs[k] => outbox'[k].version = outbox[k].version
                      /\ jobs'[k] # jobs[k] /\ jobs'[k].version > outbox[k].version
                           => outbox'[k].version = jobs'[k].version /\ outbox'[k].pending
    BY DEF OutboxMove
  <2>1. jobs'[k] # jobs[k] <=> k \in lost
    BY <1>1, <1>2, <1>3 DEF With
  <2> QED
    BY <1>1, <1>2, <2>1, UpsertedMoves DEF TypeOK
<1> QED
  BY <1>1, <1>4, <1>5, <1>6, <1>7, <1>8 DEF LedgerMove

\* The last write of a worker child that is a plain end of its job.
LEMMA EndMoves ==
    ASSUME LedgerInv, TypeOK', NEW j \in JobIds, NEW status \in Terminal, NEW failure \in Failure,
           Moves(jobs[j], Bump(Closed(jobs[j], status, failure), jobs[j])),
           Write(j, Closed(jobs[j], status, failure)),
           status = "complete" => jobs[j].type # "backtest",
           UNCHANGED <<lease, restarts, results>>,
           profile' = profile \/ /\ profile'.by = j /\ status = "complete"
                                 /\ jobs[j].type = "bootstrap",
           staging' \subseteq staging,
           j \in staging' => status = "failed" /\ ~jobs[j].deleted
    PROVE  LedgerMove
<1> DEFINE row == Closed(jobs[j], status, failure)
<1>1. row \in Row /\ row.status = status /\ row.type = jobs[j].type
      /\ row.source = jobs[j].source /\ row.deleted = jobs[j].deleted
  <2>1. jobs[j] \in Row
    BY DEF LedgerInv, TypeOK
  <2> QED
    BY <2>1, ClosedIsRow DEF Closed, Row
<1> HIDE DEF row
<1>2. /\ RowsMove /\ SourcesMove /\ RestartsMove /\ OutboxMove /\ LeaseMove
      /\ jobs'[j].status = row.status /\ jobs'[j].type = row.type
      /\ jobs'[j].deleted = row.deleted
      /\ \A k \in JobIds \ {j} : jobs'[k] = jobs[k]
  <2>1. Write(j, row) /\ Moves(jobs[j], Bump(row, jobs[j]))
    BY DEF row
  <2> QED
    BY <1>1, <2>1, WriteMoves
<1>3. ResultsMove /\ ProfileMove
  BY <1>1, <1>2 DEF ResultsMove, ProfileMove
<1>4. StagingMove
  BY <1>1, <1>2 DEF StagingMove, LedgerInv, TypeOK, OutcomesFollowCompletion
<1> QED
  BY <1>2, <1>3, <1>4 DEF LedgerMove

LEMMA WorkerMoves ==
    ASSUME LedgerInv, NEW j \in With("running"), NEW token, NEW version, NEW fence,
           Reports(j, token, version, fence) \/ WorkerWrite(j, token, version, fence)
    PROVE  LedgerMove
<1>1. /\ TypeOK' /\ TypeOK /\ j \in JobIds /\ jobs[j] \in Row /\ jobs[j].status = "running"
      /\ ~jobs[j].deleted /\ Failure = {"none", "worker_interrupted", "error"}
      /\ {"complete", "failed", "cancelled"} = Terminal
  BY WorkerStep, LiveRow DEF With, LedgerInv, TypeOK, Failure, Terminal
<1>2. CASE Reports(j, token, version, fence)
  <2>1. PICK step \in Steps(jobs[j].type) \ {jobs[j].step} :
            /\ ~jobs[j].cancel /\ Write(j, [jobs[j] EXCEPT !.step = step])
            /\ UNCHANGED <<lease, claims, profile, staging, results, restarts>>
    <3>1. PICK step \in Steps(jobs[j].type) :
            /\ ~jobs[j].cancel /\ Write(j, [jobs[j] EXCEPT !.step = step])
            /\ Mutates(j, [jobs[j] EXCEPT !.step = step])
            /\ UNCHANGED <<lease, claims, profile, staging, results, restarts>>
      BY <1>2 DEF Reports, SetCurrentMonth, SetCurrentStage, Owned
    <3>2. step # jobs[j].step
      <4> SUFFICES ASSUME step = jobs[j].step PROVE FALSE
        OBVIOUS
      <4>1. [jobs[j] EXCEPT !.step = step] = jobs[j]
        BY <1>1 DEF Row
      <4> QED
        BY <3>1, <4>1 DEF Mutates
    <3> QED
      BY <3>1, <3>2
  <2> DEFINE row == [jobs[j] EXCEPT !.step = step]
  <2>2. row \in Row /\ row.status = "running" /\ row.type = jobs[j].type
        /\ row.source = jobs[j].source /\ row.deleted = jobs[j].deleted
    BY <1>1 DEF Row, Steps
  <2>3. Moves(jobs[j], Bump(row, jobs[j]))
    BY <1>1, <2>1 DEF Moves, Proceeds
  <2> HIDE DEF row
  <2>4. Write(j, row)
    BY <2>1 DEF row
  <2> QED
    BY <1>1, <2>1, <2>2, <2>3, <2>4, QuietWriteMoves
<1>3. CASE CompleteStageJob(j, token, version, fence)
  <2>1. Moves(jobs[j], Bump(Closed(jobs[j], "complete", "none"), jobs[j]))
    BY <1>3 DEF CompleteStageJob, Owned, Moves, Ends
  <2>2. j \notin staging /\ jobs[j].type # "backtest"
    BY <1>3 DEF CompleteStageJob, StageTypes, LedgerInv, OutcomesFollowCompletion
  <2> QED
    BY <1>1, <1>3, <2>1, <2>2, EndMoves DEF CompleteStageJob
<1>4. ASSUME NEW same \in BOOLEAN, ActivateProfileAndComplete(j, token, version, fence, same)
      PROVE  LedgerMove
  <2>1. Moves(jobs[j], Bump(Closed(jobs[j], "complete", "none"), jobs[j]))
    BY <1>4 DEF ActivateProfileAndComplete, Owned, Moves, Ends
  <2>2. j \notin staging /\ jobs[j].type = "bootstrap"
    BY <1>4 DEF ActivateProfileAndComplete, LedgerInv, OutcomesFollowCompletion
  <2>3. profile' = profile \/ profile'.by = j
    BY <1>4 DEF ActivateProfileAndComplete
  <2> QED
    BY <1>1, <1>4, <2>1, <2>2, <2>3, EndMoves DEF ActivateProfileAndComplete
<1>5. CASE CancelClaimed(j, token, version, fence)
  <2>1. Moves(jobs[j], Bump(Closed(jobs[j], "cancelled", "none"), jobs[j]))
    BY <1>5 DEF CancelClaimed, CanCancelClaimed, Moves, Ends
  <2>2. staging' \subseteq staging /\ j \notin staging'
    BY <1>5 DEF CancelClaimed, LedgerInv, OutcomesFollowCompletion
  <2> QED
    BY <1>1, <1>5, <2>1, <2>2, EndMoves DEF CancelClaimed
<1>6. ASSUME NEW failure \in Failure \ {"none"}, FailClaimed(j, token, version, fence, failure)
      PROVE  LedgerMove
  <2>1. Moves(jobs[j], Bump(Closed(jobs[j], "failed", failure), jobs[j]))
    BY <1>1, <1>6 DEF FailClaimed, Owned, Moves, Ends
  <2> QED
    BY <1>1, <1>6, <2>1, EndMoves DEF FailClaimed
<1>7. CASE CompleteInitialization(j, token, version, fence)
  <2>1. Moves(jobs[j], Bump(Closed(jobs[j], "complete", "none"), jobs[j]))
    BY <1>7 DEF CompleteInitialization, Owned, Moves, Ends
  <2>2. j \notin staging /\ jobs[j].type # "backtest"
    BY <1>7 DEF CompleteInitialization, LedgerInv, OutcomesFollowCompletion
  <2> QED
    BY <1>1, <1>7, <2>1, <2>2, EndMoves DEF CompleteInitialization
<1>8. CASE WriteStaging(j, token, version, fence)
  <2>1. StagingMove /\ LeaseMove
    BY <1>1, <1>8 DEF WriteStaging, StagingMove, LeaseMove, LedgerInv, OutcomesFollowCompletion, TypeOK
  <2> QED
    BY <1>1, <1>8, <2>1, NoRowMoves DEF WriteStaging
<1>9. CASE CompleteBacktest(j, token, version, fence)
  <2> DEFINE row == Closed(jobs[j], "complete", "none")
  <2>1. row \in Row /\ row.status = "complete" /\ row.type = "backtest" /\ row.source = jobs[j].source
    <3>1. row \in Row /\ row.status = "complete"
      BY <1>1, ClosedIsRow
    <3>2. row.type = jobs[j].type /\ row.source = jobs[j].source
      BY <1>1 DEF Closed, Row
    <3> QED
      BY <1>9, <3>1, <3>2 DEF CompleteBacktest
  <2>2. Moves(jobs[j], Bump(row, jobs[j]))
    BY <1>9 DEF CompleteBacktest, Owned, Moves, Ends
  <2> HIDE DEF row
  <2>3. Write(j, row) /\ results' = results \cup {j} /\ staging' = staging \ {j}
        /\ UNCHANGED <<lease, claims, profile, restarts>>
    BY <1>9 DEF CompleteBacktest, row
  <2>4. /\ RowsMove /\ SourcesMove /\ RestartsMove /\ OutboxMove /\ LeaseMove
        /\ jobs'[j].status = "complete" /\ jobs'[j].type = "backtest"
        /\ \A k \in JobIds \ {j} : jobs'[k] = jobs[k]
    BY <1>1, <2>1, <2>2, <2>3, WriteMoves
  <2>5. ResultsMove /\ ProfileMove
    BY <1>1, <2>3, <2>4 DEF ResultsMove, ProfileMove
  <2>6. StagingMove
    BY <2>3, <2>4 DEF StagingMove, LedgerInv, TypeOK, OutcomesFollowCompletion
  <2> QED
    BY <1>1, <2>4, <2>5, <2>6 DEF LedgerMove
<1>10. ASSUME NEW child \in JobIds, SealPreparation(j, token, version, fence, child)
       PROVE  LedgerMove
  <2> DEFINE done == Bump(Closed(jobs[j], "complete", "none"), jobs[j])
             new == NewRow("backtest", NoJob, j, 0)
  <2>1. /\ done.status = "complete" /\ done.source = jobs[j].source /\ done.pinned = jobs[j].pinned
        /\ done.type = "preparation" /\ done # jobs[j]
    BY <1>1, <1>10 DEF SealPreparation, Bump, Closed, Row
  <2>2. /\ new.status = "queued" /\ new.source = j /\ new.type = "backtest"
    BY DEF NewRow
  <2>3. Moves(jobs[j], done)
    BY <1>10 DEF SealPreparation, Owned, Moves, Ends
  <2>4. /\ jobs' = [jobs EXCEPT ![j] = done, ![child] = new]
        /\ outbox' = Upserted({j, child}, jobs')
        /\ UNCHANGED <<lease, claims, profile, staging, results, restarts>>
        /\ jobs[j].pinned > 0 /\ NextSeq(child) /\ jobs[j].type = "preparation"
    BY <1>10 DEF SealPreparation, Bump
  <2>5. jobs[child].status = "absent" /\ child # j
    BY <1>1, <2>4 DEF NextSeq, Existing
  <2>6. jobs'[child] = new
    BY <1>1, <2>4, <2>5 DEF TypeOK
  <2>7. Born(child)
    BY <1>1, <2>4, <2>6 DEF Born, JobType, NoJob, JobIds
  <2> HIDE DEF done, new
  <2>8. \A k \in JobIds : jobs'[k] = IF k = j THEN done ELSE IF k = child THEN new ELSE jobs[k]
    BY <1>1, <2>4, <2>5 DEF TypeOK
  <2>9. RowsMove
    BY <2>3, <2>7, <2>8 DEF RowsMove
  <2>10. ResultsMove /\ ProfileMove
    <3>1. \A k \in JobIds : jobs'[k].status = "complete" /\ jobs'[k].type = "backtest"
                              => jobs[k].status = "complete"
      BY <2>1, <2>2, <2>8
    <3> QED
      BY <2>4, <3>1 DEF ResultsMove, ProfileMove
  <2>11. StagingMove
    <3>1. j \notin staging /\ child \notin staging
      BY <2>4, <2>5 DEF LedgerInv, OutcomesFollowCompletion
    <3>2. \A k \in staging : k \in JobIds /\ jobs'[k] = jobs[k]
      BY <1>1, <2>8, <3>1 DEF TypeOK
    <3> QED
      BY <2>4, <3>2 DEF StagingMove, LedgerInv, OutcomesFollowCompletion
  <2>12. SourcesMove
    <3>1. Sealed(child)
      BY <1>1, <2>1, <2>2, <2>4, <2>5, <2>8, ZenonT(40) DEF Sealed
    <3> QED
      BY <2>1, <2>8, <3>1 DEF SourcesMove
  <2>13. RestartsMove /\ LeaseMove
    BY <1>1, <2>4 DEF RestartsMove, LeaseMove, TypeOK
  <2>14. OutboxMove
    <3> SUFFICES ASSUME NEW k \in JobIds
                 PROVE  /\ jobs'[k] = jobs[k] => outbox'[k].version = outbox[k].version
                        /\ jobs'[k] # jobs[k] /\ jobs'[k].version > outbox[k].version
                             => outbox'[k].version = jobs'[k].version /\ outbox'[k].pending
      BY DEF OutboxMove
    <3>1. jobs'[k] # jobs[k] <=> k \in {j, child}
      BY <2>1, <2>2, <2>5, <2>8
    <3> QED
      BY <1>1, <2>4, <3>1, UpsertedMoves DEF TypeOK
  <2> QED
    BY <1>1, <2>9, <2>10, <2>11, <2>12, <2>13, <2>14 DEF LedgerMove
<1> QED
  BY <1>2, <1>3, <1>4, <1>5, <1>6, <1>7, <1>8, <1>9, <1>10 DEF WorkerWrite, Progress, Reports

LEMMA HandledMoves == ASSUME LedgerInv, Handled PROVE LedgerMove
<1>1. CASE (\E i \in Instances : AcquireOrRenew(i)) \/ ExpireLease
  BY <1>1, LeaseMoves
<1>2. CASE \E fence : Reconcile(fence)
  BY <1>2, ReconcileMoves
<1>3. CASE \E j \in JobIds, p \in {NoJob} \cup Parents : Submit(j, p)
  BY <1>3, SubmitMoves
<1>4. CASE \E j \in JobIds : \E version \in Nat : Ask(j, version)
  BY <1>4, AskMoves
<1>5. CASE \E j \in JobIds, fence \in Fences : ClaimNext(j, fence)
  BY <1>5, ClaimMoves
<1>6. CASE \E j \in With("running") :
             \E token, version, fence :
                Reports(j, token, version, fence) \/ WorkerWrite(j, token, version, fence)
  BY <1>6, WorkerMoves
<1> QED
  BY <1>1, <1>2, <1>3, <1>4, <1>5, <1>6 DEF Handled

\* So is every step of the ledger's own specification.
LEMMA NextMoves == ASSUME LedgerInv, Next PROVE LedgerMove
  BY HandledMoves, NextHandled

-----------------------------------------------------------------------------
(* The invariants and the action properties.                                *)

LEMMA InitInv == Init => LedgerInv
<1> SUFFICES ASSUME Init PROVE LedgerInv
  OBVIOUS
<1>1. TypeOK
  BY InitType
<1>2. /\ AbsentRow.status = "absent" /\ AbsentRow.version = 0 /\ AbsentRow.source = NoJob
      /\ AbsentRow.cancel = FALSE
  BY DEF AbsentRow, NewRow
<1>3. NoGap /\ Blank /\ OutboxLevel
  BY <1>2 DEF Init, NoGap, Blank, OutboxLevel, Existing, NoMessage
<1>4. ChecksHold /\ CancellationHonoured
  BY <1>2 DEF Init, ChecksHold, CancellationHonoured, Existing
<1>5. OutcomesFollowCompletion /\ RestartLineage
  BY <1>2 DEF Init, OutcomesFollowCompletion, RestartLineage, With
<1> QED
  BY <1>1, <1>3, <1>4, <1>5 DEF LedgerInv

LEMMA InvAlways == Spec => []LedgerInv
<1>1. LedgerInv /\ [Next]_ledger => LedgerInv'
  <2> SUFFICES ASSUME LedgerInv, [Next]_ledger PROVE LedgerInv'
    OBVIOUS
  <2>1. CASE UNCHANGED ledger
    BY <2>1 DEF ledger, LedgerInv, TypeOK, NoGap, Blank, OutboxLevel, ChecksHold,
                CancellationHonoured, OutcomesFollowCompletion, RestartLineage, Existing, With
  <2>2. CASE Next
    BY <2>2, NextMoves, MoveKeeps
  <2> QED
    BY <2>1, <2>2
<1> QED
  BY <1>1, InitInv, PTL DEF Spec

\* No statement of any handler trips a CHECK constraint, whatever its caller
\* presents.
THEOREM ChecksAlwaysHold == Spec => []ChecksHold
<1>1. LedgerInv => ChecksHold
  BY DEF LedgerInv
<1> QED
  BY <1>1, InvAlways, PTL

\* A cancellation that was acknowledged is never answered by success, nor by a
\* result, a sealed backtest or an activated profile.
THEOREM CancellationAlwaysHonoured == Spec => []CancellationHonoured
<1>1. LedgerInv => CancellationHonoured
  BY DEF LedgerInv
<1> QED
  BY <1>1, InvAlways, PTL

\* Results, sealed backtests and active profiles come from completed jobs.
THEOREM OutcomesAlwaysFollowCompletion == Spec => []OutcomesFollowCompletion
<1>1. LedgerInv => OutcomesFollowCompletion
  BY DEF LedgerInv
<1> QED
  BY <1>1, InvAlways, PTL

\* Restart links are a forest of later jobs of the same kind.
THEOREM RestartLineageAlways == Spec => []RestartLineage
<1>1. LedgerInv => RestartLineage
  BY DEF LedgerInv
<1> QED
  BY <1>1, InvAlways, PTL

\* No step of any handler is one that a trigger aborts.
THEOREM TriggersAlwaysAllow == Spec => TriggersAllow
<1> DEFINE Allowed ==
      /\ \A j \in Existing : jobs'[j] = jobs[j] \/ LegalUpdate(jobs[j], jobs'[j])
      /\ lease.generation # 0 /\ lease'.instance # lease.instance
           => lease'.generation = lease.generation + 1
      /\ lease'.generation >= lease.generation
      /\ results \subseteq results'
      /\ \A j \in JobIds : restarts[j] # NoJob => restarts'[j] = restarts[j]
<1>1. ASSUME LedgerInv, Next PROVE Allowed
  <2>1. LedgerMove
    BY <1>1, NextMoves
  <2>2. \A j \in Existing : jobs'[j] = jobs[j] \/ LegalUpdate(jobs[j], jobs'[j])
    BY <1>1, <2>1, RowMoved DEF Existing
  <2>3. \A j \in JobIds : restarts[j] # NoJob => restarts'[j] = restarts[j]
    BY <1>1, <2>1 DEF LedgerMove, RestartsMove, LedgerInv, TypeOK
  <2> QED
    BY <2>1, <2>2, <2>3 DEF LedgerMove, LeaseMove, ResultsMove
<1>2. LedgerInv /\ [Next]_ledger => [Allowed]_ledger
  BY <1>1
<1> QED
  BY <1>2, InvAlways, PTL DEF Spec, TriggersAllow

\* The outbox is level with the jobs, and what moves a job leaves it pending.
THEOREM OutboxAlwaysCurrent == Spec => OutboxCurrent
<1> DEFINE Current ==
      \A j \in JobIds : /\ outbox'[j].version = jobs'[j].version
                        /\ jobs'[j] # jobs[j] => outbox'[j].pending
<1>1. ASSUME LedgerInv, Next PROVE Current
  BY <1>1, NextMoves, OutboxKept
<1>2. LedgerInv /\ [Next]_ledger => [Current]_ledger
  BY <1>1
<1> QED
  BY <1>2, InvAlways, PTL DEF Spec, OutboxCurrent

-----------------------------------------------------------------------------
(* The ledger implements the serial job queue.                              *)

\* What a step leaves alone, and the one step that moves two rows.
Only(j) == \A k \in JobIds \ {j} : jobs'[k] = jobs[k]

Seals(j, child) ==
    /\ jobs[j].status = "running" /\ ~jobs[j].cancel /\ jobs'[j].status = "complete"
    /\ NextSeq(child)
    /\ \A k \in JobIds \ {j, child} : jobs'[k] = jobs[k]

\* A job starts when none runs and none that waits came before it.
InTurn(j) ==
    jobs[j].status = "queued" /\ jobs'[j].status = "running"
      => With("running") = {} /\ \A k \in With("queued") : j <= k

SerialStep == \/ jobs' = jobs
              \/ \E j \in JobIds : Only(j) /\ InTurn(j)
              \/ \E j, child \in JobIds : Seals(j, child)

LEMMA WriteOnly ==
    ASSUME TypeOK, NEW j \in JobIds, NEW row, Write(j, row) \/ Insert(j, row)
    PROVE  Only(j)
  BY DEF Write, Insert, Only, TypeOK

\* What does not make a job run starts none out of turn.
LEMMA QuietInTurn ==
    ASSUME NEW j \in JobIds, NoNewRunning
    PROVE  InTurn(j)
  BY DEF InTurn, NoNewRunning, With

LEMMA HandledSerially == ASSUME TypeOK, OneRunning, Handled PROVE SerialStep
<1>1. CASE (\E i \in Instances : AcquireOrRenew(i)) \/ ExpireLease
  BY <1>1 DEF AcquireOrRenew, ExpireLease, SerialStep
<1>2. ASSUME NEW fence, Reconcile(fence) PROVE SerialStep
  <2>1. Abandoned(fence) \subseteq With("running") /\ With("running") \subseteq JobIds
    BY DEF Abandoned, With
  <2>2. \A k \in JobIds \ Abandoned(fence) : jobs'[k] = jobs[k]
    BY <1>2 DEF Reconcile
  <2>3. CASE Abandoned(fence) = {}
    <3>1. jobs' = jobs
      BY <1>2, <2>3 DEF Reconcile, TypeOK
    <3> QED
      BY <3>1 DEF SerialStep
  <2>4. ASSUME NEW j \in Abandoned(fence) PROVE SerialStep
    <3>1. Abandoned(fence) = {j}
      BY <2>1, <2>4 DEF OneRunning
    <3>2. j \in JobIds /\ Only(j)
      BY <2>1, <2>2, <2>4, <3>1 DEF Only
    <3>3. InTurn(j)
      BY <2>1, <2>4 DEF InTurn, With
    <3> QED
      BY <3>2, <3>3 DEF SerialStep
  <2> QED
    BY <2>3, <2>4
<1>3. ASSUME NEW j \in JobIds, NEW p \in {NoJob} \cup Parents, Submit(j, p) PROVE SerialStep
  <2>1. \E row : Insert(j, row)
    BY <1>3 DEF Submit, CreateInitialization, CreateBootstrap, CreatePreparation,
                CreateStageJob, CreateBacktest
  <2> QED
    BY <1>3, <2>1, WriteOnly, SubmitStep, QuietInTurn DEF SerialStep
<1>4. ASSUME NEW j \in JobIds, NEW version \in Nat, Ask(j, version) PROVE SerialStep
  <2>1. \A k \in JobIds : InTurn(k)
    BY <1>4, AskStep, QuietInTurn
  <2>2. CASE RequestCancellation(j, version) \/ Delete(j, version)
    <3>1. \E row : Write(j, row)
      BY <2>2 DEF RequestCancellation, Delete
    <3> QED
      BY <2>1, <3>1, WriteOnly DEF SerialStep
  <2>3. CASE Acknowledge(j, version)
    BY <2>3 DEF Acknowledge, SerialStep
  <2>4. ASSUME NEW child \in JobIds,
               RestartInitialization(j, version, child) \/ RestartBacktest(j, version, child)
        PROVE  SerialStep
    <3>1. \E row : Insert(child, row)
      BY <2>4 DEF RestartInitialization, RestartBacktest
    <3> QED
      BY <2>1, <3>1, WriteOnly DEF SerialStep
  <2> QED
    BY <1>4, <2>2, <2>3, <2>4 DEF Ask
<1>5. ASSUME NEW j \in JobIds, NEW fence, ClaimNext(j, fence) PROVE SerialStep
  <2>1. \E row : Write(j, row)
    BY <1>5 DEF ClaimNext
  <2>2. InTurn(j)
    BY <1>5 DEF ClaimNext, InTurn
  <2> QED
    BY <2>1, <2>2, WriteOnly DEF SerialStep
<1>6. ASSUME NEW j \in With("running"), NEW token, NEW version, NEW fence,
             Reports(j, token, version, fence) \/ WorkerWrite(j, token, version, fence)
      PROVE  SerialStep
  <2>1. j \in JobIds /\ InTurn(j)
    BY DEF With, InTurn
  <2>2. CASE WriteStaging(j, token, version, fence)
    BY <2>2 DEF WriteStaging, SerialStep
  <2>3. ASSUME NEW child \in JobIds, SealPreparation(j, token, version, fence, child)
        PROVE  SerialStep
    <3> DEFINE done == [Closed(jobs[j], "complete", "none") EXCEPT !.version = jobs[j].version + 1]
    <3>1. jobs[j].status = "running" /\ ~jobs[j].cancel /\ NextSeq(child) /\ child # j
      BY <2>1, <2>3 DEF SealPreparation, Owned, NextSeq, Existing
    <3>2. done.status = "complete"
      BY <2>1 DEF TypeOK, Closed, Row
    <3>3. /\ jobs'[j] = done
          /\ \A k \in JobIds \ {j, child} : jobs'[k] = jobs[k]
      BY <2>1, <2>3, <3>1 DEF SealPreparation, TypeOK
    <3> QED
      BY <2>1, <3>1, <3>2, <3>3 DEF Seals, SerialStep
  <2>4. CASE \E row : Write(j, row)
    BY <2>1, <2>4, WriteOnly DEF SerialStep
  <2> QED
    BY <1>6, <2>2, <2>3, <2>4 DEF WorkerWrite, Progress, Reports, SetCurrentMonth, SetCurrentStage,
       CompleteStageJob, ActivateProfileAndComplete, CancelClaimed, FailClaimed,
       CompleteInitialization, CompleteBacktest
<1> QED
  BY <1>1, <1>2, <1>3, <1>4, <1>5, <1>6 DEF Handled

\* Where a row stands in the queue.
LEMMA PhaseOf ==
    ASSUME NEW row \in Row
    PROVE  /\ row.status = "absent" <=> Phase(row) = "unborn"
           /\ row.status = "queued" <=> Phase(row) = "waiting"
           /\ row.status = "running" <=> Phase(row) = "serving"
           /\ row.status = "complete" <=> Phase(row) = "done"
           /\ row.status = "cancelled" <=> Phase(row) = "cancelled"
           /\ row.status = "failed" /\ row.failure = "worker_interrupted" <=> Phase(row) = "lost"
           /\ row.status = "failed" /\ row.failure # "worker_interrupted" <=> Phase(row) = "failed"
  BY DEF Phase, Row, Terminal

Phases == [j \in JobIds |-> Phase(jobs[j])]
Wishes == [j \in JobIds |-> jobs[j].cancel]

\* One row that moves, seen from the queue.
LEMMA MoveOfQueue ==
    ASSUME NEW old \in Row, NEW new \in Row, Moves(old, new)
    PROVE  \/ Phase(new) = Phase(old) /\ new.cancel = old.cancel
           \/ /\ Phase(old) = "serving" /\ Phase(new) = "serving"
              /\ ~old.cancel /\ new.cancel
           \/ Phase(old) = "waiting" /\ Phase(new) = "serving" /\ new.cancel = old.cancel
           \/ Phase(old) = "waiting" /\ Phase(new) = "cancelled" /\ new.cancel = TRUE
           \/ /\ Phase(old) = "serving" /\ new.cancel = old.cancel
              /\ \/ ~old.cancel /\ Phase(new) \in {"done", "failed"}
                 \/ old.cancel /\ Phase(new) = "cancelled"
                 \/ Phase(new) = "lost"
<1>1. CASE Proceeds(old, new)
  <2>1. \/ new.cancel = TRUE /\ ~old.cancel /\ old.status = "running" /\ new.status = "running"
        \/ new.cancel = old.cancel /\ old.status = "running" /\ new.status = "running"
    BY <1>1 DEF Proceeds, Bump, Row
  <2> QED
    BY <2>1, PhaseOf
<1>2. CASE Starts(old, new)
  <2>1. old.status = "queued" /\ new.status = "running" /\ new.cancel = old.cancel
    BY <1>2 DEF Starts, Bump, Row
  <2> QED
    BY <2>1, PhaseOf
<1>3. CASE Ends(old, new)
  <2>1. \/ old.status = "queued" /\ new.status = "cancelled" /\ new.cancel = TRUE
        \/ /\ old.status = "running" /\ new.cancel = old.cancel
           /\ \/ ~old.cancel /\ new.status = "complete"
              \/ ~old.cancel /\ new.status = "failed" /\ new.failure = "error"
              \/ old.cancel /\ new.status = "cancelled"
              \/ new.status = "failed" /\ new.failure = "worker_interrupted"
    BY <1>3 DEF Ends, Bump, Closed, Row
  <2> QED
    BY <2>1, PhaseOf
<1>4. CASE Vanishes(old, new)
  <2>1. new.cancel = old.cancel /\ new.status = old.status /\ new.failure = old.failure
    BY <1>4 DEF Vanishes, Bump, Row
  <2> QED
    BY <2>1, PhaseOf DEF Phase
<1> QED
  BY <1>1, <1>2, <1>3, <1>4 DEF Moves

\* The queue as it is after a step, row by row.
LEMMA QueueAfter ==
    ASSUME TypeOK, TypeOK'
    PROVE  /\ \A j \in JobIds : /\ Phases[j] = Phase(jobs[j]) /\ Wishes[j] = jobs[j].cancel
                                /\ jobs[j] \in Row /\ jobs'[j] \in Row
           /\ \A j \in JobIds : Only(j) =>
                /\ Phases' = [Phases EXCEPT ![j] = Phase(jobs'[j])]
                /\ Wishes' = [Wishes EXCEPT ![j] = jobs'[j].cancel]
           /\ \A j, child \in JobIds : j # child /\ Seals(j, child) =>
                /\ Phases' = [Phases EXCEPT ![j] = Phase(jobs'[j]), ![child] = Phase(jobs'[child])]
                /\ Wishes' = [Wishes EXCEPT ![j] = jobs'[j].cancel, ![child] = jobs'[child].cancel]
<1>1. \A j \in JobIds : jobs[j] \in Row /\ jobs'[j] \in Row
  BY DEF TypeOK
<1> QED
  BY <1>1 DEF Phases, Wishes, Only, Seals

\* Actions of the queue, over the phases and wishes of the ledger's rows.
LEMMA QueueActions ==
    ASSUME NEW j \in JobIds, NEW child \in JobIds
    PROVE  /\ Queue!Newest(j) = (/\ Phases[j] = "unborn"
                                 /\ \A k \in JobIds : k < j => Phases[k] # "unborn")
           /\ Queue!Arrive(j) = (/\ Queue!Newest(j)
                                 /\ Phases' = [Phases EXCEPT ![j] = "waiting"]
                                 /\ Wishes' = Wishes)
           /\ Queue!Serve(j) = (/\ Phases[j] = "waiting"
                                /\ \A k \in JobIds : Phases[k] # "serving"
                                /\ \A k \in JobIds : Phases[k] = "waiting" => j <= k
                                /\ Phases' = [Phases EXCEPT ![j] = "serving"]
                                /\ Wishes' = Wishes)
           /\ Queue!Answers(j, "done") = ~Wishes[j]
           /\ Queue!HandOver(j, child)
                = (/\ Phases[j] = "serving" /\ Queue!Answers(j, "done") /\ Queue!Newest(child)
                   /\ Phases' = [Phases EXCEPT ![j] = "done", ![child] = "waiting"]
                   /\ Wishes' = Wishes)
<1>1. Queue!JobIds = JobIds
  BY DEF Queue!JobIds, JobIds
<1>2. Queue!Newest(j) = (/\ Phases[j] = "unborn"
                         /\ \A k \in JobIds : k < j => Phases[k] # "unborn")
  BY <1>1 DEF Queue!Newest, Phases
<1>3. Queue!Arrive(j) = (/\ Queue!Newest(j)
                         /\ Phases' = [Phases EXCEPT ![j] = "waiting"]
                         /\ Wishes' = Wishes)
  BY <1>1 DEF Queue!Arrive, Phases, Wishes
<1>4. Queue!Serve(j) = (/\ Phases[j] = "waiting"
                        /\ \A k \in JobIds : Phases[k] # "serving"
                        /\ \A k \in JobIds : Phases[k] = "waiting" => j <= k
                        /\ Phases' = [Phases EXCEPT ![j] = "serving"]
                        /\ Wishes' = Wishes)
  BY <1>1 DEF Queue!Serve, Phases, Wishes
<1>5. Queue!Answers(j, "done") = ~Wishes[j]
  BY DEF Queue!Answers, Wishes
<1>6. Queue!HandOver(j, child)
        = (/\ Phases[j] = "serving" /\ Queue!Answers(j, "done") /\ Queue!Newest(child)
           /\ Phases' = [Phases EXCEPT ![j] = "done", ![child] = "waiting"]
           /\ Wishes' = Wishes)
  BY <1>1 DEF Queue!HandOver, Phases, Wishes
<1> QED
  BY <1>2, <1>3, <1>4, <1>5, <1>6

\* A step of any handler is a step of the queue or leaves the queue alone.
LEMMA HandledServes ==
    ASSUME LedgerInv, OneRunning, Handled
    PROVE  [Queue!Next]_<<Phases, Wishes>>
<1> DEFINE Stutters == Phases' = Phases /\ Wishes' = Wishes
<1>1. TypeOK /\ TypeOK' /\ LedgerMove /\ SerialStep
  BY HandledMoves, HandledSerially DEF LedgerInv, LedgerMove
<1>2. \A j \in JobIds : /\ Phases[j] = Phase(jobs[j]) /\ Wishes[j] = jobs[j].cancel
                        /\ jobs[j] \in Row /\ jobs'[j] \in Row
  BY <1>1, QueueAfter
<1>3. \A j \in JobIds : /\ jobs[j].status = "queued" <=> Phases[j] = "waiting"
                        /\ jobs[j].status = "running" <=> Phases[j] = "serving"
                        /\ jobs[j].status = "absent" <=> Phases[j] = "unborn"
  BY <1>2, PhaseOf
<1>4. \A j \in JobIds : Born(j) => /\ Phase(jobs'[j]) = "waiting" /\ ~jobs'[j].cancel
                                   /\ Phases[j] = "unborn" /\ ~Wishes[j]
                                   /\ \A k \in JobIds : k < j => Phases[k] # "unborn"
  <2> SUFFICES ASSUME NEW j \in JobIds, Born(j)
               PROVE  /\ Phase(jobs'[j]) = "waiting" /\ ~jobs'[j].cancel
                      /\ Phases[j] = "unborn" /\ ~Wishes[j]
                      /\ \A k \in JobIds : k < j => Phases[k] # "unborn"
    OBVIOUS
  <2>1. jobs'[j].status = "queued" /\ ~jobs'[j].cancel
    BY DEF Born, NewRow
  <2>2. jobs[j].status = "absent" /\ \A k \in JobIds : k < j => jobs[k].status # "absent"
    BY DEF Born, NextSeq, Existing
  <2>3. ~jobs[j].cancel
    BY <2>2, ZenonT(40) DEF LedgerInv, Blank, AbsentRow, NewRow
  <2> QED
    BY <1>2, <1>3, <2>1, <2>2, <2>3, PhaseOf
<1>5. ASSUME NEW j \in JobIds, Only(j), InTurn(j) PROVE Stutters \/ Queue!Next
  <2>1. /\ Phases' = [Phases EXCEPT ![j] = Phase(jobs'[j])]
        /\ Wishes' = [Wishes EXCEPT ![j] = jobs'[j].cancel]
    BY <1>1, <1>5, QueueAfter
  <2>2. CASE jobs'[j] = jobs[j]
    BY <1>2, <2>1, <2>2 DEF Phases, Wishes
  <2>3. CASE Born(j)
    <3>1. Queue!Arrive(j)
      <4>1. Wishes' = Wishes
        BY <1>2, <1>4, <2>1, <2>3 DEF Wishes, Row
      <4> QED
        BY <1>4, <2>1, <2>3, <4>1, QueueActions
    <3> QED
      BY <3>1 DEF Queue!Next, Queue!JobIds, JobIds
  <2>4. CASE Moves(jobs[j], jobs'[j])
    <3>1. CASE Phase(jobs'[j]) = Phase(jobs[j]) /\ jobs'[j].cancel = jobs[j].cancel
      BY <1>2, <2>1, <3>1 DEF Phases, Wishes
    <3>2. CASE /\ Phase(jobs[j]) = "serving" /\ Phase(jobs'[j]) = "serving"
               /\ ~jobs[j].cancel /\ jobs'[j].cancel
      <4>1. Queue!Wish(j)
        BY <1>2, <2>1, <3>2 DEF Queue!Wish, Phases, Wishes
      <4> QED
        BY <4>1 DEF Queue!Next, Queue!JobIds, JobIds
    <3>3. CASE /\ Phase(jobs[j]) = "waiting" /\ Phase(jobs'[j]) = "serving"
               /\ jobs'[j].cancel = jobs[j].cancel
      <4>1. With("running") = {} /\ \A k \in With("queued") : j <= k
        BY <1>2, <1>5, <3>3, PhaseOf DEF InTurn
      <4>2. Queue!Serve(j)
        <5>1. Wishes' = Wishes
          BY <1>2, <2>1, <3>3 DEF Wishes
        <5>2. /\ \A k \in JobIds : Phases[k] # "serving"
              /\ \A k \in JobIds : Phases[k] = "waiting" => j <= k
          BY <1>3, <4>1 DEF With
        <5> QED
          BY <1>2, <2>1, <3>3, <5>1, <5>2, QueueActions
      <4> QED
        BY <4>2 DEF Queue!Next, Queue!JobIds, JobIds
    <3>4. CASE Phase(jobs[j]) = "waiting" /\ Phase(jobs'[j]) = "cancelled" /\ jobs'[j].cancel = TRUE
      <4>1. Queue!Withdraw(j)
        BY <1>2, <2>1, <3>4 DEF Queue!Withdraw, Phases, Wishes
      <4> QED
        BY <4>1 DEF Queue!Next, Queue!JobIds, JobIds
    <3>5. CASE /\ Phase(jobs[j]) = "serving" /\ jobs'[j].cancel = jobs[j].cancel
               /\ \/ ~jobs[j].cancel /\ Phase(jobs'[j]) \in {"done", "failed"}
                  \/ jobs[j].cancel /\ Phase(jobs'[j]) = "cancelled"
                  \/ Phase(jobs'[j]) = "lost"
      <4>1. Phase(jobs'[j]) \in Queue!Ends
        BY <3>5 DEF Queue!Ends
      <4>2. Queue!Finish(j, Phase(jobs'[j]))
        BY <1>2, <2>1, <3>5 DEF Queue!Finish, Queue!Answers, Phases, Wishes
      <4> QED
        BY <4>1, <4>2 DEF Queue!Next, Queue!JobIds, JobIds
    <3> QED
      BY <1>2, <2>4, <3>1, <3>2, <3>3, <3>4, <3>5, MoveOfQueue
  <2> QED
    BY <1>1, <2>2, <2>3, <2>4 DEF LedgerMove, RowsMove
<1>6. ASSUME NEW j \in JobIds, NEW child \in JobIds, Seals(j, child) PROVE Stutters \/ Queue!Next
  <2>1. j # child /\ jobs[child].status = "absent" /\ jobs'[j] # jobs[j]
    BY <1>6 DEF Seals, NextSeq, Existing
  <2>2. CASE jobs'[child] = jobs[child]
    <3>1. Only(j) /\ InTurn(j)
      BY <1>6, <2>2 DEF Seals, Only, InTurn
    <3> QED
      BY <1>5, <3>1
  <2>3. CASE Born(child)
    <3>1. /\ Phases' = [Phases EXCEPT ![j] = Phase(jobs'[j]), ![child] = Phase(jobs'[child])]
          /\ Wishes' = [Wishes EXCEPT ![j] = jobs'[j].cancel, ![child] = jobs'[child].cancel]
      BY <1>1, <1>6, <2>1, QueueAfter
    <3>2. Phase(jobs'[j]) = "done" /\ Phases[j] = "serving"
      BY <1>2, <1>3, <1>6, PhaseOf DEF Seals
    <3>3. ~jobs[j].cancel /\ ~jobs'[j].cancel
      <4>1. Moves(jobs[j], jobs'[j])
        BY <1>1, <1>6, <2>1 DEF LedgerMove, RowsMove, Born, NextSeq, Existing, Seals
      <4> QED
        BY <1>2, <1>6, <4>1, <3>2, MoveOfQueue DEF Seals
    <3>4. Queue!HandOver(j, child)
      <4>1. Wishes' = Wishes
        BY <1>2, <1>4, <2>3, <3>1, <3>3 DEF Wishes, Row
      <4> QED
        BY <1>2, <1>4, <2>3, <3>1, <3>2, <3>3, <4>1, QueueActions
    <3> QED
      BY <3>4 DEF Queue!Next, Queue!JobIds, JobIds
  <2> QED
    BY <1>1, <2>1, <2>2, <2>3 DEF LedgerMove, RowsMove, Moves, Proceeds, Starts, Ends, Vanishes
<1>7. CASE jobs' = jobs
  BY <1>7 DEF Phases, Wishes
<1> QED
  BY <1>1, <1>5, <1>6, <1>7 DEF SerialStep

LEMMA QueueInit == Init => Queue!Init
<1>1. Phase(AbsentRow) = "unborn" /\ AbsentRow.cancel = FALSE
  BY DEF Phase, AbsentRow, NewRow
<1> QED
  BY <1>1 DEF Init, Queue!Init, Queue!JobIds, JobIds

\* The ledger, with all its processes, worker children, takeovers and late
\* writes, implements the serial job queue: jobs are served one at a time in
\* order of arrival, an acknowledged cancellation is never answered by success,
\* and no end is revised.
THEOREM LedgerServesSerially == Spec => ServesSerially
<1>1. LedgerInv /\ OneRunning /\ [Next]_ledger => [Queue!Next]_<<Phases, Wishes>>
  <2>1. ASSUME UNCHANGED ledger PROVE Phases' = Phases /\ Wishes' = Wishes
    BY <2>1 DEF ledger, Phases, Wishes
  <2> QED
    BY <2>1, HandledServes, NextHandled
<1> QED
  BY QueueInit, <1>1, InvAlways, OneRunningAlways, PTL DEF Spec, ServesSerially, Queue!Spec, Phases, Wishes
=============================================================================
