----------------------- MODULE StrategyDispatch_proofs -----------------------
(***************************************************************************)
(* For any number of application processes and jobs: what the processes that *)
(* compete for the worker lease, and the children they leave behind, can and *)
(* cannot do to the ledger.                                                 *)
(***************************************************************************)
EXTENDS StrategyDispatch, StrategyJobs_proofs

\* A job that has been claimed is never queued again, so it is claimed once.
Claimed(j) == jobs[j].status \in {"running"} \cup Terminal
Runs(j) == jobs[j].status = "running"

ClientTypeOK ==
    /\ svc \in [Instances -> SvcState]
    /\ child \in [JobIds -> ChildState]

\* What service i in state s knows of the lease and of the job it owns.
Holds(i, s) ==
    /\ s.held <= lease.generation
    /\ s.held # 0 /\ s.held = lease.generation => lease.instance = i
    /\ s.pc \in {"reconcile", "dispatch"} => s.held # 0
    /\ s.pc \in {"new", "stop"} => lease.instance # i
    /\ s.pc \in {"new", "dead"} => s.held = 0 /\ s.job = NoJob
    /\ s.pc \in {"spawn", "fallback", "fail"} => s.job # NoJob
    /\ s.job # NoJob =>
         /\ s.pc # "stop" => s.held # 0
         /\ s.job \in JobIds /\ Claimed(s.job)
         /\ Runs(s.job) => jobs[s.job].token = s.token /\ jobs[s.job].owner.instance = i
         /\ s.pc = "spawn" =>
              /\ child[s.job].pc = "none"
              /\ Runs(s.job) => jobs[s.job].owner = [instance |-> i, generation |-> s.held]
         /\ s.pc \in {"fallback", "fail"} => ~Alive(s.job)

\* What a child c of job j was given, it was given of this claim.
Serves(j, c) ==
    /\ c.pc # "none" => Claimed(j)
    /\ c.pc \in Live /\ Runs(j) => c.fence = jobs[j].owner

\* No two services own one job.
Apart == \A i, k \in Instances : svc[i].job = svc[k].job /\ svc[i].job # NoJob => i = k

\* Whoever owns a running job held the lease, and no later one than there is.
OwnersLeased ==
    \A j \in With("running") : /\ jobs[j].owner.instance \in Instances
                               /\ jobs[j].owner.generation <= lease.generation

\* The lease has no holder exactly before its first acquisition.
LeaseRow == (lease.generation = 0) = (lease.instance = NoInstance)

ClientInv ==
    /\ ClientTypeOK /\ OwnersLeased /\ LeaseRow /\ Apart
    /\ \A i \in Instances : Holds(i, svc[i])
    /\ \A j \in JobIds : Serves(j, child[j])

DispatchInv == LedgerInv /\ OneRunning /\ ClientInv

-----------------------------------------------------------------------------
(* The children.                                                            *)

\* Where a step of the child of j takes it.
ChildMoves(j) ==
    \E c \in ChildState : /\ child' = [child EXCEPT ![j] = c]
                          /\ \/ c = Gone
                             \/ c.pc \in Live /\ c.fence = child[j].fence

LEMMA GoneIsChild == Gone \in ChildState /\ Gone.pc = "gone"
  BY DEF Gone, Unborn, ChildState, NoFence, Fence

LEMMA ChildGoes ==
    ASSUME ClientTypeOK, NEW j \in JobIds, NEW pc \in {"gone"} \cup Live, GotoOrExit(j, pc)
    PROVE  ChildMoves(j)
<1> DEFINE next == [child[j] EXCEPT !.pc = pc]
<1>1. child[j] \in ChildState
  BY DEF ClientTypeOK
<1>2. next \in ChildState /\ next.pc = pc /\ next.fence = child[j].fence
  BY <1>1 DEF ChildState
<1>3. pc \in Live => child' = [child EXCEPT ![j] = next]
  BY DEF GotoOrExit, Goto, Live, ClientTypeOK
<1>4. pc \notin Live => child' = [child EXCEPT ![j] = Gone]
  BY DEF GotoOrExit, Exit
<1> HIDE DEF next
<1> QED
  BY <1>2, <1>3, <1>4, GoneIsChild DEF ChildMoves

LEMMA ChildReads ==
    ASSUME TypeOK, ClientTypeOK, NEW j \in JobIds, NEW pc \in Live, ReadThen(j, pc)
    PROVE  ChildMoves(j)
<1> DEFINE next == [child[j] EXCEPT !.pc = pc, !.ver = jobs[j].version]
<1>1. child[j] \in ChildState /\ jobs[j].version \in Nat
  BY DEF ClientTypeOK, TypeOK, Row
<1>2. next \in ChildState /\ next.pc = pc /\ next.fence = child[j].fence
  BY <1>1 DEF ChildState
<1>3. child' = [child EXCEPT ![j] = next]
  BY DEF ReadThen, ClientTypeOK
<1> HIDE DEF next
<1> QED
  BY <1>2, <1>3 DEF ChildMoves

LEMMA ChildWalks ==
    ASSUME ClientTypeOK, NEW j \in JobIds, NextStep(j)
    PROVE  ChildMoves(j)
<1>1. PICK pc \in {"finish", "read"}, step \in {child[j].step, child[j].step + 1} :
          child' = [child EXCEPT ![j].pc = pc, ![j].step = step]
  BY DEF NextStep, ClientTypeOK
<1> DEFINE next == [child[j] EXCEPT !.pc = pc, !.step = step]
<1>2. child[j] \in ChildState /\ step \in Nat /\ pc \in Live
  BY DEF ClientTypeOK, ChildState, Live
<1>3. next \in ChildState /\ next.pc = pc /\ next.fence = child[j].fence
  BY <1>2 DEF ChildState
<1>4. child' = [child EXCEPT ![j] = next]
  BY <1>1 DEF ClientTypeOK
<1> HIDE DEF next
<1> QED
  BY <1>2, <1>3, <1>4 DEF ChildMoves

\* A step of a child is a step of a live child, which stays with its claim or
\* ends for good.
LEMMA ChildActs ==
    ASSUME TypeOK, ClientTypeOK, NEW j \in JobIds, ChildStep(j) \/ ChildDies(j)
    PROVE  Alive(j) /\ ChildMoves(j)
<1>0. /\ {"boot", "read", "set", "work", "finish", "commit", "recheck", "recover", "cancel", "fail"} = Live
      /\ "gone" \notin Live
  BY DEF Live
<1>1. Alive(j)
  BY <1>0 DEF ChildStep, ChildDies, Alive, Boot, ReadBoundary, SetStep, SimulateMonth,
     InitializeMonth, BootstrapStage, PreparationStage, Finish, Commit, Recheck, Recover,
     CancelOwn, FailOwn
<1> SUFFICES ChildMoves(j)
  BY <1>1
<1>a. ASSUME NEW pc \in Live, Goto(j, pc) PROVE ChildMoves(j)
  BY <1>0, <1>a, ChildGoes DEF GotoOrExit
<1>b. ASSUME Exit(j) PROVE ChildMoves(j)
  BY <1>b, GoneIsChild DEF Exit, ChildMoves
<1>2. CASE Boot(j)
  <2>1. CASE child' = [child EXCEPT ![j].pc = "read", ![j].step = 1]
    <3> DEFINE next == [child[j] EXCEPT !.pc = "read", !.step = 1]
    <3>1. next \in ChildState /\ next.pc \in Live /\ next.fence = child[j].fence
      BY <1>0 DEF ClientTypeOK, ChildState
    <3>2. child' = [child EXCEPT ![j] = next]
      BY <2>1 DEF ClientTypeOK
    <3> HIDE DEF next
    <3> QED
      BY <3>1, <3>2 DEF ChildMoves
  <2> QED
    BY <1>0, <1>2, <1>a, <1>b, <2>1 DEF Boot
<1>3. CASE ReadBoundary(j)
  BY <1>0, <1>3, <1>b, ChildReads DEF ReadBoundary
<1>4. CASE SetStep(j)
  <2>1. AfterSet(j) \in {"commit", "read", "work"}
    BY DEF AfterSet
  <2>2. OnLostSet(j) \in {"gone", "recheck"}
    BY DEF OnLostSet
  <2>3. PICK pc \in Live, ver \in Nat, step \in Nat :
            \/ child' = [child EXCEPT ![j] = [child[j] EXCEPT !.pc = pc, !.ver = ver, !.step = step]]
            \/ GotoOrExit(j, OnLostSet(j))
    <3>1. child[j].ver + 1 \in Nat /\ child[j].step \in Nat /\ child[j].step + 1 \in Nat
      BY DEF ClientTypeOK, ChildState
    <3>2. CASE GotoOrExit(j, OnLostSet(j))
      <4>1. "set" \in Live
        BY DEF Live
      <4> QED
        BY <3>1, <3>2, <4>1
    <3>3. ASSUME child' = [child EXCEPT ![j] =
                             [child[j] EXCEPT !.pc = AfterSet(j), !.ver = child[j].ver + 1,
                                              !.step = IF AfterSet(j) = "read" THEN @ + 1 ELSE @]]
          PROVE  \E pc \in Live, ver \in Nat, step \in Nat :
                   child' = [child EXCEPT ![j] =
                               [child[j] EXCEPT !.pc = pc, !.ver = ver, !.step = step]]
      <4>1. AfterSet(j) \in Live
        BY <2>1 DEF Live
      <4>2. CASE AfterSet(j) = "read"
        BY <3>1, <3>3, <4>1, <4>2
      <4>3. CASE AfterSet(j) # "read"
        BY <3>1, <3>3, <4>1, <4>3
      <4> QED
        BY <4>2, <4>3
    <3>4. \/ GotoOrExit(j, OnLostSet(j))
          \/ child' = [child EXCEPT ![j] =
                          [child[j] EXCEPT !.pc = AfterSet(j), !.ver = child[j].ver + 1,
                                           !.step = IF AfterSet(j) = "read" THEN @ + 1 ELSE @]]
      BY <1>4 DEF SetStep
    <3> QED
      BY <3>2, <3>3, <3>4
  <2> DEFINE next == [child[j] EXCEPT !.pc = pc, !.ver = ver, !.step = step]
  <2>4. next \in ChildState /\ next.pc \in Live /\ next.fence = child[j].fence
    BY DEF ClientTypeOK, ChildState
  <2> HIDE DEF next
  <2> QED
    BY <1>0, <2>2, <2>3, <2>4, ChildGoes DEF ChildMoves, next
<1>5. CASE SimulateMonth(j)
  BY <1>0, <1>5, <1>a, ChildWalks DEF SimulateMonth
<1>6. CASE InitializeMonth(j)
  BY <1>0, <1>6, <1>a, ChildWalks DEF InitializeMonth
<1>7. CASE BootstrapStage(j)
  BY <1>0, <1>7, <1>a, <1>b, ChildWalks DEF BootstrapStage
<1>8. CASE PreparationStage(j)
  BY <1>0, <1>8, <1>a, ChildWalks DEF PreparationStage
<1>9. CASE Finish(j)
  BY <1>0, <1>9, <1>b, ChildReads DEF Finish
<1>10. CASE Commit(j)
  <2>1. OnLostCommit(j) \in {"gone", "recover", "recheck"}
    BY DEF OnLostCommit
  <2> QED
    BY <1>0, <1>10, <1>a, <1>b, <2>1, ChildGoes DEF Commit
<1>11. CASE Recheck(j)
  BY <1>0, <1>11, <1>b, ChildReads DEF Recheck
<1>12. CASE Recover(j)
  BY <1>0, <1>12, <1>b, ChildReads DEF Recover
<1>13. CASE CancelOwn(j) \/ ChildDies(j)
  BY <1>13, <1>b DEF CancelOwn, ChildDies
<1>14. CASE FailOwn(j)
  BY <1>0, <1>14, <1>b, ChildGoes DEF FailOwn, OnLostFail
<1> QED
  BY <1>2, <1>3, <1>4, <1>5, <1>6, <1>7, <1>8, <1>9, <1>10, <1>11, <1>12, <1>13, <1>14
     DEF ChildStep

\* What a child writes, it writes as the owner of its claim, and never as an
\* interruption.
Writes(j) ==
    \E token, version, fence : Reports(j, token, version, fence) \/ WorkerWrite(j, token, version, fence)

LEMMA ChildWrites ==
    ASSUME LedgerInv, NEW j \in JobIds, ChildStep(j) \/ ChildDies(j)
    PROVE  \/ UNCHANGED ledger
           \/ /\ Runs(j) /\ FenceHolds(child[j].fence) /\ Writes(j)
              /\ jobs'[j].failure # "worker_interrupted"
<1> DEFINE c == child[j]
           Serving == /\ Runs(j) /\ FenceHolds(c.fence) /\ Writes(j)
                      /\ jobs'[j].failure # "worker_interrupted"
<1>0. jobs[j] \in Row /\ jobs \in [JobIds -> Row] /\ (Runs(j) => jobs[j].failure = "none")
  BY DEF LedgerInv, TypeOK, ChecksHold, Existing, Runs
<1>a. ASSUME NEW row, Write(j, row), row \in Row PROVE jobs'[j].failure = row.failure
  BY <1>0, <1>a DEF Write, Row
<1>b. ASSUME NEW failure \in Failure, NEW status \in Terminal
      PROVE  /\ Closed(jobs[j], status, failure) \in Row
             /\ Closed(jobs[j], status, failure).failure = failure
  <2>1. Closed(jobs[j], status, failure) \in Row
    BY <1>0, ClosedIsRow
  <2> QED
    BY <1>0, <2>1 DEF Closed, Row
<1>c. ASSUME NEW status \in Terminal, NEW failure \in {"none", "error"},
             Write(j, Closed(jobs[j], status, failure))
      PROVE  jobs'[j].failure # "worker_interrupted"
  BY <1>a, <1>b, <1>c DEF Failure
<1>d. {"complete", "cancelled", "failed"} = Terminal /\ "error" \in Failure \ {"none"}
  BY DEF Terminal, Failure
<1>1. CASE SetStep(j)
  <2>1. ASSUME SetCurrentMonth(j, c.token, c.ver, c.fence, c.step)
                 \/ SetCurrentStage(j, c.token, c.ver, c.fence, c.step)
        PROVE  Serving
    <3>1. c.step \in 1..(MonthCount + 3)
      BY <2>1, LedgerAssumption DEF SetCurrentMonth, SetCurrentStage, Steps
    <3>2. Runs(j) /\ FenceHolds(c.fence) /\ Write(j, [jobs[j] EXCEPT !.step = c.step])
      BY <2>1 DEF SetCurrentMonth, SetCurrentStage, Owned, Runs
    <3>3. Writes(j)
      BY <2>1, <3>1 DEF Writes, Reports
    <3>4. [jobs[j] EXCEPT !.step = c.step] \in Row /\ [jobs[j] EXCEPT !.step = c.step].failure = jobs[j].failure
      BY <1>0, <3>1 DEF Row
    <3> QED
      BY <1>0, <1>a, <3>2, <3>3, <3>4
  <2> QED
    BY <1>1, <2>1 DEF SetStep
<1>2. CASE SimulateMonth(j)
  <2>1. ASSUME WriteStaging(j, c.token, c.ver, c.fence) PROVE Serving
    BY <1>0, <2>1 DEF WriteStaging, Owned, Runs, Writes, WorkerWrite
  <2> QED
    BY <1>2, <2>1 DEF SimulateMonth
<1>3. CASE Commit(j)
  <2>1. ASSUME FinalWrite(j, c.token, c.ver, c.fence) PROVE Serving
    <3>1. WorkerWrite(j, c.token, c.ver, c.fence) /\ Owned(j, c.token, c.ver, c.fence)
      BY <2>1 DEF FinalWrite, WorkerWrite, CompleteInitialization, CompleteBacktest,
         CompleteStageJob, ActivateProfileAndComplete, SealPreparation
    <3>2. CASE \E k \in JobIds : SealPreparation(j, c.token, c.ver, c.fence, k)
      <4>1. PICK k \in JobIds : SealPreparation(j, c.token, c.ver, c.fence, k)
        BY <3>2
      <4>2. k # j
        BY <3>1, <4>1 DEF SealPreparation, NextSeq, Existing, Owned
      <4>3. jobs'[j] = [Closed(jobs[j], "complete", "none") EXCEPT !.version = jobs[j].version + 1]
        BY <1>0, <4>1, <4>2 DEF SealPreparation
      <4> QED
        BY <1>b, <1>d, <3>1, <4>3 DEF Owned, Runs, Writes, Failure, Row
    <3>3. CASE ~\E k \in JobIds : SealPreparation(j, c.token, c.ver, c.fence, k)
      <4>1. Write(j, Closed(jobs[j], "complete", "none"))
        BY <2>1, <3>3 DEF FinalWrite, CompleteInitialization, CompleteBacktest,
           CompleteStageJob, ActivateProfileAndComplete
      <4> QED
        BY <1>c, <1>d, <3>1, <4>1 DEF Owned, Runs, Writes
    <3> QED
      BY <3>2, <3>3
  <2> QED
    BY <1>3, <2>1 DEF Commit
<1>4. CASE CancelOwn(j)
  <2>1. ASSUME CancelClaimed(j, c.token, c.ver, c.fence) PROVE Serving
    BY <1>c, <1>d, <2>1 DEF CancelClaimed, CanCancelClaimed, Runs, Writes, WorkerWrite
  <2> QED
    BY <1>4, <2>1 DEF CancelOwn
<1>5. CASE FailOwn(j)
  <2>1. ASSUME FailClaimed(j, c.token, c.ver, c.fence, "error") PROVE Serving
    BY <1>c, <1>d, <2>1 DEF FailClaimed, Owned, Runs, Writes, WorkerWrite
  <2> QED
    BY <1>5, <2>1 DEF FailOwn
<1>6. CASE \/ Boot(j) \/ ReadBoundary(j) \/ InitializeMonth(j) \/ BootstrapStage(j)
           \/ PreparationStage(j) \/ Finish(j) \/ Recheck(j) \/ Recover(j) \/ ChildDies(j)
  BY <1>6 DEF Boot, ReadBoundary, InitializeMonth, BootstrapStage, PreparationStage, Finish,
     Recheck, Recover, ChildDies
<1> QED
  BY <1>1, <1>2, <1>3, <1>4, <1>5, <1>6 DEF ChildStep

-----------------------------------------------------------------------------
(* The ledger under its clients.                                            *)

\* A step that claims nothing.
Quiet == LedgerMove /\ NoNewRunning /\ LeaseRow'

LEMMA StillQuiet == ASSUME LedgerInv, LeaseRow, UNCHANGED ledger PROVE Quiet
<1>1. TypeOK' /\ LeaseRow' /\ NoNewRunning
  BY DEF ledger, LedgerInv, TypeOK, LeaseRow, NoNewRunning, With
<1>2. StagingMove /\ LeaseMove
  BY DEF ledger, StagingMove, LeaseMove, LedgerInv, OutcomesFollowCompletion, TypeOK
<1> QED
  BY <1>1, <1>2, NoRowMoves DEF ledger, Quiet

LEMMA LeaseQuiet ==
    ASSUME LedgerInv, LeaseRow, (\E i \in Instances : AcquireOrRenew(i)) \/ ExpireLease
    PROVE  Quiet
<1>1. LeaseRow'
  BY LedgerAssumption DEF AcquireOrRenew, ExpireLease, LeaseRow, LedgerInv, TypeOK
<1> QED
  BY <1>1, LeaseMoves, LeaseStep DEF LedgerInv, Quiet

LEMMA WritesQuietly ==
    ASSUME LedgerInv, LeaseRow,
           \/ \E fence : Reconcile(fence)
           \/ \E j \in JobIds, p \in {NoJob} \cup Parents : Submit(j, p)
           \/ \E j \in JobIds : \E version \in Nat : RequestCancellation(j, version)
           \/ \E j \in With("running") : Writes(j)
    PROVE  Quiet /\ lease' = lease
<1>1. Handled
  BY DEF Handled, Writes, Ask
<1>2. NoNewRunning
  BY ReconcileStep, SubmitStep, AskStep, WorkerStep DEF LedgerInv, Writes, Ask
<1>3. lease' = lease
  <2>1. ASSUME NEW fence, Reconcile(fence) PROVE lease' = lease
    BY <2>1 DEF Reconcile
  <2>2. ASSUME NEW j, NEW p, Submit(j, p) PROVE lease' = lease
    BY <2>2 DEF Submit, CreateInitialization, CreateBootstrap, CreatePreparation,
                CreateStageJob, CreateBacktest
  <2>3. ASSUME NEW j, NEW version, RequestCancellation(j, version) PROVE lease' = lease
    BY <2>3 DEF RequestCancellation
  <2>4. ASSUME NEW j, Writes(j) PROVE lease' = lease
    <3>1. PICK token, version, fence :
              Reports(j, token, version, fence) \/ WorkerWrite(j, token, version, fence)
      BY <2>4 DEF Writes
    <3>2. CASE Reports(j, token, version, fence)
      BY <3>2 DEF Reports, SetCurrentMonth, SetCurrentStage
    <3>3. CASE WorkerWrite(j, token, version, fence)
      BY <3>3 DEF WorkerWrite, Progress, SetCurrentMonth, SetCurrentStage,
         CompleteStageJob, ActivateProfileAndComplete, CancelClaimed, FailClaimed,
         CompleteInitialization, WriteStaging, CompleteBacktest, SealPreparation
    <3> QED
      BY <3>1, <3>2, <3>3
  <2> QED
    BY <2>1, <2>2, <2>3, <2>4
<1> QED
  BY <1>1, <1>2, <1>3, HandledMoves DEF Quiet, LeaseRow

\* What any move makes of a claim.
LEMMA ClaimStays ==
    ASSUME LedgerInv, LedgerMove, NEW j \in JobIds
    PROVE  /\ Claimed(j) => Claimed(j)'
           /\ Runs(j)' /\ Claimed(j) =>
                /\ Runs(j) /\ jobs'[j].token = jobs[j].token /\ jobs'[j].owner = jobs[j].owner
                /\ jobs[j].cancel => jobs'[j].cancel
<1>1. /\ jobs[j] \in Row /\ jobs'[j] \in Row
      /\ jobs'[j] = jobs[j] \/ Moves(jobs[j], jobs'[j]) \/ jobs[j].status = "absent"
  BY RowMoved
<1>2. CASE Proceeds(jobs[j], jobs'[j])
  BY <1>1, <1>2 DEF Proceeds, Bump, Claimed, Runs, Row
<1>3. CASE Starts(jobs[j], jobs'[j])
  BY <1>1, <1>3 DEF Starts, Claimed, Terminal
<1>4. CASE Ends(jobs[j], jobs'[j]) \/ Vanishes(jobs[j], jobs'[j])
  <2>1. jobs'[j].status \in Terminal
    BY <1>1, <1>4 DEF Ends, Vanishes, Bump, Closed, Row, Terminal
  <2> QED
    BY <2>1 DEF Claimed, Runs, Terminal
<1>5. CASE jobs[j].status = "absent"
  BY <1>5 DEF Claimed, Terminal
<1>6. CASE jobs'[j] = jobs[j]
  BY <1>6 DEF Claimed, Runs
<1> QED
  BY <1>1, <1>2, <1>3, <1>4, <1>5, <1>6 DEF Moves

\* What a service knows stays true when others move.
LEMMA HoldsStays ==
    ASSUME LedgerInv, LedgerMove, NEW i \in Instances, NEW s \in SvcState, Holds(i, s),
           lease'.instance = i => lease.instance = i,
           s.job \in JobIds /\ ~Alive(s.job) => child'[s.job] = child[s.job]
    PROVE  Holds(i, s)'
<1>1. /\ lease.generation \in Nat /\ lease'.generation \in Nat /\ s.held \in Nat
      /\ lease'.generation >= lease.generation
      /\ lease.generation # 0 /\ lease'.instance # lease.instance
           => lease'.generation = lease.generation + 1
  BY DEF LedgerInv, LedgerMove, LeaseMove, TypeOK, SvcState
<1>2. /\ s.held <= lease'.generation
      /\ s.held # 0 /\ s.held = lease'.generation => lease'.instance = i
  BY <1>1 DEF Holds
<1>3. ASSUME s.job # NoJob
      PROVE  /\ Claimed(s.job)'
             /\ Runs(s.job)' => jobs'[s.job].token = s.token /\ jobs'[s.job].owner.instance = i
             /\ s.pc = "spawn" =>
                  /\ child'[s.job].pc = "none"
                  /\ Runs(s.job)' => jobs'[s.job].owner = [instance |-> i, generation |-> s.held]
             /\ s.pc \in {"fallback", "fail"} => ~Alive(s.job)'
  <2>1. s.job \in JobIds /\ Claimed(s.job)
    BY <1>3 DEF Holds
  <2>2. /\ Claimed(s.job)'
        /\ Runs(s.job)' => /\ Runs(s.job) /\ jobs'[s.job].token = jobs[s.job].token
                           /\ jobs'[s.job].owner = jobs[s.job].owner
    BY <2>1, ClaimStays
  <2>3. s.pc \in {"spawn", "fallback", "fail"} => child'[s.job] = child[s.job]
    BY <1>3, <2>1 DEF Holds, Alive, Live
  <2> QED
    BY <1>3, <2>1, <2>2, <2>3 DEF Holds, Alive
<1> QED
  BY <1>2, <1>3 DEF Holds

LEMMA ServesStays ==
    ASSUME LedgerInv, LedgerMove, NEW j \in JobIds, NEW c \in ChildState, Serves(j, c)
    PROVE  Serves(j, c)'
<1>1. c.pc # "none" => Claimed(j)
  BY DEF Serves
<1>2. c.pc \in Live => c.pc # "none"
  BY DEF Live
<1> QED
  BY <1>1, <1>2, ClaimStays DEF Serves

LEMMA OwnersStay ==
    ASSUME LedgerInv, OwnersLeased, Quiet
    PROVE  OwnersLeased'
<1> SUFFICES ASSUME NEW j \in With("running")'
             PROVE  jobs'[j].owner.instance \in Instances /\ jobs'[j].owner.generation <= lease'.generation
  BY DEF OwnersLeased
<1>1. j \in With("running") /\ j \in JobIds /\ Runs(j)'
  BY DEF Quiet, NoNewRunning, With, Runs
<1>2. jobs'[j].owner = jobs[j].owner /\ jobs[j] \in Row
  BY <1>1, ClaimStays DEF Quiet, With, Claimed, LedgerInv, TypeOK
<1>3. /\ lease.generation \in Nat /\ lease'.generation \in Nat
      /\ lease'.generation >= lease.generation /\ jobs[j].owner.generation \in Nat
  BY <1>2 DEF LedgerInv, Quiet, LedgerMove, LeaseMove, TypeOK, Row, Fence
<1> QED
  BY <1>1, <1>2, <1>3 DEF OwnersLeased

\* At most one job runs still.
LEMMA QuietOne == ASSUME OneRunning, Quiet PROVE OneRunning'
  BY DEF OneRunning, Quiet, NoNewRunning

\* One service moves, and with it perhaps the ledger and a child.
LEMMA OneService ==
    ASSUME DispatchInv, LedgerMove, OneRunning', OwnersLeased', LeaseRow',
           NEW i \in Instances, NEW s \in SvcState, svc' = [svc EXCEPT ![i] = s],
           Holds(i, s)', s.job # NoJob => \A k \in Instances \ {i} : svc[k].job # s.job,
           lease'.instance \in {lease.instance, i},
           child' \in [JobIds -> ChildState],
           \A j \in JobIds : Serves(j, child'[j]),
           \A k \in Instances \ {i} :
              svc[k].job \in JobIds /\ ~Alive(svc[k].job) => child'[svc[k].job] = child[svc[k].job]
    PROVE  DispatchInv'
<1>1. LedgerInv' /\ ClientTypeOK'
  BY MoveKeeps DEF DispatchInv, ClientInv, ClientTypeOK
<1>2. Apart'
  BY DEF DispatchInv, ClientInv, ClientTypeOK, Apart
<1>3. ASSUME NEW k \in Instances PROVE Holds(k, svc[k])'
  <2>1. CASE k = i
    <3>1. svc'[i] = s
      BY DEF DispatchInv, ClientInv, ClientTypeOK
    <3> QED
      BY <2>1, <3>1 DEF Holds
  <2>2. CASE k # i
    <3>1. svc'[k] = svc[k] /\ svc[k] \in SvcState /\ Holds(k, svc[k])
      BY <2>2 DEF DispatchInv, ClientInv, ClientTypeOK
    <3>2. PICK t \in SvcState : t = svc[k]
      BY <3>1
    <3>3. Holds(k, t)'
      BY <2>2, <3>1, <3>2, HoldsStays DEF DispatchInv
    <3> QED
      BY <3>1, <3>2, <3>3 DEF Holds
  <2> QED
    BY <2>1, <2>2
<1>4. ASSUME NEW j \in JobIds PROVE Serves(j, child[j])'
  <2>1. PICK c \in ChildState : c = child'[j]
    OBVIOUS
  <2>2. Serves(j, c)'
    BY <2>1, ServesStays DEF DispatchInv
  <2> QED
    BY <2>1, <2>2 DEF Serves
<1> QED
  BY <1>1, <1>2, <1>3, <1>4 DEF DispatchInv, ClientInv

-----------------------------------------------------------------------------
(* The steps of a service.                                                  *)

\* What every step of service i may start from.
Known(i) ==
    /\ svc[i] \in SvcState /\ Holds(i, svc[i]) /\ LedgerInv /\ LeaseRow /\ TypeOK
    /\ svc \in [Instances -> SvcState] /\ child \in [JobIds -> ChildState]
    /\ lease.generation \in Nat /\ svc[i].held \in Nat /\ NoJob \in Nat
    /\ i # NoInstance

LEMMA SvcFacts == ASSUME DispatchInv, NEW i \in Instances PROVE Known(i)
  BY LedgerAssumption DEF DispatchInv, ClientInv, ClientTypeOK, LedgerInv, TypeOK, SvcState, NoJob, Known

\* A service moves without touching a child, and claims nothing.
LEMMA QuietService ==
    ASSUME DispatchInv, Quiet, NEW i \in Instances, NEW s \in SvcState,
           svc' = [svc EXCEPT ![i] = s], UNCHANGED child, Holds(i, s)',
           s.job \in {NoJob, svc[i].job}, lease'.instance \in {lease.instance, i}
    PROVE  DispatchInv'
<1>1. OneRunning' /\ OwnersLeased' /\ LedgerMove /\ LeaseRow'
  BY QuietOne, OwnersStay DEF DispatchInv, ClientInv, Quiet
<1>2. s.job # NoJob => \A k \in Instances \ {i} : svc[k].job # s.job
  BY DEF DispatchInv, ClientInv, Apart
<1>3. child' \in [JobIds -> ChildState] /\ \A j \in JobIds : Serves(j, child'[j])
  BY DEF DispatchInv, ClientInv, ClientTypeOK
<1> QED
  BY <1>1, <1>2, <1>3, OneService

\* Or leaves the ledger alone, too.
LEMMA IdleService ==
    ASSUME DispatchInv, NEW i \in Instances, NEW s \in SvcState,
           svc' = [svc EXCEPT ![i] = s], UNCHANGED <<ledger, child>>, Holds(i, s),
           s.job \in {NoJob, svc[i].job}
    PROVE  DispatchInv'
<1>1. Quiet
  BY StillQuiet DEF DispatchInv, ClientInv
<1>2. Holds(i, s)' /\ lease' = lease
  BY DEF Holds, ledger, Claimed, Runs, Alive
<1> QED
  BY <1>1, <1>2, QuietService

\* What is left of a service that drops its local claim.
LEMMA RestHolds ==
    ASSUME DispatchInv, NEW i \in Instances, NEW lost \in SUBSET JobIds
    PROVE  \A s \in {Rest(i, lost), Dead} : s \in SvcState /\ Holds(i, s) /\ s.job = NoJob
<1>k. Known(i)
  BY SvcFacts
<1> USE <1>k DEF Known
<1>1. Dead \in SvcState /\ Dead.held = 0 /\ Dead.job = NoJob /\ Dead.pc = "dead"
  BY DEF Dead, Fresh, SvcState, SvcPc, NoJob
<1>2. Holds(i, Dead)
  BY <1>1 DEF Holds
<1>3. CASE svc[i].loop
  <2>1. /\ Rest(i, lost) \in SvcState /\ Rest(i, lost).held = svc[i].held
        /\ Rest(i, lost).job = NoJob /\ Rest(i, lost).pc = "idle"
    BY <1>3 DEF Rest, SvcState, SvcPc, NoJob
  <2>2. Holds(i, Rest(i, lost))
    BY <2>1 DEF Holds
  <2> QED
    BY <1>1, <1>2, <2>1, <2>2
<1>4. CASE ~svc[i].loop
  BY <1>1, <1>2, <1>4 DEF Rest
<1> QED
  BY <1>3, <1>4

LEMMA DeadHolds ==
    ASSUME DispatchInv, NEW i \in Instances
    PROVE  Dead \in SvcState /\ Holds(i, Dead) /\ Dead.job = NoJob
<1>1. {} \in SUBSET JobIds
  OBVIOUS
<1> QED
  BY <1>1, RestHolds

LEMMA StartKeeps == ASSUME DispatchInv, NEW i \in Instances, Start(i) PROVE DispatchInv'
<1>k. Known(i)
  BY SvcFacts
<1> USE <1>k DEF Known
<1>1. CASE AcquireOrRenew(i) /\ Set(i, [Fresh EXCEPT !.pc = "reconcile", !.held = lease'.generation])
  <2>1. Quiet /\ lease'.instance = i /\ lease'.generation \in Nat \ {0}
    <3>1. Quiet /\ lease'.instance = i
      BY <1>1, LeaseQuiet DEF AcquireOrRenew
    <3> QED
      BY <3>1 DEF Quiet, LeaseRow, LedgerMove, TypeOK
  <2>2. PICK held \in Nat \ {0} : held = lease'.generation
    BY <2>1
  <2> DEFINE next == [Fresh EXCEPT !.pc = "reconcile", !.held = held]
  <2>3. /\ next \in SvcState /\ next.pc = "reconcile" /\ next.held = held /\ next.job = NoJob
        /\ svc' = [svc EXCEPT ![i] = next]
    BY <1>1, <2>2 DEF Fresh, SvcState, SvcPc, NoJob, Set
  <2>4. PICK s \in SvcState : s = next
    BY <2>3
  <2> HIDE DEF next
  <2>5. Holds(i, s)'
    BY <2>1, <2>2, <2>3, <2>4 DEF Holds
  <2> QED
    BY <2>1, <2>3, <2>4, <2>5, QuietService DEF Start
<1>2. CASE ~LeaseFree(i) /\ Set(i, [Fresh EXCEPT !.pc = "idle", !.loop = TRUE]) /\ UNCHANGED ledger
  <2> DEFINE next == [Fresh EXCEPT !.pc = "idle", !.loop = TRUE]
  <2>1. /\ next \in SvcState /\ next.pc = "idle" /\ next.held = 0 /\ next.job = NoJob
        /\ svc' = [svc EXCEPT ![i] = next]
    BY <1>2 DEF Fresh, SvcState, SvcPc, NoJob, Set
  <2> HIDE DEF next
  <2>2. Holds(i, next)
    BY <2>1 DEF Holds
  <2> QED
    BY <1>2, <2>1, <2>2, IdleService DEF Start
<1> QED
  BY <1>1, <1>2 DEF Start

LEMMA HeartbeatKeeps == ASSUME DispatchInv, NEW i \in Instances, Heartbeat(i) PROVE DispatchInv'
<1>k. Known(i)
  BY SvcFacts
<1> USE <1>k DEF Known
<1>1. CASE /\ AcquireOrRenew(i)
           /\ Set(i, [svc[i] EXCEPT !.pc = IF svc[i].held = lease'.generation
                                           THEN "dispatch" ELSE "reconcile",
                                    !.held = lease'.generation])
  <2>1. Quiet /\ lease'.instance = i /\ lease'.generation \in Nat \ {0}
    <3>1. Quiet /\ lease'.instance = i
      BY <1>1, LeaseQuiet DEF AcquireOrRenew
    <3> QED
      BY <3>1 DEF Quiet, LeaseRow, LedgerMove, TypeOK
  <2>2. PICK held \in Nat \ {0}, pc \in {"dispatch", "reconcile"} :
            /\ held = lease'.generation
            /\ pc = IF svc[i].held = lease'.generation THEN "dispatch" ELSE "reconcile"
    BY <2>1
  <2> DEFINE next == [svc[i] EXCEPT !.pc = pc, !.held = held]
  <2>3. /\ next \in SvcState /\ next.pc = pc /\ next.held = held /\ next.job = svc[i].job
        /\ next.token = svc[i].token /\ svc' = [svc EXCEPT ![i] = next]
    BY <1>1, <2>2 DEF SvcState, SvcPc, Set
  <2>4. PICK s \in SvcState : s = next
    BY <2>3
  <2> HIDE DEF next
  <2>5. Holds(i, s)'
    <3>1. s.job # NoJob => /\ s.job \in JobIds /\ Claimed(s.job)
                           /\ Runs(s.job) => /\ jobs[s.job].token = s.token
                                             /\ jobs[s.job].owner.instance = i
      BY <2>3, <2>4 DEF Holds
    <3>2. s.job # NoJob => /\ Claimed(s.job)'
                           /\ Runs(s.job)' => /\ jobs'[s.job].token = s.token
                                              /\ jobs'[s.job].owner.instance = i
      BY <2>1, <3>1, ClaimStays DEF Quiet
    <3> QED
      BY <2>1, <2>2, <2>3, <2>4, <3>1, <3>2 DEF Holds
  <2> QED
    BY <2>1, <2>3, <2>4, <2>5, QuietService DEF Heartbeat
<1>2. CASE ~LeaseFree(i) /\ Set(i, [svc[i] EXCEPT !.pc = "stop", !.held = 0]) /\ UNCHANGED ledger
  <2> DEFINE next == [svc[i] EXCEPT !.pc = "stop", !.held = 0]
  <2>1. /\ next \in SvcState /\ next.pc = "stop" /\ next.held = 0 /\ next.job = svc[i].job
        /\ next.token = svc[i].token /\ svc' = [svc EXCEPT ![i] = next]
    BY <1>2 DEF SvcState, SvcPc, Set
  <2> HIDE DEF next
  <2>2. Holds(i, next)
    BY <1>2, <2>1 DEF Holds, LeaseFree
  <2> QED
    BY <1>2, <2>1, <2>2, IdleService DEF Heartbeat
<1> QED
  BY <1>1, <1>2 DEF Heartbeat

\* A change of program point alone.
LEMMA GotoHolds ==
    ASSUME DispatchInv, NEW i \in Instances, NEW pc \in SvcPc, NEW loop \in BOOLEAN,
           svc[i].pc \in {"idle", "reconcile", "dispatch"},
           pc \in {"reconcile", "dispatch"} => svc[i].held # 0,
           pc \in {"idle", "dispatch"}
    PROVE  LET s == [svc[i] EXCEPT !.pc = pc, !.loop = loop]
           IN  s \in SvcState /\ Holds(i, s) /\ s.job = svc[i].job
<1>k. Known(i)
  BY SvcFacts
<1> USE <1>k DEF Known
<1> DEFINE s == [svc[i] EXCEPT !.pc = pc, !.loop = loop]
<1>1. /\ s \in SvcState /\ s.pc = pc /\ s.held = svc[i].held /\ s.job = svc[i].job
      /\ s.token = svc[i].token
  BY DEF SvcState
<1> HIDE DEF s
<1>2. Holds(i, s)
  BY <1>1 DEF Holds
<1> QED
  BY <1>1, <1>2 DEF s

LEMMA ReconcileKeeps == ASSUME DispatchInv, NEW i \in Instances, ReconcileHeld(i) PROVE DispatchInv'
<1>k. Known(i)
  BY SvcFacts
<1> USE <1>k DEF Known
<1>0. svc[i].pc = "reconcile" /\ svc[i].held # 0 /\ UNCHANGED child
  BY DEF ReconcileHeld, Holds
<1>1. CASE /\ Reconcile(FenceOf(i))
           /\ Set(i, [svc[i] EXCEPT !.pc = IF @ = "reconcile" /\ svc[i].loop
                                           THEN "dispatch" ELSE "idle",
                                    !.loop = TRUE])
  <2>1. Quiet /\ lease' = lease
    BY <1>1, WritesQuietly
  <2>2. PICK pc \in {"dispatch", "idle"} :
            svc' = [svc EXCEPT ![i] = [svc[i] EXCEPT !.pc = pc, !.loop = TRUE]]
    BY <1>1 DEF Set, SvcState
  <2>3. PICK s \in SvcState : /\ s = [svc[i] EXCEPT !.pc = pc, !.loop = TRUE]
                              /\ Holds(i, s) /\ s.job = svc[i].job
    BY <1>0, GotoHolds DEF SvcPc
  <2>4. Holds(i, s)'
    BY <1>0, <2>1, <2>3, HoldsStays DEF Quiet
  <2> QED
    BY <1>0, <2>1, <2>2, <2>3, <2>4, QuietService
<1>2. CASE /\ Set(i, IF svc[i].loop
                     THEN [svc[i] EXCEPT !.pc = "idle", !.skipped = svc[i].held]
                     ELSE Dead)
           /\ UNCHANGED ledger
  <2>1. CASE svc[i].loop
    <3> DEFINE s == [svc[i] EXCEPT !.pc = "idle", !.skipped = svc[i].held]
    <3>1. /\ s \in SvcState /\ s.pc = "idle" /\ s.held = svc[i].held /\ s.job = svc[i].job
          /\ s.token = svc[i].token /\ svc' = [svc EXCEPT ![i] = s]
      BY <1>2, <2>1 DEF SvcState, SvcPc, Set
    <3> HIDE DEF s
    <3>2. Holds(i, s)
      BY <1>0, <3>1 DEF Holds
    <3> QED
      BY <1>0, <1>2, <3>1, <3>2, IdleService
  <2>2. CASE ~svc[i].loop
    BY <1>0, <1>2, <2>2, DeadHolds, IdleService DEF Set
  <2> QED
    BY <2>1, <2>2
<1> QED
  BY <1>1, <1>2 DEF ReconcileHeld

LEMMA PollKeeps == ASSUME DispatchInv, NEW i \in Instances, PollChild(i) PROVE DispatchInv'
<1>k. Known(i)
  BY SvcFacts
<1> USE <1>k DEF Known
<1>1. PICK pc \in {"idle", "fallback"} : /\ pc = IF Alive(svc[i].job) THEN "idle" ELSE "fallback"
                                         /\ svc' = [svc EXCEPT ![i] = [svc[i] EXCEPT !.pc = pc]]
  BY DEF PollChild, SvcGoto, Set
<1> DEFINE s == [svc[i] EXCEPT !.pc = pc]
<1>2. /\ s \in SvcState /\ s.pc = pc /\ s.held = svc[i].held /\ s.job = svc[i].job
      /\ s.token = svc[i].token /\ s.job # NoJob
  BY DEF SvcState, SvcPc, PollChild
<1> HIDE DEF s
<1>3. Holds(i, s)
  BY <1>1, <1>2 DEF Holds, PollChild
<1> QED
  BY <1>1, <1>2, <1>3, IdleService DEF PollChild, s

\* The fence of a service that holds a lease is one the ledger has seen.
LEMMA FenceSeen ==
    ASSUME DispatchInv, NEW i \in Instances, svc[i].held # 0
    PROVE  /\ FenceOf(i) = [instance |-> i, generation |-> svc[i].held]
           /\ FenceOf(i) \in Fences /\ FenceOf(i) \in Fence /\ FenceOf(i) # NoFence
  BY SvcFacts DEF FenceOf, Known, Holds, Fences, Fence, NoFence

\* The row of a claim, as the claim leaves it.
LEMMA ClaimedRow ==
    ASSUME TypeOK, NEW j \in JobIds, NEW fence \in Fence, ClaimNext(j, fence)
    PROVE  /\ jobs'[j].token = claims + 1 /\ jobs'[j].owner = fence
           /\ jobs'[j].version = jobs[j].version + 1 /\ jobs[j].status = "queued" /\ Runs(j)'
           /\ claims + 1 \in Nat /\ jobs[j].version + 1 \in Nat
<1> DEFINE row == [jobs[j] EXCEPT !.status = "running", !.token = claims + 1,
                                  !.step = 0, !.owner = fence]
<1>1. jobs[j] \in Row /\ claims + 1 \in Nat /\ jobs[j].version + 1 \in Nat
  BY DEF TypeOK, Row
<1>2. row \in Row
  BY <1>1 DEF Row
<1>3. Write(j, row) /\ jobs[j].status = "queued"
  BY DEF ClaimNext, With
<1>4. /\ row.status = "running" /\ row.token = claims + 1 /\ row.owner = fence
  BY <1>1 DEF Row
<1> HIDE DEF row
<1>5. jobs' = [jobs EXCEPT ![j] = [row EXCEPT !.version = jobs[j].version + 1]]
  BY <1>2, <1>3, WriteType
<1> QED
  BY <1>1, <1>2, <1>3, <1>4, <1>5 DEF Row, TypeOK, Runs

LEMMA ClaimKeeps == ASSUME DispatchInv, NEW i \in Instances, ClaimJob(i) PROVE DispatchInv'
<1>k. Known(i)
  BY SvcFacts
<1> USE <1>k DEF Known
<1>0. svc[i].pc = "dispatch" /\ svc[i].held # 0 /\ svc[i].job = NoJob /\ UNCHANGED child
  BY DEF ClaimJob, Holds
<1>1. ASSUME NEW j \in JobIds, ClaimNext(j, FenceOf(i)),
             Set(i, [svc[i] EXCEPT !.pc = "spawn", !.job = j, !.token = claims + 1,
                                   !.ver = jobs[j].version + 1])
      PROVE  DispatchInv'
  <2>1. /\ LedgerMove /\ With("running") = {} /\ With("running")' \subseteq {j}
        /\ FenceOf(i) \in Fences /\ FenceOf(i) \in Fence
        /\ FenceOf(i) = [instance |-> i, generation |-> svc[i].held]
    BY <1>0, <1>1, FenceSeen, ClaimMoves, ClaimStep
  <2>2. lease' = lease /\ LeaseRow' /\ svc[i].held <= lease.generation
    BY <1>1 DEF ClaimNext, LeaseRow, Holds
  <2>3. OneRunning'
    BY <2>1 DEF OneRunning
  <2>4. /\ jobs'[j].token = claims + 1 /\ jobs'[j].owner = FenceOf(i)
        /\ jobs'[j].version = jobs[j].version + 1 /\ jobs[j].status = "queued" /\ Runs(j)'
        /\ claims + 1 \in Nat /\ jobs[j].version + 1 \in Nat
    BY <1>1, <2>1, ClaimedRow
  <2>5. OwnersLeased'
    BY <2>1, <2>2, <2>4 DEF OwnersLeased
  <2>6. ~Claimed(j) /\ child[j].pc = "none" /\ \A k \in Instances : svc[k].job # j
    <3>1. ~Claimed(j)
      BY <2>4 DEF Claimed, Terminal
    <3>2. j # NoJob
      BY DEF JobIds, NoJob
    <3>3. \A k \in Instances : svc[k].job # NoJob => Claimed(svc[k].job)
      BY DEF DispatchInv, ClientInv, Holds
    <3>4. child[j].pc # "none" => Claimed(j)
      BY DEF DispatchInv, ClientInv, Serves
    <3> QED
      BY <3>1, <3>2, <3>3, <3>4
  <2>7. PICK token \in Nat, ver \in Nat : token = claims + 1 /\ ver = jobs[j].version + 1
    BY <2>4
  <2> DEFINE next == [svc[i] EXCEPT !.pc = "spawn", !.job = j, !.token = token, !.ver = ver]
  <2>8. /\ next \in SvcState /\ next.pc = "spawn" /\ next.job = j /\ next.token = token
        /\ next.held = svc[i].held /\ svc' = [svc EXCEPT ![i] = next]
    <3>1. svc' = [svc EXCEPT ![i] = next]
      BY <1>1, <2>7 DEF Set
    <3>2. j \in Nat
      BY DEF JobIds
    <3> QED
      BY <3>1, <3>2 DEF SvcState, SvcPc
  <2>9. PICK s \in SvcState : s = next
    BY <2>8
  <2> HIDE DEF next
  <2>10. Holds(i, s)'
    <3>1. Claimed(j)'
      BY <2>4 DEF Claimed, Runs
    <3> QED
      BY <1>0, <2>1, <2>2, <2>4, <2>6, <2>7, <2>8, <2>9, <3>1 DEF Holds
  <2>11. \A k \in JobIds : Serves(k, child'[k])
    BY <1>0 DEF DispatchInv, ClientInv
  <2> QED
    BY <1>0, <2>1, <2>2, <2>3, <2>5, <2>6, <2>8, <2>9, <2>10, <2>11, OneService
<1>2. CASE SvcGoto(i, "idle") /\ UNCHANGED ledger
  <2>1. PICK s \in SvcState : /\ s = [svc[i] EXCEPT !.pc = "idle", !.loop = svc[i].loop]
                              /\ Holds(i, s) /\ s.job = svc[i].job
    <3>1. svc[i].loop \in BOOLEAN
      BY DEF SvcState
    <3> QED
      BY <1>0, <3>1, GotoHolds DEF SvcPc
  <2>2. svc' = [svc EXCEPT ![i] = s]
    BY <1>2, <2>1 DEF SvcGoto, Set, SvcState
  <2> QED
    BY <1>0, <1>2, <2>1, <2>2, IdleService
<1> QED
  BY <1>0, <1>1, <1>2 DEF ClaimJob

\* A service moves and a child with it; the ledger stays.
LEMMA ServiceAndChild ==
    ASSUME DispatchInv, NEW i \in Instances, NEW s \in SvcState,
           svc' = [svc EXCEPT ![i] = s], UNCHANGED ledger, Holds(i, s)',
           s.job \in {NoJob, svc[i].job}, child' \in [JobIds -> ChildState],
           \A j \in JobIds : Serves(j, child'[j]),
           \A j \in JobIds : j = svc[i].job \/ Alive(j) \/ child'[j] = child[j]
    PROVE  DispatchInv'
<1>1. Quiet /\ lease' = lease
  BY StillQuiet DEF DispatchInv, ClientInv, ledger
<1>2. OneRunning' /\ OwnersLeased' /\ LedgerMove /\ LeaseRow'
  BY <1>1, QuietOne, OwnersStay DEF DispatchInv, ClientInv, Quiet
<1>3. s.job # NoJob => \A k \in Instances \ {i} : svc[k].job # s.job
  BY DEF DispatchInv, ClientInv, Apart
<1>4. \A k \in Instances \ {i} :
        svc[k].job \in JobIds /\ ~Alive(svc[k].job) => child'[svc[k].job] = child[svc[k].job]
  BY DEF DispatchInv, ClientInv, Apart, JobIds, NoJob
<1> QED
  BY <1>1, <1>2, <1>3, <1>4, OneService

LEMMA SpawnKeeps == ASSUME DispatchInv, NEW i \in Instances, Spawn(i) PROVE DispatchInv'
<1>k. Known(i)
  BY SvcFacts
<1> USE <1>k DEF Known
<1> DEFINE j == svc[i].job
<1>0. /\ svc[i].pc = "spawn" /\ j # NoJob /\ j \in JobIds /\ svc[i].held # 0
      /\ child[j].pc = "none" /\ Claimed(j)
      /\ Runs(j) => jobs[j].owner = FenceOf(i)
      /\ FenceOf(i) \in Fence /\ svc[i].token \in Nat
  BY FenceSeen DEF Spawn, Holds, SvcState
<1>1. ASSUME NEW pc \in {"idle", "fail"}, NEW c \in ChildState, SvcGoto(i, pc),
             child' = [child EXCEPT ![j] = c], Serves(j, c), pc = "fail" => c = Gone
      PROVE  DispatchInv'
  <2> DEFINE next == [svc[i] EXCEPT !.pc = pc]
  <2>1. /\ next \in SvcState /\ next.pc = pc /\ next.held = svc[i].held /\ next.job = j
        /\ next.token = svc[i].token /\ svc' = [svc EXCEPT ![i] = next]
    BY <1>1 DEF SvcState, SvcPc, SvcGoto, Set
  <2>2. PICK s \in SvcState : s = next
    BY <2>1
  <2> HIDE DEF next
  <2>3. Holds(i, s)'
    <3>1. UNCHANGED <<lease, jobs>>
      BY DEF Spawn, ledger
    <3>2. pc = "fail" => child'[j].pc = "gone"
      BY <1>0, <1>1, GoneIsChild
    <3> QED
      BY <1>0, <2>1, <2>2, <3>1, <3>2 DEF Holds, Claimed, Runs, Alive, Live
  <2>4. child' \in [JobIds -> ChildState] /\ \A k \in JobIds : Serves(k, child'[k])
    BY <1>0, <1>1 DEF DispatchInv, ClientInv
  <2> HIDE DEF j
  <2>5. \A k \in JobIds : k = svc[i].job \/ child'[k] = child[k]
    BY <1>1 DEF j
  <2> QED
    BY <2>1, <2>2, <2>3, <2>4, <2>5, ServiceAndChild DEF Spawn, j
<1>2. Serves(j, Gone) /\ Gone \in ChildState
  BY <1>0, GoneIsChild DEF Serves, Live
<1>3. CASE child' = [child EXCEPT ![j] = [pc |-> "boot", token |-> svc[i].token, fence |-> FenceOf(i),
                                          ver |-> 0, step |-> 0]]
           /\ SvcGoto(i, "idle")
  <2> DEFINE c == [pc |-> "boot", token |-> svc[i].token, fence |-> FenceOf(i),
                   ver |-> 0, step |-> 0]
  <2>1. c \in ChildState /\ Serves(j, c)
    BY <1>0 DEF ChildState, Serves, Live
  <2> HIDE DEF c
  <2>2. child' = [child EXCEPT ![j] = c]
    BY <1>3 DEF c
  <2> QED
    BY <1>1, <1>3, <2>1, <2>2
<1>4. CASE SvcGoto(i, "fail") /\ child' = [child EXCEPT ![j] = Gone]
  BY <1>1, <1>2, <1>4
<1> QED
  BY <1>3, <1>4 DEF Spawn

\* The steps that drop the local claim.
LEMMA Drops ==
    ASSUME DispatchInv, NEW i \in Instances, Done(i) \/ FallbackLocked(i)
    PROVE  \E lost \in SUBSET JobIds : svc' = [svc EXCEPT ![i] = Rest(i, lost)]
<1>1. CASE Done(i)
  BY <1>1 DEF Done, Set
<1>2. CASE FallbackLocked(i)
  <2>1. svc[i].job \in JobIds
    BY <1>2, SvcFacts DEF FallbackLocked, Known, Holds
  <2> QED
    BY <1>2, <2>1 DEF FallbackLocked, Set
<1> QED
  BY <1>1, <1>2

LEMMA FallbackKeeps == ASSUME DispatchInv, NEW i \in Instances, Fallback(i) PROVE DispatchInv'
<1>k. Known(i)
  BY SvcFacts
<1> USE <1>k DEF Known
<1>0. svc[i].pc = "fallback" /\ svc[i].job \in JobIds /\ UNCHANGED <<ledger, child>>
  BY DEF Fallback, Holds
<1>1. CASE Set(i, [svc[i] EXCEPT !.pc = "fail", !.ver = jobs[svc[i].job].version])
  <2> DEFINE s == [svc[i] EXCEPT !.pc = "fail", !.ver = jobs[svc[i].job].version]
  <2>1. /\ s \in SvcState /\ s.pc = "fail" /\ s.held = svc[i].held /\ s.job = svc[i].job
        /\ s.token = svc[i].token /\ svc' = [svc EXCEPT ![i] = s]
    BY <1>0, <1>1 DEF SvcState, SvcPc, Set, TypeOK, Row
  <2> HIDE DEF s
  <2>2. Holds(i, s)
    BY <1>0, <2>1 DEF Holds
  <2> QED
    BY <1>0, <2>1, <2>2, IdleService
<1>2. CASE Done(i)
  BY <1>0, <1>2, Drops, RestHolds, IdleService
<1> QED
  BY <1>1, <1>2 DEF Fallback

LEMMA FailKeeps ==
    ASSUME DispatchInv, NEW i \in Instances, FailOwnedClaim(i) \/ FallbackLocked(i)
    PROVE  DispatchInv'
<1>k. Known(i)
  BY SvcFacts
<1> USE <1>k DEF Known
<1>0. UNCHANGED child /\ (Done(i) \/ FallbackLocked(i))
  BY DEF FailOwnedClaim, FallbackLocked
<1>1. CASE UNCHANGED ledger
  BY <1>0, <1>1, Drops, RestHolds, IdleService
<1>2. CASE FailOwnedClaim(i)
           /\ FailClaimed(svc[i].job, svc[i].token, svc[i].ver, FenceOf(i), "worker_interrupted")
  <2>1. svc[i].job \in With("running") /\ Writes(svc[i].job)
    <3>1. svc[i].job \in JobIds
      BY <1>2 DEF FailOwnedClaim, Holds
    <3> QED
      BY <1>2, <3>1 DEF FailClaimed, Owned, With, Writes, WorkerWrite, Failure
  <2>2. Quiet /\ lease' = lease
    BY <2>1, WritesQuietly
  <2>3. PICK s \in SvcState : svc' = [svc EXCEPT ![i] = s] /\ Holds(i, s) /\ s.job = NoJob
    BY <1>0, Drops, RestHolds
  <2>4. Holds(i, s)'
    BY <2>2, <2>3, HoldsStays, <1>0 DEF Quiet
  <2> QED
    BY <1>0, <2>2, <2>3, <2>4, QuietService
<1> QED
  BY <1>1, <1>2 DEF FailOwnedClaim, FallbackLocked

\* Terminating an owned child, as StopOwnedChild and Shutdown do.
Terminated(i) == [j \in JobIds |-> IF j = svc[i].job /\ Alive(j) THEN Gone ELSE child[j]]

LEMMA TerminatedServes ==
    ASSUME DispatchInv, NEW i \in Instances
    PROVE  /\ Terminated(i) \in [JobIds -> ChildState]
           /\ \A j \in JobIds : Serves(j, Terminated(i)[j])
           /\ \A j \in JobIds : Alive(j) \/ Terminated(i)[j] = child[j]
           /\ svc[i].job \in JobIds => Terminated(i)[svc[i].job].pc \notin Live
<1>k. Known(i)
  BY SvcFacts
<1> USE <1>k DEF Known
<1>1. ASSUME NEW j \in JobIds, Alive(j) PROVE Serves(j, Gone)
  BY <1>1, GoneIsChild DEF DispatchInv, ClientInv, Serves, Alive, Live
<1>2. \A j \in JobIds : Serves(j, child[j])
  BY DEF DispatchInv, ClientInv
<1>3. \A j \in JobIds : Serves(j, Terminated(i)[j])
  BY <1>1, <1>2 DEF Terminated
<1> QED
  BY <1>3, GoneIsChild DEF Terminated, Alive, Live

LEMMA StopKeeps == ASSUME DispatchInv, NEW i \in Instances, StopOwnedChild(i) PROVE DispatchInv'
<1>1. PICK s \in SvcState : svc' = [svc EXCEPT ![i] = s] /\ Holds(i, s) /\ s.job = NoJob
  BY Drops, RestHolds DEF StopOwnedChild
<1>2. svc' = [svc EXCEPT ![i] = s] /\ child' = Terminated(i) /\ UNCHANGED ledger
  BY <1>1 DEF StopOwnedChild, Terminated
<1>3. Holds(i, s)'
  BY <1>1, <1>2 DEF Holds, ledger
<1> QED
  BY <1>1, <1>2, <1>3, TerminatedServes, ServiceAndChild

LEMMA ShutdownKeeps == ASSUME DispatchInv, NEW i \in Instances, Shutdown(i) PROVE DispatchInv'
<1>k. Known(i)
  BY SvcFacts
<1> USE <1>k DEF Known
<1>0. svc[i].pc = "idle" /\ child' = Terminated(i) /\ UNCHANGED ledger
  BY DEF Shutdown, Terminated
<1>1. CASE svc[i].job = NoJob
  <2>1. PICK s \in SvcState : s = Dead /\ Holds(i, s) /\ s.job = NoJob
    BY DeadHolds
  <2>2. svc' = [svc EXCEPT ![i] = s] /\ Holds(i, s)'
    BY <1>0, <1>1, <2>1 DEF Shutdown, Set, Holds, ledger
  <2> QED
    BY <1>0, <2>1, <2>2, TerminatedServes, ServiceAndChild
<1>2. CASE svc[i].job # NoJob
  <2> DEFINE next == [svc[i] EXCEPT !.pc = "fallback", !.loop = FALSE]
  <2>1. /\ next \in SvcState /\ next.pc = "fallback" /\ next.held = svc[i].held
        /\ next.job = svc[i].job /\ next.token = svc[i].token
        /\ svc' = [svc EXCEPT ![i] = next]
    BY <1>2 DEF SvcState, SvcPc, Set, Shutdown
  <2>2. PICK s \in SvcState : s = next
    BY <2>1
  <2> HIDE DEF next
  <2>3. Holds(i, s)'
    <3>1. UNCHANGED <<lease, jobs>>
      BY <1>0 DEF ledger
    <3>2. svc[i].job \in JobIds /\ child'[svc[i].job].pc \notin Live
      BY <1>0, <1>2, TerminatedServes DEF Holds
    <3> QED
      BY <1>0, <1>2, <2>1, <2>2, <3>1, <3>2 DEF Holds, Claimed, Runs, Alive
  <2> QED
    BY <1>0, <2>1, <2>2, <2>3, TerminatedServes, ServiceAndChild
<1> QED
  BY <1>1, <1>2

LEMMA CrashKeeps == ASSUME DispatchInv, NEW i \in Instances, Crash(i) PROVE DispatchInv'
  BY DeadHolds, IdleService DEF Crash, Set

-----------------------------------------------------------------------------
(* The steps of everyone else.                                              *)

\* The services stand still.
LEMMA OthersKeep ==
    ASSUME DispatchInv, Quiet, UNCHANGED svc, lease'.instance = lease.instance,
           child' \in [JobIds -> ChildState],
           \A j \in JobIds : Serves(j, child'[j]),
           \A j \in JobIds : Alive(j) \/ child'[j] = child[j]
    PROVE  DispatchInv'
<1>1. LedgerInv' /\ ClientTypeOK' /\ Apart'
  BY MoveKeeps DEF DispatchInv, ClientInv, ClientTypeOK, Apart, Quiet
<1>2. OneRunning' /\ OwnersLeased' /\ LeaseRow'
  BY QuietOne, OwnersStay DEF DispatchInv, ClientInv, Quiet
<1>3. ASSUME NEW k \in Instances PROVE Holds(k, svc[k])'
  <2>1. PICK t \in SvcState : t = svc[k] /\ Holds(k, t)
    BY DEF DispatchInv, ClientInv, ClientTypeOK
  <2>2. Holds(k, t)'
    BY <2>1, HoldsStays DEF DispatchInv, Quiet
  <2> QED
    BY <2>1, <2>2 DEF Holds
<1>4. ASSUME NEW j \in JobIds PROVE Serves(j, child[j])'
  <2>1. PICK c \in ChildState : c = child'[j]
    OBVIOUS
  <2>2. Serves(j, c)'
    BY <2>1, ServesStays DEF DispatchInv, Quiet
  <2> QED
    BY <2>1, <2>2 DEF Serves
<1> QED
  BY <1>1, <1>2, <1>3, <1>4 DEF DispatchInv, ClientInv

LEMMA ChildKeeps ==
    ASSUME DispatchInv, NEW j \in JobIds, ChildStep(j) \/ ChildDies(j), UNCHANGED svc
    PROVE  DispatchInv'
<1>1. Alive(j) /\ ChildMoves(j)
  BY ChildActs DEF DispatchInv, ClientInv, LedgerInv
<1>2. PICK c \in ChildState : /\ child' = [child EXCEPT ![j] = c]
                              /\ c = Gone \/ (c.pc \in Live /\ c.fence = child[j].fence)
  BY <1>1 DEF ChildMoves
<1>3. Serves(j, c)
  BY <1>1, <1>2, GoneIsChild DEF DispatchInv, ClientInv, Serves, Alive, Live
<1>4. /\ child' \in [JobIds -> ChildState]
      /\ \A k \in JobIds : Serves(k, child'[k])
      /\ \A k \in JobIds : Alive(k) \/ child'[k] = child[k]
  BY <1>1, <1>2, <1>3 DEF DispatchInv, ClientInv, ClientTypeOK
<1>5. Quiet /\ lease' = lease
  <2>1. CASE UNCHANGED ledger
    BY <2>1, StillQuiet DEF DispatchInv, ClientInv, ledger
  <2>2. CASE Runs(j) /\ Writes(j)
    BY <2>2, WritesQuietly DEF DispatchInv, ClientInv, Runs, With
  <2> QED
    BY <2>1, <2>2, ChildWrites DEF DispatchInv
<1> QED
  BY <1>4, <1>5, OthersKeep

LEMMA EnvironmentKeeps == ASSUME DispatchInv, Expires \/ UserStep PROVE DispatchInv'
<1>1. Quiet /\ lease'.instance = lease.instance
  <2>1. CASE Expires
    BY <2>1, LeaseQuiet DEF Expires, ExpireLease, DispatchInv, ClientInv, LedgerInv, TypeOK
  <2>2. CASE UserStep
    <3>1. \A j \in JobIds : jobs[j].version \in Nat
      BY DEF DispatchInv, LedgerInv, TypeOK, Row
    <3> QED
      BY <2>2, <3>1, WritesQuietly DEF UserStep, DispatchInv, ClientInv
  <2> QED
    BY <2>1, <2>2
<1> QED
  BY <1>1, OthersKeep DEF Expires, UserStep, DispatchInv, ClientInv, ClientTypeOK

LEMMA DispatchKeeps == ASSUME DispatchInv, DispatchNext PROVE DispatchInv'
  BY StartKeeps, HeartbeatKeeps, ReconcileKeeps, PollKeeps, ClaimKeeps, SpawnKeeps,
     FallbackKeeps, FailKeeps, StopKeeps, ShutdownKeeps, CrashKeeps, ChildKeeps,
     EnvironmentKeeps DEF DispatchNext, ServiceStep

LEMMA DispatchStarts == DispatchInit => DispatchInv
<1> SUFFICES ASSUME DispatchInit PROVE DispatchInv
  OBVIOUS
<1>1. LedgerInv /\ Init
  BY InitInv DEF DispatchInit
<1>2. /\ Fresh \in SvcState /\ Fresh.pc = "new" /\ Fresh.held = 0 /\ Fresh.job = NoJob
      /\ Unborn \in ChildState /\ Unborn.pc = "none"
  BY DEF Fresh, SvcState, SvcPc, NoJob, Unborn, ChildState, NoFence, Fence
<1>3. ClientTypeOK
  BY <1>2 DEF ClientTypeOK, DispatchInit, ChildInit
<1>4. With("running") = {} /\ OneRunning /\ OwnersLeased /\ LeaseRow
  BY <1>1 DEF Init, With, OneRunning, OwnersLeased, LeaseRow, AbsentRow, NewRow
<1>5. Apart
  BY <1>2 DEF Apart, DispatchInit
<1>6. ASSUME NEW i \in Instances PROVE Holds(i, svc[i])
  <2>1. svc[i] = Fresh /\ lease.generation = 0 /\ lease.instance = NoInstance /\ i # NoInstance
    BY <1>1, LedgerAssumption DEF DispatchInit, Init
  <2> QED
    BY <1>2, <2>1 DEF Holds
<1>7. ASSUME NEW j \in JobIds PROVE Serves(j, child[j])
  BY <1>2 DEF Serves, DispatchInit, ChildInit, Live
<1> QED
  BY <1>1, <1>3, <1>4, <1>5, <1>6, <1>7 DEF DispatchInv, ClientInv

LEMMA DispatchAlways == DispatchSafety => []DispatchInv
<1>1. DispatchInv /\ [DispatchNext]_vars => DispatchInv'
  <2> SUFFICES ASSUME DispatchInv, [DispatchNext]_vars PROVE DispatchInv'
    OBVIOUS
  <2>1. CASE UNCHANGED vars
    <3>1. UNCHANGED <<ledger, child, svc>> /\ Quiet /\ lease' = lease
      BY <2>1, StillQuiet DEF vars, ledger, DispatchInv, ClientInv
    <3> QED
      BY <3>1, OthersKeep DEF DispatchInv, ClientInv, ClientTypeOK
  <2> QED
    BY <2>1, DispatchKeeps
<1> QED
  BY <1>1, DispatchStarts, PTL DEF DispatchSafety

-----------------------------------------------------------------------------
(* The clients serve the queue.                                             *)

\* Whatever the clients do to the ledger is one step of a handler.
LEMMA ClientsHandled ==
    ASSUME DispatchInv, DispatchNext
    PROVE  UNCHANGED ledger \/ Handled
<1>1. ASSUME NEW i \in Instances, ServiceStep(i) \/ Shutdown(i) \/ Crash(i)
      PROVE  UNCHANGED ledger \/ Handled
  <2>k. Known(i)
    BY SvcFacts
  <2>1. CASE Start(i) \/ Heartbeat(i)
    BY <2>1 DEF Start, Heartbeat, Handled
  <2>2. CASE ReconcileHeld(i)
    BY <2>2 DEF ReconcileHeld, Handled
  <2>3. CASE ClaimJob(i)
    <3>1. FenceOf(i) \in Fences
      BY <2>3, <2>k, FenceSeen DEF ClaimJob, Known, Holds
    <3> QED
      BY <2>3, <3>1 DEF ClaimJob, Handled
  <2>4. CASE FailOwnedClaim(i)
    <3>1. svc[i].job \in JobIds
      BY <2>4, <2>k DEF FailOwnedClaim, Known, Holds
    <3>2. ASSUME FailClaimed(svc[i].job, svc[i].token, svc[i].ver, FenceOf(i), "worker_interrupted")
          PROVE  Handled
      <4>1. svc[i].job \in With("running")
        BY <3>1, <3>2 DEF FailClaimed, Owned, With
      <4>2. WorkerWrite(svc[i].job, svc[i].token, svc[i].ver, FenceOf(i))
        BY <3>2 DEF WorkerWrite, Failure
      <4> QED
        BY <4>1, <4>2 DEF Handled
    <3> QED
      BY <2>4, <3>2 DEF FailOwnedClaim
  <2>5. CASE \/ PollChild(i) \/ Spawn(i) \/ Fallback(i) \/ FallbackLocked(i)
             \/ StopOwnedChild(i) \/ Shutdown(i) \/ Crash(i)
    BY <2>5 DEF PollChild, Spawn, Fallback, FallbackLocked, StopOwnedChild, Shutdown, Crash
  <2> QED
    BY <1>1, <2>1, <2>2, <2>3, <2>4, <2>5 DEF ServiceStep
<1>2. ASSUME NEW j \in JobIds, ChildStep(j) \/ ChildDies(j) PROVE UNCHANGED ledger \/ Handled
  <2>1. CASE Runs(j) /\ Writes(j)
    BY <2>1 DEF Runs, Writes, With, Handled
  <2> QED
    BY <1>2, <2>1, ChildWrites DEF DispatchInv
<1>3. CASE Expires
  BY <1>3 DEF Expires, Handled
<1>4. CASE UserStep
  <2>1. \A j \in JobIds : jobs[j].version \in Nat
    BY DEF DispatchInv, LedgerInv, TypeOK, Row
  <2> QED
    BY <1>4, <2>1 DEF UserStep, Handled, Ask
<1> QED
  BY <1>1, <1>2, <1>3, <1>4 DEF DispatchNext

\* So it is a move of the tables.
LEMMA ClientsMove == ASSUME DispatchInv, DispatchNext PROVE LedgerMove
<1>1. CASE UNCHANGED ledger
  BY <1>1, StillQuiet DEF DispatchInv, ClientInv, Quiet
<1>2. CASE Handled
  BY <1>2, HandledMoves DEF DispatchInv
<1> QED
  BY <1>1, <1>2, ClientsHandled

\* Any number of application processes with their children, through crashes,
\* takeovers, late heartbeats and locked writes, serve the jobs one at a time
\* in order of arrival and never answer an acknowledged cancellation by success.
THEOREM DispatchServesSerially == DispatchSafety => ServesSerially
<1>1. DispatchInv /\ [DispatchNext]_vars => [Queue!Next]_<<Phases, Wishes>>
  <2>1. ASSUME UNCHANGED ledger PROVE Phases' = Phases /\ Wishes' = Wishes
    BY <2>1 DEF ledger, Phases, Wishes
  <2>2. ASSUME DispatchInv, DispatchNext PROVE [Queue!Next]_<<Phases, Wishes>>
    BY <2>1, <2>2, ClientsHandled, HandledServes DEF DispatchInv
  <2> QED
    BY <2>1, <2>2 DEF vars
<1>2. DispatchInit => Queue!Init
  BY QueueInit DEF DispatchInit
<1> QED
  BY <1>1, <1>2, DispatchAlways, PTL
     DEF DispatchSafety, ServesSerially, Queue!Spec, Phases, Wishes

-----------------------------------------------------------------------------
(* Who may touch a running job.                                             *)

\* Its own child, which holds the lease; its owner, once the child has ended; a
\* holder of the lease that is not its owner; a user who cancels it.
Undisturbed(j) == jobs'[j] = jobs[j] /\ staging' = staging
Cancels(j) == jobs'[j] = [jobs[j] EXCEPT !.cancel = TRUE, !.version = @ + 1] /\ staging' = staging
Interrupts(j) ==
    /\ jobs'[j].status = "failed" /\ jobs'[j].failure = "worker_interrupted"
    /\ staging' = staging
    /\ \/ ~Alive(j)
       \/ \E i \in Instances : svc[i].pc = "reconcile" /\ j \in Abandoned(FenceOf(i))
ServedBy(j) ==
    /\ Alive(j) /\ OwnerIsCurrent(j)
    /\ jobs'[j].failure # "worker_interrupted"

LEMMA OwnersFence ==
    ASSUME DispatchInv, NEW j \in JobIds, Runs(j)
    PROVE  /\ lease.generation # 0
           /\ jobs[j].owner \in Fence
           /\ jobs[j].owner.generation <= lease.generation
           /\ jobs[j].owner.instance \in Instances
           /\ FenceHolds(jobs[j].owner) => OwnerIsCurrent(j)
           /\ OwnerIsCurrent(j) =>
                jobs[j].owner = [instance |-> lease.instance, generation |-> lease.generation]
<1>1. /\ jobs[j].owner.instance \in Instances /\ jobs[j].owner.generation <= lease.generation
      /\ jobs[j].owner.instance # NoInstance /\ jobs[j].owner \in Fence
      /\ (jobs[j].owner.instance = NoInstance) = (jobs[j].owner.generation = 0)
  BY LedgerAssumption DEF DispatchInv, ClientInv, OwnersLeased, LedgerInv, TypeOK, Row, With, Runs,
     ChecksHold, Existing
<1>2. jobs[j].owner.generation \in Nat /\ lease.generation \in Nat
  BY <1>1 DEF Fence, DispatchInv, LedgerInv, TypeOK
<1>3. lease.generation # 0
  BY <1>1, <1>2
<1>4. FenceHolds(jobs[j].owner) => OwnerIsCurrent(j)
  BY <1>3 DEF FenceHolds, OwnerIsCurrent
<1>5. OwnerIsCurrent(j) =>
        jobs[j].owner = [instance |-> lease.instance, generation |-> lease.generation]
  BY <1>1 DEF OwnerIsCurrent, Fence
<1> QED
  BY <1>1, <1>3, <1>4, <1>5

LEMMA RunningRow ==
    ASSUME DispatchInv, DispatchNext, NEW j \in JobIds, Runs(j)
    PROVE  Undisturbed(j) \/ Cancels(j) \/ Interrupts(j) \/ ServedBy(j)
<1>0. /\ jobs[j] \in Row /\ jobs \in [JobIds -> Row] /\ j \in With("running") /\ j \in Existing
      /\ jobs[j].status # "queued" /\ jobs[j].status # "absent"
      /\ \A k \in JobIds : Runs(k) => k = j
  BY DEF DispatchInv, LedgerInv, TypeOK, With, Existing, Runs, OneRunning
<1>i. ASSUME NEW row, jobs'[j] = [Closed(jobs[j], "failed", "worker_interrupted")
                                  EXCEPT !.version = jobs[j].version + 1]
      PROVE  jobs'[j].status = "failed" /\ jobs'[j].failure = "worker_interrupted"
  BY <1>0, <1>i DEF Closed, Row
<1>1. ASSUME NEW i \in Instances, ServiceStep(i) \/ Shutdown(i) \/ Crash(i)
      PROVE  Undisturbed(j) \/ Interrupts(j)
  <2>k. Known(i)
    BY SvcFacts
  <2>1. CASE Start(i) \/ Heartbeat(i)
    BY <2>1 DEF Start, Heartbeat, AcquireOrRenew, ledger, Undisturbed
  <2>2. CASE ReconcileHeld(i)
    <3>1. CASE UNCHANGED ledger
      BY <3>1 DEF ledger, Undisturbed
    <3>2. CASE Reconcile(FenceOf(i))
      <4>1. CASE j \in Abandoned(FenceOf(i))
        BY <1>i, <2>2, <3>2, <4>1 DEF Reconcile, ReconcileHeld, Interrupts
      <4>2. CASE j \notin Abandoned(FenceOf(i))
        BY <3>2, <4>2, Zenon DEF Reconcile, Undisturbed
      <4> QED
        BY <4>1, <4>2
    <3> QED
      BY <2>2, <3>1, <3>2 DEF ReconcileHeld
  <2>3. CASE ClaimJob(i)
    BY <1>0, <2>3 DEF ClaimJob, ClaimNext, ledger, Undisturbed
  <2>4. CASE FailOwnedClaim(i)
    <3>1. svc[i].job \in JobIds /\ ~Alive(svc[i].job)
      BY <2>4, <2>k DEF FailOwnedClaim, Known, Holds
    <3>2. CASE FailClaimed(svc[i].job, svc[i].token, svc[i].ver, FenceOf(i), "worker_interrupted")
      <4>1. svc[i].job = j
        BY <1>0, <3>1, <3>2 DEF FailClaimed, Owned, Runs
      <4>2. jobs'[j] = [Closed(jobs[j], "failed", "worker_interrupted")
                        EXCEPT !.version = jobs[j].version + 1]
        BY <1>0, <3>2, <4>1 DEF FailClaimed, Write
      <4> QED
        BY <1>i, <3>1, <3>2, <4>1, <4>2 DEF FailClaimed, Interrupts
    <3>3. CASE UNCHANGED ledger
      BY <3>3 DEF ledger, Undisturbed
    <3> QED
      BY <2>4, <3>2, <3>3 DEF FailOwnedClaim
  <2>5. CASE \/ PollChild(i) \/ Spawn(i) \/ Fallback(i) \/ FallbackLocked(i)
             \/ StopOwnedChild(i) \/ Shutdown(i) \/ Crash(i)
    BY <2>5 DEF PollChild, Spawn, Fallback, FallbackLocked, StopOwnedChild, Shutdown, Crash,
       ledger, Undisturbed
  <2> QED
    BY <1>1, <2>1, <2>2, <2>3, <2>4, <2>5 DEF ServiceStep
<1>2. ASSUME NEW k \in JobIds, ChildStep(k) \/ ChildDies(k) PROVE Undisturbed(j) \/ ServedBy(j)
  <2>1. CASE UNCHANGED ledger
    BY <2>1 DEF ledger, Undisturbed
  <2>2. CASE Runs(k) /\ FenceHolds(child[k].fence) /\ jobs'[k].failure # "worker_interrupted"
    <3>1. k = j /\ Alive(j)
      BY <1>0, <1>2, <2>2, ChildActs DEF DispatchInv, ClientInv, LedgerInv
    <3>2. child[j].fence = jobs[j].owner
      BY <3>1 DEF DispatchInv, ClientInv, Serves, Alive
    <3> QED
      BY <2>2, <3>1, <3>2, OwnersFence DEF ServedBy
  <2> QED
    BY <1>2, <2>1, <2>2, ChildWrites DEF DispatchInv
<1>3. CASE Expires
  BY <1>3 DEF Expires, ExpireLease, Undisturbed
<1>4. CASE UserStep
  <2>1. ASSUME NEW k \in JobIds, Submit(k, NoJob) PROVE Undisturbed(j)
    <3>1. k # j /\ staging' = staging
      BY <1>0, <2>1 DEF Submit, CreateInitialization, CreateBootstrap, CreatePreparation,
         CreateStageJob, CreateBacktest, NextSeq
    <3>2. \E row : Insert(k, row)
      BY <2>1 DEF Submit, CreateInitialization, CreateBootstrap, CreatePreparation,
         CreateStageJob, CreateBacktest
    <3> QED
      BY <3>1, <3>2 DEF Insert, Undisturbed
  <2>2. ASSUME NEW k \in JobIds, RequestCancellation(k, jobs[k].version)
        PROVE  Undisturbed(j) \/ Cancels(j)
    <3>1. staging' = staging /\ \E row : Write(k, row)
      BY <2>2 DEF RequestCancellation
    <3>2. CASE k # j
      BY <3>1, <3>2 DEF Write, Undisturbed
    <3>3. CASE k = j
      <4>1. Write(j, [jobs[j] EXCEPT !.cancel = TRUE])
        BY <1>0, <2>2, <3>3 DEF RequestCancellation
      <4> QED
        BY <1>0, <3>1, <4>1 DEF Write, Row, Cancels
    <3> QED
      BY <3>2, <3>3
  <2> QED
    BY <1>4, <2>1, <2>2 DEF UserStep
<1> QED
  BY <1>1, <1>2, <1>3, <1>4 DEF DispatchNext

\* Once the lease has moved on, nothing the evicted process or its orphaned
\* child still does reaches the job: it can only be marked cancelled or be
\* interrupted, and stages nothing.
THEOREM EvictedWritesAlwaysLost == DispatchSafety => EvictedWritesLost
<1> DEFINE Lost ==
      \A j \in With("running") : ~OwnerIsCurrent(j) =>
        /\ \/ jobs'[j] = jobs[j]
           \/ jobs'[j] = [jobs[j] EXCEPT !.cancel = TRUE, !.version = @ + 1]
           \/ jobs'[j].status = "failed" /\ jobs'[j].failure = "worker_interrupted"
        /\ j \in staging' => j \in staging
<1>1. ASSUME DispatchInv, DispatchNext PROVE Lost
  BY <1>1, RunningRow DEF With, Runs, Undisturbed, Cancels, Interrupts, ServedBy
<1>2. DispatchInv /\ [DispatchNext]_vars => [Lost]_vars
  BY <1>1
<1> QED
  BY <1>2, DispatchAlways, PTL DEF DispatchSafety, EvictedWritesLost

-----------------------------------------------------------------------------
(* Processes that renew in time.                                            *)

\* Whoever acts.
LEMMA WhoActs ==
    ASSUME DispatchNext, NEW k \in Instances, DispatchInv
    PROVE  svc'[k] = svc[k] \/ ServiceStep(k) \/ Shutdown(k) \/ Crash(k)
<1>k. svc \in [Instances -> SvcState]
  BY SvcFacts DEF Known
<1>1. ASSUME NEW i \in Instances, i # k, ServiceStep(i) \/ Shutdown(i) \/ Crash(i)
      PROVE  svc'[k] = svc[k]
  BY <1>k, <1>1 DEF ServiceStep, Start, Heartbeat, ReconcileHeld, PollChild, ClaimJob, Spawn,
     Fallback, FailOwnedClaim, FallbackLocked, StopOwnedChild, Shutdown, Crash, Done, SvcGoto, Set
<1>2. ASSUME UNCHANGED svc PROVE svc'[k] = svc[k]
  BY <1>2
<1> QED
  BY <1>1, <1>2 DEF DispatchNext, Expires, UserStep

\* The lease moves at a start, at a heartbeat and when it expires, no earlier.
Acquires(i) ==
    /\ svc[i].pc \in {"new", "idle"}
    /\ AcquireOrRenew(i) /\ UNCHANGED child
    /\ svc'[i].held = lease'.generation /\ svc'[i].job = svc[i].job
    /\ svc'[i].pc = IF svc[i].held = lease'.generation THEN "dispatch" ELSE "reconcile"
    /\ svc[i].held # 0 => svc'[i].skipped = svc[i].skipped
    /\ \A k \in Instances \ {i} : svc'[k] = svc[k]

LEMMA AcquiredState ==
    ASSUME DispatchInv, NEW i \in Instances, AcquireOrRenew(i)
    PROVE  lease'.generation \in Nat \ {0} /\ lease'.instance = i /\ ~lease'.expired
<1>1. Quiet /\ lease'.instance = i /\ ~lease'.expired
  BY LeaseQuiet DEF AcquireOrRenew, DispatchInv, ClientInv
<1> QED
  BY <1>1, LedgerAssumption DEF Quiet, LeaseRow, LedgerMove, TypeOK

LEMMA LeaseMovesWhen ==
    ASSUME DispatchInv, DispatchNext
    PROVE  \/ lease' = lease /\ \A k \in Instances : svc'[k].held \in {0, svc[k].held}
           \/ Expires
           \/ \E i \in Instances : Acquires(i)
<1> DEFINE Stays == lease' = lease /\ \A k \in Instances : svc'[k].held \in {0, svc[k].held}
<1>1. ASSUME NEW i \in Instances, ServiceStep(i) \/ Shutdown(i) \/ Crash(i)
      PROVE  Stays \/ Acquires(i)
  <2>k. Known(i)
    BY SvcFacts
  <2>1. CASE Start(i) /\ AcquireOrRenew(i)
    <3>1. svc' = [svc EXCEPT ![i] = [Fresh EXCEPT !.pc = "reconcile", !.held = lease'.generation]]
      BY <2>1 DEF Start, Set, LeaseFree, AcquireOrRenew
    <3>2. svc[i].held = 0 /\ svc[i].job = NoJob /\ svc[i].pc = "new"
      BY <2>1, <2>k DEF Start, Known, Holds
    <3> QED
      BY <2>1, <2>k, <3>1, <3>2, AcquiredState DEF Start, Fresh, Known, Acquires
  <2>2. CASE Heartbeat(i) /\ AcquireOrRenew(i)
    <3>1. svc' = [svc EXCEPT ![i] = [svc[i] EXCEPT
                     !.pc = IF svc[i].held = lease'.generation THEN "dispatch" ELSE "reconcile",
                     !.held = lease'.generation]]
      BY <2>2 DEF Heartbeat, Set, LeaseFree, AcquireOrRenew
    <3> QED
      BY <2>2, <2>k, <3>1 DEF Heartbeat, Known, SvcState, Acquires
  <2>a. ASSUME NEW s, svc' = [svc EXCEPT ![i] = s], s.held \in {0, svc[i].held}, lease' = lease
        PROVE  Stays
    BY <2>k, <2>a DEF Known
  <2>b. /\ Dead.held = 0
        /\ \A t \in SvcState, pc \in SvcPc, ver \in Nat, loop \in BOOLEAN :
             /\ [t EXCEPT !.pc = pc].held = t.held
             /\ [t EXCEPT !.pc = pc, !.loop = loop].held = t.held
             /\ [t EXCEPT !.pc = pc, !.ver = ver].held = t.held
             /\ [t EXCEPT !.pc = pc, !.held = 0].held = 0
    BY DEF Dead, Fresh, SvcState
  <2>c. svc[i] \in SvcState
    BY <2>k DEF Known
  <2>d. \A lost \in SUBSET JobIds : Rest(i, lost).held \in {0, svc[i].held}
    BY <2>c DEF Rest, Dead, Fresh, SvcState
  <2>3. CASE (Start(i) \/ Heartbeat(i)) /\ ~AcquireOrRenew(i)
    <3>1. lease' = lease
      BY <2>3 DEF Start, Heartbeat, ledger
    <3>2. \/ svc' = [svc EXCEPT ![i] = [Fresh EXCEPT !.pc = "idle", !.loop = TRUE]]
          \/ svc' = [svc EXCEPT ![i] = [svc[i] EXCEPT !.pc = "stop", !.held = 0]]
      BY <2>3 DEF Start, Heartbeat, Set
    <3>3. [Fresh EXCEPT !.pc = "idle", !.loop = TRUE].held = 0
      BY DEF Fresh
    <3> QED
      BY <2>a, <2>b, <2>c, <3>1, <3>2, <3>3 DEF SvcPc
  <2>4. CASE ReconcileHeld(i)
    <3>1. lease' = lease
      BY <2>4 DEF ReconcileHeld, Reconcile, ledger
    <3>2. \/ svc' = [svc EXCEPT ![i] = Dead]
          \/ svc' = [svc EXCEPT ![i] = [svc[i] EXCEPT !.pc = "idle", !.skipped = svc[i].held]]
          \/ \E pc \in SvcPc : svc' = [svc EXCEPT ![i] = [svc[i] EXCEPT !.pc = pc, !.loop = TRUE]]
      BY <2>4 DEF ReconcileHeld, Set, SvcPc
    <3>3. [svc[i] EXCEPT !.pc = "idle", !.skipped = svc[i].held].held = svc[i].held
      BY <2>c DEF SvcState
    <3> QED
      BY <2>a, <2>b, <2>c, <3>1, <3>2, <3>3
  <2>5. CASE ClaimJob(i) \/ PollChild(i)
    <3>1. lease' = lease
      BY <2>5 DEF ClaimJob, ClaimNext, PollChild, ledger
    <3>2. CASE \E pc \in SvcPc : svc' = [svc EXCEPT ![i] = [svc[i] EXCEPT !.pc = pc]]
      BY <2>a, <2>b, <2>c, <3>1, <3>2
    <3>3. ASSUME NEW j, NEW token, NEW ver,
                 svc' = [svc EXCEPT ![i] = [svc[i] EXCEPT !.pc = "spawn", !.job = j,
                                                          !.token = token, !.ver = ver]]
          PROVE  Stays
      <4>1. [svc[i] EXCEPT !.pc = "spawn", !.job = j, !.token = token, !.ver = ver].held
              = svc[i].held
        BY <2>c DEF SvcState
      <4> QED
        BY <2>a, <3>1, <3>3, <4>1
    <3>4. CASE PollChild(i) \/ SvcGoto(i, "idle")
      BY <3>2, <3>4 DEF PollChild, SvcGoto, Set, SvcPc
    <3>5. ASSUME NEW j \in JobIds,
                 Set(i, [svc[i] EXCEPT !.pc = "spawn", !.job = j, !.token = claims + 1,
                                       !.ver = jobs[j].version + 1])
          PROVE  Stays
      BY <3>3, <3>5 DEF Set
    <3> QED
      BY <2>5, <3>4, <3>5 DEF ClaimJob
  <2>6. CASE Spawn(i) \/ Fallback(i)
    <3>1. lease' = lease
      BY <2>6 DEF Spawn, Fallback, ledger
    <3>2. \/ \E pc \in SvcPc : svc' = [svc EXCEPT ![i] = [svc[i] EXCEPT !.pc = pc]]
          \/ \E ver : svc' = [svc EXCEPT ![i] = [svc[i] EXCEPT !.pc = "fail", !.ver = ver]]
          \/ \E lost \in SUBSET JobIds : svc' = [svc EXCEPT ![i] = Rest(i, lost)]
      BY <2>6, Drops DEF Spawn, Fallback, Set, SvcGoto, SvcPc
    <3>3. \A ver : [svc[i] EXCEPT !.pc = "fail", !.ver = ver].held = svc[i].held
      BY <2>c DEF SvcState
    <3> QED
      BY <2>a, <2>b, <2>c, <2>d, <3>1, <3>2, <3>3
  <2>7. CASE FailOwnedClaim(i) \/ FallbackLocked(i) \/ StopOwnedChild(i)
    <3>1. lease' = lease
      BY <2>7 DEF FailOwnedClaim, FailClaimed, FallbackLocked, StopOwnedChild, ledger
    <3>2. \E lost \in SUBSET JobIds : svc' = [svc EXCEPT ![i] = Rest(i, lost)]
      BY <2>7, Drops DEF FailOwnedClaim, StopOwnedChild
    <3> QED
      BY <2>a, <2>d, <3>1, <3>2
  <2>8. CASE Shutdown(i) \/ Crash(i)
    <3>1. lease' = lease
      BY <2>8 DEF Shutdown, Crash, ledger
    <3>2. \/ svc' = [svc EXCEPT ![i] = Dead]
          \/ svc' = [svc EXCEPT ![i] = [svc[i] EXCEPT !.pc = "fallback", !.loop = FALSE]]
      BY <2>8 DEF Shutdown, Crash, Set
    <3> QED
      BY <2>a, <2>b, <2>c, <3>1, <3>2 DEF SvcPc
  <2> QED
    BY <1>1, <2>1, <2>2, <2>3, <2>4, <2>5, <2>6, <2>7, <2>8 DEF ServiceStep
<1>2. ASSUME NEW j \in JobIds, ChildStep(j) \/ ChildDies(j), UNCHANGED svc PROVE Stays
  <2>1. CASE UNCHANGED ledger
    BY <1>2, <2>1 DEF ledger
  <2>2. CASE Runs(j) /\ Writes(j)
    BY <1>2, <2>2, WritesQuietly DEF DispatchInv, ClientInv, Runs, With
  <2> QED
    BY <1>2, <2>1, <2>2, ChildWrites DEF DispatchInv
<1>3. ASSUME UserStep PROVE Stays
  <2>1. \A j \in JobIds : jobs[j].version \in Nat
    BY DEF DispatchInv, LedgerInv, TypeOK, Row
  <2> QED
    BY <1>3, <2>1, WritesQuietly DEF UserStep, DispatchInv, ClientInv
<1> QED
  BY <1>1, <1>2, <1>3 DEF DispatchNext

\* A holder that never stalls is the holder.
Renewed ==
    \A k \in Instances : svc[k].held # 0 =>
        lease.instance = k /\ lease.generation = svc[k].held /\ ~lease.expired

LEMMA RenewedKeeps ==
    ASSUME LateHeartbeats = 0, DispatchInv, Renewed, DispatchNext
    PROVE  Renewed'
<1>1. CASE lease' = lease /\ \A k \in Instances : svc'[k].held \in {0, svc[k].held}
  BY <1>1 DEF Renewed
<1>2. CASE Expires
  <2>1. lease.generation \in Nat /\ lease.generation # 0
    BY <1>2 DEF Expires, ExpireLease, DispatchInv, LedgerInv, TypeOK
  <2>2. lease.instance \in Instances /\ ~Running(lease.instance)
    BY <1>2, <2>1 DEF Expires
  <2>3. svc[lease.instance].held = 0
    BY <2>2 DEF Running, DispatchInv, ClientInv, Holds
  <2>4. \A k \in Instances : svc[k].held = 0
    BY <2>3 DEF Renewed
  <2> QED
    BY <1>2, <2>4 DEF Expires, Renewed
<1>3. ASSUME NEW i \in Instances, Acquires(i) PROVE Renewed'
  <2>1. /\ lease'.instance = i /\ ~lease'.expired /\ svc'[i].held = lease'.generation
        /\ \A k \in Instances \ {i} : svc'[k] = svc[k]
        /\ lease.generation = 0 \/ lease.instance = i \/ lease.expired
    BY <1>3, AcquiredState DEF Acquires, AcquireOrRenew
  <2>2. \A k \in Instances \ {i} : svc[k].held = 0
    BY <2>1 DEF Renewed
  <2> QED
    BY <2>1, <2>2 DEF Renewed
<1> QED
  BY <1>1, <1>2, <1>3, LeaseMovesWhen

LEMMA RenewedAlways ==
    ASSUME LateHeartbeats = 0
    PROVE  DispatchSafety => [](DispatchInv /\ Renewed)
<1>1. DispatchInit => Renewed
  BY DEF DispatchInit, Renewed, Fresh
<1>2. DispatchInv /\ Renewed /\ [DispatchNext]_vars => Renewed'
  <2>1. Renewed /\ UNCHANGED vars => Renewed'
    BY DEF Renewed, vars, ledger
  <2> QED
    BY <2>1, RenewedKeeps
<1> QED
  BY <1>1, <1>2, DispatchAlways, PTL DEF DispatchSafety

\* A service that reconciles presents the lease itself.
LEMMA ReconcilesAsHolder ==
    ASSUME DispatchInv, Renewed, NEW i \in Instances, svc[i].held # 0
    PROVE  /\ FenceOf(i) = [instance |-> lease.instance, generation |-> lease.generation]
           /\ FenceOf(i) # NoFence
  BY FenceSeen DEF Renewed

\* A job whose child is alive and whose owner still holds the lease is never
\* interrupted, by whatever application starts, takes over or shuts down.  The
\* hypothesis is that no live holder misses its heartbeat for the whole of the
\* lease: a process that stalls that long may reconcile, when it wakes up,
\* with a fence it no longer holds.
THEOREM HealthyClaimAlwaysSpared ==
    ASSUME LateHeartbeats = 0
    PROVE  DispatchSafety => HealthyClaimSpared
<1> DEFINE Spared ==
      \A j \in With("running") :
        OwnerIsCurrent(j) /\ Alive(j) => jobs'[j].failure # "worker_interrupted"
<1>1. ASSUME DispatchInv, Renewed, DispatchNext PROVE Spared
  <2> SUFFICES ASSUME NEW j \in With("running"), OwnerIsCurrent(j), Alive(j)
               PROVE  jobs'[j].failure # "worker_interrupted"
    OBVIOUS
  <2>1. j \in JobIds /\ Runs(j) /\ jobs[j].failure = "none" /\ jobs[j] \in Row
    BY <1>1 DEF With, Runs, DispatchInv, LedgerInv, TypeOK, ChecksHold, Existing
  <2>2. ~\E i \in Instances : svc[i].pc = "reconcile" /\ j \in Abandoned(FenceOf(i))
    <3> SUFFICES ASSUME NEW i \in Instances, svc[i].pc = "reconcile", j \in Abandoned(FenceOf(i))
                 PROVE  FALSE
      OBVIOUS
    <3>1. svc[i].held # 0
      BY <1>1 DEF DispatchInv, ClientInv, Holds
    <3>2. jobs[j].owner = FenceOf(i) /\ FenceOf(i) # NoFence
      BY <1>1, <2>1, <3>1, ReconcilesAsHolder, OwnersFence
    <3> QED
      BY <3>2 DEF Abandoned
  <2>3. ~Interrupts(j)
    BY <2>2 DEF Interrupts
  <2> QED
    BY <1>1, <2>1, <2>3, RunningRow DEF Undisturbed, Cancels, ServedBy, Row
<1>2. DispatchInv /\ Renewed /\ [DispatchNext]_vars => [Spared]_vars
  BY <1>1
<1> QED
  BY <1>2, RenewedAlways, PTL DEF DispatchSafety, HealthyClaimSpared

-----------------------------------------------------------------------------
(* No claim is forgotten.                                                   *)

\* The version a service is about to present is the one the row has, unless a
\* cancellation was accepted after it was read.
Versed(s) ==
    s.pc \in {"spawn", "fail"} /\ Runs(s.job) =>
        jobs[s.job].version = s.ver \/ jobs[s.job].cancel

AllVersed == \A k \in Instances : Versed(svc[k])

\* The steps of one service that lead to a version, and the others.
LEMMA VersedStep ==
    ASSUME DispatchInv, AllVersed, NEW k \in Instances,
           ServiceStep(k) \/ Shutdown(k) \/ Crash(k)
    PROVE  Versed(svc[k])'
<1>k. Known(k)
  BY SvcFacts
<1> USE <1>k DEF Known
<1>q. ASSUME svc'[k].pc \notin {"spawn", "fail"} PROVE Versed(svc[k])'
  BY <1>q DEF Versed
<1>d. \A lost \in SUBSET JobIds : Rest(k, lost).pc \notin {"spawn", "fail"}
  BY DEF Rest, Dead, Fresh, SvcState
<1>e. ASSUME NEW s, Set(k, s), s.pc \notin {"spawn", "fail"} PROVE Versed(svc[k])'
  BY <1>e, <1>q DEF Set
<1>1. CASE Start(k) \/ Heartbeat(k)
  <2>1. CASE Start(k)
    <3>1. /\ \A held : [Fresh EXCEPT !.pc = "reconcile", !.held = held].pc = "reconcile"
          /\ [Fresh EXCEPT !.pc = "idle", !.loop = TRUE].pc = "idle"
      BY DEF Fresh
    <3> QED
      BY <1>e, <2>1, <3>1 DEF Start
  <2>2. CASE Heartbeat(k)
    <3>1. PICK pc \in {"dispatch", "reconcile", "stop"} :
            \E held : Set(k, [svc[k] EXCEPT !.pc = pc, !.held = held])
      BY <2>2 DEF Heartbeat
    <3>2. \A held : [svc[k] EXCEPT !.pc = pc, !.held = held].pc = pc
      BY DEF SvcState
    <3> QED
      BY <1>e, <3>1, <3>2
  <2> QED
    BY <1>1, <2>1, <2>2
<1>2. CASE ReconcileHeld(k) \/ PollChild(k)
  <2>1. ASSUME NEW pc \in {"dispatch", "idle", "fallback"}, SvcGoto(k, pc)
        PROVE  Versed(svc[k])'
    BY <1>e, <2>1 DEF SvcGoto, SvcState
  <2>2. ASSUME NEW pc \in {"dispatch", "idle"},
               Set(k, [svc[k] EXCEPT !.pc = pc, !.loop = TRUE])
        PROVE  Versed(svc[k])'
    BY <1>e, <2>2 DEF SvcState
  <2>3. CASE ReconcileHeld(k)
    <3>1. CASE Set(k, Dead)
      BY <1>e, <3>1 DEF Dead, Fresh
    <3>2. \/ \E pc \in {"dispatch", "idle"} :
                 Set(k, [svc[k] EXCEPT !.pc = pc, !.loop = TRUE])
          \/ Set(k, [svc[k] EXCEPT !.pc = "idle", !.skipped = svc[k].held]) \/ Set(k, Dead)
      BY <2>3 DEF ReconcileHeld
    <3>3. [svc[k] EXCEPT !.pc = "idle", !.skipped = svc[k].held].pc = "idle"
      BY DEF SvcState
    <3> QED
      BY <1>e, <2>2, <3>1, <3>2, <3>3
  <2>4. CASE PollChild(k)
    BY <2>1, <2>4 DEF PollChild
  <2> QED
    BY <1>2, <2>3, <2>4
<1>3. CASE ClaimJob(k)
  <2>1. CASE SvcGoto(k, "idle")
    BY <1>q, <2>1 DEF SvcGoto, Set, SvcState
  <2>2. ASSUME NEW j \in JobIds, ClaimNext(j, FenceOf(k)),
               Set(k, [svc[k] EXCEPT !.pc = "spawn", !.job = j, !.token = claims + 1,
                                     !.ver = jobs[j].version + 1])
        PROVE  Versed(svc[k])'
    <3>1. FenceOf(k) \in Fence
      BY <1>3, FenceSeen DEF ClaimJob, Holds
    <3>2. jobs'[j].version = jobs[j].version + 1
      BY <2>2, <3>1, ClaimedRow
    <3>3. svc'[k].job = j /\ svc'[k].ver = jobs[j].version + 1
      BY <2>2 DEF Set, SvcState
    <3> QED
      BY <3>2, <3>3 DEF Versed
  <2> QED
    BY <1>3, <2>1, <2>2 DEF ClaimJob
<1>4. CASE Spawn(k)
  <2>1. svc'[k].job = svc[k].job /\ svc'[k].ver = svc[k].ver /\ jobs' = jobs
    BY <1>4 DEF Spawn, SvcGoto, Set, SvcState, ledger
  <2> QED
    BY <1>4, <2>1 DEF AllVersed, Versed, Runs, Spawn
<1>5. CASE Fallback(k)
  <2>1. CASE Done(k)
    BY <1>q, <1>d, <2>1, Drops
  <2>2. CASE Set(k, [svc[k] EXCEPT !.pc = "fail", !.ver = jobs[svc[k].job].version])
    <3>1. svc'[k].job = svc[k].job /\ svc'[k].ver = jobs[svc[k].job].version /\ jobs' = jobs
      BY <1>5, <2>2 DEF Fallback, Set, SvcState, ledger
    <3> QED
      BY <3>1 DEF Versed
  <2> QED
    BY <1>5, <2>1, <2>2 DEF Fallback
<1>6. CASE FailOwnedClaim(k) \/ FallbackLocked(k) \/ StopOwnedChild(k)
  BY <1>6, <1>q, <1>d, Drops DEF FailOwnedClaim, StopOwnedChild
<1>7. CASE Shutdown(k) \/ Crash(k)
  <2>1. \/ svc' = [svc EXCEPT ![k] = Dead]
        \/ svc' = [svc EXCEPT ![k] = [svc[k] EXCEPT !.pc = "fallback", !.loop = FALSE]]
    BY <1>7 DEF Shutdown, Crash, Set
  <2>2. Dead.pc = "dead" /\ [svc[k] EXCEPT !.pc = "fallback", !.loop = FALSE].pc = "fallback"
    BY DEF Dead, Fresh, SvcState
  <2>3. svc'[k].pc \in {"dead", "fallback"}
    BY <2>1, <2>2
  <2> QED
    BY <1>q, <2>3
<1> QED
  BY <1>1, <1>2, <1>3, <1>4, <1>5, <1>6, <1>7 DEF ServiceStep

\* A service that stands still keeps its version current, or the job ends, or
\* is cancelled.
LEMMA VersedStays ==
    ASSUME DispatchInv, AllVersed, DispatchNext, NEW k \in Instances, svc'[k] = svc[k]
    PROVE  Versed(svc[k])'
<1>1. PICK s \in SvcState : s = svc[k] /\ Holds(k, s) /\ Versed(s)
  BY SvcFacts DEF Known, AllVersed
<1>2. ASSUME s.pc \in {"spawn", "fail"}, Runs(s.job)'
      PROVE  jobs'[s.job].version = s.ver \/ jobs'[s.job].cancel
  <2>1. s.job \in JobIds /\ Claimed(s.job) /\ ~Alive(s.job)
    BY <1>1, <1>2 DEF Holds, Alive, Live
  <2>2. LedgerInv /\ LedgerMove
    BY ClientsMove DEF DispatchInv
  <2>3. Runs(s.job) /\ (jobs[s.job].cancel => jobs'[s.job].cancel)
    BY <1>2, <2>1, <2>2, ClaimStays
  <2>4. Undisturbed(s.job) \/ Cancels(s.job) \/ Interrupts(s.job) \/ ServedBy(s.job)
    BY <2>1, <2>3, RunningRow
  <2>5. jobs[s.job] \in Row
    BY <2>1, <2>2 DEF LedgerInv, TypeOK
  <2> QED
    BY <1>1, <1>2, <2>1, <2>3, <2>4, <2>5 DEF Undisturbed, Cancels, Interrupts, ServedBy, Versed, Runs, Row
<1> QED
  BY <1>1, <1>2 DEF Versed, Runs

LEMMA VersedKeeps == ASSUME DispatchInv, AllVersed, DispatchNext PROVE AllVersed'
  BY VersedStep, VersedStays, WhoActs DEF AllVersed

\* What runs after a step ran before it, or its service has just claimed it.
LEMMA RunsAfter ==
    ASSUME DispatchInv, DispatchNext, NEW j \in JobIds, Runs(j)'
    PROVE  \/ /\ Runs(j) /\ jobs'[j].owner = jobs[j].owner
              /\ jobs[j].cancel => jobs'[j].cancel
           \/ /\ jobs'[j].owner = [instance |-> lease.instance, generation |-> lease.generation]
              /\ lease' = lease
              /\ \E k \in Instances : svc'[k].job = j /\ jobs'[j].owner.instance = k
<1>0. LedgerInv /\ LedgerMove
  BY ClientsMove DEF DispatchInv
<1>1. CASE Runs(j)
  BY <1>0, <1>1, ClaimStays DEF Claimed, Runs
<1>2. CASE ~Runs(j)
  <2>1. ~NoNewRunning
    BY <1>2 DEF NoNewRunning, With, Runs
  <2>2. ~Quiet
    BY <2>1 DEF Quiet
  <2>3. ~UNCHANGED ledger
    BY <2>2, StillQuiet DEF DispatchInv, ClientInv
  <2>4. ASSUME NEW i \in Instances, NEW k \in JobIds, ClaimJob(i), ClaimNext(k, FenceOf(i)),
               Set(i, [svc[i] EXCEPT !.pc = "spawn", !.job = k, !.token = claims + 1,
                                     !.ver = jobs[k].version + 1])
        PROVE  /\ jobs'[j].owner = [instance |-> lease.instance, generation |-> lease.generation]
               /\ lease' = lease
               /\ svc'[i].job = j /\ jobs'[j].owner.instance = i
    <3>k. Known(i)
      BY SvcFacts
    <3>1. /\ svc[i].held # 0 /\ FenceOf(i) \in Fences /\ FenceOf(i) \in Fence
          /\ FenceOf(i) = [instance |-> i, generation |-> svc[i].held]
      BY <2>4, <3>k, FenceSeen DEF ClaimJob, Known, Holds
    <3>2. k = j
      BY <1>0, <2>4, <3>1, ClaimStep DEF LedgerInv, With, Runs
    <3>3. jobs'[j].owner = FenceOf(i)
      BY <1>0, <2>4, <3>1, <3>2, ClaimedRow DEF LedgerInv
    <3>4. lease' = lease /\ FenceHolds(FenceOf(i))
      BY <2>4 DEF ClaimNext
    <3>5. lease.generation # 0 /\ lease.instance = i /\ lease.generation = svc[i].held
      BY <3>k, <3>1, <3>4 DEF Known, Holds, FenceHolds
    <3>6. svc'[i].job = j
      BY <2>4, <3>k, <3>2 DEF Set, Known, SvcState
    <3> QED
      BY <3>1, <3>3, <3>4, <3>5, <3>6
  <2>5. ASSUME NEW i \in Instances, ServiceStep(i) \/ Shutdown(i) \/ Crash(i)
        PROVE  \E k \in JobIds :
                  /\ ClaimJob(i) /\ ClaimNext(k, FenceOf(i))
                  /\ Set(i, [svc[i] EXCEPT !.pc = "spawn", !.job = k, !.token = claims + 1,
                                           !.ver = jobs[k].version + 1])
    <3>k. Known(i)
      BY SvcFacts
    <3>1. ~(Start(i) \/ Heartbeat(i))
      BY <2>2, <2>3, LeaseQuiet DEF Start, Heartbeat, DispatchInv, ClientInv
    <3>2. ~ReconcileHeld(i)
      BY <2>2, <2>3, WritesQuietly DEF ReconcileHeld, DispatchInv, ClientInv
    <3>3. ~FailOwnedClaim(i)
      <4>1. SUFFICES ASSUME FailOwnedClaim(i) PROVE FALSE
        OBVIOUS
      <4>2. FailClaimed(svc[i].job, svc[i].token, svc[i].ver, FenceOf(i), "worker_interrupted")
        BY <2>3, <4>1 DEF FailOwnedClaim
      <4>3. svc[i].job \in JobIds
        BY <3>k, <4>1 DEF FailOwnedClaim, Known, Holds
      <4>4. svc[i].job \in With("running") /\ Writes(svc[i].job)
        BY <4>2, <4>3 DEF FailClaimed, Owned, With, Writes, WorkerWrite, Failure
      <4> QED
        BY <2>2, <4>4, WritesQuietly DEF DispatchInv, ClientInv
    <3>4. ~(\/ PollChild(i) \/ Spawn(i) \/ Fallback(i) \/ FallbackLocked(i)
            \/ StopOwnedChild(i) \/ Shutdown(i) \/ Crash(i))
      BY <2>3 DEF PollChild, Spawn, Fallback, FallbackLocked, StopOwnedChild, Shutdown, Crash
    <3>5. ClaimJob(i)
      BY <2>5, <3>1, <3>2, <3>3, <3>4 DEF ServiceStep
    <3> QED
      BY <2>3, <3>5 DEF ClaimJob
  <2>6. ASSUME NEW k \in JobIds PROVE ~(ChildStep(k) \/ ChildDies(k))
    BY <2>2, <2>3, ChildWrites, WritesQuietly DEF DispatchInv, ClientInv, Runs, With
  <2>7. ~Expires
    BY <2>2, LeaseQuiet DEF Expires, DispatchInv, ClientInv
  <2>8. ~UserStep
    <3>1. \A k \in JobIds : jobs[k].version \in Nat
      BY <1>0 DEF LedgerInv, TypeOK, Row
    <3> QED
      BY <2>2, <3>1, WritesQuietly DEF UserStep, DispatchInv, ClientInv
  <2> QED
    BY <2>4, <2>5, <2>6, <2>7, <2>8 DEF DispatchNext
<1> QED
  BY <1>1, <1>2

\* Whom the lease leaves in charge of a running job, it had put in charge.
LEMMA CurrentBefore ==
    ASSUME DispatchInv, DispatchNext, NEW j \in JobIds, Runs(j), jobs'[j].owner = jobs[j].owner,
           OwnerIsCurrent(j)'
    PROVE  OwnerIsCurrent(j)
<1>1. LedgerMove
  BY ClientsMove
<1>2. /\ lease.generation \in Nat /\ lease'.generation \in Nat
      /\ lease'.generation >= lease.generation
      /\ lease.generation # 0 /\ lease'.instance # lease.instance
           => lease'.generation = lease.generation + 1
      /\ jobs[j].owner.generation \in Nat
  BY <1>1, OwnersFence DEF LedgerMove, LeaseMove, DispatchInv, LedgerInv, TypeOK, Fence
<1>3. jobs[j].owner.generation <= lease.generation /\ lease.generation # 0
  BY OwnersFence
<1> QED
  BY <1>2, <1>3 DEF OwnerIsCurrent

\* A process that is at work after a step was at work before it, or has just
\* started; one that has just started did not hold the lease.
LEMMA WorkedBefore ==
    ASSUME DispatchInv, DispatchNext, NEW k \in Instances, Running(k)', lease.instance = k
    PROVE  Running(k)
<1>1. svc[k].pc # "new"
  BY DEF DispatchInv, ClientInv, Holds
<1>2. CASE svc[k].pc = "dead"
  <2>1. svc'[k] = svc[k]
    BY <1>2, WhoActs DEF ServiceStep, Start, Heartbeat, ReconcileHeld, PollChild, ClaimJob, Spawn,
       Fallback, FailOwnedClaim, FallbackLocked, StopOwnedChild, Shutdown, Crash, Running
  <2> QED
    BY <2>1 DEF Running
<1> QED
  BY <1>1, <1>2 DEF Running

\* A child comes alive by being spawned.
LEMMA BornAlive ==
    ASSUME DispatchInv, DispatchNext, NEW j \in JobIds, ~Alive(j), Alive(j)'
    PROVE  \E k \in Instances : Spawn(k) /\ svc[k].job = j
<1>0. child \in [JobIds -> ChildState]
  BY DEF DispatchInv, ClientInv, ClientTypeOK
<1>1. child'[j] # child[j]
  BY DEF Alive
<1>2. ASSUME NEW i \in Instances, ServiceStep(i) \/ Shutdown(i) \/ Crash(i)
      PROVE  Spawn(i) /\ svc[i].job = j
  <2>1. CASE Spawn(i)
    BY <1>0, <1>1, <2>1 DEF Spawn
  <2>2. CASE StopOwnedChild(i) \/ Shutdown(i)
    <3>1. child'[j] = child[j]
      BY <2>2, TerminatedServes DEF StopOwnedChild, Shutdown, Terminated
    <3> QED
      BY <1>1, <3>1
  <2>3. UNCHANGED child \/ Spawn(i) \/ StopOwnedChild(i) \/ Shutdown(i)
    BY <1>2 DEF ServiceStep, Start, Heartbeat, ReconcileHeld, PollChild, ClaimJob,
       Fallback, FailOwnedClaim, FallbackLocked, Crash
  <2> QED
    BY <1>1, <2>1, <2>2, <2>3
<1>3. ASSUME NEW k \in JobIds, ChildStep(k) \/ ChildDies(k) PROVE FALSE
  <2>1. Alive(k) /\ ChildMoves(k)
    BY <1>3, ChildActs DEF DispatchInv, ClientInv, LedgerInv
  <2> QED
    BY <1>0, <1>1, <2>1 DEF ChildMoves
<1> QED
  BY <1>1, <1>2, <1>3 DEF DispatchNext, Expires, UserStep

\* The instance the lease names holds its present generation, or believes it
\* holds none: nobody renews a lease without learning its generation.
Seated == \A k \in Instances :
    svc[k].held # 0 /\ lease.instance = k => svc[k].held = lease.generation

LEMMA SeatedKeeps == ASSUME DispatchInv, Seated, DispatchNext PROVE Seated'
<1>1. CASE lease' = lease /\ \A k \in Instances : svc'[k].held \in {0, svc[k].held}
  BY <1>1 DEF Seated
<1>2. CASE Expires
  BY <1>2 DEF Expires, ExpireLease, Seated, DispatchInv, LedgerInv, TypeOK
<1>3. ASSUME NEW i \in Instances, Acquires(i) PROVE Seated'
  BY <1>3, AcquiredState DEF Acquires, Seated
<1> QED
  BY <1>1, <1>2, <1>3, LeaseMovesWhen

LEMMA SeatedFence ==
    ASSUME DispatchInv, Seated, NEW i \in Instances, lease.instance = i, svc[i].held # 0
    PROVE  FenceOf(i) = [instance |-> lease.instance, generation |-> lease.generation]
  BY FenceSeen DEF Seated

\* What a service has noted it keeps while it lives.
LEMMA HistoryStays ==
    ASSUME DispatchInv, NEW i \in Instances, svc[i].pc # "new", Running(i)',
           ServiceStep(i) \/ Shutdown(i) \/ Crash(i)
    PROVE  /\ svc[i].forgot \subseteq svc'[i].forgot
           /\ \/ svc'[i].skipped = svc[i].skipped
              \/ ReconcileHeld(i) /\ svc'[i].skipped = svc[i].held
<1>k. Known(i)
  BY SvcFacts
<1> USE <1>k DEF Known
<1>d. ~Set(i, Dead)
  BY DEF Set, Dead, Fresh, Running
<1>1. CASE Start(i)
  BY <1>1 DEF Start
<1>2. CASE Heartbeat(i)
  <2>1. PICK pc, held : svc' = [svc EXCEPT ![i] = [svc[i] EXCEPT !.pc = pc, !.held = held]]
    BY <1>2 DEF Heartbeat, Set
  <2> QED
    BY <2>1 DEF SvcState
<1>3. CASE ReconcileHeld(i)
  <2>1. \/ \E pc : svc' = [svc EXCEPT ![i] = [svc[i] EXCEPT !.pc = pc, !.loop = TRUE]]
        \/ svc' = [svc EXCEPT ![i] = [svc[i] EXCEPT !.pc = "idle", !.skipped = svc[i].held]]
    BY <1>3, <1>d DEF ReconcileHeld, Set
  <2> QED
    BY <1>3, <2>1 DEF SvcState
<1>4. CASE PollChild(i) \/ Spawn(i)
  BY <1>4 DEF PollChild, Spawn, SvcGoto, Set, SvcState
<1>5. CASE ClaimJob(i)
  <2>1. CASE SvcGoto(i, "idle")
    BY <2>1 DEF SvcGoto, Set, SvcState
  <2>2. ASSUME NEW j, NEW token, NEW ver,
               Set(i, [svc[i] EXCEPT !.pc = "spawn", !.job = j, !.token = token, !.ver = ver])
        PROVE  svc[i].forgot \subseteq svc'[i].forgot /\ svc'[i].skipped = svc[i].skipped
    BY <2>2 DEF Set, SvcState
  <2> QED
    BY <1>5, <2>1, <2>2 DEF ClaimJob
<1>6. ASSUME NEW lost \in SUBSET JobIds, svc' = [svc EXCEPT ![i] = Rest(i, lost)]
      PROVE  svc[i].forgot \subseteq svc'[i].forgot /\ svc'[i].skipped = svc[i].skipped
  <2>1. CASE svc[i].loop
    BY <1>6, <2>1 DEF Rest, SvcState
  <2>2. CASE ~svc[i].loop
    BY <1>6, <1>d, <2>2 DEF Rest, Set
  <2> QED
    BY <2>1, <2>2
<1>7. CASE Fallback(i)
  <2>1. CASE Set(i, [svc[i] EXCEPT !.pc = "fail", !.ver = jobs[svc[i].job].version])
    BY <2>1 DEF Set, SvcState
  <2> QED
    BY <1>6, <1>7, <2>1, Drops DEF Fallback
<1>8. CASE FailOwnedClaim(i) \/ FallbackLocked(i) \/ StopOwnedChild(i)
  BY <1>6, <1>8, Drops DEF FailOwnedClaim, StopOwnedChild
<1>9. CASE Shutdown(i) \/ Crash(i)
  <2>1. svc' = [svc EXCEPT ![i] = [svc[i] EXCEPT !.pc = "fallback", !.loop = FALSE]]
    BY <1>9, <1>d DEF Shutdown, Crash, Set
  <2> QED
    BY <2>1 DEF SvcState
<1> QED
  BY <1>1, <1>2, <1>3, <1>4, <1>5, <1>7, <1>8, <1>9 DEF ServiceStep

\* A service that is at work and holds the lease keeps its claim until the job
\* ends or is wedged, or notes that it forgets it.
LEMMA KeepsClaim ==
    ASSUME DispatchInv, Seated, AllVersed, NEW i \in Instances,
           ServiceStep(i) \/ Shutdown(i) \/ Crash(i), lease.instance = i,
           NEW j \in JobIds, svc[i].job = j, Runs(j), Runs(j)', Running(i)'
    PROVE  svc'[i].job = j \/ Wedged(j)' \/ j \in svc'[i].forgot
<1>k. Known(i)
  BY SvcFacts
<1> USE <1>k DEF Known
<1>0. /\ j # NoJob /\ svc[i].pc \notin {"new", "stop", "dead"} /\ svc[i].held # 0
      /\ jobs[j].token = svc[i].token
      /\ svc[i].pc = "fail" => ~Alive(j)
  BY DEF JobIds, NoJob, Holds
<1>a. ASSUME NEW s, svc' = [svc EXCEPT ![i] = s], s.job = svc[i].job PROVE svc'[i].job = j
  BY <1>a
<1>d. ~Set(i, Dead)
  BY DEF Set, Dead, Fresh, Running
<1>1. CASE Start(i) \/ StopOwnedChild(i)
  BY <1>0, <1>1 DEF Start, StopOwnedChild
<1>b. ASSUME NEW pc, NEW held PROVE [svc[i] EXCEPT !.pc = pc, !.held = held].job = svc[i].job
  BY DEF SvcState
<1>2. CASE Heartbeat(i)
  <2>1. PICK pc, held : svc' = [svc EXCEPT ![i] = [svc[i] EXCEPT !.pc = pc, !.held = held]]
    BY <1>2 DEF Heartbeat, Set
  <2> QED
    BY <1>a, <1>b, <2>1
<1>3. CASE ReconcileHeld(i)
  <2>1. \/ \E pc : svc' = [svc EXCEPT ![i] = [svc[i] EXCEPT !.pc = pc, !.loop = TRUE]]
        \/ svc' = [svc EXCEPT ![i] = [svc[i] EXCEPT !.pc = "idle", !.skipped = svc[i].held]]
    BY <1>3, <1>d DEF ReconcileHeld, Set
  <2>2. /\ \A pc : [svc[i] EXCEPT !.pc = pc, !.loop = TRUE].job = svc[i].job
        /\ [svc[i] EXCEPT !.pc = "idle", !.skipped = svc[i].held].job = svc[i].job
    BY DEF SvcState
  <2> QED
    BY <1>a, <2>1, <2>2
<1>4. CASE PollChild(i) \/ Spawn(i)
  BY <1>4 DEF PollChild, Spawn, SvcGoto, Set, SvcState
<1>5. CASE ClaimJob(i)
  BY <1>0, <1>5 DEF ClaimJob
<1>6. CASE Fallback(i)
  <2>1. Set(i, [svc[i] EXCEPT !.pc = "fail", !.ver = jobs[j].version])
    BY <1>0, <1>6 DEF Fallback, Runs, ledger
  <2>2. [svc[i] EXCEPT !.pc = "fail", !.ver = jobs[j].version].job = svc[i].job
    BY DEF SvcState
  <2> QED
    BY <1>a, <2>1, <2>2 DEF Set
<1>7. CASE FailOwnedClaim(i)
  <2>1. CASE FailClaimed(j, svc[i].token, svc[i].ver, FenceOf(i), "worker_interrupted")
    <3>1. jobs'[j].status = "failed"
      BY <2>1 DEF FailClaimed, Write, Closed, TypeOK, Row
    <3> QED
      BY <3>1 DEF Runs
  <2>2. CASE ~Owned(j, svc[i].token, svc[i].ver, FenceOf(i)) /\ UNCHANGED ledger
    <3>1. FenceHolds(FenceOf(i))
      BY <1>0, SeatedFence DEF FenceHolds
    <3>2. jobs[j].version = svc[i].ver \/ jobs[j].cancel
      BY <1>7 DEF AllVersed, Versed, FailOwnedClaim
    <3>3. jobs[j].cancel /\ ~Alive(j)
      BY <1>0, <1>7, <2>2, <3>1, <3>2 DEF Owned, Runs, FailOwnedClaim
    <3>4. jobs' = jobs /\ child' = child
      BY <1>7, <2>2 DEF FailOwnedClaim, ledger
    <3> QED
      BY <3>3, <3>4 DEF Wedged, Alive, Runs
  <2> QED
    BY <1>7, <2>1, <2>2 DEF FailOwnedClaim
<1>8. CASE FallbackLocked(i)
  <2>1. svc[i].loop /\ svc' = [svc EXCEPT ![i] = Rest(i, {j})]
    BY <1>8, <1>d DEF FallbackLocked, Rest, Set
  <2>2. Rest(i, {j}).forgot = svc[i].forgot \cup {j}
    BY <2>1 DEF Rest, SvcState
  <2> QED
    BY <2>1, <2>2
<1>9. CASE Shutdown(i) \/ Crash(i)
  <2>1. \/ svc' = [svc EXCEPT ![i] = Dead]
        \/ svc' = [svc EXCEPT ![i] = [svc[i] EXCEPT !.pc = "fallback", !.loop = FALSE]]
    BY <1>9 DEF Shutdown, Crash, Set
  <2>2. Dead.pc = "dead"
    BY DEF Dead, Fresh
  <2>3. svc' # [svc EXCEPT ![i] = Dead]
    BY <2>2 DEF Running
  <2>4. [svc[i] EXCEPT !.pc = "fallback", !.loop = FALSE].job = svc[i].job
    BY DEF SvcState
  <2> QED
    BY <1>a, <2>1, <2>3, <2>4
<1> QED
  BY <1>1, <1>2, <1>3, <1>4, <1>5, <1>6, <1>7, <1>8, <1>9 DEF ServiceStep

LEMMA ClaimKept ==
    ASSUME DispatchInv, Seated, AllVersed, NoLeakedClaim, DispatchNext
    PROVE  NoLeakedClaim'
<1> SUFFICES ASSUME NEW j \in JobIds, Runs(j)', NEW i, i = jobs'[j].owner.instance,
                    OwnerIsCurrent(j)', Running(i)'
             PROVE  svc'[i].job = j \/ Wedged(j)' \/ j \in svc'[i].forgot
  BY DEF NoLeakedClaim, With, Runs
<1>1. CASE \E k \in Instances : svc'[k].job = j /\ jobs'[j].owner.instance = k
  BY <1>1
<1>2. CASE Runs(j) /\ jobs'[j].owner = jobs[j].owner /\ (jobs[j].cancel => jobs'[j].cancel)
  <2>1. OwnerIsCurrent(j) /\ i \in Instances /\ lease.instance = i /\ jobs[j].owner.instance = i
    BY <1>2, CurrentBefore, OwnersFence DEF OwnerIsCurrent
  <2>2. Running(i) /\ (svc[i].job = j \/ Wedged(j) \/ j \in svc[i].forgot)
    BY <1>2, <2>1, WorkedBefore DEF NoLeakedClaim, With, Runs
  <2>3. CASE Wedged(j)
    <3>1. CASE Alive(j)'
      <4>1. PICK k \in Instances : Spawn(k) /\ svc[k].job = j
        BY <2>3, <3>1, BornAlive DEF Wedged
      <4>2. k = i
        <5>1. Holds(k, svc[k]) /\ j # NoJob /\ Runs(j) /\ svc[k].pc = "spawn"
          BY <1>2, <4>1, SvcFacts DEF Known, JobIds, NoJob, Spawn
        <5>2. jobs[j].owner.instance = k
          BY <4>1, <5>1 DEF Holds
        <5> QED
          BY <2>1, <5>2
      <4>3. svc'[i].job = j
        BY <4>1, <4>2, SvcFacts DEF Spawn, SvcGoto, Set, Known, SvcState
      <4> QED
        BY <4>3
    <3>2. CASE ~Alive(j)'
      BY <1>2, <2>3, <3>2 DEF Wedged, Runs
    <3> QED
      BY <3>1, <3>2
  <2>4. CASE svc[i].job = j
    BY <1>2, <2>1, <2>4, WhoActs, KeepsClaim
  <2>5. CASE j \in svc[i].forgot
    <3>1. svc[i].pc # "new"
      BY <2>2 DEF Running
    <3> QED
      BY <2>1, <2>5, <3>1, WhoActs, HistoryStays
  <2> QED
    BY <2>2, <2>3, <2>4, <2>5
<1> QED
  BY <1>1, <1>2, RunsAfter

LEMMA SeatedAlways == DispatchSafety => [](DispatchInv /\ Seated)
<1>1. DispatchInit => Seated
  BY DEF DispatchInit, Seated, Fresh
<1>2. DispatchInv /\ Seated /\ [DispatchNext]_vars => Seated'
  <2>1. Seated /\ UNCHANGED vars => Seated'
    BY DEF Seated, vars, ledger
  <2> QED
    BY <2>1, SeatedKeeps
<1> QED
  BY <1>1, <1>2, DispatchAlways, PTL DEF DispatchSafety

\* A running job that the current lease owns is in the hands of the process
\* that holds it, as its child or as a claim being started or failed, or it is
\* wedged by a cancellation, or its fallback met a locked database: these two
\* are the only ways in which dispatch_once forgets a claim, for any number of
\* processes that stall, die, take over and are locked out at any moment.
THEOREM NoClaimEverLeaked == DispatchSafety => []NoLeakedClaim
<1>1. DispatchInit => AllVersed /\ NoLeakedClaim
  BY DEF DispatchInit, Init, AllVersed, Versed, Fresh, NoLeakedClaim, With, AbsentRow, NewRow
<1>2. DispatchInv /\ Seated /\ AllVersed /\ NoLeakedClaim /\ [DispatchNext]_vars
        => AllVersed' /\ NoLeakedClaim'
  <2>1. AllVersed /\ NoLeakedClaim /\ UNCHANGED vars => AllVersed' /\ NoLeakedClaim'
    BY DEF vars, ledger, AllVersed, Versed, Runs, NoLeakedClaim, With, OwnerIsCurrent, Running,
           Wedged, Alive
  <2> QED
    BY <2>1, VersedKeeps, ClaimKept
<1> QED
  BY <1>1, <1>2, SeatedAlways, PTL DEF DispatchSafety

LEMMA StillReconciled ==
    ASSUME DispatchInv, Seated, StaleClaimsReconciled, DispatchNext
    PROVE  StaleClaimsReconciled'
<1> SUFFICES ASSUME NEW j \in JobIds, Runs(j)', ~OwnerIsCurrent(j)', Running(lease.instance)'
             PROVE  \/ svc'[lease'.instance].pc = "reconcile"
                    \/ svc'[lease'.instance].skipped = lease'.generation
  BY DEF StaleClaimsReconciled, With, Runs
<1>1. Runs(j) /\ jobs'[j].owner = jobs[j].owner
  BY RunsAfter DEF OwnerIsCurrent
<1>2. /\ lease.generation \in Nat \ {0} /\ lease.instance \in Instances
      /\ \/ OwnerIsCurrent(j) \/ ~Running(lease.instance)
         \/ svc[lease.instance].pc = "reconcile"
         \/ svc[lease.instance].skipped = lease.generation
  BY <1>1, OwnersFence DEF DispatchInv, ClientInv, LeaseRow, LedgerInv, TypeOK,
     StaleClaimsReconciled, With, Runs
<1>3. CASE lease' = lease
  <2>1. ~OwnerIsCurrent(j)
    BY <1>1, <1>3 DEF OwnerIsCurrent
  <2>2. PICK h \in Instances : h = lease.instance
    BY <1>2
  <2>3. Running(h)' /\ Running(h)
    BY <1>3, <2>2, WorkedBefore DEF Running
  <2>4. svc[h].pc = "reconcile" \/ svc[h].skipped = lease.generation
    BY <1>2, <2>1, <2>2, <2>3
  <2>5. CASE svc'[h] = svc[h]
    BY <1>3, <2>2, <2>4, <2>5
  <2>6. CASE (ServiceStep(h) \/ Shutdown(h)) /\ svc[h].pc = "reconcile"
    <3>0. Known(h) /\ svc[h].held # 0 /\ ReconcileHeld(h)
      BY <2>6, SvcFacts DEF ServiceStep, Start, Heartbeat, PollChild, ClaimJob, Spawn,
         Fallback, FailOwnedClaim, FallbackLocked, StopOwnedChild, Shutdown, Known, Holds
    <3>1. CASE Reconcile(FenceOf(h))
      <4>2. FenceOf(h) = [instance |-> lease.instance, generation |-> lease.generation]
        BY <2>2, <3>0, SeatedFence
      <4>3. j \in Abandoned(FenceOf(h))
        BY <1>1, <2>1, <4>2 DEF OwnerIsCurrent, Abandoned, With, Runs
      <4>4. jobs'[j].status = "failed"
        BY <3>1, <4>3 DEF Reconcile, Closed, DispatchInv, LedgerInv, TypeOK, Row
      <4> QED
        BY <4>4 DEF Runs
    <3>2. CASE ~Reconcile(FenceOf(h))
      <4>1. ~Set(h, Dead)
        BY <2>3, <3>0 DEF Set, Dead, Fresh, Running, Known
      <4>2. svc' = [svc EXCEPT ![h] = [svc[h] EXCEPT !.pc = "idle", !.skipped = svc[h].held]]
        BY <3>0, <3>2, <4>1 DEF ReconcileHeld, Set
      <4>3. svc'[h].skipped = svc[h].held
        BY <3>0, <4>2 DEF Known, SvcState
      <4> QED
        BY <1>3, <2>2, <3>0, <4>3 DEF Seated
    <3> QED
      BY <3>1, <3>2
  <2>8. CASE (ServiceStep(h) \/ Shutdown(h)) /\ svc[h].skipped = lease.generation
    <3>1. svc[h].pc # "new" /\ (ReconcileHeld(h) => svc[h].held # 0)
      BY <2>3, SvcFacts DEF Running, ReconcileHeld, Known, Holds
    <3>2. svc'[h].skipped \in {svc[h].skipped, svc[h].held}
          /\ (svc'[h].skipped = svc[h].skipped \/ svc[h].held # 0)
      BY <2>3, <2>8, <3>1, HistoryStays
    <3> QED
      BY <1>3, <2>2, <2>8, <3>2 DEF Seated
  <2>7. CASE Crash(h)
    <3>1. svc'[h].pc = "dead"
      BY <2>7, SvcFacts DEF Crash, Set, Dead, Fresh, Known
    <3> QED
      BY <2>3, <3>1 DEF Running
  <2> QED
    BY <2>4, <2>5, <2>6, <2>7, <2>8, WhoActs
<1>4. CASE Expires
  BY <1>1, <1>2, <1>4 DEF Expires, ExpireLease, OwnerIsCurrent, Running, DispatchInv, LedgerInv, TypeOK
<1>5. ASSUME NEW k \in Instances, Acquires(k)
      PROVE  \/ svc'[lease'.instance].pc = "reconcile"
             \/ svc'[lease'.instance].skipped = lease'.generation
  <2>1. lease'.instance = k /\ lease'.generation \in Nat \ {0}
    BY <1>5, AcquiredState DEF Acquires
  <2>2. CASE svc[k].held = lease'.generation
    <3>1. svc[k].held <= lease.generation /\ svc[k].held \in Nat /\ lease'.generation >= lease.generation
      BY ClientsMove, SvcFacts DEF Known, Holds, LedgerMove, LeaseMove
    <3>2. svc[k].held = lease.generation /\ svc[k].held # 0
      BY <1>2, <2>1, <2>2, <3>1
    <3>3. lease.instance = k /\ svc[k].pc = "idle"
      BY <1>5, <3>2, SvcFacts DEF Acquires, Known, Holds
    <3>4. OwnerIsCurrent(j) \/ svc[k].skipped = lease.generation
      BY <1>2, <3>3 DEF Running
    <3>5. svc'[k].skipped = svc[k].skipped
      BY <1>5, <3>2 DEF Acquires
    <3>6. lease'.instance = k /\ lease'.generation = lease.generation
      BY <2>1, <2>2, <3>2
    <3> QED
      BY <1>1, <3>3, <3>4, <3>5, <3>6 DEF OwnerIsCurrent
  <2>3. CASE svc[k].held # lease'.generation
    BY <1>5, <2>1, <2>3 DEF Acquires
  <2> QED
    BY <2>2, <2>3
<1> QED
  BY <1>3, <1>4, <1>5, LeaseMovesWhen

\* A running job the lease no longer owns is about to be reconciled: whoever
\* holds the lease is between the heartbeat that took it over and its
\* reconciliation, or is gone and will be succeeded, or the reconciliation of
\* its generation met a locked database.  No other interleaving of stalls,
\* deaths and takeovers passes a stale claim over.
THEOREM StaleClaimsAlwaysReconciled == DispatchSafety => []StaleClaimsReconciled
<1>1. DispatchInit => StaleClaimsReconciled
  BY DEF DispatchInit, Init, StaleClaimsReconciled, With, AbsentRow, NewRow
<1>2. DispatchInv /\ Seated /\ StaleClaimsReconciled /\ [DispatchNext]_vars => StaleClaimsReconciled'
  <2>1. StaleClaimsReconciled /\ UNCHANGED vars => StaleClaimsReconciled'
    BY DEF vars, ledger, StaleClaimsReconciled, With, OwnerIsCurrent, Running
  <2> QED
    BY <2>1, StillReconciled
<1> QED
  BY <1>1, <1>2, SeatedAlways, PTL DEF DispatchSafety
=============================================================================
