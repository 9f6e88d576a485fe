---------------------------- MODULE StrategyJobs ----------------------------
(***************************************************************************)
(* The strategy job ledger: the tables strategy_jobs, strategy_worker_lease, *)
(* strategy_job_restart_actions, notification_outbox, backtest_staging,     *)
(* backtest_results and active_snapshot_profile of the backtest database,   *)
(* and one operator for each method of BacktestRepository that writes them. *)
(* Every method runs in one BEGIN IMMEDIATE transaction, so every operator  *)
(* is one atomic step.  A method that raises StrategyJobConflict rolls back *)
(* and changes nothing: its operator is then disabled.                      *)
(*                                                                          *)
(* Jobs are named by their enqueue_seq: the identifier is a fresh uuid4 and *)
(* the sequence is MAX(enqueue_seq)+1 over rows that are never physically   *)
(* deleted, so the two are in bijection.  A claim token, also a fresh       *)
(* uuid4, is the number of claims made so far.                              *)
(***************************************************************************)
EXTENDS Naturals, FiniteSets

CONSTANTS
    Instances,      \* application processes that may hold the worker lease
    NoInstance,     \* NULL in owner_instance_id
    MaxJobs,        \* bound: jobs ever enqueued
    MonthCount,     \* months in a requested range
    MaxVersion,     \* bound: status_version at which progress stops
    MaxGeneration,  \* bound: lease generations
    Submittable,    \* job types the users of an instance submit
    Parents,        \* jobs a submission may name as its parent
    Projecting      \* whether a projector may acknowledge at any moment (the
                    \* projector of NotificationProjection acknowledges in turn)

ASSUME LedgerAssumption ==
    /\ NoInstance \notin Instances
    /\ {MaxJobs, MaxVersion, MaxGeneration} \subseteq Nat
    /\ MonthCount \in Nat \ {0}
    /\ Submittable \subseteq {"bootstrap", "initialization", "preparation", "backtest"}
    /\ Parents \subseteq Nat
    /\ Projecting \in BOOLEAN

VARIABLES
    lease,      \* the strategy_worker_lease row; generation 0: no row
    jobs,       \* the strategy_jobs rows
    claims,     \* claim tokens issued
    profile,    \* active_snapshot_profile: the capturing job, activation_seq
    staging,    \* jobs with a backtest_staging row
    results,    \* jobs with a backtest_results row
    restarts,   \* strategy_job_restart_actions: source |-> child
    outbox      \* the notification_outbox rows

ledger == <<lease, jobs, claims, profile, staging, results, restarts, outbox>>

JobIds == 1..MaxJobs
NoJob == 0

JobType == {"bootstrap", "initialization", "preparation", "backtest"}

\* STAGE_SEQUENCES, by position: qualification, roster_capture,
\* profile_activation; evidence_selection, fx_pinning, manifest_sealing.
StageTypes == {"bootstrap", "preparation"}
Steps(type) == 1..(IF type \in StageTypes THEN 3 ELSE MonthCount)

\* Once its last stage has begun a stage job is no longer cancellable.
LastStage(row) == row.type \in StageTypes /\ row.step = 3

Terminal == {"complete", "failed", "cancelled"}
Failure == {"none", "worker_interrupted", "error"}

Fence == [instance : Instances \cup {NoInstance}, generation : Nat]
NoFence == [instance |-> NoInstance, generation |-> 0]

Row == [type : JobType, status : {"absent", "queued", "running"} \cup Terminal,
        parent : Nat,      \* parent_job_id
        source : Nat,      \* strategy_runs.source_preparation_job_id
        pinned : Nat,      \* activation_seq of the selection; 0: no selection
        token : Nat, step : Nat, owner : Fence, version : Nat,
        cancel : BOOLEAN, failure : Failure, deleted : BOOLEAN]

NewRow(type, parent, source, pinned) ==
    [type |-> type, status |-> "queued", parent |-> parent, source |-> source,
     pinned |-> pinned, token |-> 0, step |-> 0, owner |-> NoFence, version |-> 1,
     cancel |-> FALSE, failure |-> "none", deleted |-> FALSE]

AbsentRow == [NewRow("initialization", NoJob, NoJob, 0)
              EXCEPT !.status = "absent", !.version = 0]

NoMessage == [version |-> 0, pending |-> FALSE]

Existing == {j \in JobIds : jobs[j].status # "absent"}
With(status) == {j \in JobIds : jobs[j].status = status}

\* MAX(enqueue_seq) + 1
NextSeq(j) == /\ j \in JobIds \ Existing
               /\ \A k \in JobIds : k < j => k \in Existing

-----------------------------------------------------------------------------
(* What the write paths share.                                              *)

\* Mutant of FenceHolds: the generation is not compared.
FenceHoldsByInstance(fence) ==
    lease.generation = 0 \/ fence.instance = lease.instance

\* _LEASE_FENCE_SQL: vacuous without a lease row, else the exact holder and
\* generation.  Expiry is not looked at.
FenceHolds(fence) ==
    \/ lease.generation = 0
    \/ fence.instance = lease.instance /\ fence.generation = lease.generation

\* Mutant of Owned: a requested cancellation does not block the write.
OwnedDespiteCancel(j, token, version, fence) ==
    /\ jobs[j].status = "running"
    /\ jobs[j].token = token
    /\ jobs[j].version = version
    /\ FenceHolds(fence)

\* The compare-and-set predicate of every worker write.
Owned(j, token, version, fence) ==
    /\ jobs[j].status = "running"
    /\ jobs[j].token = token
    /\ jobs[j].version = version
    /\ ~jobs[j].cancel
    /\ FenceHolds(fence)

\* Mutant of Upserted: the conflict arm forgets pending = 1.
UpsertedStillDone(S, new) ==
    [j \in JobIds |->
        IF j \in S /\ new[j].version > outbox[j].version
        THEN [version |-> new[j].version,
              pending |-> outbox[j].pending \/ outbox[j].version = 0]
        ELSE outbox[j]]

\* _upsert_notification_outbox_on_connection for the rows of S as they are in
\* the new ledger: the upsert only moves the version forward.
Upserted(S, new) ==
    [j \in JobIds |->
        IF j \in S /\ new[j].version > outbox[j].version
        THEN [outbox[j] EXCEPT !.version = new[j].version, !.pending = TRUE]
        ELSE outbox[j]]

\* One UPDATE of strategy_jobs, status_version + 1, and its outbox upsert.
Write(j, row) ==
    LET new == [jobs EXCEPT ![j] = [row EXCEPT !.version = jobs[j].version + 1]]
    IN  jobs' = new /\ outbox' = Upserted({j}, new)

\* One INSERT into strategy_jobs and its outbox upsert.
Insert(j, row) ==
    LET new == [jobs EXCEPT ![j] = row]
    IN  jobs' = new /\ outbox' = Upserted({j}, new)

\* Mutant of Closed: the owner stays on the terminal row.
ClosedWithOwner(row, status, failure) ==
    [row EXCEPT !.status = status, !.token = 0, !.step = 0, !.failure = failure]

\* The columns every terminal UPDATE clears.
Closed(row, status, failure) ==
    [row EXCEPT !.status = status, !.token = 0, !.step = 0,
                !.owner = NoFence, !.failure = failure]

-----------------------------------------------------------------------------
(* The worker lease.                                                        *)

\* Mutant of AcquireOrRenew: a takeover keeps the generation.
TakeOverGeneration(i) ==
    LET generation == IF lease.generation = 0 THEN 1 ELSE lease.generation
    IN  /\ lease.generation = 0 \/ lease.instance = i \/ lease.expired
        /\ generation <= MaxGeneration
        /\ lease' = [instance |-> i, generation |-> generation, expired |-> FALSE]
        /\ UNCHANGED <<jobs, claims, profile, staging, results, restarts, outbox>>

\* acquire_or_renew_worker_lease: first acquisition, renewal by the holder
\* (expired or not) at the same generation, or takeover of an expired lease.
AcquireOrRenew(i) ==
    LET generation == IF lease.instance = i THEN lease.generation
                                            ELSE lease.generation + 1
    IN  /\ lease.generation = 0 \/ lease.instance = i \/ lease.expired
        /\ generation <= MaxGeneration
        /\ lease' = [instance |-> i, generation |-> generation, expired |-> FALSE]
        /\ UNCHANGED <<jobs, claims, profile, staging, results, restarts, outbox>>

\* The clock passes expires_at.
ExpireLease ==
    /\ lease.generation # 0 /\ ~lease.expired
    /\ lease' = [lease EXCEPT !.expired = TRUE]
    /\ UNCHANGED <<jobs, claims, profile, staging, results, restarts, outbox>>

\* reconcile_interrupted_strategy_jobs: every running row the given lease does
\* not own fails, cancelled or not.  The UPDATE carries no lease fence.
Abandoned(fence) ==
    {j \in With("running") : fence = NoFence \/ jobs[j].owner # fence}

\* Mutant of Reconcile: a failure code outside JobFailureCode.
ReconcileUnknownCode(fence) ==
    LET lost == Abandoned(fence)
        new == [j \in JobIds |->
                  IF j \in lost
                  THEN [Closed(jobs[j], "failed", "lease_lost")
                        EXCEPT !.version = jobs[j].version + 1]
                  ELSE jobs[j]]
    IN  /\ jobs' = new
        /\ outbox' = Upserted(lost, new)
        /\ UNCHANGED <<lease, claims, profile, staging, results, restarts>>

Reconcile(fence) ==
    LET lost == Abandoned(fence)
        new == [j \in JobIds |->
                  IF j \in lost
                  THEN [Closed(jobs[j], "failed", "worker_interrupted")
                        EXCEPT !.version = jobs[j].version + 1]
                  ELSE jobs[j]]
    IN  /\ jobs' = new
        /\ outbox' = Upserted(lost, new)
        /\ UNCHANGED <<lease, claims, profile, staging, results, restarts>>

-----------------------------------------------------------------------------
(* Submission.  An idempotency-key replay and a no-op answer change nothing. *)

Parent(p) == p = NoJob \/ (p \in Parents /\ p \in Existing)

\* create_initialization_job: the named profile must be the active one.
CreateInitialization(j, p) ==
    /\ "initialization" \in Submittable
    /\ NextSeq(j)
    /\ profile.seq > 0
    /\ Parent(p)
    /\ Insert(j, NewRow("initialization", p, NoJob, 0))
    /\ UNCHANGED <<lease, claims, profile, staging, results, restarts>>

\* create_bootstrap_job: a no-op over an active profile unless a refresh is
\* asked for, and never a second live bootstrap.
CreateBootstrap(j, p, refresh) ==
    /\ "bootstrap" \in Submittable
    /\ NextSeq(j)
    /\ profile.seq = 0 \/ refresh
    /\ ~\E k \in With("queued") \cup With("running") : jobs[k].type = "bootstrap"
    /\ Parent(p)
    /\ Insert(j, NewRow("bootstrap", p, NoJob, 0))
    /\ UNCHANGED <<lease, claims, profile, staging, results, restarts>>

\* create_preparation_job with a selection, which must pin the active profile
\* at its activation_seq.
CreatePreparation(j, p) ==
    /\ "preparation" \in Submittable
    /\ NextSeq(j)
    /\ profile.seq > 0
    /\ Parent(p)
    /\ Insert(j, NewRow("preparation", p, NoJob, profile.seq))
    /\ UNCHANGED <<lease, claims, profile, staging, results, restarts>>

\* _create_stage_job: a preparation without a selection.
CreateStageJob(j, p) ==
    /\ "preparation" \in Submittable
    /\ NextSeq(j)
    /\ Parent(p)
    /\ Insert(j, NewRow("preparation", p, NoJob, 0))
    /\ UNCHANGED <<lease, claims, profile, staging, results, restarts>>

\* create_backtest_job: its parent is an undeleted failed or cancelled backtest.
CreateBacktest(j, p) ==
    /\ "backtest" \in Submittable
    /\ NextSeq(j)
    /\ profile.seq > 0
    /\ Parent(p)
    /\ p # NoJob => /\ p \in JobIds
                    /\ jobs[p].type = "backtest"
                    /\ jobs[p].status \in {"failed", "cancelled"}
                    /\ ~jobs[p].deleted
    /\ Insert(j, NewRow("backtest", p, NoJob, 0))
    /\ UNCHANGED <<lease, claims, profile, staging, results, restarts>>

-----------------------------------------------------------------------------
(* What users ask of a submitted job.  version is the version they saw.     *)

\* request_strategy_job_cancellation: a queued job is cancelled outright, a
\* running one is only marked; nothing happens once its last stage has begun.
RequestCancellation(j, version) ==
    /\ j \in Existing
    /\ jobs[j].version = version
    /\ \/ /\ jobs[j].status = "queued"
          /\ Write(j, [Closed(jobs[j], "cancelled", "none") EXCEPT !.cancel = TRUE])
       \/ /\ jobs[j].status = "running"
          /\ ~jobs[j].cancel
          /\ ~LastStage(jobs[j])
          /\ Write(j, [jobs[j] EXCEPT !.cancel = TRUE])
    /\ UNCHANGED <<lease, claims, profile, staging, results, restarts>>

\* Mutant of Restartable: a job that has not ended may be restarted.
RestartableUnended(source, version) ==
    /\ source \in Existing
    /\ jobs[source].version = version
    /\ ~jobs[source].deleted
    /\ restarts[source] = NoJob

\* What restart_initialization_job and restart_backtest_job have in common.
Restartable(source, version) ==
    /\ source \in Existing
    /\ jobs[source].version = version
    /\ jobs[source].status \in {"failed", "cancelled"}
    /\ ~jobs[source].deleted
    /\ restarts[source] = NoJob

\* restart_initialization_job: one replay-from-beginning child per source.
RestartInitialization(source, version, child) ==
    /\ Restartable(source, version)
    /\ jobs[source].type = "initialization"
    /\ NextSeq(child)
    /\ Insert(child, NewRow("initialization", source, NoJob, 0))
    /\ restarts' = [restarts EXCEPT ![source] = child]
    /\ UNCHANGED <<lease, claims, profile, staging, results>>

\* restart_backtest_job: the child keeps the manifest but not the preparation.
RestartBacktest(source, version, child) ==
    /\ Restartable(source, version)
    /\ jobs[source].type = "backtest"
    /\ NextSeq(child)
    /\ Insert(child, NewRow("backtest", source, NoJob, 0))
    /\ restarts' = [restarts EXCEPT ![source] = child]
    /\ UNCHANGED <<lease, claims, profile, staging, results>>

\* Mutant of Delete: the staging rows are left behind.
DeleteKeepingStaging(j, version) ==
    /\ j \in Existing
    /\ jobs[j].version = version
    /\ jobs[j].status \in {"failed", "cancelled"}
    /\ ~jobs[j].deleted
    /\ Write(j, [jobs[j] EXCEPT !.deleted = TRUE, !.source = NoJob])
    /\ UNCHANGED <<lease, claims, profile, staging, results, restarts>>

\* delete_strategy_job: a tombstone; the subtype row (with it the link to the
\* preparation) and any staging go.
Delete(j, version) ==
    /\ j \in Existing
    /\ jobs[j].version = version
    /\ jobs[j].status \in {"failed", "cancelled"}
    /\ ~jobs[j].deleted
    /\ Write(j, [jobs[j] EXCEPT !.deleted = TRUE, !.source = NoJob])
    /\ staging' = staging \ {j}
    /\ UNCHANGED <<lease, claims, profile, results, restarts>>

\* acknowledge_notification_outbox: only the exact version projected.  With it
\* projected_status_version = job_status_version whenever pending is 0, so that
\* column is not kept: a row awaits projection exactly when it is pending.
Acknowledge(j, version) ==
    /\ j \in Existing
    /\ outbox[j].version = version
    /\ outbox' = [outbox EXCEPT ![j].pending = FALSE]
    /\ UNCHANGED <<lease, jobs, claims, profile, staging, results, restarts>>

-----------------------------------------------------------------------------
(* What dispatchers and worker children ask of a claimed job.               *)

\* Mutants of ClaimNext: one job at a time is forgotten; the newest job first.
ClaimAnother(j, fence) ==
    /\ j \in With("queued")
    /\ \A k \in With("queued") : j <= k
    /\ FenceHolds(fence)
    /\ claims' = claims + 1
    /\ Write(j, [jobs[j] EXCEPT !.status = "running", !.token = claims + 1,
                                !.step = 0, !.owner = fence])
    /\ UNCHANGED <<lease, profile, staging, results, restarts>>

ClaimNewest(j, fence) ==
    /\ With("running") = {}
    /\ j \in With("queued")
    /\ \A k \in With("queued") : k <= j
    /\ FenceHolds(fence)
    /\ claims' = claims + 1
    /\ Write(j, [jobs[j] EXCEPT !.status = "running", !.token = claims + 1,
                                !.step = 0, !.owner = fence])
    /\ UNCHANGED <<lease, profile, staging, results, restarts>>

\* claim_next_strategy_job: the smallest queued sequence, unless a job runs.
ClaimNext(j, fence) ==
    /\ With("running") = {}
    /\ j \in With("queued")
    /\ \A k \in With("queued") : j <= k
    /\ FenceHolds(fence)
    /\ claims' = claims + 1
    /\ Write(j, [jobs[j] EXCEPT !.status = "running", !.token = claims + 1,
                                !.step = 0, !.owner = fence])
    /\ UNCHANGED <<lease, profile, staging, results, restarts>>

\* The trigger strategy_job_version_requires_mutation: an UPDATE that moves
\* nothing but the version is aborted, and with it the transaction.
Mutates(j, row) == row # jobs[j]

\* set_strategy_job_current_month.  A month reported twice meets the trigger; a
\* child that did so would be stuck at its SetStep.
SetCurrentMonth(j, token, version, fence, month) ==
    /\ jobs[j].type \notin StageTypes
    /\ month \in Steps(jobs[j].type)
    /\ Owned(j, token, version, fence)
    /\ Mutates(j, [jobs[j] EXCEPT !.step = month])
    /\ Write(j, [jobs[j] EXCEPT !.step = month])
    /\ UNCHANGED <<lease, claims, profile, staging, results, restarts>>

\* set_strategy_job_current_stage.
SetCurrentStage(j, token, version, fence, stage) ==
    /\ jobs[j].type \in StageTypes
    /\ stage \in Steps(jobs[j].type)
    /\ Owned(j, token, version, fence)
    /\ Mutates(j, [jobs[j] EXCEPT !.step = stage])
    /\ Write(j, [jobs[j] EXCEPT !.step = stage])
    /\ UNCHANGED <<lease, claims, profile, staging, results, restarts>>

\* complete_claimed_stage_job: the stage walk of a bootstrap or preparation.
CompleteStageJob(j, token, version, fence) ==
    /\ jobs[j].type \in StageTypes
    /\ Owned(j, token, version, fence)
    /\ Write(j, Closed(jobs[j], "complete", "none"))
    /\ UNCHANGED <<lease, claims, profile, staging, results, restarts>>

\* activate_bootstrap_profile_and_complete: a captured profile that is not the
\* active one already becomes active at the next activation_seq.
ActivateProfileAndComplete(j, token, version, fence, same) ==
    /\ jobs[j].type = "bootstrap"
    /\ Owned(j, token, version, fence)
    /\ LastStage(jobs[j])
    /\ same => profile.seq > 0
    /\ profile' = IF same THEN profile ELSE [by |-> j, seq |-> profile.seq + 1]
    /\ Write(j, Closed(jobs[j], "complete", "none"))
    /\ UNCHANGED <<lease, claims, staging, results, restarts>>

\* cancel_claimed_strategy_job: finalizes a requested cancellation and, for a
\* backtest, discards its staging.
CanCancelClaimed(j, token, version, fence) ==
    /\ jobs[j].status = "running"
    /\ jobs[j].token = token
    /\ jobs[j].version = version
    /\ jobs[j].cancel
    /\ FenceHolds(fence)

CancelClaimed(j, token, version, fence) ==
    /\ CanCancelClaimed(j, token, version, fence)
    /\ Write(j, Closed(jobs[j], "cancelled", "none"))
    /\ staging' = IF jobs[j].type = "backtest" THEN staging \ {j} ELSE staging
    /\ UNCHANGED <<lease, claims, profile, results, restarts>>

\* fail_claimed_strategy_job.  A backtest's staging stays.
FailClaimed(j, token, version, fence, failure) ==
    /\ Owned(j, token, version, fence)
    /\ Write(j, Closed(jobs[j], "failed", failure))
    /\ UNCHANGED <<lease, claims, profile, staging, results, restarts>>

\* complete_claimed_initialization_job, on an interval that is Ready.
CompleteInitialization(j, token, version, fence) ==
    /\ jobs[j].type = "initialization"
    /\ Owned(j, token, version, fence)
    /\ Write(j, Closed(jobs[j], "complete", "none"))
    /\ UNCHANGED <<lease, claims, profile, staging, results, restarts>>

\* write_backtest_staging: no column of the job row moves.
WriteStaging(j, token, version, fence) ==
    /\ jobs[j].type = "backtest"
    /\ Owned(j, token, version, fence)
    /\ staging' = staging \cup {j}
    /\ UNCHANGED <<lease, jobs, claims, profile, results, restarts, outbox>>

\* complete_claimed_backtest_job: staging becomes the immutable result.
CompleteBacktest(j, token, version, fence) ==
    /\ jobs[j].type = "backtest"
    /\ Owned(j, token, version, fence)
    /\ j \in staging
    /\ results' = results \cup {j}
    /\ staging' = staging \ {j}
    /\ Write(j, Closed(jobs[j], "complete", "none"))
    /\ UNCHANGED <<lease, claims, profile, restarts>>

\* seal_preparation_and_create_backtest: the preparation completes and its
\* backtest is queued in one transaction, if the pinned profile is still the
\* active one at the pinned activation_seq.
SealPreparation(j, token, version, fence, child) ==
    LET done == [Closed(jobs[j], "complete", "none") EXCEPT !.version = jobs[j].version + 1]
        new == [jobs EXCEPT ![j] = done, ![child] = NewRow("backtest", NoJob, j, 0)]
    IN  /\ jobs[j].type = "preparation"
        /\ Owned(j, token, version, fence)
        /\ jobs[j].pinned > 0 /\ jobs[j].pinned = profile.seq
        /\ NextSeq(child)
        /\ jobs' = new
        /\ outbox' = Upserted({j, child}, new)
        /\ UNCHANGED <<lease, claims, profile, staging, results, restarts>>

-----------------------------------------------------------------------------
(* The ledger under every caller: what they present may be stale, but it was *)
(* issued once.                                                             *)

Tokens == 1..claims
Versions(j) == 1..jobs[j].version
Fences == {NoFence} \cup [instance : Instances, generation : 1..lease.generation]

\* A fresh database, or one whose profile activate_snapshot_profile activated
\* outside any job.
Init ==
    /\ lease = [instance |-> NoInstance, generation |-> 0, expired |-> FALSE]
    /\ jobs = [j \in JobIds |-> AbsentRow]
    /\ claims = 0
    /\ profile \in [by : {NoJob}, seq : {0, 1}]
    /\ staging = {} /\ results = {}
    /\ restarts = [j \in JobIds |-> NoJob]
    /\ outbox = [j \in JobIds |-> NoMessage]

Submit(j, p) ==
    \/ CreateInitialization(j, p)
    \/ \E refresh \in BOOLEAN : CreateBootstrap(j, p, refresh)
    \/ CreatePreparation(j, p)
    \/ CreateStageJob(j, p)
    \/ CreateBacktest(j, p)

Ask(j, version) ==
    \/ RequestCancellation(j, version)
    \/ Delete(j, version)
    \/ Projecting /\ Acknowledge(j, version)
    \/ \E child \in JobIds : \/ RestartInitialization(j, version, child)
                            \/ RestartBacktest(j, version, child)

\* Progress is cut off at MaxVersion.
Progress(j, token, version, fence) ==
    /\ jobs[j].version < MaxVersion
    /\ \E step \in 1..(MonthCount + 3) : \/ SetCurrentMonth(j, token, version, fence, step)
                                        \/ SetCurrentStage(j, token, version, fence, step)

WorkerWrite(j, token, version, fence) ==
    \/ Progress(j, token, version, fence)
    \/ CompleteStageJob(j, token, version, fence)
    \/ \E same \in BOOLEAN : ActivateProfileAndComplete(j, token, version, fence, same)
    \/ CancelClaimed(j, token, version, fence)
    \/ \E failure \in Failure \ {"none"} : FailClaimed(j, token, version, fence, failure)
    \/ CompleteInitialization(j, token, version, fence)
    \/ WriteStaging(j, token, version, fence)
    \/ CompleteBacktest(j, token, version, fence)
    \/ \E child \in JobIds : SealPreparation(j, token, version, fence, child)

Next ==
    \/ \E i \in Instances : AcquireOrRenew(i)
    \/ ExpireLease
    \/ \E fence \in Fences : Reconcile(fence)
    \/ \E j \in JobIds, p \in {NoJob} \cup Parents : Submit(j, p)
    \/ \E j \in JobIds : \E version \in Versions(j) : Ask(j, version)
    \/ \E j \in JobIds, fence \in Fences : ClaimNext(j, fence)
    \/ \E j \in With("running") :
         \E token \in Tokens, version \in Versions(j), fence \in Fences :
            WorkerWrite(j, token, version, fence)

Spec == Init /\ [][Next]_ledger

-----------------------------------------------------------------------------
(* Properties.                                                              *)

\* Every column keeps its domain, whatever handler wrote it last.
TypeOK ==
    /\ lease \in [instance : Instances \cup {NoInstance}, generation : Nat, expired : BOOLEAN]
    /\ jobs \in [JobIds -> Row]
    /\ claims \in Nat
    /\ profile \in [by : Nat, seq : Nat]
    /\ staging \subseteq JobIds
    /\ results \subseteq JobIds
    /\ restarts \in [JobIds -> Nat]
    /\ outbox \in [JobIds -> [version : Nat, pending : BOOLEAN]]

\* At most one job runs, over every interleaving of claims, takeovers,
\* reconciliations and late worker writes (one_running_strategy_job).
OneRunning == \A j, k \in With("running") : j = k

\* No statement of any handler trips a CHECK constraint of strategy_jobs, which
\* would surface as an integrity error instead of a conflict.
ChecksHold ==
    \A j \in Existing :
        LET row == jobs[j] IN
        /\ row.status = "queued" => row.token = 0 /\ row.step = 0 /\ row.owner = NoFence
        /\ row.status = "running" => row.token > 0 /\ ~row.deleted
        /\ (row.owner.instance = NoInstance) = (row.owner.generation = 0)
        /\ row.status \in Terminal => row.step = 0 /\ row.owner = NoFence
        /\ row.step # 0 => row.step \in Steps(row.type)
        /\ (row.status = "failed") = (row.failure # "none")
        /\ row.status = "cancelled" => row.cancel
        /\ row.deleted => row.status \in {"failed", "cancelled"}

\* Nor a trigger: every UPDATE moves the version by exactly one and something
\* besides it, identity never moves, terminal rows only become tombstones,
\* status moves along the legal arcs, the lease generation moves up exactly
\* when its holder changes; a restart link and a result are never rewritten.
LegalArcs == ({"queued"} \X {"running", "cancelled", "failed"})
             \cup ({"running"} \X Terminal)

LegalUpdate(old, new) ==
    /\ new.version = old.version + 1
    /\ new # [old EXCEPT !.version = @ + 1]
    /\ new.type = old.type /\ new.parent = old.parent
    /\ new.status # old.status => <<old.status, new.status>> \in LegalArcs
    /\ old.status \in Terminal =>
         new = [old EXCEPT !.version = @ + 1, !.deleted = TRUE, !.source = new.source]

TriggersAllow ==
    [][/\ \A j \in Existing : jobs'[j] = jobs[j] \/ LegalUpdate(jobs[j], jobs'[j])
       /\ lease.generation # 0 /\ lease'.instance # lease.instance
            => lease'.generation = lease.generation + 1
       /\ lease'.generation >= lease.generation
       /\ results \subseteq results'
       /\ \A j \in JobIds : restarts[j] # NoJob => restarts'[j] = restarts[j]]_ledger

\* An acknowledged cancellation is never undone: the job ends cancelled, or as
\* interrupted by a takeover, and leaves no result, no sealed backtest and no
\* activated profile behind (architecture decision AD-4).
CancellationHonoured ==
    \A j \in JobIds : jobs[j].cancel =>
        /\ \/ jobs[j].status \in {"running", "cancelled"}
           \/ jobs[j].status = "failed" /\ jobs[j].failure = "worker_interrupted"
        /\ j \notin results
        /\ profile.by # j
        /\ \A k \in JobIds : jobs[k].source # j

\* What a job leaves behind it leaves by completing: a result for exactly the
\* complete backtests, at most one sealed backtest per completed preparation
\* that pinned a selection, an active profile only from a completed bootstrap.
\* Staging survives an interruption or failure but no other end.
OutcomesFollowCompletion ==
    /\ results = {j \in With("complete") : jobs[j].type = "backtest"}
    /\ \A k \in JobIds : jobs[k].source # NoJob =>
         /\ jobs[k].source \in With("complete")
         /\ jobs[jobs[k].source].pinned > 0
         /\ \A l \in JobIds : jobs[l].source = jobs[k].source => l = k
    /\ profile.by # NoJob => /\ profile.by \in With("complete")
                             /\ jobs[profile.by].type = "bootstrap"
    /\ \A j \in staging : /\ jobs[j].type = "backtest"
                          /\ jobs[j].status \in {"running", "failed"}
                          /\ ~jobs[j].deleted

\* Restart links form a forest of later jobs: a source has ended unsuccessfully,
\* its child is the same kind of job and no other source's child, also after
\* either of them is deleted.
RestartLineage ==
    \A s \in JobIds : restarts[s] # NoJob =>
        LET c == restarts[s] IN
        /\ s < c /\ c \in Existing
        /\ jobs[s].status \in {"failed", "cancelled"}
        /\ jobs[c].parent = s /\ jobs[c].type = jobs[s].type
        /\ \A t \in JobIds : restarts[t] = c => t = s

\* The outbox row of a job always carries its latest version, and whatever
\* changes a job leaves it to be projected again: no handler forgets the upsert.
OutboxCurrent ==
    [][\A j \in JobIds :
        /\ outbox'[j].version = jobs'[j].version
        /\ jobs'[j] # jobs[j] => outbox'[j].pending]_ledger

-----------------------------------------------------------------------------
(* The ledger implements the serial job queue.                              *)

Phase(row) == CASE row.status = "absent" -> "unborn"
                [] row.status = "queued" -> "waiting"
                [] row.status = "running" -> "serving"
                [] row.status = "complete" -> "done"
                [] row.status = "cancelled" -> "cancelled"
                [] row.status = "failed" ->
                     IF row.failure = "worker_interrupted" THEN "lost" ELSE "failed"

Queue == INSTANCE SerialJobQueue
            WITH phase <- [j \in JobIds |-> Phase(jobs[j])],
                 wish <- [j \in JobIds |-> jobs[j].cancel]

\* Jobs are served one at a time in order of arrival, an acknowledged
\* cancellation is never answered by success, and no end is revised.
ServesSerially == Queue!Spec
=============================================================================
