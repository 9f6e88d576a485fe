-------------------------- MODULE StrategyDispatch --------------------------
(***************************************************************************)
(* The application processes that compete for the worker lease and dispatch *)
(* the ledger's jobs: StrategyJobService with its dispatcher thread, its    *)
(* shutdown, and its child processes.  A process is born with a fresh       *)
(* instance id, so it never comes back; its children outlive it.            *)
(***************************************************************************)
EXTENDS StrategyWorker

CONSTANTS
    Mortal,         \* instances that may crash or be shut down
    Cancelling,     \* whether users request cancellations
    LockErrors,     \* whether a write may fail on a locked database
    LateHeartbeats  \* bound: generations whose live holder may miss its heartbeat

ASSUME DispatchAssumption ==
    /\ Mortal \subseteq Instances
    /\ {Cancelling, LockErrors} \subseteq BOOLEAN
    /\ LateHeartbeats \in Nat

VARIABLE svc        \* the service of each instance

\* Program points of the dispatcher thread.  "fallback" and "fail" hold the
\* service lock; _owned is empty there and job is a local variable.
SvcPc == {"new", "idle", "reconcile", "dispatch", "spawn", "fallback", "fail", "stop", "dead"}

SvcState == [pc : SvcPc,
             held : Nat,        \* generation of _lease; 0: None
             loop : BOOLEAN,    \* the dispatch loop runs
             job : Nat,         \* _owned.job_id, or the local claim
             token : Nat,       \* its claim_token
             ver : Nat,         \* the status_version about to be presented
             \* History, which no step reads: what a locked database broke off.
             forgot : SUBSET JobIds,   \* the claims whose fallback it was
             skipped : Nat]            \* the generation that was to reconcile

vars == <<ledger, child, svc>>

Fresh == [pc |-> "new", held |-> 0, loop |-> FALSE, job |-> NoJob, token |-> 0, ver |-> 0,
          forgot |-> {}, skipped |-> 0]
Dead == [Fresh EXCEPT !.pc = "dead"]

DispatchInit == Init /\ ChildInit /\ svc = [i \in Instances |-> Fresh]

\* _fence
FenceOf(i) == IF svc[i].held = 0 THEN NoFence
              ELSE [instance |-> i, generation |-> svc[i].held]

Running(i) == svc[i].pc \notin {"new", "dead"}

Set(i, s) == svc' = [svc EXCEPT ![i] = s]
SvcGoto(i, pc) == Set(i, [svc[i] EXCEPT !.pc = pc])

\* The service without its local claim, waiting for the next poll; outside the
\* loop (shutdown) the process ends instead.
Rest(i, lost) == IF svc[i].loop
                 THEN [svc[i] EXCEPT !.pc = "idle", !.job = NoJob, !.token = 0, !.ver = 0,
                                     !.forgot = @ \cup lost]
                 ELSE Dead
Done(i) == Set(i, Rest(i, {}))

LeaseFree(i) == lease.generation = 0 \/ lease.instance = i \/ lease.expired

-----------------------------------------------------------------------------
(* The dispatcher.                                                          *)

\* reconcile_startup: acquire; without the lease, straight to the loop.
Start(i) ==
    /\ svc[i].pc = "new"
    /\ UNCHANGED child
    /\ \/ /\ AcquireOrRenew(i)
          /\ Set(i, [Fresh EXCEPT !.pc = "reconcile", !.held = lease'.generation])
       \/ /\ ~LeaseFree(i)
          /\ Set(i, [Fresh EXCEPT !.pc = "idle", !.loop = TRUE])
          /\ UNCHANGED ledger

\* Mutant of Heartbeat: only startup reconciles.
HeartbeatOnly(i) ==
    /\ svc[i].pc = "idle"
    /\ UNCHANGED child
    /\ \/ /\ AcquireOrRenew(i)
          /\ Set(i, [svc[i] EXCEPT !.pc = "dispatch", !.held = lease'.generation])
       \/ /\ ~LeaseFree(i)
          /\ Set(i, [svc[i] EXCEPT !.pc = "stop", !.held = 0])
          /\ UNCHANGED ledger

\* _heartbeat: renew or take over, and reconcile what a new generation
\* inherits; a lease held elsewhere is dropped, and the owned child with it.
Heartbeat(i) ==
    /\ svc[i].pc = "idle"
    /\ UNCHANGED child
    /\ \/ /\ AcquireOrRenew(i)
          /\ Set(i, [svc[i] EXCEPT
                       !.pc = IF svc[i].held = lease'.generation
                              THEN "dispatch" ELSE "reconcile",
                       !.held = lease'.generation])
       \/ /\ ~LeaseFree(i)
          /\ Set(i, [svc[i] EXCEPT !.pc = "stop", !.held = 0])
          /\ UNCHANGED ledger

\* reconcile_interrupted_strategy_jobs with the lease believed held.  Startup
\* then starts the loop; a locked database abandons the reconciliation, or the
\* startup with it.
ReconcileHeld(i) ==
    /\ svc[i].pc = "reconcile"
    /\ UNCHANGED child
    /\ \/ /\ Reconcile(FenceOf(i))
          /\ Set(i, [svc[i] EXCEPT !.pc = IF @ = "reconcile" /\ svc[i].loop
                                         THEN "dispatch" ELSE "idle",
                                  !.loop = TRUE])
       \/ /\ LockErrors
          /\ Set(i, IF svc[i].loop
                    THEN [svc[i] EXCEPT !.pc = "idle", !.skipped = svc[i].held]
                    ELSE Dead)
          /\ UNCHANGED ledger

\* Mutants of PollChild: the fallback is skipped; the exit code is not awaited.
PollAndForget(i) ==
    /\ svc[i].pc = "dispatch" /\ svc[i].job # NoJob
    /\ Set(i, IF Alive(svc[i].job)
              THEN [svc[i] EXCEPT !.pc = "idle"]
              ELSE [svc[i] EXCEPT !.pc = "idle", !.job = NoJob, !.token = 0, !.ver = 0])
    /\ UNCHANGED <<ledger, child>>

PollImpatiently(i) ==
    /\ svc[i].pc = "dispatch" /\ svc[i].job # NoJob
    /\ SvcGoto(i, "fallback")
    /\ UNCHANGED <<ledger, child>>

\* dispatch_once with an owned child: wait for it, or forget it and fall back.
PollChild(i) ==
    /\ svc[i].pc = "dispatch" /\ svc[i].job # NoJob
    /\ SvcGoto(i, IF Alive(svc[i].job) THEN "idle" ELSE "fallback")
    /\ UNCHANGED <<ledger, child>>

\* dispatch_once without one: claim.  Nothing to claim and a lost claim look the
\* same to the loop.
ClaimJob(i) ==
    /\ svc[i].pc = "dispatch" /\ svc[i].job = NoJob
    /\ UNCHANGED child
    /\ \/ \E j \in JobIds :
             /\ ClaimNext(j, FenceOf(i))
             /\ Set(i, [svc[i] EXCEPT !.pc = "spawn", !.job = j, !.token = claims + 1,
                                     !.ver = jobs[j].version + 1])
       \/ /\ \/ With("running") # {} \/ With("queued") = {}
             \/ ~FenceHolds(FenceOf(i))
          /\ SvcGoto(i, "idle")
          /\ UNCHANGED ledger

\* popen: the child gets the claim on its command line, or fails to start.
Spawn(i) ==
    /\ svc[i].pc = "spawn"
    /\ \/ /\ child' = [child EXCEPT ![svc[i].job] =
                        [pc |-> "boot", token |-> svc[i].token, fence |-> FenceOf(i),
                         ver |-> 0, step |-> 0]]
          /\ SvcGoto(i, "idle")
       \/ SvcGoto(i, "fail") /\ child' = [child EXCEPT ![svc[i].job] = Gone]
    /\ UNCHANGED ledger

\* Mutant of Fallback: the version of the claim is presented, not a fresh one.
FallbackUnread(i) ==
    LET job == jobs[svc[i].job] IN
    /\ svc[i].pc = "fallback"
    /\ IF job.status = "running" /\ job.token = svc[i].token
       THEN SvcGoto(i, "fail")
       ELSE Done(i)
    /\ UNCHANGED <<ledger, child>>

\* _fallback_if_nonterminal: the read.
Fallback(i) ==
    LET job == jobs[svc[i].job] IN
    /\ svc[i].pc = "fallback"
    /\ IF job.status = "running" /\ job.token = svc[i].token
       THEN Set(i, [svc[i] EXCEPT !.pc = "fail", !.ver = job.version])
       ELSE Done(i)
    /\ UNCHANGED <<ledger, child>>

\* _fail_owned_claim: a conflict is swallowed.
FailOwnedClaim(i) ==
    LET s == svc[i] IN
    /\ s.pc = "fail"
    /\ \/ FailClaimed(s.job, s.token, s.ver, FenceOf(i), "worker_interrupted")
       \/ ~Owned(s.job, s.token, s.ver, FenceOf(i)) /\ UNCHANGED ledger
    /\ Done(i)
    /\ UNCHANGED child

\* A locked database ends the iteration in the middle of a fallback, after
\* _owned was already cleared.
FallbackLocked(i) ==
    /\ LockErrors
    /\ svc[i].pc \in {"fallback", "fail"}
    /\ Set(i, Rest(i, {svc[i].job}))
    /\ UNCHANGED <<ledger, child>>

\* _stop_owned_child_after_lease_loss.
StopOwnedChild(i) ==
    /\ svc[i].pc = "stop"
    /\ Done(i)
    /\ child' = [j \in JobIds |-> IF j = svc[i].job /\ Alive(j) THEN Gone ELSE child[j]]
    /\ UNCHANGED ledger

\* shutdown, once the thread has joined: the owned child is terminated and its
\* job falls back.  The lease is left to expire.
Shutdown(i) ==
    /\ i \in Mortal
    /\ svc[i].pc = "idle"
    /\ child' = [j \in JobIds |-> IF j = svc[i].job /\ Alive(j) THEN Gone ELSE child[j]]
    /\ Set(i, IF svc[i].job = NoJob THEN Dead
              ELSE [svc[i] EXCEPT !.pc = "fallback", !.loop = FALSE])
    /\ UNCHANGED ledger

\* The process dies; its child does not.
Crash(i) ==
    /\ i \in Mortal
    /\ Running(i)
    /\ Set(i, Dead)
    /\ UNCHANGED <<ledger, child>>

ServiceStep(i) ==
    \/ Start(i) \/ Heartbeat(i) \/ ReconcileHeld(i) \/ PollChild(i) \/ ClaimJob(i)
    \/ Spawn(i) \/ Fallback(i) \/ FailOwnedClaim(i) \/ FallbackLocked(i)
    \/ StopOwnedChild(i)

-----------------------------------------------------------------------------
(* The environment.                                                         *)

\* A live holder renews every poll, 0.25 s against a TTL of 30 s, so its lease
\* only expires when the process stalls.
Expires ==
    /\ \/ lease.instance \in Instances /\ ~Running(lease.instance)
       \/ lease.generation <= LateHeartbeats
    /\ ExpireLease
    /\ UNCHANGED <<child, svc>>

UserStep ==
    /\ UNCHANGED <<child, svc>>
    /\ \E j \in JobIds : \/ Submit(j, NoJob)
                        \/ (Cancelling /\ RequestCancellation(j, jobs[j].version))

DispatchNext ==
    \/ \E i \in Instances : ServiceStep(i) \/ Shutdown(i) \/ Crash(i)
    \/ \E j \in JobIds : (ChildStep(j) \/ ChildDies(j)) /\ UNCHANGED svc
    \/ Expires
    \/ UserStep

DispatchSafety == DispatchInit /\ [][DispatchNext]_vars

\* The loop polls for ever, children run until they end, the clock moves on;
\* users, crashes and kernel kills owe nothing.
DispatchSpec ==
    /\ DispatchSafety
    /\ \A i \in Instances : WF_vars(ServiceStep(i))
    /\ \A j \in JobIds : WF_vars(ChildStep(j) /\ UNCHANGED svc)
    /\ WF_vars(Expires)

-----------------------------------------------------------------------------
(* Properties.                                                              *)

OwnerIsCurrent(j) == /\ jobs[j].owner.instance = lease.instance
                     /\ jobs[j].owner.generation = lease.generation

\* A cancellation that arrives between the end of a child and the fallback for
\* it: fail_claimed_strategy_job refuses a cancelled job.
Wedged(j) == jobs[j].status = "running" /\ jobs[j].cancel /\ ~Alive(j)

\* A running job that the current lease owns is in the hands of the process
\* that holds it, as its child or as a claim being started or failed, or it is
\* wedged, or its fallback met a locked database.  These two are the only ways
\* in which dispatch_once forgets a claim, whoever stalls, dies or takes over.
NoLeakedClaim ==
    \A j \in With("running") :
        LET i == jobs[j].owner.instance IN
        (OwnerIsCurrent(j) /\ Running(i)) => (svc[i].job = j \/ Wedged(j) \/ j \in svc[i].forgot)

\* _heartbeat: "Renew the lease, reconciling whatever a new generation
\* inherits": a running job the lease does not own is about to be reconciled,
\* its holder being between its heartbeat and its reconciliation, or is gone
\* and will be succeeded.
InheritedClaimsReconciled ==
    \A j \in With("running") :
        OwnerIsCurrent(j) \/ ~Running(lease.instance) \/ svc[lease.instance].pc = "reconcile"

\* The same with the one exception there is: the reconciliation of this very
\* generation met a locked database.  A later generation makes up for it.
StaleClaimsReconciled ==
    \A j \in With("running") :
        \/ OwnerIsCurrent(j) \/ ~Running(lease.instance)
        \/ svc[lease.instance].pc = "reconcile"
        \/ svc[lease.instance].skipped = lease.generation

\* Once the lease has moved on, nothing the evicted process or its orphaned
\* child still does reaches the job: it can only be marked cancelled or be
\* interrupted, and stages nothing.
EvictedWritesLost ==
    [][\A j \in With("running") : ~OwnerIsCurrent(j) =>
        /\ \/ jobs'[j] = jobs[j]
           \/ jobs'[j] = [jobs[j] EXCEPT !.cancel = TRUE, !.version = @ + 1]
           \/ jobs'[j].status = "failed" /\ jobs'[j].failure = "worker_interrupted"
        /\ j \in staging' => j \in staging]_vars

\* A job whose child is alive and whose owner still holds the lease is never
\* interrupted (reconcile_interrupted_strategy_jobs: "a running row the current
\* healthy lease still owns is left completely untouched").
HealthyClaimSpared ==
    [][\A j \in With("running") :
        OwnerIsCurrent(j) /\ Alive(j) => jobs'[j].failure # "worker_interrupted"]_vars

\* Every submitted job ends, whatever crashes, kills and takeovers happen,
\* unless a cancellation wedges the ledger for ever.  (A job neither unexists
\* nor comes back from its end, so <>[] says what ~> would.)
EveryJobEnds ==
    \/ <>[](\A j \in Existing : jobs[j].status \in Terminal)
    \/ <>[](\E j \in JobIds : Wedged(j))

\* _fail_owned_claim: "A terminal worker write or newer owner won the race."
SwallowedConflictIsBenign ==
    [][\A i \in Instances :
        svc[i].pc = "fail" /\ svc'[i].pc = "idle" =>
            jobs'[svc[i].job].status # "running" \/ lease.generation # svc[i].held]_vars
=============================================================================
