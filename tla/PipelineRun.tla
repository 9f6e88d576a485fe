---------------------------- MODULE PipelineRun ----------------------------
(***************************************************************************)
(* A pipeline run from its launch to its end, over the shared status file:  *)
(* the web service that starts a run, spawns `orchestrator --once` and      *)
(* judges it; the scheduler that runs the same pipeline in its own process; *)
(* the run's publication of its artifact; and the capture of a snapshot     *)
(* month (BAU) the run may own, kept in an envelope file and an authority   *)
(* row that are written one after the other and reconciled by a later run.  *)
(*                                                                          *)
(* One snapshot month is modelled, so one authority row: bau_run_authority  *)
(* is unique on (profile_hash, snapshot_month).                             *)
(***************************************************************************)
EXTENDS PipelineStatus

CONSTANTS
    Polled,         \* whether a page polls the status bar
    Killable        \* whether processes are killed at any point

ASSUME RunAssumption == {Polled, Killable} \subseteq BOOLEAN

VARIABLES
    proc,       \* run |-> the process executing pipeline() for it
    service,    \* the web process's PipelineService: the refresh it serves
    published,  \* history: runs whose analysis artifact was put in place
    authority,  \* the bau_run_authority row of the month
    envelope,   \* the envelope file of the run that owns the row
    committed   \* whether the observed month has been committed

capture == <<authority, envelope, committed>>
vars == <<record, proc, service, published, capture>>

\* Where a process is.  recover, find: _recover_bau_run_authority; load, check,
\* replace: inside BauRunEnvelopeStore.complete or fail; row: the authority row.
Live == {"recover", "find", "load", "check", "replace", "row", "start", "closed",
         "work", "stage", "bind", "publish", "report", "release", "promote", "raised"}
Place == {"none", "exited", "dead"} \cup Live
Goal == {"completed", "failed"}
Stamp == {"none", "own", "recovered"}   \* which completed_at an envelope carries

Process == [at : Place, child : BOOLEAN, outcome : Finished, capturing : BOOLEAN,
            prepared : BOOLEAN, recovering : BOOLEAN, goal : Goal, stamp : Stamp,
            seen : {"none", "attempted", "prepared"}, success : BOOLEAN]

NoProcess == [at |-> "none", child |-> FALSE, outcome |-> "failed",
              capturing |-> FALSE, prepared |-> FALSE, recovering |-> FALSE,
              seen |-> "none", goal |-> "failed", stamp |-> "none", success |-> FALSE]

Idle == [at |-> "idle", run |-> NoRun, success |-> FALSE]

Alive(r) == proc[r].at \in Live
NextRun(r) == r \in Runs /\ proc[r].at = "none" /\ r # service.run
              /\ \A k \in Runs : k < r => proc[k].at # "none" \/ k = service.run

At(r, place) == proc[r].at = place
Go(r, place) == proc' = [proc EXCEPT ![r].at = place]

\* A process that has ended keeps nothing but its return code.
Ended(place, success) == [NoProcess EXCEPT !.at = place, !.success = success]
Exit(r, success) == proc' = [proc EXCEPT ![r] = Ended("exited", success)]
Die(r) == proc' = [proc EXCEPT ![r] = Ended("dead", FALSE)]

-----------------------------------------------------------------------------
(* The authority row and the envelope file.                                 *)

\* claim_bau_capture_attempt: INSERT OR IGNORE, one attempt for the month.
ClaimRow(r) ==
    /\ authority.run = NoRun
    /\ authority' = [run |-> r, state |-> "attempted", stamp |-> "none"]

\* Mutant of FailedRow: a row that has ended is failed again.
FailedRowAlways == [authority EXCEPT !.state = "failed"]

\* fail_bau_run_authority: an ended row is left alone.
FailedRow ==
    IF authority.state \in {"attempted", "prepared"}
    THEN [authority EXCEPT !.state = "failed"]
    ELSE authority

\* complete_bau_run_authority: raises, changing nothing, unless prepared.
CompletedRow(stamp) ==
    IF authority.state = "prepared"
    THEN [authority EXCEPT !.state = "completed", !.stamp = stamp]
    ELSE authority

\* is_promotable_bau: the row must name exactly the completed envelope.
Promotable ==
    /\ envelope.state = "completed"
    /\ authority.state = "completed"
    /\ authority.stamp = envelope.stamp

\* Where a process goes when it is done with the envelope and the row, or gives
\* up on them: a recovery goes on to start, a run's own closing to its end.
Leave(r) ==
    IF proc[r].recovering
    THEN [NoProcess EXCEPT !.at = "start", !.child = proc[r].child]
    ELSE IF proc[r].success THEN [proc[r] EXCEPT !.at = "promote"]
    ELSE Ended("exited", FALSE)

\* store.load inside complete or fail.  An envelope already in the goal state, or
\* one that fail finds no longer prepared, is returned; complete raises on a
\* failed one.
LoadEnvelope(r) ==
    /\ At(r, "load")
    /\ \/ /\ envelope.state = "prepared"
          /\ Go(r, "check")
       \/ /\ envelope.state # "prepared"
          /\ envelope.state = "completed" \/ proc[r].goal = "failed"
          /\ proc' = [proc EXCEPT ![r].at = "row", ![r].stamp = envelope.stamp]
       \/ /\ envelope.state = "failed" /\ proc[r].goal = "completed"
          /\ proc' = [proc EXCEPT ![r] = Leave(r)]
    /\ UNCHANGED <<record, service, published, capture>>

\* The second store.load, before os.replace: an envelope that has changed raises.
\* Recovery ignores that of fail and goes on to the row.
CheckEnvelope(r) ==
    /\ At(r, "check")
    /\ \/ envelope.state = "prepared" /\ Go(r, "replace")
       \/ /\ envelope.state # "prepared"
          /\ IF proc[r].recovering /\ proc[r].goal = "failed"
             THEN Go(r, "row")
             ELSE proc' = [proc EXCEPT ![r] = Leave(r)]
    /\ UNCHANGED <<record, service, published, capture>>

\* os.replace: whatever the file holds by now.
ReplaceEnvelope(r) ==
    /\ At(r, "replace")
    /\ envelope' = [state |-> proc[r].goal,
                    stamp |-> IF proc[r].goal = "failed" THEN "none"
                              ELSE IF proc[r].recovering THEN "recovered" ELSE "own"]
    /\ proc' = [proc EXCEPT ![r].at = "row", ![r].stamp = envelope'.stamp]
    /\ UNCHANGED <<record, service, published, authority, committed>>

CloseRow(r) ==
    /\ At(r, "row")
    /\ authority' = IF proc[r].goal = "completed" THEN CompletedRow(proc[r].stamp)
                                                  ELSE FailedRow
    /\ proc' = [proc EXCEPT ![r] = Leave(r)]
    /\ UNCHANGED <<record, service, published, envelope, committed>>

-----------------------------------------------------------------------------
(* pipeline(): recovery of an unfinished month.                             *)

\* status_repo.load, then unfinished_bau_run_authorities; any failure of the
\* whole recovery is a warning and the run goes on.
BeginRecovery(r) ==
    /\ At(r, "recover")
    /\ \/ /\ authority.state \in {"attempted", "prepared"}
          /\ proc' = [proc EXCEPT ![r].at = "find", ![r].seen = authority.state,
                                  ![r].recovering = TRUE]
       \/ Go(r, "start")
    /\ Load(RunThreshold)
    /\ UNCHANGED <<service, published, capture>>

\* Mutant of Succeeded: any run that ended is taken for a success.
SucceededAnyhow(found) == found.state \in Finished

\* A prepared attempt is completed only for a complete run with an artifact.
Succeeded(found) == found.state = "complete" /\ found.produced

\* find_run of the row's run, and what follows from the row as listed and the
\* outcome found.
FindRun(r) ==
    LET found == FoundIn(status, authority.run)
        next == IF found.state \in {"none", "running"} THEN Leave(r)
                ELSE IF proc[r].seen # "prepared"
                THEN [proc[r] EXCEPT !.at = "row", !.goal = "failed"]
                ELSE [proc[r] EXCEPT !.at = "load",
                        !.goal = IF Succeeded(found) THEN "completed" ELSE "failed"]
    IN  /\ At(r, "find")
        /\ proc' = [proc EXCEPT ![r] = next]
        /\ UNCHANGED <<record, service, published, capture>>

-----------------------------------------------------------------------------
(* pipeline(): the run itself.                                              *)

\* start; a scheduled run outside market hours does no work.
Start(r) ==
    /\ At(r, "start")
    /\ \/ /\ Started(r, proc[r].child)
          /\ \/ Go(r, "work")
             \/ ~proc[r].child /\ Go(r, "closed")
       \/ StartRefused(r, proc[r].child) /\ Exit(r, FALSE)
    /\ UNCHANGED <<service, published, capture>>

\* finish, by the process of run r; the process may be killed inside it.
FinishThen(r, state, produced, next) ==
    \/ Finish(r, state, produced) /\ proc' = [proc EXCEPT ![r] = next]
    \/ Killable /\ FinishUnarchived(r, state, produced) /\ Die(r)

Skip(r) ==
    /\ At(r, "closed")
    /\ FinishThen(r, "skipped", FALSE, Ended("exited", FALSE))
    /\ UNCHANGED <<service, published, capture>>

\* Any transition, count or source-health update; report_step also loads the
\* record, its own or another run's, when the scan ends.
Report(r) ==
    /\ proc[r].at \in {"work", "publish", "report"}
    /\ Touch(r) \/ (At(r, "work") /\ Load(RunThreshold))
    /\ UNCHANGED <<proc, service, published, capture>>

\* BauCaptureCoordinator.prepare_for_run, on an eligible day.
BeginCapture(r) ==
    /\ At(r, "work")
    /\ ~committed
    /\ ClaimRow(r)
    /\ proc' = [proc EXCEPT ![r].capturing = TRUE]
    /\ UNCHANGED <<record, service, published, envelope, committed>>

\* preload fails and closes the row, or the roster was not consumed in full.
LoseCapture(r) ==
    /\ At(r, "work") /\ proc[r].capturing
    /\ proc' = [proc EXCEPT ![r].capturing = FALSE]
    /\ authority' \in {FailedRow, authority}
    /\ UNCHANGED <<record, service, published, envelope, committed>>

\* No usable analysis records: the capture is left for a later recovery.
NoResults(r) ==
    /\ At(r, "work")
    /\ FinishThen(r, "failed", FALSE, Ended("exited", FALSE))
    /\ UNCHANGED <<service, published, capture>>

\* The analysis is done and its outcome derived from the source coverage.
Export(r, outcome) ==
    /\ At(r, "work")
    /\ proc' = [proc EXCEPT ![r].outcome = outcome,
          ![r].at = IF proc[r].capturing /\ outcome = "complete" THEN "stage"
                                                                 ELSE "publish"]
    /\ UNCHANGED <<record, service, published, capture>>

\* bau_store.prepare, or its failure, which closes the row.
StageEnvelope(r) ==
    /\ At(r, "stage")
    /\ \/ /\ envelope' = [state |-> "prepared", stamp |-> "none"]
          /\ Go(r, "bind")
          /\ UNCHANGED authority
       \/ /\ authority' = FailedRow
          /\ Go(r, "publish")
          /\ UNCHANGED envelope
    /\ UNCHANGED <<record, service, published, committed>>

\* prepare_bau_run_authority: refused once a recovery has closed the row.
BindRow(r) ==
    /\ At(r, "bind")
    /\ \/ /\ authority.state = "attempted"
          /\ authority' = [authority EXCEPT !.state = "prepared"]
          /\ proc' = [proc EXCEPT ![r].at = "publish", ![r].prepared = TRUE,
                                  ![r].capturing = FALSE]
       \/ /\ authority.state # "attempted"
          /\ authority' = FailedRow
          /\ Go(r, "publish")
    /\ UNCHANGED <<record, service, published, envelope, committed>>

\* The three os.replace calls; the analysis artifact is the last.
Publish(r) ==
    /\ At(r, "publish")
    /\ published' = published \cup {r}
    /\ Go(r, "report")
    /\ UNCHANGED <<record, service, capture>>

\* finish with the derived outcome.  What follows does not look at whether the
\* record was still the run's own.  A prepared run's outcome is complete.
FinishRun(r) ==
    LET next == [NoProcess EXCEPT !.success = TRUE, !.child = proc[r].child,
                    !.goal = "completed",
                    !.at = IF proc[r].prepared THEN "load" ELSE "release"]
    IN  /\ At(r, "report")
        /\ FinishThen(r, proc[r].outcome, TRUE, next)
        /\ UNCHANGED <<service, published, capture>>

\* A capture that never got an envelope is closed.
ReleaseRow(r) ==
    /\ At(r, "release")
    /\ authority' = IF authority = [run |-> r, state |-> "attempted", stamp |-> "none"]
                    THEN FailedRow ELSE authority
    /\ Go(r, "promote")
    /\ UNCHANGED <<record, service, published, envelope, committed>>

\* replay_completed_envelopes commits the month; the run then returns.
Promote(r) ==
    /\ At(r, "promote")
    /\ committed' = (committed \/ Promotable)
    /\ Exit(r, TRUE)
    /\ UNCHANGED <<record, service, published, authority, envelope>>

\* An exception anywhere before finish: the run is recorded as failed.
Raise(r) ==
    /\ proc[r].at \in {"work", "publish", "report"}
    /\ FinishThen(r, "failed", FALSE, [NoProcess EXCEPT !.at = "raised", !.child = proc[r].child])
    /\ UNCHANGED <<service, published, capture>>

\* The failed run closes what it finds of its own month: the envelope and the
\* row if prepared, the row alone if attempted.
CleanUp(r) ==
    LET owned == IF authority.run = r THEN authority.state ELSE "none"
    IN  /\ At(r, "raised")
        /\ \/ owned = "prepared" /\ Go(r, "load")
           \/ owned = "attempted" /\ Go(r, "row")
           \/ owned \notin {"prepared", "attempted"} /\ Exit(r, FALSE)
        /\ UNCHANGED <<record, service, published, capture>>

\* kill -9, a power loss, the interpreter dying.
Kill(r) ==
    /\ Killable
    /\ Alive(r)
    /\ Die(r)
    /\ UNCHANGED <<record, service, published, capture>>

-----------------------------------------------------------------------------
(* PipelineService: run_once under _run_lock.                               *)

\* start; a refusal answers the user and changes nothing but a stale record.
Refresh(r) ==
    /\ service.at = "idle"
    /\ NextRun(r)
    /\ \/ /\ Started(r, FALSE)
          /\ service' = [at |-> "spawning", run |-> r, success |-> FALSE]
       \/ StartRefused(r, FALSE) /\ UNCHANGED service
    /\ UNCHANGED <<proc, published, capture>>

\* subprocess.run: the child is spawned, or cannot be.
Spawn ==
    /\ service.at = "spawning"
    /\ \/ /\ proc' = [proc EXCEPT ![service.run] =
                        [NoProcess EXCEPT !.at = "recover", !.child = TRUE]]
          /\ service' = [service EXCEPT !.at = "waiting"]
       \/ /\ Die(service.run)
          /\ service' = [service EXCEPT !.at = "look"]
    /\ UNCHANGED <<record, published, capture>>

\* subprocess.run kills the child after PIPELINE_RUN_TIMEOUT_SECONDS.
Timeout ==
    /\ service.at = "waiting"
    /\ Alive(service.run)
    /\ Die(service.run)
    /\ service' = [service EXCEPT !.at = "look", !.success = FALSE]
    /\ UNCHANGED <<record, published, capture>>

\* Mutant of Judged: the return code is not looked at.
JudgedByRecord == status.run = service.run /\ status.state # "failed"

\* success: the record is still this run's, not failed, and the child returned 0.
Judged ==
    /\ status.run = service.run
    /\ status.state # "failed"
    /\ proc[service.run].success /\ proc[service.run].at = "exited"

Judge ==
    /\ service.at = "waiting"
    /\ ~Alive(service.run)
    /\ service' = [service EXCEPT !.at = "look", !.success = Judged]
    /\ Load(RunThreshold)
    /\ UNCHANGED <<proc, published, capture>>

\* Mutant of ToSettle: a refresh that failed leaves its record to others.
SettleSuccessOnly(current) == service.success /\ current.state = "running"

\* _set_finished: what the record still needs.
ToSettle(current) ==
    IF service.success THEN current.state = "running" ELSE current.state # "failed"

\* _set_finished: load, and leave if there is nothing to write.
Look ==
    LET current == Loaded(RunThreshold)
    IN  /\ service.at = "look"
        /\ service' = IF current.run = service.run /\ ToSettle(current)
                      THEN [service EXCEPT !.at = "settle"]
                      ELSE Idle
        /\ Load(RunThreshold)
        /\ UNCHANGED <<proc, published, capture>>

\* _set_finished: finish, in which the web process may be killed.
Settle ==
    LET state == IF service.success THEN "complete" ELSE "failed"
    IN  /\ service.at = "settle"
        /\ \/ Finish(service.run, state, FALSE) /\ service' = Idle
           \/ /\ Killable
              /\ FinishUnarchived(service.run, state, FALSE)
              /\ service' = [Idle EXCEPT !.at = "down"]
        /\ UNCHANGED <<proc, published, capture>>

\* The web process dies; a child it had spawned lives on.
WebDies ==
    /\ Killable
    /\ service.at \notin {"idle", "down"}
    /\ IF service.at = "spawning" THEN Die(service.run) ELSE UNCHANGED proc
    /\ service' = [Idle EXCEPT !.at = "down"]
    /\ UNCHANGED <<record, published, capture>>

WebRestarts ==
    /\ service.at = "down"
    /\ service' = Idle
    /\ UNCHANGED <<record, proc, published, capture>>

\* The scheduler calls pipeline() in its own process, one call at a time.
Schedule(r) ==
    /\ NextRun(r)
    /\ ~\E k \in Runs : Alive(k) /\ ~proc[k].child
    /\ proc' = [proc EXCEPT ![r] = [NoProcess EXCEPT !.at = "recover"]]
    /\ UNCHANGED <<record, service, published, capture>>

\* The status bar: PipelineService.status and build_freshness_context both load
\* the record, the second with the repository's default threshold.
PollStatus ==
    /\ Polled
    /\ status.state = "running" /\ quiet >= PageThreshold
    /\ Load(PageThreshold)
    /\ UNCHANGED <<proc, service, published, capture>>

\* Time passes without a report.  The service outlives its run's timeout by less
\* than the grace period, so no record it still serves is quiet beyond both.
Tick ==
    /\ status.state = "running"
    /\ quiet < 2
    /\ quiet = 1 => service.run # status.run
    /\ quiet' = quiet + 1
    /\ UNCHANGED <<status, history, proc, service, published, capture>>

-----------------------------------------------------------------------------
Init ==
    /\ InitRecord
    /\ proc = [r \in Runs |-> NoProcess]
    /\ service = Idle
    /\ published = {}
    /\ authority = [run |-> NoRun, state |-> "none", stamp |-> "none"]
    /\ envelope = [state |-> "none", stamp |-> "none"]
    /\ committed = FALSE

\* The steps a live process takes of its own accord.
ProcessStep(r) ==
    \/ BeginRecovery(r) \/ FindRun(r) \/ LoadEnvelope(r) \/ CheckEnvelope(r)
    \/ ReplaceEnvelope(r) \/ CloseRow(r) \/ Start(r) \/ Skip(r) \/ NoResults(r)
    \/ \E outcome \in {"complete", "partial"} : Export(r, outcome)
    \/ StageEnvelope(r) \/ BindRow(r) \/ Publish(r) \/ FinishRun(r)
    \/ ReleaseRow(r) \/ Promote(r) \/ Raise(r) \/ CleanUp(r)

ServiceStep == Spawn \/ Timeout \/ Judge \/ Look \/ Settle

Next ==
    \/ \E r \in Runs : ProcessStep(r) \/ Report(r) \/ BeginCapture(r)
                          \/ LoseCapture(r) \/ Kill(r) \/ Refresh(r) \/ Schedule(r)
    \/ ServiceStep \/ WebDies \/ WebRestarts \/ PollStatus \/ Tick

\* A process that lives goes on, the service goes on, time passes, and a page
\* that polls keeps polling; nobody has to refresh, be killed or restart.
Fairness ==
    /\ \A r \in Runs : WF_vars(ProcessStep(r))
    /\ WF_vars(ServiceStep)
    /\ WF_vars(PollStatus)
    /\ WF_vars(Tick)

Spec == Init /\ [][Next]_vars /\ Fairness

-----------------------------------------------------------------------------
(* Properties.                                                              *)

\* Every record, row and process stays in its domain.
PipelineTypeOK ==
    /\ status \in [run : Runs \cup {NoRun}, produced : BOOLEAN,
                   state : Finished \cup {"idle", "running"}]
    /\ quiet \in 0..2
    /\ history \in [Runs -> Outcome]
    /\ proc \in [Runs -> Process]
    /\ service \in [run : Runs \cup {NoRun}, success : BOOLEAN,
                    at : {"idle", "spawning", "waiting", "look", "settle", "down"}]
    /\ published \subseteq Runs
    /\ authority \in [run : Runs \cup {NoRun}, stamp : Stamp,
                      state : {"none", "attempted", "prepared"} \cup Goal]
    /\ envelope \in [state : {"none", "prepared"} \cup Goal, stamp : Stamp]
    /\ committed \in BOOLEAN

\* The record of a run that lives and has reported lately is changed by nobody
\* but its own process and the service waiting for it: not by another run's
\* start, not by another run's late finish, not by a reader.
LiveRecordKept ==
    [][\A r \in Runs :
         status.run = r /\ status.state = "running" /\ quiet = 0 /\ Alive(r)
         /\ status' # status
           => proc'[r] # proc[r] \/ (service.run = r /\ service' # service)]_vars

\* A run recorded as complete, now or in the history, has put its artifact in
\* place, whoever wrote the record and however the run's process ended.
CompleteMeansPublished ==
    \A r \in Runs : FoundIn(status, r).state = "complete" \/ history[r].state = "complete"
                      => r \in published

\* When the service is done with a refresh, its run is not left running.
RefreshSettled ==
    [][service.at \in {"look", "settle"} /\ service'.at = "idle"
         => ~(status'.run = service.run /\ status'.state = "running")]_vars

\* A month is committed, and its row completed, only for a run that put its
\* artifact in place, through recoveries by other runs and late finishes.
AuthorityPublished ==
    committed \/ authority.state = "completed" => authority.run \in published

\* bau_run_authority_legal_transition and _identity_immutable: no handler ever
\* asks for a change the triggers abort, whatever two processes do to the row.
AuthorityLegal ==
    [][authority' # authority =>
         \/ authority.run = NoRun /\ authority'.state = "attempted"
         \/ /\ authority'.run = authority.run
            /\ <<authority.state, authority'.state>> \in
                 {<<"attempted", "prepared">>, <<"attempted", "failed">>,
                  <<"prepared", "completed">>, <<"prepared", "failed">>}]_vars

\* While a page polls, no run is shown as running for ever.
RunEnds ==
    \A r \in Runs : status.run = r /\ status.state = "running"
                      ~> ~(status.run = r /\ status.state = "running")

\* As the test names it: start refuses to replace a live run.  While the service
\* waits for a child that is at work, the record stays that child's.
LiveRunNotReplaced ==
    service.at = "waiting" /\ At(service.run, "work") => status.run = service.run

\* A crash or restart does not lose a valid observed month: once a run is
\* recorded complete with its capture prepared, a later recovery can find that
\* record until the row is closed.
ObservedMonthKept ==
    [][LET r == authority.run
       IN  authority.state = "prepared" /\ ~Alive(r) /\ Succeeded(FoundIn(status, r))
             => FoundIn(status, r)' # Unknown \/ authority' # authority]_vars
=============================================================================
