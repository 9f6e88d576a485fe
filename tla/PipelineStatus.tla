--------------------------- MODULE PipelineStatus ---------------------------
(***************************************************************************)
(* The pipeline status file and its history: one operator for each method   *)
(* of PipelineStatusRepository.  Every method holds the interprocess file   *)
(* lock from its read to its last write, so every operator is one step; the *)
(* exception is a process killed inside finish, between the status file and *)
(* the history (FinishUnarchived).                                          *)
(*                                                                          *)
(* Wall-clock time is kept as how long the running record has been quiet:   *)
(* 0 up to 1860 s, 1 above 1860 s, 2 above 3660 s, the two staleness        *)
(* thresholds the program constructs repositories with.                     *)
(***************************************************************************)
EXTENDS Naturals

CONSTANT MaxRuns    \* bound: pipeline runs ever begun

ASSUME RunsAssumption == MaxRuns \in Nat

VARIABLES
    status,     \* pipeline_status.json: run_id, state, artifact produced
    quiet,      \* time since updated_at, while the record is running
    history     \* pipeline_status_history.json, by run_id

record == <<status, quiet, history>>

Runs == 1..MaxRuns
NoRun == 0

Finished == {"complete", "partial", "failed", "skipped"}
Outcome == [state : Finished \cup {"none"}, produced : BOOLEAN]
Unknown == [state |-> "none", produced |-> FALSE]

\* stale_after_seconds of the scanner page (the constructor's default), and of
\* the service and the orchestrator (run timeout plus grace).
PageThreshold == 1
RunThreshold == 2

\* Mutant of Loaded: a stale record is left running.
LoadedAsIs(threshold) == status

\* Mutant of Loaded: a stale record gets a state the schema does not know.
LoadedUnknown(threshold) ==
    IF status.state = "running" /\ quiet >= threshold
    THEN [status EXCEPT !.state = "interrupted"]
    ELSE status

\* load: a running record quiet for longer than the reader's threshold is
\* recovered as failed, in the file but not in the history.
Loaded(threshold) ==
    IF status.state = "running" /\ quiet >= threshold
    THEN [status EXCEPT !.state = "failed"]
    ELSE status

Load(threshold) ==
    /\ status' = Loaded(threshold)
    /\ UNCHANGED <<quiet, history>>

Running(r) == [run |-> r, state |-> "running", produced |-> FALSE]

\* start: whether a caller may begin run r.  A child (attached) joins the exact
\* running record its parent made, or makes its own when there is none at all.
MayStart(r, attached) ==
    LET current == Loaded(RunThreshold)
    IN  IF attached
        THEN \/ current.state = "running" /\ current.run = r
             \/ current.state # "running" /\ current.run = NoRun
        ELSE current.state # "running"

\* start when it is refused: a stale record is recovered all the same.
StartRefused(r, attached) ==
    /\ ~MayStart(r, attached)
    /\ Load(RunThreshold)

\* start when it succeeds.  The exact record is returned untouched; any other,
\* a record recovered a moment before included, is replaced and not archived.
Started(r, attached) ==
    /\ MayStart(r, attached)
    /\ IF status.state = "running" /\ status.run = r
       THEN UNCHANGED <<status, quiet>>
       ELSE status' = Running(r) /\ quiet' = 0
    /\ UNCHANGED history

\* transition, update_counts and update_source_health: only the run that owns
\* the running record refreshes it.
Touch(r) ==
    /\ quiet' = IF status.run = r /\ status.state = "running" THEN 0 ELSE quiet
    /\ UNCHANGED <<status, history>>

\* Mutant of Finish: whichever run owns the record is finished.
FinishAnyRun(r, state, produced) ==
    /\ status' = [status EXCEPT !.state = state, !.produced = produced]
    /\ history' = IF status.run \in Runs
                  THEN [history EXCEPT ![status.run] =
                          [state |-> state, produced |-> produced]]
                  ELSE history
    /\ UNCHANGED quiet

\* finish: the record must still be the run's own, but need not be running.
Finish(r, state, produced) ==
    /\ IF status.run = r
       THEN /\ status' = [status EXCEPT !.state = state, !.produced = produced]
            /\ history' = [history EXCEPT ![r] =
                             [state |-> state, produced |-> produced]]
       ELSE UNCHANGED <<status, history>>
    /\ UNCHANGED quiet

\* finish, killed after the status file and before the history.
FinishUnarchived(r, state, produced) ==
    /\ status.run = r
    /\ status' = [status EXCEPT !.state = state, !.produced = produced]
    /\ UNCHANGED <<quiet, history>>

\* find_run: the current record, else the history.
FoundIn(current, r) ==
    IF current.run = r
    THEN [state |-> current.state, produced |-> current.produced]
    ELSE history[r]

InitRecord ==
    /\ status = [run |-> NoRun, state |-> "idle", produced |-> FALSE]
    /\ quiet = 0
    /\ history = [r \in Runs |-> Unknown]
=============================================================================
