------------------------- MODULE PipelineRun_proofs -------------------------
(***************************************************************************)
(* For any number of runs, polled or not, killed or not: the types of the   *)
(* pipeline run; that what is recorded as complete was published; what a    *)
(* live run and a refresh keep of the record; and the snapshot month.       *)
(***************************************************************************)
EXTENDS PipelineRun, TLAPS

-----------------------------------------------------------------------------
(* Types.                                                                   *)

\* The two process values the handlers build from scratch are processes, and
\* so is a process moved to another place.
LEMMA ProcessValues ==
    /\ NoProcess \in Process
    /\ \A place \in Place, success \in BOOLEAN : Ended(place, success) \in Process
    /\ \A p \in Process, place \in Place : [p EXCEPT !.at = place] \in Process
  <1>1. NoProcess \in Process
    BY DEF NoProcess, Process, Place, Live, Goal, Stamp, Finished
  <1>2. ASSUME NEW p \in Process, NEW place \in Place
        PROVE  [p EXCEPT !.at = place] \in Process
    BY <1>2 DEF Process
  <1>3. ASSUME NEW place \in Place, NEW success \in BOOLEAN
        PROVE  Ended(place, success) \in Process
    BY <1>1, <1>3 DEF Ended, Process
  <1> QED  BY <1>1, <1>2, <1>3

\* finish keeps the record's types, archived or not.
LEMMA FinishType ==
    ASSUME PipelineTypeOK, NEW r \in Runs, NEW state \in Finished,
           NEW produced \in BOOLEAN,
           \/ Finish(r, state, produced)
           \/ FinishUnarchived(r, state, produced)
    PROVE  /\ status' \in [run : Runs \cup {NoRun}, produced : BOOLEAN,
                           state : Finished \cup {"idle", "running"}]
           /\ quiet' \in 0..2
           /\ history' \in [Runs -> Outcome]
  <1>1. [status EXCEPT !.state = state, !.produced = produced] \in
          [run : Runs \cup {NoRun}, produced : BOOLEAN,
           state : Finished \cup {"idle", "running"}]
    BY DEF PipelineTypeOK
  <1>2. [history EXCEPT ![r] = [state |-> state, produced |-> produced]]
          \in [Runs -> Outcome]
    BY DEF PipelineTypeOK, Outcome
  <1>3. CASE Finish(r, state, produced)
    BY <1>1, <1>2, <1>3 DEF PipelineTypeOK, Finish
  <1>4. CASE FinishUnarchived(r, state, produced)
    BY <1>1, <1>4 DEF PipelineTypeOK, FinishUnarchived
  <1> QED  BY <1>3, <1>4

\* finish as a process calls it keeps the types, if what it goes on to be does.
LEMMA FinishThenType ==
    ASSUME PipelineTypeOK, NEW r \in Runs, NEW state \in Finished,
           NEW produced \in BOOLEAN, NEW next \in Process,
           FinishThen(r, state, produced, next), UNCHANGED <<service, published, capture>>
    PROVE  PipelineTypeOK'
  <1>1. \/ Finish(r, state, produced)
        \/ FinishUnarchived(r, state, produced)
    BY DEF FinishThen
  <1>2. /\ status' \in [run : Runs \cup {NoRun}, produced : BOOLEAN,
                         state : Finished \cup {"idle", "running"}]
        /\ quiet' \in 0..2
        /\ history' \in [Runs -> Outcome]
    BY <1>1, FinishType
  <1>3. Ended("dead", FALSE) \in Process
    BY ProcessValues DEF Place
  <1>4. proc' \in [Runs -> Process]
    BY <1>3 DEF PipelineTypeOK, FinishThen, Die
  <1> QED  BY <1>2, <1>4 DEF PipelineTypeOK, capture

\* Reading the record keeps its types, whatever the threshold.
LEMMA LoadType ==
    ASSUME PipelineTypeOK, NEW threshold
    PROVE  Loaded(threshold) \in [run : Runs \cup {NoRun}, produced : BOOLEAN,
                                  state : Finished \cup {"idle", "running"}]
  BY DEF PipelineTypeOK, Loaded, Finished

\* Beginning a run keeps the record's types.
LEMMA StartedType ==
    ASSUME PipelineTypeOK, NEW r \in Runs, NEW attached \in BOOLEAN,
           Started(r, attached)
    PROVE  /\ status' \in [run : Runs \cup {NoRun}, produced : BOOLEAN,
                           state : Finished \cup {"idle", "running"}]
           /\ quiet' \in 0..2
           /\ history' \in [Runs -> Outcome]
  <1>1. Running(r) \in [run : Runs \cup {NoRun}, produced : BOOLEAN,
                        state : Finished \cup {"idle", "running"}]
    BY DEF Running
  <1>2. CASE status' = status /\ quiet' = quiet
    BY <1>2 DEF PipelineTypeOK, Started
  <1>3. CASE status' = Running(r) /\ quiet' = 0
    BY <1>1, <1>3 DEF PipelineTypeOK, Started
  <1> QED  BY <1>2, <1>3 DEF Started

\* What closing the row can make of it.
LEMMA RowType ==
    ASSUME PipelineTypeOK, NEW stamp \in Stamp
    PROVE  {FailedRow, CompletedRow(stamp)} \subseteq
             [run : Runs \cup {NoRun}, stamp : Stamp,
              state : {"none", "attempted", "prepared"} \cup Goal]
  BY DEF PipelineTypeOK, FailedRow, CompletedRow, Goal

\* A process leaving the envelope and the row is a process.
LEMMA LeaveType ==
    ASSUME PipelineTypeOK, NEW r \in Runs
    PROVE  Leave(r) \in Process
  <1>1. proc[r] \in Process  BY DEF PipelineTypeOK
  <1>2. proc[r].child \in BOOLEAN  BY <1>1 DEF Process
  <1>a. "start" \in Place  BY DEF Place, Live
  <1>3. [NoProcess EXCEPT !.at = "start", !.child = proc[r].child] \in Process
    BY <1>2, <1>a, ProcessValues DEF Process
  <1> QED  BY <1>1, <1>3, ProcessValues DEF Leave, Place, Live

\* Every step of a process about the envelope and the row keeps the types.
LEMMA ClosingType ==
    ASSUME PipelineTypeOK, NEW r \in Runs,
           \/ LoadEnvelope(r) \/ CheckEnvelope(r) \/ ReplaceEnvelope(r) \/ CloseRow(r)
    PROVE  PipelineTypeOK'
  <1>1. proc[r] \in Process  BY DEF PipelineTypeOK
  <1>2. CASE LoadEnvelope(r)
    <2>1. proc' \in [Runs -> Process]
      <3>1. {"check", "row"} \subseteq Place  BY DEF Place, Live
      <3>2. \A stamp \in Stamp : [proc[r] EXCEPT !.at = "row", !.stamp = stamp] \in Process
        BY <1>1, <3>1 DEF Process
      <3>3. [proc[r] EXCEPT !.at = "check"] \in Process
        BY <1>1, <3>1, ProcessValues
      <3>4. \E next \in Process : proc' = [proc EXCEPT ![r] = next]
        <4>1. CASE Go(r, "check")
          BY <3>3, <4>1 DEF PipelineTypeOK, Go
        <4>2. CASE proc' = [proc EXCEPT ![r].at = "row", ![r].stamp = envelope.stamp]
          BY <3>2, <4>2 DEF PipelineTypeOK
        <4>3. CASE proc' = [proc EXCEPT ![r] = Leave(r)]
          BY <4>3, LeaveType
        <4> QED  BY <1>2, <4>1, <4>2, <4>3 DEF LoadEnvelope
      <3> QED  BY <3>4 DEF PipelineTypeOK
    <2>2. UNCHANGED <<record, service, published, capture>>
      BY <1>2 DEF LoadEnvelope
    <2> QED  BY <2>1, <2>2 DEF PipelineTypeOK, record, capture
  <1>3. CASE CheckEnvelope(r)
    <2>1. proc' \in [Runs -> Process]
      <3>1. \A place \in {"replace", "row"} :
              [proc EXCEPT ![r].at = place] \in [Runs -> Process]
        BY ProcessValues DEF PipelineTypeOK, Place, Live
      <3>2. [proc EXCEPT ![r] = Leave(r)] \in [Runs -> Process]
        BY LeaveType DEF PipelineTypeOK
      <3> QED  BY <1>3, <3>1, <3>2 DEF CheckEnvelope, Go
    <2> QED  BY <1>3, <2>1 DEF PipelineTypeOK, CheckEnvelope, record, capture
  <1>4. CASE ReplaceEnvelope(r)
    <2>1. envelope' \in [state : {"none", "prepared"} \cup Goal, stamp : Stamp]
      BY <1>1, <1>4 DEF ReplaceEnvelope, Process, Stamp, Goal
    <2>2. proc' \in [Runs -> Process]
      BY <1>1, <1>4, <2>1 DEF PipelineTypeOK, ReplaceEnvelope, Process, Place, Live
    <2> QED  BY <1>4, <2>1, <2>2 DEF PipelineTypeOK, ReplaceEnvelope, record
  <1>5. CASE CloseRow(r)
    <2>1. authority' \in [run : Runs \cup {NoRun}, stamp : Stamp,
                          state : {"none", "attempted", "prepared"} \cup Goal]
      BY <1>1, <1>5, RowType DEF CloseRow, Process
    <2>2. proc' \in [Runs -> Process]
      BY <1>5, LeaveType DEF PipelineTypeOK, CloseRow
    <2> QED  BY <1>5, <2>1, <2>2 DEF PipelineTypeOK, CloseRow, record
  <1> QED  BY <1>2, <1>3, <1>4, <1>5

\* Every other step of a process keeps the types.
LEMMA WorkType ==
    ASSUME PipelineTypeOK, NEW r \in Runs,
           \/ BeginRecovery(r) \/ FindRun(r) \/ Start(r) \/ Skip(r) \/ NoResults(r)
           \/ \E outcome \in {"complete", "partial"} : Export(r, outcome)
           \/ StageEnvelope(r) \/ BindRow(r) \/ Publish(r) \/ FinishRun(r)
           \/ ReleaseRow(r) \/ Promote(r) \/ Raise(r) \/ CleanUp(r)
           \/ Report(r) \/ BeginCapture(r) \/ LoseCapture(r) \/ Kill(r)
    PROVE  PipelineTypeOK'
  <1>0. /\ proc \in [Runs -> Process]
        /\ proc[r] \in Process
        /\ proc[r].child \in BOOLEAN
        /\ proc[r].outcome \in Finished
    BY DEF PipelineTypeOK, Process
  <1>a. /\ \A success \in BOOLEAN : Ended("exited", success) \in Process
        /\ Ended("dead", FALSE) \in Process
    BY ProcessValues DEF Place
  <1>b. \A next \in Process : [proc EXCEPT ![r] = next] \in [Runs -> Process]
    BY <1>0
  <1>c. \A place \in Place : [proc EXCEPT ![r].at = place] \in [Runs -> Process]
    BY <1>0, ProcessValues
  <1>1. CASE BeginRecovery(r)
    <2>1. authority.state \in {"attempted", "prepared"} =>
            [proc EXCEPT ![r].at = "find", ![r].seen = authority.state,
                         ![r].recovering = TRUE] \in [Runs -> Process]
      BY <1>0 DEF Process, Place, Live
    <2>2. proc' \in [Runs -> Process]
      BY <1>1, <1>c, <2>1, SMTT(30) DEF BeginRecovery, Go, Place, Live
    <2> QED  BY <1>1, <2>2, LoadType DEF PipelineTypeOK, BeginRecovery, Load, capture
  <1>2. CASE FindRun(r)
    <2>1. proc' \in [Runs -> Process]
      <3>1. [proc[r] EXCEPT !.at = "row", !.goal = "failed"] \in Process
        BY <1>0 DEF Process, Place, Live, Goal
      <3>2. \A goal \in Goal : [proc[r] EXCEPT !.at = "load", !.goal = goal] \in Process
        BY <1>0 DEF Process, Place, Live
      <3> QED  BY <1>2, <1>b, <3>1, <3>2, LeaveType DEF FindRun, Goal
    <2> QED  BY <1>2, <2>1 DEF PipelineTypeOK, FindRun, record, capture
  <1>3. CASE Start(r)
    <2>1. proc' \in [Runs -> Process]
      BY <1>3, <1>a, <1>b, <1>c DEF Start, Go, Exit, Place, Live
    <2>2. CASE Started(r, proc[r].child)
      BY <1>0, <1>3, <2>1, <2>2, StartedType DEF PipelineTypeOK, Start, capture
    <2>3. CASE StartRefused(r, proc[r].child)
      BY <1>3, <2>1, <2>3, LoadType DEF PipelineTypeOK, Start, StartRefused, Load, capture
    <2> QED  BY <1>3, <2>2, <2>3 DEF Start
  <1>4. CASE Skip(r)
    <2>1. Ended("exited", FALSE) \in Process /\ "skipped" \in Finished
      BY <1>a DEF Finished
    <2> QED  BY <1>4, <2>1, FinishThenType DEF Skip
  <1>5. CASE NoResults(r)
    <2>1. Ended("exited", FALSE) \in Process /\ "failed" \in Finished
      BY <1>a DEF Finished
    <2> QED  BY <1>5, <2>1, FinishThenType DEF NoResults
  <1>6. ASSUME NEW outcome \in {"complete", "partial"}, Export(r, outcome)
        PROVE  PipelineTypeOK'
    <2>1. proc' \in [Runs -> Process]
      BY <1>0, <1>6 DEF Export, Process, Place, Live, Finished
    <2> QED  BY <1>6, <2>1 DEF PipelineTypeOK, Export, record, capture
  <1>7. CASE StageEnvelope(r)
    <2>1. proc' \in [Runs -> Process]
      BY <1>7, <1>c DEF StageEnvelope, Go, Place, Live
    <2>2. authority' \in [run : Runs \cup {NoRun}, stamp : Stamp,
                          state : {"none", "attempted", "prepared"} \cup Goal]
      BY <1>7, RowType DEF PipelineTypeOK, StageEnvelope, Stamp
    <2>3. envelope' \in [state : {"none", "prepared"} \cup Goal, stamp : Stamp]
      BY <1>7 DEF PipelineTypeOK, StageEnvelope, Stamp
    <2>4. UNCHANGED <<record, service, published, committed>>
      BY <1>7 DEF StageEnvelope
    <2> QED  BY <2>1, <2>2, <2>3, <2>4 DEF PipelineTypeOK, record
  <1>8. CASE BindRow(r)
    <2>1. [proc EXCEPT ![r].at = "publish", ![r].prepared = TRUE, ![r].capturing = FALSE]
            \in [Runs -> Process]
      BY <1>0 DEF Process, Place, Live
    <2>2. proc' \in [Runs -> Process]
      BY <1>8, <1>c, <2>1, SMTT(30) DEF BindRow, Go, Place, Live
    <2>3. authority' \in [run : Runs \cup {NoRun}, stamp : Stamp,
                          state : {"none", "attempted", "prepared"} \cup Goal]
      BY <1>8, RowType DEF PipelineTypeOK, BindRow, Stamp
    <2> QED  BY <1>8, <2>2, <2>3 DEF PipelineTypeOK, BindRow, record
  <1>9. CASE Publish(r)
    BY <1>9, <1>c DEF PipelineTypeOK, Publish, Go, record, capture, Place, Live
  <1>10. CASE FinishRun(r)
    <2> DEFINE next == [NoProcess EXCEPT !.success = TRUE, !.child = proc[r].child,
                          !.goal = "completed",
                          !.at = IF proc[r].prepared THEN "load" ELSE "release"]
    <2>a. "completed" \in Goal /\ {"load", "release"} \subseteq Place
      BY DEF Goal, Place, Live
    <2>1. next \in Process
      BY <1>0, <2>a, ProcessValues DEF Process
    <2>2. /\ FinishThen(r, proc[r].outcome, TRUE, next)
          /\ UNCHANGED <<service, published, capture>>
      BY <1>10 DEF FinishRun
    <2>3. proc[r].outcome \in Finished
      BY <1>0 DEF Process
    <2> HIDE DEF next
    <2> QED  BY <2>1, <2>2, <2>3, FinishThenType
  <1>11. CASE ReleaseRow(r)
    <2>1. authority' \in [run : Runs \cup {NoRun}, stamp : Stamp,
                          state : {"none", "attempted", "prepared"} \cup Goal]
      BY <1>11, RowType DEF PipelineTypeOK, ReleaseRow, Stamp
    <2>2. proc' \in [Runs -> Process]
      BY <1>11, <1>c DEF ReleaseRow, Go, Place, Live
    <2>3. UNCHANGED <<record, service, published, envelope, committed>>
      BY <1>11 DEF ReleaseRow
    <2> QED  BY <2>1, <2>2, <2>3 DEF PipelineTypeOK, record
  <1>12. CASE Promote(r)
    <2>1. proc' \in [Runs -> Process]
      BY <1>12, <1>a, <1>b DEF Promote, Exit
    <2>2. committed' \in BOOLEAN
      BY <1>12 DEF Promote
    <2> QED  BY <1>12, <2>1, <2>2 DEF PipelineTypeOK, Promote, record
  <1>13. CASE Raise(r)
    <2> DEFINE next == [NoProcess EXCEPT !.at = "raised", !.child = proc[r].child]
    <2>a. "raised" \in Place /\ "failed" \in Finished
      BY DEF Place, Live, Finished
    <2>1. next \in Process
      BY <1>0, <2>a, ProcessValues DEF Process
    <2>2. FinishThen(r, "failed", FALSE, next) /\ UNCHANGED <<service, published, capture>>
      BY <1>13 DEF Raise
    <2> HIDE DEF next
    <2> QED  BY <2>a, <2>1, <2>2, FinishThenType
  <1>14. CASE CleanUp(r)
    <2>a. {"load", "row"} \subseteq Place  BY DEF Place, Live
    <2>b. (\E place \in {"load", "row"} : Go(r, place)) \/ Exit(r, FALSE)
      BY <1>14 DEF CleanUp
    <2>1. proc' \in [Runs -> Process]
      BY <1>a, <1>b, <1>c, <2>a, <2>b DEF Go, Exit
    <2> QED  BY <1>14, <2>1 DEF PipelineTypeOK, CleanUp, record, capture
  <1>15. CASE Report(r)
    BY <1>15, LoadType DEF PipelineTypeOK, Report, Touch, Load, capture
  <1>16. CASE BeginCapture(r)
    <2>1. proc' \in [Runs -> Process]
      BY <1>0, <1>16 DEF BeginCapture, Process
    <2> QED  BY <1>16, <2>1 DEF PipelineTypeOK, BeginCapture, ClaimRow, record, Stamp
  <1>17. CASE LoseCapture(r)
    <2>1. proc' \in [Runs -> Process]
      BY <1>0, <1>17 DEF LoseCapture, Process
    <2>2. authority' \in [run : Runs \cup {NoRun}, stamp : Stamp,
                          state : {"none", "attempted", "prepared"} \cup Goal]
      BY <1>17, RowType DEF PipelineTypeOK, LoseCapture, Stamp
    <2> QED  BY <1>17, <2>1, <2>2 DEF PipelineTypeOK, LoseCapture, record
  <1>18. CASE Kill(r)
    <2>1. proc' \in [Runs -> Process]
      BY <1>18, <1>a, <1>b DEF Kill, Die
    <2> QED  BY <1>18, <2>1 DEF PipelineTypeOK, Kill, record, capture
  <1> QED
    BY <1>1, <1>2, <1>3, <1>4, <1>5, <1>6, <1>7, <1>8, <1>9, <1>10, <1>11, <1>12,
       <1>13, <1>14, <1>15, <1>16, <1>17, <1>18

\* Every step of the service, the scheduler, a page and the clock keeps the types.
LEMMA ServiceType ==
    ASSUME PipelineTypeOK,
           \/ \E r \in Runs : Refresh(r) \/ Schedule(r)
           \/ ServiceStep \/ WebDies \/ WebRestarts \/ PollStatus \/ Tick
    PROVE  PipelineTypeOK'
  <1>a. \A next \in Process : \A r : [proc EXCEPT ![r] = next] \in [Runs -> Process]
    BY DEF PipelineTypeOK
  <1>b. Ended("dead", FALSE) \in Process
    BY ProcessValues DEF Place
  <1>c. /\ [NoProcess EXCEPT !.at = "recover"] \in Process
        /\ [NoProcess EXCEPT !.at = "recover", !.child = TRUE] \in Process
    <2>1. "recover" \in Place  BY DEF Place, Live
    <2> QED  BY <2>1, ProcessValues DEF Process
  <1>d. Idle \in [run : Runs \cup {NoRun}, success : BOOLEAN,
                  at : {"idle", "spawning", "waiting", "look", "settle", "down"}]
    BY DEF Idle
  <1>1. ASSUME NEW r \in Runs, Refresh(r)  PROVE PipelineTypeOK'
    <2>1. CASE Started(r, FALSE)
      <3>1. service' \in [run : Runs \cup {NoRun}, success : BOOLEAN,
                  at : {"idle", "spawning", "waiting", "look", "settle", "down"}]
        <4>1. CASE service' = [at |-> "spawning", run |-> r, success |-> FALSE]
          BY <4>1
        <4>2. CASE service' = service
          BY <4>2 DEF PipelineTypeOK
        <4> QED  BY <1>1, <4>1, <4>2 DEF Refresh
      <3> QED  BY <1>1, <2>1, <3>1, StartedType DEF PipelineTypeOK, Refresh, capture
    <2>2. CASE StartRefused(r, FALSE)
      BY <1>1, <2>2, LoadType DEF PipelineTypeOK, Refresh, StartRefused, Load, Started, capture
    <2> QED  BY <1>1, <2>1, <2>2 DEF Refresh
  <1>2. ASSUME NEW r \in Runs, Schedule(r)  PROVE PipelineTypeOK'
    BY <1>2, <1>a, <1>c DEF PipelineTypeOK, Schedule, record, capture
  <1>3. CASE Spawn
    <2>1. proc' \in [Runs -> Process]
      <3>1. CASE proc' = [proc EXCEPT ![service.run] =
                            [NoProcess EXCEPT !.at = "recover", !.child = TRUE]]
        BY <1>a, <1>c, <3>1
      <3>2. CASE Die(service.run)
        BY <1>a, <1>b, <3>2 DEF Die
      <3> QED  BY <1>3, <3>1, <3>2 DEF Spawn
    <2>2. service' \in [run : Runs \cup {NoRun}, success : BOOLEAN,
                  at : {"idle", "spawning", "waiting", "look", "settle", "down"}]
      BY <1>3 DEF PipelineTypeOK, Spawn
    <2> QED  BY <1>3, <2>1, <2>2 DEF PipelineTypeOK, Spawn, record, capture
  <1>4. CASE Timeout
    BY <1>4, <1>a, <1>b DEF PipelineTypeOK, Timeout, Die, record, capture
  <1>5. CASE Judge
    <2>1. Judged \in BOOLEAN  BY DEF Judged
    <2> QED  BY <1>5, <2>1, LoadType DEF PipelineTypeOK, Judge, Load, capture
  <1>6. CASE Look
    BY <1>6, <1>d, LoadType DEF PipelineTypeOK, Look, Load, capture
  <1>7. CASE Settle
    <2>1. service' \in [run : Runs \cup {NoRun}, success : BOOLEAN,
                  at : {"idle", "spawning", "waiting", "look", "settle", "down"}]
      BY <1>7, <1>d DEF Settle
    <2>2. /\ status' \in [run : Runs \cup {NoRun}, produced : BOOLEAN,
                           state : Finished \cup {"idle", "running"}]
          /\ quiet' \in 0..2
          /\ history' \in [Runs -> Outcome]
      <3> DEFINE state == IF service.success THEN "complete" ELSE "failed"
      <3>1. state \in Finished  BY DEF Finished
      <3>2. CASE service.run \in Runs
        <4> HIDE DEF state
        <4>1. Finish(service.run, state, FALSE) \/ FinishUnarchived(service.run, state, FALSE)
          BY <1>7 DEF Settle, state
        <4> QED  BY <3>1, <3>2, <4>1, FinishType
      <3>3. CASE service.run \notin Runs
        <4> HIDE DEF state
        <4>1. Finish(service.run, state, FALSE) \/ FinishUnarchived(service.run, state, FALSE)
          BY <1>7 DEF Settle, state
        <4>2. \A new : [history EXCEPT ![service.run] = new] = history
          BY <3>3 DEF PipelineTypeOK
        <4> QED  BY <3>1, <4>1, <4>2 DEF PipelineTypeOK, Finish, FinishUnarchived
      <3> QED  BY <3>2, <3>3
    <2> QED  BY <1>7, <2>1, <2>2 DEF PipelineTypeOK, Settle, capture
  <1>8. CASE WebDies
    <2>1. proc' \in [Runs -> Process]
      BY <1>8, <1>a, <1>b DEF PipelineTypeOK, WebDies, Die
    <2>2. service' \in [run : Runs \cup {NoRun}, success : BOOLEAN,
                  at : {"idle", "spawning", "waiting", "look", "settle", "down"}]
      BY <1>8, <1>d DEF WebDies
    <2> QED  BY <1>8, <2>1, <2>2 DEF PipelineTypeOK, WebDies, record, capture
  <1>9. CASE WebRestarts
    BY <1>9, <1>d DEF PipelineTypeOK, WebRestarts, record, capture
  <1>10. CASE PollStatus
    BY <1>10, LoadType DEF PipelineTypeOK, PollStatus, Load, capture
  <1>11. CASE Tick
    BY <1>11 DEF PipelineTypeOK, Tick, capture
  <1> QED
    BY <1>1, <1>2, <1>3, <1>4, <1>5, <1>6, <1>7, <1>8, <1>9, <1>10, <1>11
       DEF ServiceStep

\* The initial record, rows and processes are well typed.
LEMMA PipelineInitType == Init => PipelineTypeOK
  <1> SUFFICES ASSUME Init  PROVE PipelineTypeOK
    OBVIOUS
  <1>1. proc \in [Runs -> Process]
    BY ProcessValues DEF Init
  <1>2. /\ history \in [Runs -> Outcome]
        /\ quiet \in 0..2
    BY DEF Init, InitRecord, Unknown, Outcome
  <1>3. status \in [run : Runs \cup {NoRun}, produced : BOOLEAN,
                    state : Finished \cup {"idle", "running"}]
    BY DEF Init, InitRecord
  <1>4. service \in [run : Runs \cup {NoRun}, success : BOOLEAN,
                  at : {"idle", "spawning", "waiting", "look", "settle", "down"}]
    BY DEF Init, Idle
  <1>5. /\ authority \in [run : Runs \cup {NoRun}, stamp : Stamp,
                      state : {"none", "attempted", "prepared"} \cup Goal]
        /\ envelope \in [state : {"none", "prepared"} \cup Goal, stamp : Stamp]
        /\ committed \in BOOLEAN
        /\ published \subseteq Runs
    BY DEF Init, Stamp
  <1> QED  BY <1>1, <1>2, <1>3, <1>4, <1>5 DEF PipelineTypeOK

\* Every step keeps the types.
LEMMA PipelineNextType == PipelineTypeOK /\ [Next]_vars => PipelineTypeOK'
  <1> SUFFICES ASSUME PipelineTypeOK, [Next]_vars  PROVE PipelineTypeOK'
    OBVIOUS
  <1>1. CASE UNCHANGED vars
    BY <1>1 DEF PipelineTypeOK, vars, record, capture
  <1>2. CASE Next
    BY <1>2, ClosingType, WorkType, ServiceType DEF Next, ProcessStep
  <1> QED  BY <1>1, <1>2

\* The records, processes, rows and files of a pipeline run stay in their domains.
THEOREM PipelineTypeCorrect == Spec => []PipelineTypeOK
  BY PipelineInitType, PipelineNextType, PTL DEF Spec

-----------------------------------------------------------------------------
(* What is recorded as complete was published.                              *)

\* A process that claims success: it is about to report it, or carries it.
Claims(p) == p.success \/ p.at \in {"report", "release", "promote"}

\* Whoever claims success has published, and so has a run the service judged a
\* success or any record calls complete; a busy service is busy with a run.
Honest ==
    /\ \A r \in Runs : Claims(proc[r]) => r \in published
    /\ service.success => service.run \in published
    /\ status.state = "complete" => status.run \in published
    /\ \A r \in Runs : history[r].state = "complete" => r \in published
    /\ service.at \in {"spawning", "waiting", "look", "settle"} => service.run \in Runs

\* A step that gives one process a value that makes no false claim keeps all
\* processes honest.
LEMMA HonestMove ==
    ASSUME PipelineTypeOK, Honest, NEW r \in Runs, NEW next,
           proc' = [proc EXCEPT ![r] = next],
           Claims(next) => r \in published
    PROVE  \A k \in Runs : Claims(proc'[k]) => k \in published
  BY DEF PipelineTypeOK, Honest

\* A process moved to a place that makes no claim.
LEMMA HonestGo ==
    ASSUME PipelineTypeOK, Honest, NEW r \in Runs, NEW place,
           Go(r, place), place \notin {"report", "release", "promote"}
    PROVE  \A k \in Runs : Claims(proc'[k]) => k \in published
  <1>1. proc[r] \in Process  BY DEF PipelineTypeOK
  <1>2. proc' = [proc EXCEPT ![r] = [proc[r] EXCEPT !.at = place]]
    BY DEF PipelineTypeOK, Go
  <1>3. Claims([proc[r] EXCEPT !.at = place]) => proc[r].success
    BY <1>1 DEF Claims, Process
  <1> QED  BY <1>2, <1>3, HonestMove DEF Honest, Claims

\* A process that ends in failure claims nothing.
LEMMA NoClaim == \A place \in {"exited", "dead"} : ~Claims(Ended(place, FALSE))
  BY DEF Claims, Ended, NoProcess

\* finish as a process calls it: complete only once the run has published.
LEMMA HonestFinish ==
    ASSUME PipelineTypeOK, Honest, NEW r \in Runs, NEW state, NEW produced, NEW next,
           state = "complete" => r \in published,
           Claims(next) => r \in published,
           FinishThen(r, state, produced, next), UNCHANGED <<service, published>>
    PROVE  Honest'
  <1>1. status'.state = "complete" => status'.run \in published
    BY DEF PipelineTypeOK, Honest, FinishThen, Finish, FinishUnarchived
  <1>2. \A k \in Runs : history'[k].state = "complete" => k \in published
    BY DEF PipelineTypeOK, Honest, FinishThen, Finish, FinishUnarchived
  <1>3. \A k \in Runs : Claims(proc'[k]) => k \in published
    BY HonestMove, NoClaim DEF FinishThen, Die
  <1> QED  BY <1>1, <1>2, <1>3 DEF Honest

\* Reading the record never makes it complete.
LEMMA HonestLoad ==
    ASSUME PipelineTypeOK, Honest, NEW threshold
    PROVE  /\ Loaded(threshold).run = status.run
           /\ Loaded(threshold).state = "complete" => status.run \in published
  BY DEF PipelineTypeOK, Honest, Loaded

\* No step of a process makes a false claim.
LEMMA HonestProcess ==
    ASSUME PipelineTypeOK, Honest, NEW r \in Runs,
           \/ ProcessStep(r) \/ Report(r) \/ BeginCapture(r) \/ LoseCapture(r) \/ Kill(r)
    PROVE  Honest'
  <1> DEFINE Told == \A k \in Runs : Claims(proc'[k]) => k \in published
  <1>0. /\ proc \in [Runs -> Process]
        /\ proc[r] \in Process
    BY DEF PipelineTypeOK
  <1>a. Claims(proc[r]) => r \in published
    BY DEF Honest
  <1>b. Claims(Leave(r)) => r \in published
    <2>1. Claims([NoProcess EXCEPT !.at = "start", !.child = proc[r].child]) = FALSE
      BY DEF Claims, NoProcess
    <2>2. proc[r].success => r \in published
      BY <1>a DEF Claims
    <2> QED  BY <2>1, <2>2, NoClaim DEF Leave
  <1>c. Told /\ UNCHANGED <<record, service, published>> => Honest'
    BY DEF Honest, record
  <1>1. CASE LoadEnvelope(r)
    <2>1. CASE proc' = [proc EXCEPT ![r].at = "row", ![r].stamp = envelope.stamp]
      <3>1. proc' = [proc EXCEPT ![r] = [proc[r] EXCEPT !.at = "row", !.stamp = envelope.stamp]]
        BY <1>0, <2>1
      <3>2. Claims([proc[r] EXCEPT !.at = "row", !.stamp = envelope.stamp]) => proc[r].success
        BY <1>0 DEF Claims, Process
      <3>3. Told  BY <1>a, <3>1, <3>2, HonestMove DEF Claims
      <3> QED  BY <1>1, <1>c, <3>3 DEF LoadEnvelope
    <2>2. CASE Go(r, "check")
      BY <1>1, <1>c, <2>2, HonestGo DEF LoadEnvelope
    <2>3. CASE proc' = [proc EXCEPT ![r] = Leave(r)]
      BY <1>1, <1>b, <1>c, <2>3, HonestMove DEF LoadEnvelope
    <2> QED  BY <1>1, <2>1, <2>2, <2>3 DEF LoadEnvelope
  <1>2. CASE CheckEnvelope(r)
    <2>1. Told  BY <1>2, <1>b, HonestGo, HonestMove DEF CheckEnvelope
    <2> QED  BY <1>2, <1>c, <2>1 DEF CheckEnvelope
  <1>3. CASE ReplaceEnvelope(r)
    <2>1. proc' = [proc EXCEPT ![r] = [proc[r] EXCEPT !.at = "row", !.stamp = envelope'.stamp]]
      BY <1>0, <1>3 DEF ReplaceEnvelope
    <2>2. Claims([proc[r] EXCEPT !.at = "row", !.stamp = envelope'.stamp]) => proc[r].success
      BY <1>0 DEF Claims, Process
    <2>3. Told  BY <1>a, <2>1, <2>2, HonestMove DEF Claims
    <2> QED  BY <1>3, <1>c, <2>3 DEF ReplaceEnvelope
  <1>4. CASE CloseRow(r)
    <2>1. Told  BY <1>4, <1>b, HonestMove DEF CloseRow
    <2> QED  BY <1>4, <1>c, <2>1 DEF CloseRow
  <1>5. CASE BeginRecovery(r)
    <2>1. proc[r].success => r \in published
      BY <1>a DEF Claims
    <2>2. Told
      <3>1. CASE Go(r, "start")
        BY <3>1, HonestGo
      <3>2. CASE proc' = [proc EXCEPT ![r].at = "find", ![r].seen = authority.state,
                                      ![r].recovering = TRUE]
        <4>1. /\ proc'[r].success = proc[r].success
              /\ proc'[r].at = "find"
              /\ \A k \in Runs : k # r => proc'[k] = proc[k]
          BY <1>0, <3>2 DEF Process
        <4> QED  BY <2>1, <4>1 DEF Honest, Claims
      <3> QED  BY <1>5, <3>1, <3>2 DEF BeginRecovery
    <2> QED  BY <1>5, <2>2, HonestLoad DEF BeginRecovery, Load, Honest
  <1>6. CASE FindRun(r)
    <2>1. /\ Claims([proc[r] EXCEPT !.at = "row", !.goal = "failed"]) => proc[r].success
          /\ \A goal : Claims([proc[r] EXCEPT !.at = "load", !.goal = goal])
                         => proc[r].success
      BY <1>0 DEF Claims, Process
    <2>2. Told  BY <1>6, <1>a, <1>b, <2>1, HonestMove DEF FindRun, Claims
    <2> QED  BY <1>6, <1>c, <2>2 DEF FindRun
  <1>7. CASE Start(r)
    <2>1. Told
      BY <1>7, HonestGo, HonestMove, NoClaim DEF Start, Exit
    <2>2. CASE Started(r, proc[r].child)
      BY <1>7, <2>1, <2>2 DEF Start, Started, Running, Honest
    <2>3. CASE StartRefused(r, proc[r].child)
      BY <1>7, <2>1, <2>3, HonestLoad DEF Start, StartRefused, Load, Honest
    <2> QED  BY <1>7, <2>2, <2>3 DEF Start
  <1>8. CASE Skip(r)
    BY <1>8, NoClaim, HonestFinish DEF Skip
  <1>9. CASE NoResults(r)
    BY <1>9, NoClaim, HonestFinish DEF NoResults
  <1>10. ASSUME NEW outcome \in {"complete", "partial"}, Export(r, outcome)
         PROVE  Honest'
    <2>1. /\ proc'[r].success = proc[r].success
          /\ proc'[r].at \in {"stage", "publish"}
          /\ \A k \in Runs : k # r => proc'[k] = proc[k]
      BY <1>0, <1>10 DEF Export, Process
    <2>2. Told  BY <1>a, <2>1 DEF Honest, Claims
    <2> QED  BY <1>10, <1>c, <2>2 DEF Export
  <1>11. CASE StageEnvelope(r)
    <2>1. Told  BY <1>11, HonestGo DEF StageEnvelope
    <2> QED  BY <1>11, <1>c, <2>1 DEF StageEnvelope
  <1>12. CASE BindRow(r)
    <2>1. CASE proc' = [proc EXCEPT ![r].at = "publish", ![r].prepared = TRUE,
                                    ![r].capturing = FALSE]
      <3>1. /\ proc'[r].success = proc[r].success
            /\ proc'[r].at = "publish"
            /\ \A k \in Runs : k # r => proc'[k] = proc[k]
        BY <1>0, <2>1 DEF Process
      <3>2. Told  BY <1>a, <3>1 DEF Honest, Claims
      <3> QED  BY <1>12, <1>c, <3>2 DEF BindRow
    <2>2. CASE Go(r, "publish")
      BY <1>12, <1>c, <2>2, HonestGo DEF BindRow
    <2> QED  BY <1>12, <2>1, <2>2 DEF BindRow
  <1>13. CASE Publish(r)
    <2>1. \A k \in Runs : k # r => proc'[k] = proc[k]
      BY <1>0, <1>13 DEF Publish, Go
    <2> QED  BY <1>13, <2>1 DEF Publish, Honest, record
  <1>14. CASE FinishRun(r)
    <2>1. r \in published
      BY <1>14, <1>a DEF FinishRun, At, Claims
    <2> QED  BY <1>14, <2>1, HonestFinish DEF FinishRun
  <1>15. CASE ReleaseRow(r)
    <2>1. /\ r \in published
          /\ \A k \in Runs : k # r => proc'[k] = proc[k]
      BY <1>0, <1>15, <1>a DEF ReleaseRow, At, Go, Claims
    <2> QED  BY <1>15, <2>1 DEF ReleaseRow, Honest, record
  <1>16. CASE Promote(r)
    <2>1. /\ r \in published
          /\ \A k \in Runs : k # r => proc'[k] = proc[k]
      BY <1>0, <1>16, <1>a DEF Promote, At, Exit, Claims
    <2> QED  BY <1>16, <2>1 DEF Promote, Honest, record
  <1>17. CASE Raise(r)
    <2> DEFINE next == [NoProcess EXCEPT !.at = "raised", !.child = proc[r].child]
    <2>1. ~Claims(next)
      BY DEF NoProcess, Claims
    <2>2. FinishThen(r, "failed", FALSE, next) /\ UNCHANGED <<service, published>>
      BY <1>17 DEF Raise
    <2> HIDE DEF next
    <2> QED  BY <2>1, <2>2, HonestFinish
  <1>18. CASE CleanUp(r)
    <2>1. Told  BY <1>18, HonestGo, HonestMove, NoClaim DEF CleanUp, Exit
    <2> QED  BY <1>18, <1>c, <2>1 DEF CleanUp
  <1>19. CASE Report(r)
    BY <1>19, HonestLoad DEF Report, Touch, Load, Honest
  <1>20. CASE BeginCapture(r)
    <2>1. /\ Claims(proc'[r]) <=> Claims(proc[r])
          /\ \A k \in Runs : k # r => proc'[k] = proc[k]
      BY <1>0, <1>20 DEF BeginCapture, Process, Claims
    <2> QED  BY <1>20, <1>c, <2>1 DEF BeginCapture, Honest
  <1>21. CASE LoseCapture(r)
    <2>1. /\ Claims(proc'[r]) <=> Claims(proc[r])
          /\ \A k \in Runs : k # r => proc'[k] = proc[k]
      BY <1>0, <1>21 DEF LoseCapture, Process, Claims
    <2> QED  BY <1>21, <1>c, <2>1 DEF LoseCapture, Honest
  <1>22. CASE Kill(r)
    <2>1. Told  BY <1>22, HonestMove, NoClaim DEF Kill, Die
    <2> QED  BY <1>22, <1>c, <2>1 DEF Kill
  <1> QED
    BY <1>1, <1>2, <1>3, <1>4, <1>5, <1>6, <1>7, <1>8, <1>9, <1>10, <1>11, <1>12, <1>13,
       <1>14, <1>15, <1>16, <1>17, <1>18, <1>19, <1>20, <1>21, <1>22 DEF ProcessStep

\* No step of the service, the scheduler, a page or the clock makes a false claim:
\* the service settles a run as complete only if its process returned success.
LEMMA HonestService ==
    ASSUME PipelineTypeOK, Honest,
           \/ \E r \in Runs : Refresh(r) \/ Schedule(r)
           \/ ServiceStep \/ WebDies \/ WebRestarts \/ PollStatus \/ Tick
    PROVE  Honest'
  <1>a. Idle.success = FALSE /\ Idle.at = "idle"
    BY DEF Idle
  <1>b. /\ [Idle EXCEPT !.at = "down"].success = FALSE
        /\ [Idle EXCEPT !.at = "down"].at = "down"
    BY DEF Idle
  <1>c. /\ ~Claims([NoProcess EXCEPT !.at = "recover"])
        /\ ~Claims([NoProcess EXCEPT !.at = "recover", !.child = TRUE])
    BY DEF NoProcess, Claims
  <1>1. ASSUME NEW r \in Runs, Refresh(r)  PROVE Honest'
    <2>1. CASE Started(r, FALSE) /\ service' = [at |-> "spawning", run |-> r, success |-> FALSE]
      BY <1>1, <2>1 DEF Refresh, Started, Running, Honest
    <2>2. CASE StartRefused(r, FALSE) /\ UNCHANGED service
      BY <1>1, <2>2, HonestLoad DEF Refresh, StartRefused, Load, Honest
    <2> QED  BY <1>1, <2>1, <2>2 DEF Refresh
  <1>2. ASSUME NEW r \in Runs, Schedule(r)  PROVE Honest'
    <2>1. \A k \in Runs : Claims(proc'[k]) => k \in published
      BY <1>2, <1>c, HonestMove DEF Schedule
    <2> QED  BY <1>2, <2>1 DEF Schedule, Honest, record
  <1>3. CASE Spawn
    <2>1. service.run \in Runs
      BY <1>3 DEF Spawn, Honest
    <2>2. \A k \in Runs : Claims(proc'[k]) => k \in published
      BY <1>3, <1>c, <2>1, HonestMove, NoClaim DEF Spawn, Die
    <2>3. /\ service'.success = service.success
          /\ service'.run = service.run
      BY <1>3 DEF Spawn, PipelineTypeOK
    <2> QED  BY <1>3, <2>1, <2>2, <2>3 DEF Spawn, Honest, record
  <1>4. CASE Timeout
    <2>1. service.run \in Runs
      BY <1>4 DEF Timeout, Honest
    <2>2. \A k \in Runs : Claims(proc'[k]) => k \in published
      BY <1>4, <2>1, HonestMove, NoClaim DEF Timeout, Die
    <2>3. /\ service'.success = FALSE
          /\ service'.run = service.run
      BY <1>4 DEF Timeout, PipelineTypeOK
    <2> QED  BY <1>4, <2>1, <2>2, <2>3 DEF Timeout, Honest, record
  <1>5. CASE Judge
    <2>1. service.run \in Runs
      BY <1>5 DEF Judge, Honest
    <2>2. Judged => service.run \in published
      BY <2>1 DEF Judged, Honest, Claims
    <2>3. /\ service'.success = Judged
          /\ service'.run = service.run
      BY <1>5 DEF Judge, PipelineTypeOK
    <2> QED  BY <1>5, <2>1, <2>2, <2>3, HonestLoad DEF Judge, Load, Honest
  <1>6. CASE Look
    <2>1. CASE service' = Idle
      BY <1>6, <1>a, <2>1, HonestLoad DEF Look, Load, Honest
    <2>2. CASE service' = [service EXCEPT !.at = "settle"]
      <3>1. service'.success = service.success /\ service'.run = service.run
        BY <2>2 DEF PipelineTypeOK
      <3>2. service.run \in Runs
        BY <1>6 DEF Look, Honest
      <3> QED  BY <1>6, <3>1, <3>2, HonestLoad DEF Look, Load, Honest
    <2> QED  BY <1>6, <2>1, <2>2 DEF Look
  <1>7. CASE Settle
    <2> DEFINE state == IF service.success THEN "complete" ELSE "failed"
    <2>1. state = "complete" => service.run \in published
      BY DEF Honest
    <2>2. service.run \in Runs
      BY <1>7 DEF Settle, Honest
    <2>3. /\ Finish(service.run, state, FALSE) \/ FinishUnarchived(service.run, state, FALSE)
          /\ UNCHANGED <<proc, published>>
      BY <1>7 DEF Settle
    <2>4. service'.success = FALSE /\ service'.at \in {"idle", "down"}
      BY <1>7, <1>a, <1>b DEF Settle
    <2> HIDE DEF state
    <2>5. status'.state = "complete" => status'.run \in published
      BY <2>1, <2>3 DEF PipelineTypeOK, Honest, Finish, FinishUnarchived
    <2>6. \A k \in Runs : history'[k].state = "complete" => k \in published
      BY <2>1, <2>2, <2>3 DEF PipelineTypeOK, Honest, Finish, FinishUnarchived
    <2> QED  BY <2>3, <2>4, <2>5, <2>6 DEF Honest
  <1>8. CASE WebDies
    <2>1. \A k \in Runs : Claims(proc'[k]) => k \in published
      <3>1. CASE service.at = "spawning"
        <4>1. service.run \in Runs  BY <3>1 DEF Honest
        <4> QED  BY <1>8, <3>1, <4>1, HonestMove, NoClaim DEF WebDies, Die
      <3>2. CASE service.at # "spawning"
        BY <1>8, <3>2 DEF WebDies, Honest
      <3> QED  BY <3>1, <3>2
    <2> QED  BY <1>8, <1>b, <2>1 DEF WebDies, Honest, record
  <1>9. CASE WebRestarts
    BY <1>9, <1>a DEF WebRestarts, Honest, record
  <1>10. CASE PollStatus
    BY <1>10, HonestLoad DEF PollStatus, Load, Honest
  <1>11. CASE Tick
    BY <1>11 DEF Tick, Honest
  <1> QED
    BY <1>1, <1>2, <1>3, <1>4, <1>5, <1>6, <1>7, <1>8, <1>9, <1>10, <1>11 DEF ServiceStep

\* Nothing is claimed at the start.
LEMMA HonestInit == Init => Honest
  <1> SUFFICES ASSUME Init  PROVE Honest
    OBVIOUS
  <1>1. \A r \in Runs : ~Claims(proc[r])
    BY DEF Init, NoProcess, Claims
  <1> QED  BY <1>1 DEF Init, InitRecord, Unknown, Idle, Honest

\* Every step keeps the records honest.
LEMMA HonestNext == PipelineTypeOK /\ Honest /\ [Next]_vars => Honest'
  <1> SUFFICES ASSUME PipelineTypeOK, Honest, [Next]_vars  PROVE Honest'
    OBVIOUS
  <1>1. CASE UNCHANGED vars
    BY <1>1 DEF Honest, vars, record, capture
  <1>2. CASE Next
    BY <1>2, HonestProcess, HonestService DEF Next
  <1> QED  BY <1>1, <1>2

\* A run recorded as complete, now or in the history, has published its artifact.
THEOREM CompleteMeansPublishedAlways == Spec => []CompleteMeansPublished
  <1>1. Honest => CompleteMeansPublished
    BY DEF Honest, CompleteMeansPublished, FoundIn
  <1>2. Spec => []Honest
    BY PipelineInitType, PipelineNextType, HonestInit, HonestNext, PTL DEF Spec
  <1> QED  BY <1>1, <1>2, PTL

-----------------------------------------------------------------------------
(* The record of a live run, and of a refresh.                              *)

\* A reader or a start finds nothing to recover in a record that was touched
\* lately, and nothing to replace.
LEMMA FreshRecordStays ==
    ASSUME status.state = "running", quiet = 0, NEW k, NEW attached,
           \/ Load(RunThreshold) \/ Load(PageThreshold)
           \/ Started(k, attached) \/ StartRefused(k, attached)
    PROVE  status' = status
  <1>1. Loaded(RunThreshold) = status /\ Loaded(PageThreshold) = status
    BY DEF Loaded, RunThreshold, PageThreshold
  <1>2. MayStart(k, attached) => status.run = k
    BY <1>1 DEF MayStart
  <1> QED  BY <1>1, <1>2 DEF Load, Started, StartRefused

\* A process that finishes changes its own record only, and itself.
LEMMA FinishMovesItself ==
    ASSUME PipelineTypeOK, NEW k \in Runs, NEW state, NEW produced, NEW next,
           FinishThen(k, state, produced, next), status' # status,
           next.at # proc[k].at, proc[k].at # "dead"
    PROVE  status.run = k /\ proc'[k] # proc[k]
  <1>1. status.run = k
    BY DEF FinishThen, Finish, FinishUnarchived
  <1>2. Ended("dead", FALSE).at = "dead"
    BY DEF Ended, NoProcess
  <1>3. proc'[k] = next \/ proc'[k] = Ended("dead", FALSE)
    BY DEF FinishThen, Die, PipelineTypeOK
  <1> QED  BY <1>1, <1>2, <1>3

\* The record of a live run that has reported lately is changed by nobody but
\* its own process and the service that waits for it.
THEOREM LiveRecordAlwaysKept == Spec => LiveRecordKept
  <1> DEFINE Moved(r) == proc'[r] # proc[r] \/ (service.run = r /\ service' # service)
             Kept == \A r \in Runs :
                       status.run = r /\ status.state = "running" /\ quiet = 0 /\ Alive(r)
                       /\ status' # status => Moved(r)
  <1>1. ASSUME PipelineTypeOK, Next, status.state = "running", quiet = 0, status' # status
        PROVE  Moved(status.run)
    <2>1. ASSUME NEW k \in Runs, Skip(k) \/ NoResults(k) \/ FinishRun(k) \/ Raise(k)
          PROVE  Moved(status.run)
      <3>1. CASE Skip(k)
        <4>1. Ended("exited", FALSE).at # proc[k].at /\ proc[k].at # "dead"
          BY <3>1 DEF Skip, At, Ended, NoProcess
        <4> QED  BY <1>1, <3>1, <4>1, FinishMovesItself DEF Skip
      <3>2. CASE NoResults(k)
        <4>1. Ended("exited", FALSE).at # proc[k].at /\ proc[k].at # "dead"
          BY <3>2 DEF NoResults, At, Ended, NoProcess
        <4> QED  BY <1>1, <3>2, <4>1, FinishMovesItself DEF NoResults
      <3>3. CASE FinishRun(k)
        <4> DEFINE next == [NoProcess EXCEPT !.success = TRUE, !.child = proc[k].child,
                              !.goal = "completed",
                              !.at = IF proc[k].prepared THEN "load" ELSE "release"]
        <4>0. next.at \in {"load", "release"}
          BY DEF NoProcess
        <4>1. FinishThen(k, proc[k].outcome, TRUE, next)
          BY <3>3 DEF FinishRun
        <4> HIDE DEF next
        <4>2. next.at # proc[k].at /\ proc[k].at # "dead"
          BY <3>3, <4>0 DEF FinishRun, At
        <4> QED  BY <1>1, <4>1, <4>2, FinishMovesItself
      <3>4. CASE Raise(k)
        <4> DEFINE next == [NoProcess EXCEPT !.at = "raised", !.child = proc[k].child]
        <4>0. next.at = "raised"
          BY DEF NoProcess
        <4>1. FinishThen(k, "failed", FALSE, next)
          BY <3>4 DEF Raise
        <4> HIDE DEF next
        <4>2. next.at # proc[k].at /\ proc[k].at # "dead"
          BY <3>4, <4>0 DEF Raise
        <4> QED  BY <1>1, <4>1, <4>2, FinishMovesItself
      <3> QED  BY <2>1, <3>1, <3>2, <3>3, <3>4
    <2>2. CASE Settle
      <3>1. status.run = service.run /\ service' # service
        BY <1>1, <2>2 DEF Settle, Finish, FinishUnarchived, Idle
      <3> QED  BY <3>1
    <2>3. ASSUME NEW k, NEW attached, \/ Load(RunThreshold) \/ Load(PageThreshold)
                                      \/ Started(k, attached) \/ StartRefused(k, attached)
          PROVE  FALSE
      BY <1>1, <2>3, FreshRecordStays
    <2>4. ASSUME NEW k \in Runs, ProcessStep(k), ~(Skip(k) \/ NoResults(k) \/ FinishRun(k) \/ Raise(k))
          PROVE  FALSE
      BY <1>1, <2>3, <2>4 DEF ProcessStep, BeginRecovery, FindRun, LoadEnvelope, CheckEnvelope,
         ReplaceEnvelope, CloseRow, Start, Export, StageEnvelope, BindRow, Publish, ReleaseRow,
         Promote, CleanUp, record
    <2>5. ASSUME NEW k \in Runs, \/ Report(k) \/ BeginCapture(k) \/ LoseCapture(k) \/ Kill(k)
                                 \/ Refresh(k) \/ Schedule(k)
          PROVE  FALSE
      BY <1>1, <2>3, <2>5 DEF Report, Touch, BeginCapture, LoseCapture, Kill, Refresh, Schedule, record
    <2>6. ASSUME Spawn \/ Timeout \/ Judge \/ Look \/ WebDies \/ WebRestarts \/ PollStatus \/ Tick
          PROVE  FALSE
      BY <1>1, <2>3, <2>6 DEF Spawn, Timeout, Judge, Look, WebDies, WebRestarts, PollStatus,
         Tick, record
    <2> QED  BY <1>1, <2>1, <2>2, <2>4, <2>5, <2>6 DEF Next, ServiceStep
  <1>2. PipelineTypeOK /\ [Next]_vars => [Kept]_vars
    BY <1>1
  <1> QED  BY <1>2, PipelineTypeCorrect, PTL DEF Spec, LiveRecordKept

\* When the service is done with a refresh, its run is not left running.
THEOREM RefreshAlwaysSettled == Spec => RefreshSettled
  <1> DEFINE Settled == service.at \in {"look", "settle"} /\ service'.at = "idle"
                          => ~(status'.run = service.run /\ status'.state = "running")
  <1>1. ASSUME PipelineTypeOK, Next, service.at \in {"look", "settle"}, service'.at = "idle"
        PROVE  ~(status'.run = service.run /\ status'.state = "running")
    <2>1. CASE Look
      <3>1. ~(status'.run = service.run /\ ToSettle(status'))
        BY <1>1, <2>1 DEF Look, Load, PipelineTypeOK
      <3> QED  BY <3>1 DEF ToSettle
    <2>2. CASE Settle
      <3>1. service' = Idle
        BY <1>1, <2>2 DEF Settle, Idle
      <3>2. \E state \in {"complete", "failed"} : Finish(service.run, state, FALSE)
        BY <1>1, <2>2 DEF Settle, Idle
      <3> QED  BY <1>1, <3>2 DEF Finish, PipelineTypeOK
    <2>3. ASSUME NEW k \in Runs, ProcessStep(k)  PROVE service' = service
      BY <2>3 DEF ProcessStep, BeginRecovery, FindRun, LoadEnvelope, CheckEnvelope,
         ReplaceEnvelope, CloseRow, Start, Skip, NoResults, Export, StageEnvelope, BindRow,
         Publish, FinishRun, ReleaseRow, Promote, Raise, CleanUp
    <2>4. ASSUME NEW k \in Runs, \/ Report(k) \/ BeginCapture(k) \/ LoseCapture(k) \/ Kill(k)
                                 \/ Refresh(k) \/ Schedule(k)
          PROVE  service' = service
      BY <1>1, <2>4 DEF Report, BeginCapture, LoseCapture, Kill, Refresh, Schedule
    <2>5. ASSUME Spawn \/ Timeout \/ Judge \/ WebRestarts  PROVE FALSE
      BY <1>1, <2>5 DEF Spawn, Timeout, Judge, WebRestarts, PipelineTypeOK
    <2>6. ASSUME WebDies  PROVE FALSE
      BY <1>1, <2>6 DEF WebDies, Idle
    <2>7. ASSUME PollStatus \/ Tick  PROVE service' = service
      BY <2>7 DEF PollStatus, Tick
    <2> QED  BY <1>1, <2>1, <2>2, <2>3, <2>4, <2>5, <2>6, <2>7 DEF Next, ServiceStep
  <1>2. PipelineTypeOK /\ [Next]_vars => [Settled]_vars
    BY <1>1
  <1> QED  BY <1>2, PipelineTypeCorrect, PTL DEF Spec, RefreshSettled

-----------------------------------------------------------------------------
(* The snapshot month: completed and committed only for a run that put its  *)
(* artifact in place.  The argument follows what a process knows of the row *)
(* while other processes act: a run that captures owns the row, and whoever *)
(* is about to complete the row, the owner or a recovery, does so for an    *)
(* owner that has published.                                                *)

Closing == {"load", "check", "replace", "row"}

\* What process p of run k holds of the month that run owner owns.
Fits(p, k, owner, done) ==
    /\ p.capturing \/ p.prepared => owner = k
    /\ p.at \in {"stage", "bind"} => p.capturing
    /\ p.at = "find" => owner \in Runs
    /\ p.at = "raised" => p.goal = "failed"
    /\ p.at \in Closing /\ p.goal = "completed" => owner \in done

\* Every process fits, and the row exists only for a run.
Owning ==
    /\ \A k \in Runs : Fits(proc[k], k, authority.run, published)
    /\ authority.run = NoRun => authority.state = "none"
    /\ AuthorityPublished

-----------------------------------------------------------------------------
(* What keeps every process fitting.                                        *)

\* The owner of the row never changes, runs never unpublish: who fitted the row
\* fits it still, and before the row is claimed nobody held anything of it.
LEMMA FitsStays ==
    ASSUME NEW p, NEW k \in Runs, NEW owner, NEW owner2, NEW done, NEW done2,
           Fits(p, k, owner, done), done \subseteq Runs, done \subseteq done2,
           owner2 = owner \/ owner = NoRun
    PROVE  Fits(p, k, owner2, done2)
  <1>1. CASE owner2 = owner
    BY <1>1 DEF Fits
  <1>2. CASE owner = NoRun
    <2>1. NoRun \notin Runs
      BY RunsAssumption DEF NoRun, Runs
    <2> QED  BY <1>2, <2>1 DEF Fits
  <1> QED  BY <1>1, <1>2

\* One process takes a value that fits; the others keep theirs.
LEMMA FitsMove ==
    ASSUME PipelineTypeOK, Owning, NEW r \in Runs, NEW next,
           proc' = [proc EXCEPT ![r] = next],
           Fits(next, r, authority'.run, published'),
           published \subseteq published',
           authority'.run = authority.run \/ authority.run = NoRun
    PROVE  \A k \in Runs : Fits(proc'[k], k, authority'.run, published')
  <1> TAKE k \in Runs
  <1>1. CASE k = r
    BY <1>1 DEF PipelineTypeOK
  <1>2. CASE k # r
    <2>1. proc'[k] = proc[k]
      BY <1>2 DEF PipelineTypeOK
    <2>2. Fits(proc[k], k, authority.run, published) /\ published \subseteq Runs
      BY DEF Owning, PipelineTypeOK
    <2> QED  BY <2>1, <2>2, FitsStays
  <1> QED  BY <1>1, <1>2

\* A process that stays fits if it did.
LEMMA FitsAll ==
    ASSUME PipelineTypeOK, Owning, proc' = proc, published \subseteq published',
           authority'.run = authority.run
    PROVE  \A k \in Runs : Fits(proc'[k], k, authority'.run, published')
  BY FitsStays DEF Owning, PipelineTypeOK

\* A step that leaves the row and the month alone keeps the invariant.
LEMMA OwningKept ==
    ASSUME PipelineTypeOK, Owning, UNCHANGED <<authority, committed>>,
           published \subseteq published',
           \A k \in Runs : Fits(proc'[k], k, authority'.run, published')
    PROVE  Owning'
  BY DEF Owning, AuthorityPublished

\* A row that fails or stays as it is does not complete the month.
LEMMA OwningFailed ==
    ASSUME PipelineTypeOK, Owning, UNCHANGED <<committed, published>>,
           authority' \in {authority, FailedRow},
           \A k \in Runs : Fits(proc'[k], k, authority'.run, published')
    PROVE  Owning'
  <1>1. authority'.run = authority.run
    BY DEF PipelineTypeOK, FailedRow
  <1>2. authority'.state = "completed" => authority.state = "completed"
    BY DEF PipelineTypeOK, FailedRow
  <1>3. authority.state = "none" => authority'.state = "none"
    BY DEF PipelineTypeOK, FailedRow
  <1> QED  BY <1>1, <1>2, <1>3 DEF Owning, AuthorityPublished

\* A process that has ended, or not begun, holds nothing.
LEMMA EndFits ==
    ASSUME NEW k, NEW owner, NEW done
    PROVE  /\ \A place \in {"exited", "dead"} : \A success :
                 Fits(Ended(place, success), k, owner, done)
           /\ \A child : \A place \in {"recover", "start", "raised"} :
                 Fits([NoProcess EXCEPT !.at = place, !.child = child], k, owner, done)
           /\ Fits([NoProcess EXCEPT !.at = "recover"], k, owner, done)
  BY DEF Fits, Ended, NoProcess, Closing

\* A process moved to a place where nothing is asked of it.
LEMMA GoFits ==
    ASSUME PipelineTypeOK, Owning, NEW r \in Runs, NEW place, Go(r, place),
           place \notin Closing \cup {"stage", "bind", "find", "raised"},
           UNCHANGED authority, published \subseteq published'
    PROVE  \A k \in Runs : Fits(proc'[k], k, authority'.run, published')
  <1>1. proc[r] \in Process /\ published \subseteq Runs  BY DEF PipelineTypeOK
  <1>2. proc' = [proc EXCEPT ![r] = [proc[r] EXCEPT !.at = place]]
    BY DEF PipelineTypeOK, Go
  <1>3. Fits(proc[r], r, authority'.run, published')
    BY <1>1, FitsStays DEF Owning
  <1>4. Fits([proc[r] EXCEPT !.at = place], r, authority'.run, published')
    BY <1>1, <1>3 DEF Fits, Process
  <1> QED  BY <1>2, <1>4, FitsMove

\* A process that leaves the envelope and the row asks nothing of them.
LEMMA LeaveFits ==
    ASSUME PipelineTypeOK, Owning, NEW r \in Runs
    PROVE  Fits(Leave(r), r, authority.run, published)
  <1>1. proc[r] \in Process  BY DEF PipelineTypeOK
  <1>2. Fits([proc[r] EXCEPT !.at = "promote"], r, authority.run, published)
    BY <1>1 DEF Owning, Fits, Process, Closing
  <1> QED  BY <1>2, EndFits DEF Leave

\* finish as a process calls it: what it goes on to be fits.
LEMMA FinishFits ==
    ASSUME PipelineTypeOK, Owning, NEW r \in Runs, NEW state, NEW produced, NEW next,
           FinishThen(r, state, produced, next),
           Fits(next, r, authority.run, published),
           UNCHANGED <<published, capture>>
    PROVE  Owning'
  <1>1. UNCHANGED <<authority, committed>>
    BY DEF capture
  <1>2. \/ proc' = [proc EXCEPT ![r] = next]
        \/ proc' = [proc EXCEPT ![r] = Ended("dead", FALSE)]
    BY DEF FinishThen, Die
  <1>3. \A k \in Runs : Fits(proc'[k], k, authority'.run, published')
    BY <1>1, <1>2, EndFits, FitsMove
  <1> QED  BY <1>1, <1>3, OwningKept

-----------------------------------------------------------------------------
(* The steps.                                                               *)

\* Closing the envelope and the row: whoever completes the row carries an owner
\* that has published.
LEMMA OwningClosing ==
    ASSUME PipelineTypeOK, Owning, NEW r \in Runs,
           \/ LoadEnvelope(r) \/ CheckEnvelope(r) \/ ReplaceEnvelope(r) \/ CloseRow(r)
    PROVE  Owning'
  <1> DEFINE Fitting == \A k \in Runs : Fits(proc'[k], k, authority'.run, published')
  <1>0. /\ proc[r] \in Process
        /\ Fits(proc[r], r, authority.run, published)
        /\ Fits(Leave(r), r, authority.run, published)
    BY LeaveFits DEF PipelineTypeOK, Owning
  <1>a. ASSUME UNCHANGED <<authority, published>>,
               \/ \E place \in {"check", "replace", "row"} : Go(r, place)
               \/ \E stamp : proc' = [proc EXCEPT ![r].at = "row", ![r].stamp = stamp]
               \/ proc' = [proc EXCEPT ![r] = Leave(r)],
               proc[r].at \in Closing
        PROVE  Fitting
    <2>1. CASE proc' = [proc EXCEPT ![r] = Leave(r)]
      BY <1>0, <1>a, <2>1, FitsMove
    <2>2. ASSUME NEW place \in {"check", "replace", "row"}, Go(r, place)
          PROVE  Fitting
      <3>1. proc' = [proc EXCEPT ![r] = [proc[r] EXCEPT !.at = place]]
        BY <2>2 DEF PipelineTypeOK, Go
      <3>2. Fits([proc[r] EXCEPT !.at = place], r, authority.run, published)
        BY <1>0, <1>a DEF Fits, Process, Closing
      <3> QED  BY <1>a, <3>1, <3>2, FitsMove
    <2>3. ASSUME NEW stamp, proc' = [proc EXCEPT ![r].at = "row", ![r].stamp = stamp]
          PROVE  Fitting
      <3>1. proc' = [proc EXCEPT ![r] = [proc[r] EXCEPT !.at = "row", !.stamp = stamp]]
        BY <2>3 DEF PipelineTypeOK
      <3>2. Fits([proc[r] EXCEPT !.at = "row", !.stamp = stamp],
                 r, authority.run, published)
        BY <1>0, <1>a DEF Fits, Process, Closing
      <3> QED  BY <1>a, <3>1, <3>2, FitsMove
    <2> QED  BY <1>a, <2>1, <2>2, <2>3
  <1>1. CASE LoadEnvelope(r)
    <2>1. Fitting  BY <1>1, <1>a DEF LoadEnvelope, At, Closing, capture
    <2> QED  BY <1>1, <2>1, OwningKept DEF LoadEnvelope, capture
  <1>2. CASE CheckEnvelope(r)
    <2>1. Fitting  BY <1>2, <1>a DEF CheckEnvelope, At, Closing, capture
    <2> QED  BY <1>2, <2>1, OwningKept DEF CheckEnvelope, capture
  <1>3. CASE ReplaceEnvelope(r)
    <2>1. Fitting  BY <1>3, <1>a DEF ReplaceEnvelope, At, Closing
    <2> QED  BY <1>3, <2>1, OwningKept DEF ReplaceEnvelope
  <1>4. CASE CloseRow(r)
    <2>1. authority'.run = authority.run
      BY <1>4 DEF PipelineTypeOK, CloseRow, CompletedRow, FailedRow
    <2>2. Fitting
      BY <1>0, <1>4, <2>1, FitsMove DEF CloseRow
    <2>3. CASE proc[r].goal = "completed"
      <3>1. authority.run \in published
        BY <1>0, <1>4, <2>3 DEF CloseRow, At, Fits, Closing
      <3>2. authority.state = "none" => authority'.state = "none"
        BY <1>4, <2>3 DEF PipelineTypeOK, CloseRow, CompletedRow
      <3> QED  BY <1>4, <2>1, <2>2, <3>1, <3>2 DEF CloseRow, Owning, AuthorityPublished
    <2>4. CASE proc[r].goal # "completed"
      BY <1>4, <2>2, <2>4, OwningFailed DEF CloseRow
    <2> QED  BY <2>3, <2>4
  <1> QED  BY <1>1, <1>2, <1>3, <1>4

\* Recovery of a month: the run it finds complete has published.
LEMMA OwningRecovery ==
    ASSUME PipelineTypeOK, Honest, Owning, NEW r \in Runs,
           BeginRecovery(r) \/ FindRun(r)
    PROVE  Owning'
  <1> DEFINE Fitting == \A k \in Runs : Fits(proc'[k], k, authority'.run, published')
  <1>0. /\ proc[r] \in Process
        /\ Fits(proc[r], r, authority.run, published)
    BY DEF PipelineTypeOK, Owning
  <1>1. CASE BeginRecovery(r)
    <2>1. CASE Go(r, "start")
      BY <1>1, <2>1, GoFits, OwningKept DEF BeginRecovery, capture, Closing
    <2>2. CASE /\ authority.state \in {"attempted", "prepared"}
               /\ proc' = [proc EXCEPT ![r].at = "find", ![r].seen = authority.state,
                                       ![r].recovering = TRUE]
      <3> DEFINE next == [proc[r] EXCEPT !.at = "find", !.seen = authority.state,
                                         !.recovering = TRUE]
      <3>1. proc' = [proc EXCEPT ![r] = next]
        BY <2>2 DEF PipelineTypeOK
      <3>2. authority.run \in Runs
        BY <2>2 DEF PipelineTypeOK, Owning
      <3>3. Fits(next, r, authority.run, published)
        BY <1>0, <3>2 DEF Fits, Process, Closing
      <3> HIDE DEF next
      <3>4. Fitting  BY <1>1, <3>1, <3>3, FitsMove DEF BeginRecovery, capture
      <3> QED  BY <1>1, <3>4, OwningKept DEF BeginRecovery, capture
    <2> QED  BY <1>1, <2>1, <2>2 DEF BeginRecovery
  <1>2. CASE FindRun(r)
    <2> DEFINE found == FoundIn(status, authority.run)
    <2>1. authority.run \in Runs
      BY <1>0, <1>2 DEF FindRun, At, Fits
    <2>2. Succeeded(found) => authority.run \in published
      BY <2>1 DEF Succeeded, FoundIn, Honest
    <2> HIDE DEF found
    <2>3. /\ Fits(Leave(r), r, authority.run, published)
          /\ Fits([proc[r] EXCEPT !.at = "row", !.goal = "failed"],
                  r, authority.run, published)
          /\ Fits([proc[r] EXCEPT !.at = "load",
                     !.goal = IF Succeeded(found) THEN "completed" ELSE "failed"],
                  r, authority.run, published)
      <3>1. Fits([proc[r] EXCEPT !.at = "row", !.goal = "failed"],
                 r, authority.run, published)
        BY <1>0 DEF Fits, Process, Closing
      <3>2. ASSUME NEW goal \in Goal, goal = "completed" => authority.run \in published
            PROVE  Fits([proc[r] EXCEPT !.at = "load", !.goal = goal],
                        r, authority.run, published)
        BY <1>0, <3>2 DEF Fits, Process, Closing
      <3> QED  BY <2>2, <3>1, <3>2, LeaveFits DEF Goal
    <2>4. Fitting
      BY <1>2, <2>3, FitsMove DEF FindRun, capture, found
    <2> QED  BY <1>2, <2>4, OwningKept DEF FindRun, capture
  <1> QED  BY <1>1, <1>2

\* The work and the capture: only the run that owns the row prepares it.
LEMMA OwningWork ==
    ASSUME PipelineTypeOK, Owning, NEW r \in Runs,
           \/ Start(r) \/ Skip(r) \/ NoResults(r) \/ Report(r)
           \/ BeginCapture(r) \/ LoseCapture(r)
           \/ \E outcome \in {"complete", "partial"} : Export(r, outcome)
           \/ StageEnvelope(r) \/ BindRow(r)
    PROVE  Owning'
  <1> DEFINE Fitting == \A k \in Runs : Fits(proc'[k], k, authority'.run, published')
  <1>0. /\ proc[r] \in Process
        /\ Fits(proc[r], r, authority.run, published)
    BY DEF PipelineTypeOK, Owning
  <1>1. CASE Start(r)
    <2>1. Fitting
      BY <1>1, GoFits, EndFits, FitsMove DEF Start, Exit, capture, Closing
    <2> QED  BY <1>1, <2>1, OwningKept DEF Start, capture
  <1>2. CASE Skip(r)
    BY <1>2, EndFits, FinishFits DEF Skip
  <1>3. CASE NoResults(r)
    BY <1>3, EndFits, FinishFits DEF NoResults
  <1>4. CASE Report(r)
    BY <1>4, FitsAll, OwningKept DEF Report, capture
  <1>5. CASE BeginCapture(r)
    <2>1. authority.run = NoRun /\ authority'.run = r /\ authority'.state = "attempted"
      BY <1>5 DEF BeginCapture, ClaimRow
    <2>2. proc' = [proc EXCEPT ![r] = [proc[r] EXCEPT !.capturing = TRUE]]
      BY <1>5 DEF PipelineTypeOK, BeginCapture
    <2>3. Fits([proc[r] EXCEPT !.capturing = TRUE], r, authority'.run, published')
      BY <1>0, <1>5, <2>1 DEF BeginCapture, At, Fits, Process, Closing
    <2>4. Fitting
      BY <1>5, <2>1, <2>2, <2>3, FitsMove DEF BeginCapture
    <2>5. r # NoRun
      BY RunsAssumption DEF Runs, NoRun
    <2> QED  BY <1>5, <2>1, <2>4, <2>5 DEF BeginCapture, Owning, AuthorityPublished
  <1>6. CASE LoseCapture(r)
    <2>1. proc' = [proc EXCEPT ![r] = [proc[r] EXCEPT !.capturing = FALSE]]
      BY <1>6 DEF PipelineTypeOK, LoseCapture
    <2>2. authority'.run = authority.run
      BY <1>6 DEF PipelineTypeOK, LoseCapture, FailedRow
    <2>3. Fits([proc[r] EXCEPT !.capturing = FALSE], r, authority.run, published)
      BY <1>0, <1>6 DEF LoseCapture, At, Fits, Process, Closing
    <2>4. Fitting
      BY <1>6, <2>1, <2>2, <2>3, FitsMove DEF LoseCapture
    <2> QED  BY <1>6, <2>4, OwningFailed DEF LoseCapture
  <1>7. ASSUME NEW outcome \in {"complete", "partial"}, Export(r, outcome)
        PROVE  Owning'
    <2>1. PICK place \in {"stage", "publish"} :
             /\ proc' = [proc EXCEPT ![r] = [proc[r] EXCEPT !.outcome = outcome,
                                                            !.at = place]]
             /\ place = "stage" => proc[r].capturing
      BY <1>7 DEF PipelineTypeOK, Export
    <2>2. Fits([proc[r] EXCEPT !.outcome = outcome, !.at = place],
               r, authority.run, published)
      BY <1>0, <1>7, <2>1 DEF Export, At, Fits, Process, Closing
    <2>3. Fitting
      BY <1>7, <2>1, <2>2, FitsMove DEF Export, capture
    <2> QED  BY <1>7, <2>3, OwningKept DEF Export, capture
  <1>8. CASE StageEnvelope(r)
    <2>1. authority' \in {authority, FailedRow} /\ authority'.run = authority.run
      BY <1>8 DEF PipelineTypeOK, StageEnvelope, FailedRow
    <2>2. PICK place \in {"bind", "publish"} :
             proc' = [proc EXCEPT ![r] = [proc[r] EXCEPT !.at = place]]
      BY <1>8 DEF PipelineTypeOK, StageEnvelope, Go
    <2>3. Fits([proc[r] EXCEPT !.at = place], r, authority.run, published)
      BY <1>0, <1>8, <2>2 DEF StageEnvelope, At, Fits, Process, Closing
    <2>4. Fitting
      BY <1>8, <2>1, <2>2, <2>3, FitsMove DEF StageEnvelope
    <2> QED  BY <1>8, <2>1, <2>4, OwningFailed DEF StageEnvelope
  <1>9. CASE BindRow(r)
    <2>1. CASE /\ authority.state = "attempted"
               /\ authority' = [authority EXCEPT !.state = "prepared"]
               /\ proc' = [proc EXCEPT ![r].at = "publish", ![r].prepared = TRUE,
                                       ![r].capturing = FALSE]
      <3> DEFINE next == [proc[r] EXCEPT !.at = "publish", !.prepared = TRUE,
                                         !.capturing = FALSE]
      <3>1. proc' = [proc EXCEPT ![r] = next]
        BY <2>1 DEF PipelineTypeOK
      <3>2. authority.run = r
        BY <1>0, <1>9 DEF BindRow, At, Fits
      <3>3. Fits(next, r, authority.run, published)
        BY <1>0, <3>2 DEF Fits, Process, Closing
      <3>4. authority'.run = authority.run /\ authority'.state = "prepared"
        BY <2>1 DEF PipelineTypeOK
      <3> HIDE DEF next
      <3>5. Fitting
        BY <1>9, <3>1, <3>3, <3>4, FitsMove DEF BindRow
      <3>6. authority.run # NoRun
        BY <2>1 DEF Owning
      <3> QED  BY <1>9, <3>4, <3>5, <3>6 DEF BindRow, Owning, AuthorityPublished
    <2>2. CASE authority' = FailedRow /\ Go(r, "publish")
      <3>1. proc' = [proc EXCEPT ![r] = [proc[r] EXCEPT !.at = "publish"]]
        BY <2>2 DEF PipelineTypeOK, Go
      <3>2. Fits([proc[r] EXCEPT !.at = "publish"], r, authority.run, published)
        BY <1>0 DEF Fits, Process, Closing
      <3>3. authority'.run = authority.run
        BY <2>2 DEF PipelineTypeOK, FailedRow
      <3>4. Fitting
        BY <1>9, <3>1, <3>2, <3>3, FitsMove DEF BindRow
      <3> QED  BY <1>9, <2>2, <3>4, OwningFailed DEF BindRow
    <2> QED  BY <1>9, <2>1, <2>2 DEF BindRow
  <1> QED  BY <1>1, <1>2, <1>3, <1>4, <1>5, <1>6, <1>7, <1>8, <1>9

\* Publication and the end of a run: a run that goes on to complete the row owns
\* it and has published.
LEMMA OwningEnd ==
    ASSUME PipelineTypeOK, Honest, Owning, NEW r \in Runs,
           \/ Publish(r) \/ FinishRun(r) \/ ReleaseRow(r) \/ Promote(r)
           \/ Raise(r) \/ CleanUp(r) \/ Kill(r)
    PROVE  Owning'
  <1> DEFINE Fitting == \A k \in Runs : Fits(proc'[k], k, authority'.run, published')
  <1>0. /\ proc[r] \in Process
        /\ Fits(proc[r], r, authority.run, published)
    BY DEF PipelineTypeOK, Owning
  <1>1. CASE Publish(r)
    <2>1. Fitting
      BY <1>1, GoFits DEF Publish, capture, Closing
    <2> QED  BY <1>1, <2>1, OwningKept DEF Publish, capture
  <1>2. CASE FinishRun(r)
    <2> DEFINE next == [NoProcess EXCEPT !.success = TRUE, !.child = proc[r].child,
                          !.goal = "completed",
                          !.at = IF proc[r].prepared THEN "load" ELSE "release"]
    <2>1. r \in published
      BY <1>2 DEF FinishRun, At, Honest, Claims
    <2>2. proc[r].prepared => authority.run = r
      BY <1>0 DEF Fits
    <2>3. Fits(next, r, authority.run, published)
      BY <2>1, <2>2 DEF Fits, NoProcess, Closing
    <2>4. FinishThen(r, proc[r].outcome, TRUE, next) /\ UNCHANGED <<published, capture>>
      BY <1>2 DEF FinishRun
    <2> HIDE DEF next
    <2> QED  BY <2>3, <2>4, FinishFits
  <1>3. CASE ReleaseRow(r)
    <2>1. authority' \in {authority, FailedRow} /\ authority'.run = authority.run
      BY <1>3 DEF PipelineTypeOK, ReleaseRow, FailedRow
    <2>2. proc' = [proc EXCEPT ![r] = [proc[r] EXCEPT !.at = "promote"]]
      BY <1>3 DEF PipelineTypeOK, ReleaseRow, Go
    <2>3. Fits([proc[r] EXCEPT !.at = "promote"], r, authority.run, published)
      BY <1>0 DEF Fits, Process, Closing
    <2>4. Fitting
      BY <1>3, <2>1, <2>2, <2>3, FitsMove DEF ReleaseRow
    <2> QED  BY <1>3, <2>1, <2>4, OwningFailed DEF ReleaseRow
  <1>4. CASE Promote(r)
    <2>1. Fitting
      BY <1>4, EndFits, FitsMove DEF Promote, Exit
    <2>2. committed' => authority.run \in published
      BY <1>4 DEF Promote, Promotable, Owning, AuthorityPublished
    <2> QED  BY <1>4, <2>1, <2>2 DEF Promote, Owning, AuthorityPublished
  <1>5. CASE Raise(r)
    <2> DEFINE next == [NoProcess EXCEPT !.at = "raised", !.child = proc[r].child]
    <2>1. Fits(next, r, authority.run, published)
      BY EndFits
    <2>2. FinishThen(r, "failed", FALSE, next) /\ UNCHANGED <<published, capture>>
      BY <1>5 DEF Raise
    <2> HIDE DEF next
    <2> QED  BY <2>1, <2>2, FinishFits
  <1>6. CASE CleanUp(r)
    <2>1. ASSUME NEW place \in {"load", "row"}, Go(r, place)
          PROVE  Fitting
      <3>1. proc' = [proc EXCEPT ![r] = [proc[r] EXCEPT !.at = place]]
        BY <2>1 DEF PipelineTypeOK, Go
      <3>2. proc[r].goal = "failed"
        BY <1>0, <1>6 DEF CleanUp, At, Fits
      <3>3. Fits([proc[r] EXCEPT !.at = place], r, authority.run, published)
        BY <1>0, <3>2 DEF Fits, Process, Closing
      <3> QED  BY <1>6, <3>1, <3>3, FitsMove DEF CleanUp, capture
    <2>2. ASSUME Exit(r, FALSE)  PROVE Fitting
      BY <1>6, <2>2, EndFits, FitsMove DEF CleanUp, Exit, capture
    <2>3. Fitting  BY <1>6, <2>1, <2>2 DEF CleanUp
    <2> QED  BY <1>6, <2>3, OwningKept DEF CleanUp, capture
  <1>7. CASE Kill(r)
    <2>1. Fitting  BY <1>7, EndFits, FitsMove DEF Kill, Die, capture
    <2> QED  BY <1>7, <2>1, OwningKept DEF Kill, capture
  <1> QED  BY <1>1, <1>2, <1>3, <1>4, <1>5, <1>6, <1>7

\* The service, the scheduler, the pages and the clock leave the month alone.
LEMMA OwningService ==
    ASSUME PipelineTypeOK, Honest, Owning,
           \/ \E r \in Runs : Refresh(r) \/ Schedule(r)
           \/ ServiceStep \/ WebDies \/ WebRestarts \/ PollStatus \/ Tick
    PROVE  Owning'
  <1> DEFINE Fitting == \A k \in Runs : Fits(proc'[k], k, authority'.run, published')
  <1>0. UNCHANGED <<published, authority, committed>>
    BY DEF Refresh, Schedule, ServiceStep, Spawn, Timeout, Judge, Look, Settle,
           WebDies, WebRestarts, PollStatus, Tick, capture
  <1>1. ASSUME NEW r \in Runs, NEW next, proc' = [proc EXCEPT ![r] = next],
               Fits(next, r, authority.run, published)
        PROVE  Fitting
    BY <1>0, <1>1, FitsMove
  <1>2. ASSUME NEW r \in Runs, Schedule(r)  PROVE Fitting
    BY <1>1, <1>2, EndFits DEF Schedule
  <1>3. ASSUME Spawn  PROVE Fitting
    <2>1. service.run \in Runs
      BY <1>3 DEF Spawn, Honest
    <2>2. Fits([NoProcess EXCEPT !.at = "recover", !.child = TRUE],
               service.run, authority.run, published)
      BY EndFits
    <2> QED  BY <1>1, <1>3, <2>1, <2>2, EndFits DEF Spawn, Die
  <1>4. ASSUME Timeout  PROVE Fitting
    <2>1. service.run \in Runs
      BY <1>4 DEF Timeout, Honest
    <2> QED  BY <1>1, <1>4, <2>1, EndFits DEF Timeout, Die
  <1>5. ASSUME WebDies  PROVE Fitting
    <2>1. service.at = "spawning" => service.run \in Runs
      BY DEF Honest
    <2> QED  BY <1>0, <1>1, <1>5, <2>1, EndFits, FitsAll DEF WebDies, Die
  <1>6. ASSUME proc' = proc  PROVE Fitting
    BY <1>0, <1>6, FitsAll
  <1>7. \/ proc' = proc \/ Spawn \/ Timeout \/ WebDies
        \/ \E r \in Runs : Schedule(r)
    BY DEF Refresh, ServiceStep, Judge, Look, Settle, WebRestarts, PollStatus, Tick
  <1>8. Fitting  BY <1>2, <1>3, <1>4, <1>5, <1>6, <1>7
  <1> QED  BY <1>0, <1>8, OwningKept

\* At the start nobody holds anything of the month.
LEMMA OwningInit == Init => Owning
  <1> SUFFICES ASSUME Init  PROVE Owning
    OBVIOUS
  <1>1. \A k \in Runs : Fits(proc[k], k, authority.run, published)
    BY DEF Init, NoProcess, Fits, Closing
  <1> QED  BY <1>1 DEF Init, Owning, AuthorityPublished

\* Every step keeps the invariant.
LEMMA OwningNext == PipelineTypeOK /\ Honest /\ Owning /\ [Next]_vars => Owning'
  <1> SUFFICES ASSUME PipelineTypeOK, Honest, Owning, [Next]_vars  PROVE Owning'
    OBVIOUS
  <1>1. CASE UNCHANGED vars
    BY <1>1, FitsAll, OwningKept DEF vars, capture
  <1>2. ASSUME NEW r \in Runs, ProcessStep(r)  PROVE Owning'
    BY <1>2, OwningClosing, OwningRecovery, OwningWork, OwningEnd DEF ProcessStep
  <1>3. CASE Next
    BY <1>2, <1>3, OwningWork, OwningEnd, OwningService DEF Next
  <1> QED  BY <1>1, <1>3

\* A month is committed, and its row completed, only for a run that put its
\* artifact in place.
THEOREM AuthorityPublishedAlways == Spec => []AuthorityPublished
  <1>1. Owning => AuthorityPublished
    BY DEF Owning
  <1>2. Spec => [](PipelineTypeOK /\ Honest /\ Owning)
    BY PipelineInitType, PipelineNextType, HonestInit, HonestNext,
       OwningInit, OwningNext, PTL DEF Spec
  <1> QED  BY <1>1, <1>2, PTL

\* No handler ever asks for a change of the row that the triggers abort: every
\* one looks at the row it writes, whatever it read of it before.
THEOREM AuthorityAlwaysLegal == Spec => AuthorityLegal
  <1> DEFINE Arcs == {<<"attempted", "prepared">>, <<"attempted", "failed">>,
                      <<"prepared", "completed">>, <<"prepared", "failed">>}
             Legal == authority' # authority =>
                        \/ authority.run = NoRun /\ authority'.state = "attempted"
                        \/ /\ authority'.run = authority.run
                           /\ <<authority.state, authority'.state>> \in Arcs
  <1>1. ASSUME PipelineTypeOK, authority' = FailedRow  PROVE Legal
    BY <1>1 DEF FailedRow, PipelineTypeOK
  <1>2. ASSUME PipelineTypeOK, NEW stamp, authority' = CompletedRow(stamp)  PROVE Legal
    BY <1>2 DEF CompletedRow, PipelineTypeOK
  <1>3. ASSUME PipelineTypeOK, NEW r \in Runs, BindRow(r)  PROVE Legal
    BY <1>1, <1>3 DEF BindRow, PipelineTypeOK
  <1>4. ASSUME PipelineTypeOK, NEW r \in Runs, BeginCapture(r)  PROVE Legal
    BY <1>4 DEF BeginCapture, ClaimRow
  <1>5. ASSUME PipelineTypeOK, Next  PROVE Legal
    <2>1. ASSUME NEW r \in Runs, ProcessStep(r), ~BindRow(r)
          PROVE  \/ authority' \in {authority, FailedRow}
                 \/ \E stamp : authority' = CompletedRow(stamp)
      BY <2>1 DEF ProcessStep, BeginRecovery, FindRun, LoadEnvelope, CheckEnvelope, ReplaceEnvelope,
         CloseRow, Start, Skip, NoResults, Export, StageEnvelope, Publish, FinishRun, ReleaseRow,
         Promote, Raise, CleanUp, capture
    <2>2. ASSUME NEW r \in Runs, \/ Report(r) \/ LoseCapture(r) \/ Kill(r) \/ Refresh(r) \/ Schedule(r)
          PROVE  authority' \in {authority, FailedRow}
      BY <2>2 DEF Report, LoseCapture, Kill, Refresh, Schedule, capture
    <2>3. ASSUME ServiceStep \/ WebDies \/ WebRestarts \/ PollStatus \/ Tick
          PROVE  authority' = authority
      BY <2>3 DEF ServiceStep, Spawn, Timeout, Judge, Look, Settle, WebDies, WebRestarts,
         PollStatus, Tick, capture
    <2> QED  BY <1>1, <1>2, <1>3, <1>4, <1>5, <2>1, <2>2, <2>3 DEF Next
  <1>6. PipelineTypeOK /\ [Next]_vars => [Legal]_vars
    BY <1>5
  <1> QED  BY <1>6, PipelineTypeCorrect, PTL DEF Spec, AuthorityLegal
=============================================================================
