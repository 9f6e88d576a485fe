------------------------ MODULE NotificationProjection ------------------------
(***************************************************************************)
(* The projection of the outbox into the notification centre.  The outbox   *)
(* is a table of backtest.db, written in the transaction of the job it      *)
(* describes; the notifications are a table of another database.            *)
(* StrategyNotificationProjector.project_pending copies one to the other:   *)
(* it lists the pending rows, and for each looks up the notification of the *)
(* job, writes it and acknowledges the version it wrote.  It runs at the    *)
(* start of an application and whenever a page polls its bell, on the event *)
(* loop of the application, so each application is one projector.           *)
(***************************************************************************)
EXTENDS StrategyJobs

CONSTANTS
    Projectors,     \* the applications that share the two databases
    Watched,        \* bound: jobs whose rows are projected (rows are independent)
    MaxDeaths       \* bound: applications killed

ASSUME ProjectionAssumption == MaxDeaths \in Nat /\ Watched \subseteq Nat

VARIABLES
    bell,       \* the notification of each job: its job_status_version, 0: none
    shown,      \* history: the latest version of each job ever written to the bell
    projector,  \* where each projector is, and the rows it has listed
    deaths

centre == <<bell, shown, projector, deaths>>
all == <<ledger, centre>>


Lists == [JobIds -> Nat]        \* a listed row: its version; 0: not listed
NoRows == [j \in JobIds |-> 0]

\* at: what comes next for the row being projected.  found: its SELECT met a
\* notification of the job.
Projector == [at : {"idle", "look", "store", "acknowledge"}, row : {NoJob} \cup JobIds,
              found : BOOLEAN, rows : Lists]
Resting == [at |-> "idle", row |-> NoJob, found |-> FALSE, rows |-> NoRows]

Listed(i) == {j \in JobIds : projector[i].rows[j] # 0}

Pending == {j \in JobIds \cap Watched : outbox[j].pending}

\* pending_notification_outbox.
List(i) ==
    /\ projector[i].at = "idle"
    /\ Pending # {}
    /\ projector' = [projector EXCEPT ![i] =
         [at |-> "look", row |-> NoJob, found |-> FALSE,
          rows |-> [j \in JobIds |-> IF j \in Pending THEN outbox[j].version ELSE 0]]]
    /\ UNCHANGED <<ledger, bell, shown, deaths>>

\* The row is done with, projected or not: its exception is logged.
Dropped(i, j) ==
    LET rows == [projector[i].rows EXCEPT ![j] = 0] IN
    IF rows = NoRows THEN Resting
    ELSE [at |-> "look", row |-> NoJob, found |-> FALSE, rows |-> rows]

\* The SELECT of upsert_job_notification, which raises when the notification is
\* newer than the row.  The rows come by updated_at, here in any order.  Mutant:
\* it raises when the notification is as new, too.
LookStrictly(i, j) ==
    /\ projector[i].at = "look" /\ j \in Listed(i)
    /\ projector' = [projector EXCEPT ![i] =
         IF bell[j] >= projector[i].rows[j] THEN Dropped(i, j)
         ELSE [@ EXCEPT !.at = "store", !.row = j, !.found = bell[j] # 0]]
    /\ UNCHANGED <<ledger, bell, shown, deaths>>

Look(i, j) ==
    /\ projector[i].at = "look" /\ j \in Listed(i)
    /\ projector' = [projector EXCEPT ![i] =
         IF bell[j] > projector[i].rows[j] THEN Dropped(i, j)
         ELSE [@ EXCEPT !.at = "store", !.row = j, !.found = bell[j] # 0]]
    /\ UNCHANGED <<ledger, bell, shown, deaths>>

Newest(j, version) == [shown EXCEPT ![j] = IF version > @ THEN version ELSE @]

\* Its INSERT, refused by notifications_job_id_unique when another projector's
\* came first, or its UPDATE of the row the SELECT met.

Store(i) ==
    LET j == projector[i].row
        lost == ~projector[i].found /\ bell[j] # 0 IN
    /\ projector[i].at = "store"
    /\ bell' = IF lost THEN bell ELSE [bell EXCEPT ![j] = projector[i].rows[j]]
    /\ shown' = IF lost THEN shown ELSE Newest(j, projector[i].rows[j])
    /\ projector' = [projector EXCEPT ![i] =
         IF lost THEN Dropped(i, j) ELSE [@ EXCEPT !.at = "acknowledge"]]
    /\ UNCHANGED <<ledger, deaths>>

\* acknowledge_notification_outbox, which matches no row when the job has moved
\* on.  Mutant: the version projected is not compared.
AcknowledgeRowOfAny(i) ==
    LET j == projector[i].row IN
    /\ projector[i].at = "acknowledge"
    /\ outbox' = [outbox EXCEPT ![j].pending = FALSE]
    /\ projector' = [projector EXCEPT ![i] = Dropped(i, j)]
    /\ UNCHANGED <<lease, jobs, claims, profile, staging, results, restarts, bell, shown, deaths>>

AcknowledgeRow(i) ==
    LET j == projector[i].row IN
    /\ projector[i].at = "acknowledge"
    /\ IF outbox[j].version = projector[i].rows[j]
       THEN Acknowledge(j, projector[i].rows[j])
       ELSE UNCHANGED ledger
    /\ projector' = [projector EXCEPT ![i] = Dropped(i, j)]
    /\ UNCHANGED <<bell, shown, deaths>>

\* The application is killed after a write.  Killed earlier in a row it has
\* changed nothing, as when it never listed the row.
ProjectorDies(i) ==
    /\ projector[i].at = "acknowledge"
    /\ deaths < MaxDeaths
    /\ deaths' = deaths + 1
    /\ projector' = [projector EXCEPT ![i] = Resting]
    /\ UNCHANGED <<ledger, bell, shown>>

ProjectPending(i) ==
    \/ List(i)
    \/ \E j \in JobIds : Look(i, j)
    \/ Store(i)
    \/ AcknowledgeRow(i)

ProjectionInit ==
    /\ Init
    /\ bell = [j \in JobIds |-> 0]
    /\ shown = [j \in JobIds |-> 0]
    /\ projector = [i \in Projectors |-> Resting]
    /\ deaths = 0

ProjectionNext ==
    \/ Next /\ UNCHANGED centre
    \/ \E i \in Projectors : ProjectPending(i) \/ ProjectorDies(i)

\* Some page is open: each application keeps polling.
ProjectionSpec == ProjectionInit /\ [][ProjectionNext]_all
                  /\ \A i \in Projectors : WF_all(ProjectPending(i))

-----------------------------------------------------------------------------
(* Properties.                                                              *)

\* A change of a job is taken off the outbox only after exactly that change has
\* been written to the notification centre, whatever the other projectors, the
\* job's next changes and the deaths in between.
NothingAckedUnseen ==
    \A j \in Existing : ~outbox[j].pending => shown[j] = outbox[j].version

\* Every change of a job is in the end announced, or overtaken by a later one
\* that is: a refused INSERT, a newer notification or a death leaves no row
\* pending for ever.
EveryChangeAnnounced ==
    \A j \in Watched : j \in Pending ~> j \notin Pending
=============================================================================
