-------------------------- MODULE SnapshotHistory --------------------------
(***************************************************************************)
(* The portfolio's value history: one snapshot row for every settled day   *)
(* on which something was held.  SnapshotBackfillService fills the days     *)
(* without a row; the routes start it in the web process after an import   *)
(* or a price refresh, and the nightly pipeline starts it in its own       *)
(* process.  The live writer appends rows of today, and the repair pass    *)
(* gives a value to a row that has none.                                   *)
(*                                                                         *)
(* A holding without a price is carried at cost (estimate_unpriceable), so *)
(* a day on which something is held can always be valued; one whose whole  *)
(* value rounds to 0.00, which gets no row, is left out.  A run reads the  *)
(* trades and the day in one step: a midnight between the two is left out. *)
(***************************************************************************)
EXTENDS TradeLedger

CONSTANTS
  Tasks,      \* background tasks of the web process
  Nightly,    \* the run of the nightly pipeline
  MaxFailures \* bound: failed runs and restarts

ASSUME NightlyAssumption == Nightly \notin Tasks

VARIABLES
  marker,   \* account_state: the window of the last whole run
  progress, \* backfill_status.tracker of the web process
  run,      \* per backfiller, its _backfill_one
  failures

history == <<marker, progress, run, failures>>

Backfillers == Tasks \cup {Nightly}
Window(from, until) == [from |-> from, until |-> until]
NoWindow == Window(0, 0)

(* window: first trade to today, exclusive.  todo: days to be written.     *)
Rest == [stage |-> "idle", trades |-> {}, window |-> NoWindow, todo |-> {}]

Accounts == <<trades, lastId, revision, cash, receipts, loop, pending, today>>

(* Only web tasks share the tracker that the status bar and the other      *)
(* tasks read; an update finds no entry once a finished one was evicted.   *)
(* One that has finished keeps the time it did when another task's update  *)
(* sets it back to valuing: it runs "again".                               *)
Begin(b) == progress' = IF b \in Tasks THEN "running" ELSE progress
Update(b, phase) ==
  progress' = IF b \notin Tasks \/ progress = "none" THEN progress
              ELSE IF phase = "running" /\ progress # "running" THEN "again"
              ELSE phase
Shown == progress \in {"running", "again"}

Finish(b) == run' = [run EXCEPT ![b] = Rest]

(* _run_snapshot_backfill: a task leaves when a run is already shown; what *)
(* it saw may be stale when it begins its own.  The pipeline just starts.  *)
StartRun(b) ==
  /\ run[b].stage = "idle"
  /\ b \in Tasks => ~Shown
  /\ run' = [run EXCEPT ![b].stage = "starting"]
  /\ UNCHANGED <<ledger, marker, progress, failures>>

(* open_rows: no trades, or none before today, and there is nothing to do. *)
OpenRows(b) ==
  /\ run[b].stage = "starting"
  /\ \/ (\A t \in trades : t.day >= today) /\ Finish(b)
     \/ \E t \in trades :
          /\ \A u \in trades : t.day <= u.day
          /\ t.day < today
          /\ run' = [run EXCEPT ![b].stage = "opened", ![b].trades = trades,
                                ![b].window = Window(t.day, today)]
  /\ UNCHANGED <<ledger, marker, progress, failures>>

(* Mutant of ReadMarker: the signature is the first day alone.             *)
ReadMarkerOfStart(b) ==
  /\ run[b].stage = "opened"
  /\ IF marker.from = run[b].window.from
     THEN Finish(b) /\ UNCHANGED progress
     ELSE run' = [run EXCEPT ![b].stage = "begun"] /\ Begin(b)
  /\ UNCHANGED <<ledger, marker, failures>>

(* A window that was filled before is not looked at again.                 *)
ReadMarker(b) ==
  /\ run[b].stage = "opened"
  /\ IF marker = run[b].window
     THEN Finish(b) /\ UNCHANGED progress
     ELSE run' = [run EXCEPT ![b].stage = "begun"] /\ Begin(b)
  /\ UNCHANGED <<ledger, marker, failures>>

(* dates_present, then enter_valuing: the days of the window that have no  *)
(* row and on which the trades read hold something.                        *)
ReadDates(b) ==
  LET missing == {d \in Days :
                    /\ run[b].window.from <= d /\ d < run[b].window.until
                    /\ \A i \in DOMAIN rows : rows[i].day # d
                    /\ HeldOn(run[b].trades, d)}
  IN  /\ run[b].stage = "begun"
      /\ run' = [run EXCEPT ![b].stage = "valuing", ![b].trades = {}, ![b].todo = missing]
      /\ Update(b, "running")
      /\ UNCHANGED <<ledger, marker, failures>>

(* Mutant of Appended: the days found absent before are simply inserted.   *)
AppendedBlindly(day) == Append(rows, Snapshot(day, "backfilled", "real"))

(* append_daily_value_if_absent: one statement looks and inserts.          *)
Appended(day) ==
  IF \E i \in DOMAIN rows : rows[i].day = day
  THEN rows ELSE Append(rows, Snapshot(day, "backfilled", "real"))

ValueDay(b) ==
  /\ run[b].stage = "valuing"
  /\ \E d \in run[b].todo :
       /\ \A e \in run[b].todo : d <= e
       /\ rows' = Appended(d)
       /\ run' = [run EXCEPT ![b].todo = @ \ {d}]
  /\ UNCHANGED <<Accounts, marker, progress, failures>>

SetMarker(b) ==
  /\ run[b].stage = "valuing"
  /\ run[b].todo = {}
  /\ marker' = run[b].window
  /\ run' = [run EXCEPT ![b].stage = "done"]
  /\ UNCHANGED <<ledger, progress, failures>>

Complete(b) ==
  /\ run[b].stage = "done"
  /\ Finish(b)
  /\ Update(b, "done")
  /\ UNCHANGED <<ledger, marker, failures>>

(* Mutant of FailRun: the tracker is not told.                             *)
FailRunSilently(b) ==
  /\ run[b].stage # "idle"
  /\ failures < MaxFailures
  /\ failures' = failures + 1
  /\ Finish(b)
  /\ UNCHANGED <<ledger, marker, progress>>

(* An exception anywhere inside a run; rows already written stay.          *)
FailRun(b) ==
  /\ run[b].stage # "idle"
  /\ failures < MaxFailures
  /\ failures' = failures + 1
  /\ Finish(b)
  /\ Update(b, "failed")
  /\ UNCHANGED <<ledger, marker>>

(* A poll of the status route long enough after the time the entry has it  *)
(* that it finished.                                                       *)
Evict ==
  /\ progress \in {"done", "failed", "again"}
  /\ progress' = "none"
  /\ UNCHANGED <<ledger, marker, run, failures>>

(* The web process ends: its tasks, its tracker and a half-made correction *)
(* are gone; every transaction that was committed stays.                   *)
WebRestart ==
  /\ failures < MaxFailures
  /\ failures' = failures + 1
  /\ run' = [b \in Backfillers |-> IF b \in Tasks THEN Rest ELSE run[b]]
  /\ progress' = "none"
  /\ loop' = Free /\ pending' = Nothing
  /\ UNCHANGED <<trades, lastId, revision, cash, receipts, rows, today, marker>>

(* SnapshotRepairService.repair on one row without a value, or with a zero *)
(* although something was held that day.                                   *)
RepairRow(i) ==
  /\ rows[i].value \in {"zero", "none"}
  /\ HeldOn(trades, rows[i].day)
  /\ rows' = [rows EXCEPT ![i].value = "real"]
  /\ UNCHANGED <<Accounts, history>>

(* Midnight.  One in the middle of a correction is left out.               *)
Tomorrow ==
  /\ today < LastDay
  /\ loop = Free
  /\ today' = today + 1
  /\ UNCHANGED <<trades, lastId, revision, cash, receipts, rows, loop, pending, history>>

HistoryInit ==
  /\ LedgerInit
  /\ marker = NoWindow /\ progress = "none" /\ failures = 0
  /\ run = [b \in Backfillers |-> Rest]

Backfill(b) ==
  \/ StartRun(b) \/ OpenRows(b) \/ ReadMarker(b) \/ ReadDates(b)
  \/ ValueDay(b) \/ SetMarker(b) \/ Complete(b)

(* No trade is written on the last day, which stands for every later one.  *)
HistoryNext ==
  \/ today < LastDay /\ WriteTrades /\ UNCHANGED history
  \/ \E stamp \in Days, value \in {"real", "none"} :
       UpdatePortfolioSnapshot(stamp, value) /\ UNCHANGED history
  \/ \E b \in Backfillers : Backfill(b) \/ FailRun(b)
  \/ Evict \/ WebRestart \/ Tomorrow
  \/ \E i \in DOMAIN rows : RepairRow(i)

(* A correction is finished, days pass, and the pipeline runs every night. *)
HistorySpec ==
  /\ HistoryInit /\ [][HistoryNext]_<<ledger, history>>
  /\ WF_<<ledger, history>>(Tomorrow \/ (InsertCorrection /\ UNCHANGED history))
  /\ WF_<<ledger, history>>(Backfill(Nightly))

-----------------------------------------------------------------------------

(* Shapes, and that a run only ever fills days before the one it began on. *)
HistoryTypeOK ==
  /\ progress \in {"none", "running", "again", "done", "failed"}
  /\ \A b \in Backfillers :
       /\ run[b].stage \in {"idle", "starting", "opened", "begun", "valuing", "done"}
       /\ \A d \in run[b].todo : d < today

(* A day is filled in only if it has no row, and once: two runs at a time, *)
(* and the live writer, never give a filled-in day a second row, unless it *)
(* is a live row of that day that midnight overtook on its way.            *)
DayWrittenOnce ==
  \A i, k \in DOMAIN rows :
    rows[i].kind = "backfilled" /\ rows[k].day = rows[i].day =>
      k = i \/ rows[k].kind = "late"

(* While the tracker says that a run is going on, one is: no failure and   *)
(* no overlap leaves it behind, to turn every later task away.             *)
ProgressHasARun ==
  Shown =>
    \E b \in Tasks : run[b].stage \in {"begun", "valuing", "done"}

(* Once trading rests, every settled day on which something was held gets  *)
(* a row, whatever was imported, corrected, skipped or lost before.        *)
EveryHeldDayCharted ==
  (today = LastDay) ~>
    (\A d \in 1 .. LastDay - 1 :
       HeldOn(trades, d) => \E i \in DOMAIN rows : rows[i].day = d)

=============================================================================
