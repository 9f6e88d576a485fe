--------------------------- MODULE StrategyWorker ---------------------------
(***************************************************************************)
(* One worker child process per claimed job: worker.main() and the five     *)
(* engines it chooses from.  A child reads the ledger, then compares and    *)
(* sets with the version it read; users, dispatchers and lease takeovers    *)
(* act in between.  What an engine does when its compare-and-set loses      *)
(* differs from engine to engine.                                           *)
(*                                                                          *)
(* Two reads in a row without a write between them are one read here, and  *)
(* the re-read at the start of each _cancel is the read that led there: a   *)
(* pending cancellation blocks every other writer but reconciliation, which *)
(* defeats the compare-and-set either way.                                  *)
(***************************************************************************)
EXTENDS StrategyJobs

VARIABLE child      \* the child process of each job; a job is claimed once

Live == {"boot", "read", "set", "work", "finish", "commit",
         "recheck", "recover", "cancel", "fail"}

ChildState == [pc : {"none", "gone"} \cup Live,
               token : Nat, fence : Fence,   \* its command line
               ver : Nat, step : Nat]        \* the version it read, where it is

Unborn == [pc |-> "none", token |-> 0, fence |-> NoFence, ver |-> 0, step |-> 0]
Gone == [Unborn EXCEPT !.pc = "gone"]

ChildInit == child = [j \in JobIds |-> Unborn]

Alive(j) == child[j].pc \in Live

\* build_initialization_engine, build_backtest_engine, build_stage_walk_engine:
\* a preparation without a selection gets the stub stage walk.
Engine(j) == IF jobs[j].type = "preparation" /\ jobs[j].pinned = 0
             THEN "stage_walk" ELSE jobs[j].type

StageEngines == {"bootstrap", "preparation", "stage_walk"}

\* _owns
Owns(j) == jobs[j].status = "running" /\ jobs[j].token = child[j].token

Goto(j, pc) == child' = [child EXCEPT ![j].pc = pc]
ReadThen(j, pc) == child' = [child EXCEPT ![j].pc = pc, ![j].ver = jobs[j].version]
Exit(j) == child' = [child EXCEPT ![j] = Gone]
GotoOrExit(j, pc) == IF pc = "gone" THEN Exit(j) ELSE Goto(j, pc)

\* After step s: the next boundary, or the end of the walk.
NextStep(j) ==
    LET last == child[j].step + 1 \notin Steps(jobs[j].type)
    IN  child' = [child EXCEPT ![j].pc = IF last THEN "finish" ELSE "read",
                               ![j].step = IF last THEN @ ELSE @ + 1]

-----------------------------------------------------------------------------
(* Where a lost compare-and-set leads.                                      *)

\* Recording a step: the backtest's _ProgressObserver and the stub stage walk
\* give up, the other engines look for a pending cancellation.
OnLostSet(j) == IF Engine(j) \in {"backtest", "stage_walk"} THEN "gone" ELSE "recheck"

\* The final write: the initialization engine gives up, the preparation's
\* exception handler recovers.
OnLostCommit(j) == CASE Engine(j) = "initialization" -> "gone"
                     [] Engine(j) = "preparation" -> "recover"
                     [] OTHER -> "recheck"

\* Recording a failure: _fail_or_cancel of the month engines looks again, the
\* stage engines and main()'s own handlers do not.
OnLostFail(j) == IF Engine(j) \in StageEngines THEN {"gone"} ELSE {"recheck", "gone"}

-----------------------------------------------------------------------------
(* The steps of a child.                                                    *)

\* main() until the engine is built and its own checks are made.
Boot(j) ==
    /\ child[j].pc = "boot"
    /\ \/ ~Owns(j) /\ Exit(j)
       \/ Owns(j) /\ child' = [child EXCEPT ![j].pc = "read", ![j].step = 1]
       \/ Owns(j) /\ Goto(j, "recover")
    /\ UNCHANGED ledger

\* The read at a step boundary, the safe step where cancellation is honoured;
\* the real stage engines skip it before their last stage.
ReadBoundary(j) ==
    LET honours == ~(Engine(j) \in {"bootstrap", "preparation"} /\ child[j].step = 3)
    IN  /\ child[j].pc = "read"
        /\ \/ ~Owns(j) /\ Exit(j)
           \/ Owns(j) /\ jobs[j].cancel /\ honours /\ ReadThen(j, "cancel")
           \/ Owns(j) /\ ~(jobs[j].cancel /\ honours) /\ ReadThen(j, "set")
        /\ UNCHANGED ledger

\* The compare-and-set that records the step.  The last stage of a stage engine
\* goes straight to the final write, with the version this write returned.
AfterSet(j) ==
    CASE child[j].step = 3 /\ Engine(j) \in StageEngines -> "commit"
      [] child[j].step # 3 /\ Engine(j) = "stage_walk" -> "read"
      [] OTHER -> "work"

SetStep(j) ==
    LET c == child[j]
        next == [c EXCEPT !.pc = AfterSet(j), !.ver = c.ver + 1,
                          !.step = IF AfterSet(j) = "read" THEN @ + 1 ELSE @]
    IN  /\ c.pc = "set"
        /\ \/ /\ \/ SetCurrentMonth(j, c.token, c.ver, c.fence, c.step)
                 \/ SetCurrentStage(j, c.token, c.ver, c.fence, c.step)
              /\ child' = [child EXCEPT ![j] = next]
           \/ /\ ~Owned(j, c.token, c.ver, c.fence)
              /\ GotoOrExit(j, OnLostSet(j))
              /\ UNCHANGED ledger

\* A month of a backtest ends in the sink's staging write; a lost write looks
\* for a pending cancellation, a simulation error is recovered from.
SimulateMonth(j) ==
    LET c == child[j] IN
    /\ c.pc = "work" /\ Engine(j) = "backtest"
    /\ \/ WriteStaging(j, c.token, c.ver, c.fence) /\ NextStep(j)
       \/ /\ ~Owned(j, c.token, c.ver, c.fence)
          /\ Goto(j, "recheck")
          /\ UNCHANGED ledger
       \/ Goto(j, "recover") /\ UNCHANGED ledger

\* A month of an initialization, skipped when it is already Ready; any error,
\* commit_snapshot_month's refusal of a lost claim included, is recovered from.
InitializeMonth(j) ==
    /\ child[j].pc = "work" /\ Engine(j) = "initialization"
    /\ NextStep(j) \/ Goto(j, "recover")
    /\ UNCHANGED ledger

\* Qualification and roster capture of a bootstrap.  commit_roster_capture
\* checks the whole claim, and losing it ends the child; nothing is captured
\* over an active profile that needs no refresh.  A stage failure is recorded
\* with the version of the stage, unread.
BootstrapStage(j) ==
    LET c == child[j]
        owned == Owned(j, c.token, c.ver, c.fence)
    IN  /\ c.pc = "work" /\ Engine(j) = "bootstrap"
        /\ \/ (c.step = 1 \/ owned \/ profile.seq > 0) /\ NextStep(j)
           \/ c.step = 2 /\ ~owned /\ Exit(j)
           \/ Goto(j, "fail")
        /\ UNCHANGED ledger

\* Evidence selection and FX pinning of a preparation.
PreparationStage(j) ==
    /\ child[j].pc = "work" /\ Engine(j) = "preparation"
    /\ NextStep(j) \/ Goto(j, "recover")
    /\ UNCHANGED ledger

\* The last read of the month engines.
Finish(j) ==
    /\ child[j].pc = "finish"
    /\ \/ ~Owns(j) /\ Exit(j)
       \/ Owns(j) /\ jobs[j].cancel /\ ReadThen(j, "cancel")
       \/ Owns(j) /\ ~jobs[j].cancel /\ ReadThen(j, "commit")
    /\ UNCHANGED ledger

\* The one write that makes the job complete.
FinalWrite(j, token, version, fence) ==
    \/ Engine(j) = "initialization" /\ CompleteInitialization(j, token, version, fence)
    \/ Engine(j) = "backtest" /\ CompleteBacktest(j, token, version, fence)
    \/ Engine(j) = "stage_walk" /\ CompleteStageJob(j, token, version, fence)
    \/ /\ Engine(j) = "bootstrap"
       /\ \/ profile.seq > 0 /\ CompleteStageJob(j, token, version, fence)
          \/ \E same \in BOOLEAN :
                ActivateProfileAndComplete(j, token, version, fence, same)
    \/ /\ Engine(j) = "preparation"
       /\ \E k \in JobIds : SealPreparation(j, token, version, fence, k)

\* A final write may also be refused for its data: an interval that is not
\* Ready, an active profile that moved on, an integrity error.
Commit(j) ==
    LET c == child[j] IN
    /\ c.pc = "commit"
    /\ \/ FinalWrite(j, c.token, c.ver, c.fence) /\ Exit(j)
       \/ /\ ~Owned(j, c.token, c.ver, c.fence)
          /\ GotoOrExit(j, OnLostCommit(j))
          /\ UNCHANGED ledger
       \/ /\ Owned(j, c.token, c.ver, c.fence)
          /\ Engine(j) # "stage_walk"
          /\ CASE Engine(j) = "initialization" -> Exit(j)
               [] Engine(j) = "bootstrap" -> Goto(j, "fail")
               [] OTHER -> Goto(j, "recover")
          /\ UNCHANGED ledger

\* After a lost write: is it a cancellation that won?
Recheck(j) ==
    /\ child[j].pc = "recheck"
    /\ IF Owns(j) /\ jobs[j].cancel THEN ReadThen(j, "cancel") ELSE Exit(j)
    /\ UNCHANGED ledger

\* After an exception: re-read, then cancel or fail.
Recover(j) ==
    /\ child[j].pc = "recover"
    /\ \/ ~Owns(j) /\ Exit(j)
       \/ Owns(j) /\ jobs[j].cancel /\ ReadThen(j, "cancel")
       \/ Owns(j) /\ ~jobs[j].cancel /\ ReadThen(j, "fail")
    /\ UNCHANGED ledger

CancelOwn(j) ==
    LET c == child[j] IN
    /\ c.pc = "cancel"
    /\ \/ CancelClaimed(j, c.token, c.ver, c.fence)
       \/ ~CanCancelClaimed(j, c.token, c.ver, c.fence) /\ UNCHANGED ledger
    /\ Exit(j)

FailOwn(j) ==
    LET c == child[j] IN
    /\ c.pc = "fail"
    /\ \/ FailClaimed(j, c.token, c.ver, c.fence, "error") /\ Exit(j)
       \/ /\ ~Owned(j, c.token, c.ver, c.fence)
          /\ \E pc \in OnLostFail(j) : GotoOrExit(j, pc)
          /\ UNCHANGED ledger

ChildStep(j) ==
    \/ Boot(j) \/ ReadBoundary(j) \/ SetStep(j)
    \/ SimulateMonth(j) \/ InitializeMonth(j) \/ BootstrapStage(j) \/ PreparationStage(j)
    \/ Finish(j) \/ Commit(j) \/ Recheck(j) \/ Recover(j) \/ CancelOwn(j) \/ FailOwn(j)

\* The operating system kills a child, or it dies of an error main() lets out.
ChildDies(j) == Alive(j) /\ Exit(j) /\ UNCHANGED ledger
=============================================================================
