-------------------- MODULE NotificationProjection_proofs --------------------
(***************************************************************************)
(* For any number of applications and jobs: what is taken off the outbox    *)
(* has been announced.  The argument needs no order among the projectors:   *)
(* versions only grow, in the outbox and in what was ever shown, so that an *)
(* acknowledgement that still meets the version it wrote meets the latest.  *)
(***************************************************************************)
EXTENDS NotificationProjection, StrategyJobs_proofs

CentreTypeOK ==
    /\ bell \in [JobIds -> Nat] /\ shown \in [JobIds -> Nat]
    /\ projector \in [Projectors -> Projector]

\* What a projector holds of the rows it listed is not ahead of the outbox, and
\* what it is about to acknowledge has been shown.
Tracks(p) ==
    /\ \A j \in JobIds : p.rows[j] <= outbox[j].version
    /\ p.at \in {"store", "acknowledge"} => p.row \in JobIds
    /\ p.at = "acknowledge" => p.rows[p.row] <= shown[p.row]

\* No notification is ahead of the outbox either.
ShownExists == \A j \in JobIds : shown[j] <= outbox[j].version

CentreInv ==
    /\ LedgerInv /\ CentreTypeOK /\ ShownExists /\ NothingAckedUnseen
    /\ \A i \in Projectors : Tracks(projector[i])

-----------------------------------------------------------------------------
(* The outbox under the ledger.                                             *)

\* Every handler leaves the outbox alone or upserts into it.
LEMMA OutboxUpserted ==
    ASSUME Next, ~Projecting
    PROVE  outbox' = outbox \/ \E S : outbox' = Upserted(S, jobs')
<1>1. ASSUME NEW j, NEW row, Write(j, row) \/ Insert(j, row)
      PROVE  outbox' = Upserted({j}, jobs')
  BY <1>1 DEF Write, Insert
<1>2. ASSUME NEW i, AcquireOrRenew(i) \/ ExpireLease PROVE outbox' = outbox
  BY <1>2 DEF AcquireOrRenew, ExpireLease
<1>3. ASSUME NEW fence, Reconcile(fence) PROVE \E S : outbox' = Upserted(S, jobs')
  BY <1>3 DEF Reconcile
<1>4. ASSUME NEW j, NEW p, Submit(j, p) PROVE \E row : Insert(j, row)
  BY <1>4 DEF Submit, CreateInitialization, CreateBootstrap, CreatePreparation,
              CreateStageJob, CreateBacktest
<1>5. ASSUME NEW j, NEW version, Ask(j, version)
      PROVE  \E k, row : Write(k, row) \/ Insert(k, row)
  BY <1>5 DEF Ask, RequestCancellation, Delete, RestartInitialization, RestartBacktest
<1>6. ASSUME NEW j, NEW fence, ClaimNext(j, fence) PROVE \E row : Write(j, row)
  BY <1>6 DEF ClaimNext
<1>7. ASSUME NEW j, NEW token, NEW version, NEW fence, WorkerWrite(j, token, version, fence)
      PROVE  \/ outbox' = outbox
             \/ \E row : Write(j, row)
             \/ \E S : outbox' = Upserted(S, jobs')
  BY <1>7 DEF WorkerWrite, Progress, SetCurrentMonth, SetCurrentStage, CompleteStageJob,
     ActivateProfileAndComplete, CancelClaimed, FailClaimed, CompleteInitialization,
     WriteStaging, CompleteBacktest, SealPreparation
<1>8. CASE \E i \in Instances : AcquireOrRenew(i)
  BY <1>2, <1>8
<1>9. CASE ExpireLease
  BY <1>9 DEF ExpireLease
<1>10. CASE \E fence \in Fences : Reconcile(fence)
  BY <1>3, <1>10
<1>11. CASE \E j \in JobIds, p \in {NoJob} \cup Parents : Submit(j, p)
  BY <1>1, <1>4, <1>11
<1>12. CASE \E j \in JobIds : \E version \in Versions(j) : Ask(j, version)
  BY <1>1, <1>5, <1>12
<1>13. CASE \E j \in JobIds, fence \in Fences : ClaimNext(j, fence)
  BY <1>1, <1>6, <1>13
<1>14. CASE \E j \in With("running") :
              \E token \in Tokens, version \in Versions(j), fence \in Fences :
                 WorkerWrite(j, token, version, fence)
  BY <1>1, <1>7, <1>14
<1> QED
  BY <1>8, <1>9, <1>10, <1>11, <1>12, <1>13, <1>14 DEF Next

\* Versions only grow, and a row that is not pending after a step was the same
\* before it.
LEMMA OutboxGrows ==
    ASSUME LedgerInv, Next, ~Projecting, NEW j \in JobIds
    PROVE  /\ outbox[j].version <= outbox'[j].version
           /\ j \in Existing' /\ ~outbox'[j].pending => j \in Existing /\ outbox'[j] = outbox[j]
<1>1. outbox \in [JobIds -> [version : Nat, pending : BOOLEAN]] /\ TypeOK'
  BY NextMoves DEF LedgerInv, LedgerMove, TypeOK
<1>2. jobs'[j] # jobs[j] => outbox'[j].pending
  BY NextMoves, OutboxKept
<1>3. outbox'[j] = outbox[j]
        \/ (outbox'[j].pending = TRUE /\ outbox'[j].version > outbox[j].version)
  <2>1. ASSUME NEW S, outbox' = Upserted(S, jobs')
        PROVE  outbox'[j] = outbox[j]
                 \/ (outbox'[j].pending = TRUE /\ outbox'[j].version > outbox[j].version)
    BY <1>1, <2>1 DEF Upserted
  <2> QED
    BY <2>1, OutboxUpserted
<1>4. outbox[j].version \in Nat /\ outbox'[j].version \in Nat
  BY <1>1 DEF TypeOK
<1> QED
  BY <1>2, <1>3, <1>4 DEF Existing

\* A projector's acknowledgement is one more move of the tables.
LEMMA AcknowledgeMoves ==
    ASSUME LedgerInv, NEW j \in JobIds, NEW version, Acknowledge(j, version)
    PROVE  /\ LedgerMove
           /\ \A k \in JobIds : outbox'[k].version = outbox[k].version
           /\ \A k \in JobIds \ {j} : outbox'[k] = outbox[k]
<1>1. outbox' = [outbox EXCEPT ![j] = [outbox[j] EXCEPT !.pending = FALSE]]
  BY DEF Acknowledge, LedgerInv, TypeOK
<1>2. /\ \A k \in JobIds : outbox'[k].version = outbox[k].version
      /\ \A k \in JobIds \ {j} : outbox'[k] = outbox[k]
      /\ outbox' \in [JobIds -> [version : Nat, pending : BOOLEAN]]
  BY <1>1 DEF LedgerInv, TypeOK
<1>3. TypeOK'
  BY <1>2 DEF Acknowledge, LedgerInv, TypeOK
<1>4. StagingMove /\ LeaseMove
  BY DEF Acknowledge, StagingMove, LeaseMove, LedgerInv, OutcomesFollowCompletion, TypeOK
<1> QED
  BY <1>2, <1>3, <1>4, NoRowMoves DEF Acknowledge

-----------------------------------------------------------------------------
(* The steps.                                                               *)

\* The ledger moves on under the projectors.
LEMMA LedgerUnderCentre ==
    ASSUME CentreInv, Next, ~Projecting, UNCHANGED centre
    PROVE  CentreInv'
<1>1. LedgerInv'
  BY NextMoves, MoveKeeps DEF CentreInv
<1>2. \A j \in JobIds : /\ outbox[j].version \in Nat /\ outbox'[j].version \in Nat
                        /\ outbox[j].version <= outbox'[j].version
  BY <1>1, OutboxGrows DEF CentreInv, LedgerInv, TypeOK
<1>3. CentreTypeOK' /\ ShownExists'
  BY <1>2 DEF CentreInv, CentreTypeOK, ShownExists, centre
<1>4. NothingAckedUnseen'
  BY OutboxGrows DEF CentreInv, NothingAckedUnseen, centre, Existing
<1>5. ASSUME NEW i \in Projectors PROVE Tracks(projector[i])'
  <2>1. projector[i] \in Projector /\ Tracks(projector[i])
    BY DEF CentreInv, CentreTypeOK
  <2> QED
    BY <1>2, <2>1 DEF Tracks, centre, Projector, Lists
<1> QED
  BY <1>1, <1>3, <1>4, <1>5 DEF CentreInv

\* One projector moves; the ledger and what was shown stay, or grow.
LEMMA OneProjector ==
    ASSUME CentreInv, NEW i \in Projectors, NEW next \in Projector,
           projector' = [projector EXCEPT ![i] = next],
           LedgerInv', \A j \in JobIds : outbox'[j].version = outbox[j].version,
           bell' \in [JobIds -> Nat], shown' \in [JobIds -> Nat],
           \A j \in JobIds : shown[j] <= shown'[j],
           Tracks(next)', ShownExists', NothingAckedUnseen'
    PROVE  CentreInv'
<1>1. CentreTypeOK'
  BY DEF CentreInv, CentreTypeOK
<1>2. ASSUME NEW k \in Projectors PROVE Tracks(projector[k])'
  <2>1. CASE k = i
    BY <2>1 DEF CentreInv, CentreTypeOK, Tracks
  <2>2. CASE k # i
    <3>1. projector'[k] = projector[k] /\ projector[k] \in Projector /\ Tracks(projector[k])
      BY <2>2 DEF CentreInv, CentreTypeOK
    <3>2. \A j \in JobIds : shown[j] \in Nat /\ shown'[j] \in Nat /\ projector[k].rows[j] \in Nat
      BY <3>1 DEF CentreInv, CentreTypeOK, Projector, Lists
    <3> QED
      BY <3>1, <3>2 DEF Tracks
  <2> QED
    BY <2>1, <2>2
<1> QED
  BY <1>1, <1>2 DEF CentreInv

\* A row that is done with.
LEMMA DroppedTracks ==
    ASSUME CentreInv, NEW i \in Projectors, NEW j \in JobIds
    PROVE  Dropped(i, j) \in Projector /\ Tracks(Dropped(i, j))
<1>1. projector[i] \in Projector /\ Tracks(projector[i]) /\ projector[i].rows \in Lists
  BY DEF CentreInv, CentreTypeOK, Projector
<1>2. \A k \in JobIds : outbox[k].version \in Nat
  BY DEF CentreInv, LedgerInv, TypeOK
<1>3. Resting \in Projector /\ Tracks(Resting)
  BY <1>2 DEF Resting, NoRows, Projector, Lists, NoJob, Tracks
<1> DEFINE rows == [projector[i].rows EXCEPT ![j] = 0]
<1>4. rows \in Lists /\ \A k \in JobIds : rows[k] <= outbox[k].version
  BY <1>1, <1>2 DEF Lists, Tracks
<1> HIDE DEF rows
<1>5. LET p == [at |-> "look", row |-> NoJob, found |-> FALSE, rows |-> rows]
      IN  p \in Projector /\ Tracks(p)
  BY <1>4 DEF Projector, Tracks
<1> QED
  BY <1>3, <1>5 DEF Dropped, rows

\* Whatever a projector does keeps the invariant.
LEMMA ProjectorKeeps ==
    ASSUME CentreInv, NEW i \in Projectors, ProjectPending(i) \/ ProjectorDies(i)
    PROVE  CentreInv'
<1>0. /\ projector[i] \in Projector /\ Tracks(projector[i]) /\ projector[i].rows \in Lists
      /\ \A j \in JobIds : /\ outbox[j].version \in Nat /\ projector[i].rows[j] \in Nat
                           /\ bell[j] \in Nat /\ shown[j] \in Nat
  BY DEF CentreInv, CentreTypeOK, Projector, Lists, LedgerInv, TypeOK
\* Steps of the projector alone.
<1>a. ASSUME NEW next \in Projector, Tracks(next), projector' = [projector EXCEPT ![i] = next],
             UNCHANGED <<ledger, bell, shown>>
      PROVE  CentreInv'
  <2>1. LedgerInv'
    BY <1>a DEF CentreInv, ledger, LedgerInv, TypeOK, NoGap, Blank, OutboxLevel, ChecksHold,
                CancellationHonoured, OutcomesFollowCompletion, RestartLineage, Existing, With
  <2>2. Tracks(next)' /\ ShownExists' /\ NothingAckedUnseen'
    BY <1>a DEF CentreInv, Tracks, ShownExists, NothingAckedUnseen, Existing, ledger
  <2>3. /\ bell' \in [JobIds -> Nat] /\ shown' \in [JobIds -> Nat]
        /\ \A j \in JobIds : outbox'[j].version = outbox[j].version /\ shown[j] <= shown'[j]
    BY <1>0, <1>a DEF CentreInv, CentreTypeOK, ledger
  <2> QED
    BY <1>a, <2>1, <2>2, <2>3, OneProjector
<1>1. CASE List(i)
  <2> DEFINE rows == [j \in JobIds |-> IF j \in Pending THEN outbox[j].version ELSE 0]
             next == [at |-> "look", row |-> NoJob, found |-> FALSE, rows |-> rows]
  <2>1. rows \in Lists /\ \A j \in JobIds : rows[j] <= outbox[j].version
    BY <1>0 DEF Lists
  <2> HIDE DEF rows
  <2>2. next \in Projector /\ Tracks(next)
    BY <2>1 DEF Projector, Tracks
  <2>3. projector' = [projector EXCEPT ![i] = next] /\ UNCHANGED <<ledger, bell, shown>>
    BY <1>1 DEF List, rows
  <2> QED
    BY <1>a, <2>2, <2>3
<1>2. ASSUME NEW j \in JobIds, Look(i, j) PROVE CentreInv'
  <2> DEFINE next == [projector[i] EXCEPT !.at = "store", !.row = j, !.found = bell[j] # 0]
  <2>1. next \in Projector /\ Tracks(next)
    BY <1>0 DEF Projector, Tracks
  <2> HIDE DEF next
  <2>2. \/ projector' = [projector EXCEPT ![i] = Dropped(i, j)]
        \/ projector' = [projector EXCEPT ![i] = next]
    BY <1>2 DEF Look, next, CentreInv, CentreTypeOK
  <2> QED
    BY <1>2, <1>a, <2>1, <2>2, DroppedTracks DEF Look
<1>3. CASE Store(i)
  <2> DEFINE j == projector[i].row
             next == [projector[i] EXCEPT !.at = "acknowledge"]
  <2>0. j \in JobIds
    BY <1>0, <1>3 DEF Store, Tracks
  <2>1. CASE ~projector[i].found /\ bell[j] # 0
    BY <1>3, <1>a, <2>0, <2>1, DroppedTracks DEF Store
  <2>2. CASE ~(~projector[i].found /\ bell[j] # 0)
    <3>1. /\ bell' = [bell EXCEPT ![j] = projector[i].rows[j]]
          /\ shown' = Newest(j, projector[i].rows[j])
          /\ projector' = [projector EXCEPT ![i] = next] /\ UNCHANGED ledger
      BY <1>3, <2>2 DEF Store, CentreInv, CentreTypeOK
    <3>2. /\ shown' \in [JobIds -> Nat] /\ bell' \in [JobIds -> Nat]
          /\ \A k \in JobIds : shown[k] <= shown'[k] /\ shown'[k] <= outbox[k].version
          /\ projector[i].rows[j] <= shown'[j]
      BY <1>0, <2>0, <3>1 DEF Newest, CentreInv, CentreTypeOK, ShownExists, Tracks
    <3>3. next \in Projector /\ next.at = "acknowledge" /\ next.row = j
          /\ next.rows = projector[i].rows
      BY <1>0 DEF Projector
    <3>4. PICK then \in Projector : then = next
      BY <3>3
    <3> HIDE DEF next
    <3>5. Tracks(then)'
      <4>1. outbox' = outbox
        BY <3>1 DEF ledger
      <4>2. \A k \in JobIds : then.rows[k] <= outbox[k].version
        BY <1>0, <3>3, <3>4 DEF Tracks
      <4>3. then.row \in JobIds /\ then.rows[then.row] <= shown'[then.row]
        BY <2>0, <3>2, <3>3, <3>4
      <4> QED
        BY <4>1, <4>2, <4>3 DEF Tracks
    <3> HIDE DEF j
    <3>6. LedgerInv'
      BY <3>1 DEF CentreInv, ledger, LedgerInv, TypeOK, NoGap, Blank, OutboxLevel, ChecksHold,
                  CancellationHonoured, OutcomesFollowCompletion, RestartLineage, Existing, With
    <3>7. ShownExists' /\ \A k \in JobIds : outbox'[k].version = outbox[k].version
      BY <3>1, <3>2 DEF ShownExists, ledger
    <3>8. NothingAckedUnseen'
      <4>1. \A k \in JobIds : shown[k] = outbox[k].version => shown'[k] = outbox[k].version
        BY <1>0, <3>2
      <4> QED
        BY <3>1, <4>1 DEF CentreInv, NothingAckedUnseen, Existing, ledger
    <3> QED
      BY <3>1, <3>2, <3>5, <3>6, <3>7, <3>8, <3>4, OneProjector
  <2> QED
    BY <2>1, <2>2
<1>4. CASE AcknowledgeRow(i)
  <2> DEFINE j == projector[i].row
  <2>0. j \in JobIds /\ projector[i].rows[j] <= shown[j]
    BY <1>0, <1>4 DEF AcknowledgeRow, Tracks
  <2>1. CASE outbox[j].version # projector[i].rows[j]
    BY <1>4, <1>a, <2>0, <2>1, DroppedTracks DEF AcknowledgeRow
  <2>2. CASE outbox[j].version = projector[i].rows[j]
    <3>1. /\ Acknowledge(j, projector[i].rows[j])
          /\ projector' = [projector EXCEPT ![i] = Dropped(i, j)] /\ UNCHANGED <<bell, shown>>
      BY <1>4, <2>2 DEF AcknowledgeRow
    <3>2. /\ LedgerInv' /\ jobs' = jobs
          /\ \A k \in JobIds : outbox'[k].version = outbox[k].version
          /\ \A k \in JobIds \ {j} : outbox'[k] = outbox[k]
      BY <2>0, <3>1, AcknowledgeMoves, MoveKeeps DEF CentreInv, Acknowledge
    <3>3. shown[j] = outbox[j].version
      BY <1>0, <2>0, <2>2 DEF CentreInv, ShownExists
    <3> HIDE DEF j
    <3>4. NothingAckedUnseen'
      BY <3>1, <3>2, <3>3 DEF CentreInv, NothingAckedUnseen, Existing
    <3>5. Dropped(i, j) \in Projector /\ Tracks(Dropped(i, j))
      BY <2>0, DroppedTracks
    <3>6. PICK next \in Projector : next = Dropped(i, j)
      BY <3>5
    <3>7. Tracks(next) /\ projector' = [projector EXCEPT ![i] = next]
      BY <3>1, <3>5, <3>6
    <3>8. Tracks(next)' /\ ShownExists'
      BY <3>1, <3>2, <3>7 DEF Tracks, ShownExists, CentreInv
    <3>9. bell' \in [JobIds -> Nat] /\ shown' \in [JobIds -> Nat] /\ \A k \in JobIds : shown[k] <= shown'[k]
      BY <1>0, <3>1 DEF CentreInv, CentreTypeOK
    <3> QED
      BY <3>2, <3>4, <3>7, <3>8, <3>9, OneProjector
  <2> QED
    BY <2>1, <2>2
<1>5. CASE ProjectorDies(i)
  <2>1. Resting \in Projector /\ Tracks(Resting)
    BY <1>0 DEF Resting, NoRows, Projector, Lists, NoJob, Tracks
  <2> QED
    BY <1>5, <1>a, <2>1 DEF ProjectorDies
<1> QED
  BY <1>1, <1>2, <1>3, <1>4, <1>5 DEF ProjectPending

LEMMA CentreInit == ProjectionInit => CentreInv
<1> SUFFICES ASSUME ProjectionInit PROVE CentreInv
  OBVIOUS
<1>1. LedgerInv
  BY InitInv DEF ProjectionInit
<1>2. \A j \in JobIds : outbox[j].version \in Nat
  BY <1>1 DEF LedgerInv, TypeOK
<1>3. Resting \in Projector /\ Tracks(Resting)
  BY <1>2 DEF Resting, NoRows, Projector, Lists, NoJob, Tracks
<1>4. CentreTypeOK /\ ShownExists /\ \A i \in Projectors : Tracks(projector[i])
  BY <1>2, <1>3 DEF ProjectionInit, CentreTypeOK, ShownExists
<1>5. NothingAckedUnseen
  BY DEF ProjectionInit, Init, NothingAckedUnseen, Existing, AbsentRow, NewRow
<1> QED
  BY <1>1, <1>4, <1>5 DEF CentreInv

\* A change of a job is taken off the outbox only after exactly that change has
\* been written to the notification centre, for any number of applications that
\* poll, refuse, overtake each other and are killed.  The ledger's own
\* acknowledgement, which stands for a projector, is off.
THEOREM NothingEverAckedUnseen ==
    ASSUME ~Projecting
    PROVE  ProjectionSpec => []NothingAckedUnseen
<1>1. CentreInv /\ [ProjectionNext]_all => CentreInv'
  <2> SUFFICES ASSUME CentreInv, [ProjectionNext]_all PROVE CentreInv'
    OBVIOUS
  <2>1. CASE UNCHANGED all
    BY <2>1 DEF all, ledger, centre, CentreInv, LedgerInv, TypeOK, NoGap, Blank, OutboxLevel,
                ChecksHold, CancellationHonoured, OutcomesFollowCompletion, RestartLineage,
                Existing, With, CentreTypeOK, ShownExists, NothingAckedUnseen, Tracks
  <2>2. CASE Next /\ UNCHANGED centre
    BY <2>2, LedgerUnderCentre
  <2>3. ASSUME NEW i \in Projectors, ProjectPending(i) \/ ProjectorDies(i) PROVE CentreInv'
    BY <2>3, ProjectorKeeps
  <2> QED
    BY <2>1, <2>2, <2>3 DEF ProjectionNext
<1>2. CentreInv => NothingAckedUnseen
  BY DEF CentreInv
<1> QED
  BY <1>1, <1>2, CentreInit, PTL DEF ProjectionSpec
=============================================================================
