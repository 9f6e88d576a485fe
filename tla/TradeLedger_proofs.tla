------------------------- MODULE TradeLedger_proofs -------------------------
(***************************************************************************)
(* Proofs about the trade ledger, the realised P&L and the value history   *)
(* made of it, for every set of threads, tasks, statements and quantities: *)
(* of RealisedPnl PnlTypeOK, CacheCoherent and NoFalseMismatch; of         *)
(* SnapshotHistory HistoryTypeOK, DayWrittenOnce and ProgressHasARun; of   *)
(* TradeLedger CashFollowsNewest.  Realised P&L and history meet only in   *)
(* the ledger, and each argument is about one of them.                     *)
(***************************************************************************)
EXTENDS RealisedPnl, SnapshotHistory, FiniteSetTheorems, FunctionTheorems,
        WellFoundedInduction, TLAPS

-----------------------------------------------------------------------------
(* Realised P&L.  The argument is about keys.  A revision only grows, and  *)
(* whatever changes the trades raises the trade revision, whatever changes *)
(* a rate the input revision (Grown).  So trades, rates or a summary that  *)
(* a call took when its key was current are still the right ones if its    *)
(* key is current again, and may be anything otherwise (CallOK).  What a   *)
(* summary is made of (SummaryOf, ReplayFifo) plays no part and stays      *)
(* folded.                                                                 *)

RateMaps == [Days -> {Absent, Rate, Invalid}]

Fields == {"stage", "target", "left", "rev", "inp", "seen", "trades", "rates",
           "summary", "acked"}

IsCall(c) == c = [f \in Fields |-> c[f]]

CallShape(c, rev, inp) ==
  /\ IsCall(c) /\ c.stage \in Stages
  /\ c.rev \in Nat /\ c.rev <= rev
  /\ c.inp \in Nat /\ c.inp <= inp
  /\ c.seen \in Nat /\ c.seen <= rev
  /\ c.rates \in RateMaps

(* What a call holds is current whenever the key it was read under is.     *)
CallCurrent(c, rev, ts, inp, fx) ==
  /\ c.stage \in {"rates", "fetch", "positions"} /\ c.rev = rev => c.trades = ts
  /\ c.stage \in {"fetch", "positions"} /\ c.inp = inp => c.rates = fx
  /\ c.stage \in {"recheck", "settle"} /\ c.rev = rev /\ c.inp = inp
       => c.summary = SummaryOf(ts, fx, ts)

CallOK(c, rev, ts, inp, fx) ==
  CallShape(c, rev, inp) /\ CallCurrent(c, rev, ts, inp, fx)

EntryOK(e, rev, ts, inp, fx) ==
  /\ e.rev \in Nat /\ e.rev <= rev
  /\ e.inp \in Nat /\ e.inp <= inp
  /\ e.rev = rev /\ e.inp = inp => e.summary = SummaryOf(ts, fx, ts)

Shapes ==
  /\ rates \in RateMaps
  /\ inputs \in Nat /\ revision \in Nat
  /\ IsFiniteSet(trades)
  /\ loop \in Threads \cup {Free, "correct"}
  /\ reader = [r \in Threads |-> reader[r]]

LoopHeld ==
  \A r \in Threads : reader[r].stage = "ack" \/ reader[r].target # NoTarget => loop = r

CallsCurrent == \A r \in Threads : CallOK(reader[r], revision, trades, inputs, rates)

CacheCurrent == \A e \in cache : EntryOK(e, revision, trades, inputs, rates)

(* The inductive invariant.                                                *)
PnlInv == Shapes /\ LoopHeld /\ CallsCurrent /\ CacheCurrent

-----------------------------------------------------------------------------
(* Growing revisions keep calls and entries current.                       *)

LEMMA CallKept ==
  ASSUME NEW c, NEW rev \in Nat, NEW ts, NEW inp \in Nat, NEW fx,
         NEW rev2 \in Nat, NEW ts2, NEW inp2 \in Nat, NEW fx2,
         CallOK(c, rev, ts, inp, fx),
         rev <= rev2, rev2 = rev => ts2 = ts,
         inp <= inp2, inp2 = inp => fx2 = fx
  PROVE  CallOK(c, rev2, ts2, inp2, fx2)
<1>1. CallShape(c, rev2, inp2)
  BY DEF CallOK, CallShape
<1>2. c.rev = rev2 => rev2 = rev
  BY DEF CallOK, CallShape
<1>3. c.inp = inp2 => inp2 = inp
  BY DEF CallOK, CallShape
<1>4. CallCurrent(c, rev2, ts2, inp2, fx2)
  BY <1>2, <1>3 DEF CallOK, CallCurrent
<1> QED
  BY <1>1, <1>4 DEF CallOK

LEMMA EntryKept ==
  ASSUME NEW e, NEW rev \in Nat, NEW ts, NEW inp \in Nat, NEW fx,
         NEW rev2 \in Nat, NEW ts2, NEW inp2 \in Nat, NEW fx2,
         EntryOK(e, rev, ts, inp, fx),
         rev <= rev2, rev2 = rev => ts2 = ts,
         inp <= inp2, inp2 = inp => fx2 = fx
  PROVE  EntryOK(e, rev2, ts2, inp2, fx2)
  BY DEF EntryOK

(* An idle call, and one that is about to acknowledge, hold nothing.       *)
LEMMA EmptyCalls ==
  ASSUME NEW rev \in Nat, NEW ts, NEW inp \in Nat, NEW fx, NEW id, NEW acked
  PROVE  /\ CallOK(Idle, rev, ts, inp, fx)
         /\ CallOK([Idle EXCEPT !.stage = "ack", !.target = id, !.acked = acked],
                   rev, ts, inp, fx)
         /\ CallOK([Idle EXCEPT !.stage = "inputs", !.rev = rev], rev, ts, inp, fx)
<1>1. NoRates \in RateMaps
  BY DEF NoRates, RateMaps
<1>2. CallOK(Idle, rev, ts, inp, fx)
  <2>1. IsCall(Idle)
    BY DEF IsCall, Fields, Idle
  <2>2. CallShape(Idle, rev, inp)
    BY <1>1, <2>1 DEF CallShape, Idle, Stages
  <2>3. CallCurrent(Idle, rev, ts, inp, fx)
    BY DEF CallCurrent, Idle
  <2> QED
    BY <2>2, <2>3 DEF CallOK
<1>3. ASSUME NEW c, c = [Idle EXCEPT !.stage = "ack", !.target = id, !.acked = acked]
      PROVE  CallOK(c, rev, ts, inp, fx)
  <2>1. IsCall(c)
    BY <1>3 DEF IsCall, Fields, Idle
  <2>2. c.stage = "ack" /\ c.rev = 0 /\ c.inp = 0 /\ c.seen = 0 /\ c.rates = NoRates
    BY <1>3 DEF Idle
  <2>3. CallShape(c, rev, inp)
    BY <1>1, <2>1, <2>2 DEF CallShape, Stages
  <2>4. CallCurrent(c, rev, ts, inp, fx)
    BY <2>2 DEF CallCurrent
  <2> QED
    BY <2>3, <2>4 DEF CallOK
<1>4. ASSUME NEW c, c = [Idle EXCEPT !.stage = "inputs", !.rev = rev]
      PROVE  CallOK(c, rev, ts, inp, fx)
  <2>1. IsCall(c)
    BY <1>4 DEF IsCall, Fields, Idle
  <2>2. c.stage = "inputs" /\ c.rev = rev /\ c.inp = 0 /\ c.seen = 0 /\ c.rates = NoRates
    BY <1>4 DEF Idle
  <2>3. CallShape(c, rev, inp)
    BY <1>1, <2>1, <2>2 DEF CallShape, Stages
  <2>4. CallCurrent(c, rev, ts, inp, fx)
    BY <2>2 DEF CallCurrent
  <2> QED
    BY <2>3, <2>4 DEF CallOK
<1> QED
  BY <1>2, <1>3, <1>4

(* What every write of the trades does to the revision and to the loop.    *)
Grown ==
  /\ revision' \in Nat /\ revision <= revision'
  /\ revision' = revision => trades' = trades
  /\ IsFiniteSet(trades')
  /\ loop \in {Free, "correct"} /\ loop' \in {Free, "correct"}

LEMMA InsertGrows ==
  ASSUME Shapes, NEW trade, Inserted(trade), loop \in {Free, "correct"},
         loop' \in {Free, "correct"}
  PROVE  Grown
<1>1. trades' = trades \cup {[trade EXCEPT !.id = lastId + 1]} /\ revision' = revision + 1
  BY DEF Inserted, Bumped
<1>2. IsFiniteSet(trades')
  BY <1>1, FS_AddElement DEF Shapes
<1> QED
  BY <1>1, <1>2 DEF Grown, Shapes

LEMMA DeleteGrows ==
  ASSUME Shapes, NEW t, DeleteTrade(t)
  PROVE  Grown
<1>1. trades' = trades \ {t} /\ revision' = revision + 1 /\ loop = Free /\ loop' = loop
  BY DEF DeleteTrade, Bumped
<1>2. IsFiniteSet(trades')
  BY <1>1, FS_RemoveElement DEF Shapes
<1> QED
  BY <1>1, <1>2 DEF Grown, Shapes

LEMMA DeletePositionGrows ==
  ASSUME Shapes, NEW shares, NEW day, DeletePosition(shares, day)
  PROVE  Grown
<1>1. /\ trades' = {} /\ revision' = revision + Cardinality(trades)
      /\ loop = Free /\ loop' = "correct"
  BY DEF DeletePosition, Bumped
<1>2. Cardinality(trades) \in Nat /\ (Cardinality(trades) = 0 => trades = {})
  BY FS_CardinalityType, FS_EmptySet DEF Shapes
<1>3. IsFiniteSet(trades')
  BY <1>1, FS_EmptySet
<1> QED
  BY <1>1, <1>2, <1>3 DEF Grown, Shapes

LEMMA UpdateLotGrows ==
  ASSUME Shapes, NEW lot, NEW shares, NEW day, UpdateOpeningLot(lot, shares, day)
  PROVE  Grown
<1>1. /\ trades' = (trades \ {lot}) \cup {[lot EXCEPT !.shares = shares, !.day = day]}
      /\ revision' = revision + 1 /\ loop = Free /\ loop' = loop
  BY DEF UpdateOpeningLot, Bumped
<1>2. IsFiniteSet(trades \ {lot})
  BY FS_RemoveElement DEF Shapes
<1>3. IsFiniteSet(trades')
  BY <1>1, <1>2, FS_AddElement
<1> QED
  BY <1>1, <1>3 DEF Grown, Shapes

LEMMA ImportGrows ==
  ASSUME Shapes, NEW file \in Statements, NEW value, ImportStatement(file, value)
  PROVE  Grown
<1> DEFINE F == Fresh(file)
<1>1. /\ trades' = trades \cup Numbered(F) /\ revision' = revision + Cardinality(F)
      /\ loop = Free /\ loop' = loop
  BY DEF ImportStatement, Bumped
<1>2. F \subseteq file.rows
  BY DEF Fresh
<1>3. IsFiniteSet(F)
  BY <1>2, FS_Subset, LedgerAssumption
<1>4. Cardinality(F) \in Nat /\ (Cardinality(F) = 0 => F = {})
  BY <1>3, FS_CardinalityType, FS_EmptySet
<1>5. F = {} => Numbered(F) = {}
  BY DEF Numbered
<1> DEFINE nth == [r \in F |->
               [Trade(lastId + Cardinality({q \in F : q.row <= r.row}),
                      r.side, r.shares, r.day, "sipp_import")
                  EXCEPT !.key = r.key, !.row = r.row]]
<1>6. nth \in Surjection(F, Numbered(F))
  <2>1. \A t \in Numbered(F) : \E r \in F : nth[r] = t
    BY DEF Numbered
  <2>2. \A r \in F : nth[r] \in Numbered(F)
    BY DEF Numbered
  <2>3. nth \in [F -> Numbered(F)]
    BY <2>2
  <2> QED
    BY <2>1, <2>3, Fun_IsSurj
<1>7. IsFiniteSet(Numbered(F))
  BY <1>3, <1>6, FS_Surjection
<1>8. IsFiniteSet(trades')
  BY <1>1, <1>7, FS_Union DEF Shapes
<1> HIDE DEF F
<1> QED
  BY <1>1, <1>4, <1>5, <1>8 DEF Grown, Shapes

LEMMA WritesGrow ==
  ASSUME Shapes, WriteTrades
  PROVE  Grown
<1>1. ASSUME NEW side, NEW shares, NEW day, RecordTrade(side, shares, day) PROVE Grown
  BY <1>1, InsertGrows DEF RecordTrade
<1>2. ASSUME NEW t, DeleteTrade(t) PROVE Grown
  BY <1>2, DeleteGrows
<1>3. ASSUME NEW shares, NEW day, DeletePosition(shares, day) PROVE Grown
  BY <1>3, DeletePositionGrows
<1>4. ASSUME InsertCorrection PROVE Grown
  BY <1>4, InsertGrows DEF InsertCorrection
<1>5. ASSUME NEW shares, NEW day, RecordOpeningLot(shares, day) PROVE Grown
  BY <1>5, InsertGrows DEF RecordOpeningLot
<1>6. ASSUME NEW lot, NEW shares, NEW day, UpdateOpeningLot(lot, shares, day) PROVE Grown
  BY <1>6, UpdateLotGrows
<1>7. ASSUME NEW lot, DeleteOpeningLot(lot) PROVE Grown
  BY <1>7, DeleteGrows DEF DeleteOpeningLot
<1>8. ASSUME NEW file \in Statements, NEW value, ImportStatement(file, value) PROVE Grown
  BY <1>8, ImportGrows
<1> QED
  BY <1>1, <1>2, <1>3, <1>4, <1>5, <1>6, <1>7, <1>8 DEF WriteTrades

-----------------------------------------------------------------------------
(* The steps of one call.                                                  *)

(* A step that gives call r its next state c keeps the invariant when c is *)
(* current, the revisions only grow and the loop changes hands rightly.    *)
LEMMA OneCall ==
  ASSUME PnlInv, NEW r \in Threads, NEW c,
         reader' = [reader EXCEPT ![r] = c],
         revision' \in Nat, revision <= revision', revision' = revision => trades' = trades,
         inputs' \in Nat, inputs <= inputs', inputs' = inputs => rates' = rates,
         IsFiniteSet(trades'), rates' \in RateMaps,
         CallOK(c, revision', trades', inputs', rates'),
         loop' = loop \/ (loop = Free /\ loop' = r) \/ (loop = r /\ loop' = Free),
         c.stage = "ack" \/ c.target # NoTarget => loop' = r,
         \A e \in cache' : e \in cache \/ EntryOK(e, revision', trades', inputs', rates')
  PROVE  PnlInv'
<1> USE DEF PnlInv
<1>1. reader'[r] = c /\ \A q \in Threads \ {r} : reader'[q] = reader[q]
  BY DEF Shapes
<1>2. r # Free
  BY PnlAssumption
<1>3. Shapes'
  <2>1. reader' = [q \in Threads |-> reader'[q]]
    BY DEF Shapes
  <2>2. loop' \in Threads \cup {Free, "correct"}
    BY DEF Shapes
  <2> QED
    BY <2>1, <2>2 DEF Shapes
<1>4. LoopHeld'
  <2> SUFFICES ASSUME NEW q \in Threads,
                      reader'[q].stage = "ack" \/ reader'[q].target # NoTarget
               PROVE  loop' = q
    BY DEF LoopHeld
  <2>1. CASE q = r
    BY <1>1, <2>1
  <2>2. CASE q # r
    <3>1. reader'[q] = reader[q]
      BY <1>1, <2>2
    <3>2. loop = q
      BY <3>1 DEF LoopHeld
    <3>3. q # Free
      BY PnlAssumption
    <3> QED
      BY <2>2, <3>2, <3>3
  <2> QED
    BY <2>1, <2>2
<1>5. CallsCurrent'
  <2> SUFFICES ASSUME NEW q \in Threads
               PROVE  CallOK(reader'[q], revision', trades', inputs', rates')
    BY DEF CallsCurrent
  <2>1. CASE q = r
    BY <1>1, <2>1
  <2>2. CASE q # r
    <3>1. reader'[q] = reader[q]
      BY <1>1, <2>2
    <3>2. CallOK(reader[q], revision, trades, inputs, rates)
      BY DEF CallsCurrent
    <3>3. revision \in Nat /\ inputs \in Nat
      BY DEF Shapes
    <3>4. CallOK(reader[q], revision', trades', inputs', rates')
      BY <3>2, <3>3, CallKept
    <3> QED
      BY <3>1, <3>4
  <2> QED
    BY <2>1, <2>2
<1>6. CacheCurrent'
  <2> SUFFICES ASSUME NEW e \in cache'
               PROVE  EntryOK(e, revision', trades', inputs', rates')
    BY DEF CacheCurrent
  <2>1. revision \in Nat /\ inputs \in Nat
    BY DEF Shapes
  <2>2. CASE e \in cache
    <3>1. EntryOK(e, revision, trades, inputs, rates)
      BY <2>2 DEF CacheCurrent
    <3> QED
      BY <2>1, <3>1, EntryKept
  <2> QED
    BY <2>2
<1> QED
  BY <1>3, <1>4, <1>5, <1>6

Quiet == UNCHANGED <<trades, revision, rates, inputs>>

(* The same for a step that writes neither trades nor rates.               *)
LEMMA QuietCall ==
  ASSUME PnlInv, NEW r \in Threads, NEW c, Quiet,
         reader' = [reader EXCEPT ![r] = c],
         CallOK(c, revision, trades, inputs, rates),
         loop' = loop \/ (loop = Free /\ loop' = r) \/ (loop = r /\ loop' = Free),
         c.stage = "ack" \/ c.target # NoTarget => loop' = r,
         \A e \in cache' : e \in cache \/ EntryOK(e, revision, trades, inputs, rates)
  PROVE  PnlInv'
<1>1. /\ trades' = trades /\ revision' = revision /\ rates' = rates /\ inputs' = inputs
      /\ revision \in Nat /\ inputs \in Nat /\ IsFiniteSet(trades) /\ rates \in RateMaps
  BY DEF Quiet, PnlInv, Shapes
<1>2. CallOK(c, revision', trades', inputs', rates')
  BY <1>1
<1>3. \A e \in cache' : e \in cache \/ EntryOK(e, revision', trades', inputs', rates')
  BY <1>1
<1>4. /\ revision' \in Nat /\ revision <= revision' /\ (revision' = revision => trades' = trades)
      /\ inputs' \in Nat /\ inputs <= inputs' /\ (inputs' = inputs => rates' = rates)
      /\ IsFiniteSet(trades') /\ rates' \in RateMaps
  BY <1>1
<1> QED
  BY <1>2, <1>3, <1>4, OneCall

LEMMA DeliverStep ==
  ASSUME PnlInv, NEW r \in Threads, NEW summary, Quiet, Deliver(r, summary),
         \A e \in cache' : e \in cache \/ EntryOK(e, revision, trades, inputs, rates)
  PROVE  PnlInv'
<1>1. revision \in Nat /\ inputs \in Nat
  BY DEF PnlInv, Shapes
<1> DEFINE found == {u \in Range(summary.unmatched) :
                       reader[r].target # NoTarget /\ u.id = reader[r].target}
<1>2. CASE found = {}
  <2>1. reader' = [reader EXCEPT ![r] = Idle] /\ loop' = IF loop = r THEN Free ELSE loop
    BY <1>2 DEF Deliver
  <2>2. CallOK(Idle, revision, trades, inputs, rates)
    BY <1>1, EmptyCalls
  <2>3. Idle.stage = "idle" /\ Idle.target = NoTarget
    BY DEF Idle
  <2>4. loop' = loop \/ (loop = Free /\ loop' = r) \/ (loop = r /\ loop' = Free)
    BY <2>1
  <2> QED
    BY <2>1, <2>2, <2>3, <2>4, QuietCall
<1>3. CASE found # {}
  <2>1. PICK u \in found :
          reader' = [reader EXCEPT ![r] = [Idle EXCEPT !.stage = "ack",
                       !.target = u.id, !.acked = ~u.acked]]
    BY <1>3 DEF Deliver
  <2>2. loop' = loop
    BY <1>3 DEF Deliver
  <2>3. loop = r
    BY <2>1 DEF PnlInv, LoopHeld
  <2> SUFFICES ASSUME NEW c, c = [Idle EXCEPT !.stage = "ack",
                                     !.target = u.id, !.acked = ~u.acked]
               PROVE  PnlInv'
    OBVIOUS
  <2>4. reader' = [reader EXCEPT ![r] = c]
    BY <2>1
  <2>5. CallOK(c, revision, trades, inputs, rates)
    BY <1>1, EmptyCalls
  <2> QED
    BY <2>2, <2>3, <2>4, <2>5, QuietCall
<1> QED
  BY <1>2, <1>3

LEMMA CallFacts ==
  ASSUME PnlInv, NEW r \in Threads
  PROVE  /\ CallShape(reader[r], revision, inputs)
         /\ CallCurrent(reader[r], revision, trades, inputs, rates)
         /\ revision \in Nat /\ inputs \in Nat /\ IsFiniteSet(trades) /\ rates \in RateMaps
         /\ reader[r].stage = "ack" \/ reader[r].target # NoTarget => loop = r
  BY DEF PnlInv, Shapes, LoopHeld, CallsCurrent, CallOK

LEMMA ViewStep ==
  ASSUME PnlInv, NEW r \in Threads, View(r)
  PROVE  PnlInv'
<1> SUFFICES ASSUME NEW c, c = [reader[r] EXCEPT !.stage = "inputs", !.rev = revision]
             PROVE  PnlInv'
  OBVIOUS
<1>1. /\ reader' = [reader EXCEPT ![r] = c] /\ Quiet /\ cache' = cache
      /\ loop' = loop
  BY DEF View, Quiet, ledger, Books
<1>2. IsCall(c) /\ c.stage = "inputs" /\ c.rev = revision /\ c.target = reader[r].target
      /\ c.inp = reader[r].inp /\ c.seen = reader[r].seen /\ c.rates = reader[r].rates
  BY CallFacts DEF CallShape, IsCall, Fields
<1>3. CallShape(c, revision, inputs)
  BY <1>2, CallFacts DEF CallShape, Stages
<1>4. CallCurrent(c, revision, trades, inputs, rates)
  BY <1>2 DEF CallCurrent
<1>5. CallOK(c, revision, trades, inputs, rates)
  BY <1>3, <1>4 DEF CallOK
<1>6. c.stage = "ack" \/ c.target # NoTarget => loop' = r
  BY <1>1, <1>2, CallFacts
<1> QED
  BY <1>1, <1>5, <1>6, QuietCall

LEMMA AcknowledgeStep ==
  ASSUME PnlInv, NEW r \in Threads, NEW t \in trades, Acknowledge(r, t)
  PROVE  PnlInv'
<1> SUFFICES ASSUME NEW c, c = [reader[r] EXCEPT !.stage = "inputs", !.rev = revision, !.target = t.id]
             PROVE  PnlInv'
  OBVIOUS
<1>1. /\ reader' = [reader EXCEPT ![r] = c] /\ Quiet /\ cache' = cache
      /\ loop = Free /\ loop' = r
  BY DEF Acknowledge, Quiet, ledger, Books
<1>2. IsCall(c) /\ c.stage = "inputs" /\ c.rev = revision
      /\ c.inp = reader[r].inp /\ c.seen = reader[r].seen /\ c.rates = reader[r].rates
  BY CallFacts DEF CallShape, IsCall, Fields
<1>3. CallShape(c, revision, inputs)
  BY <1>2, CallFacts DEF CallShape, Stages
<1>4. CallCurrent(c, revision, trades, inputs, rates)
  BY <1>2 DEF CallCurrent
<1>5. CallOK(c, revision, trades, inputs, rates)
  BY <1>3, <1>4 DEF CallOK
<1>6. c.stage = "ack" \/ c.target # NoTarget => loop' = r
  BY <1>1, <1>2, CallFacts
<1> QED
  BY <1>1, <1>5, <1>6, QuietCall

LEMMA RevisionUnavailableStep ==
  ASSUME PnlInv, NEW r \in Threads, RevisionUnavailable(r)
  PROVE  PnlInv'
<1> SUFFICES ASSUME NEW c, c = [reader[r] EXCEPT !.stage = "trades", !.left = 0]
             PROVE  PnlInv'
  OBVIOUS
<1>1. /\ reader' = [reader EXCEPT ![r] = c] /\ Quiet /\ cache' = cache
      /\ loop' = loop
  BY DEF RevisionUnavailable, Quiet, ledger, Books
<1>2. IsCall(c) /\ c.stage = "trades" /\ c.rev = reader[r].rev /\ c.target = reader[r].target
      /\ c.inp = reader[r].inp /\ c.seen = reader[r].seen /\ c.rates = reader[r].rates
  BY CallFacts DEF CallShape, IsCall, Fields
<1>3. CallShape(c, revision, inputs)
  BY <1>2, CallFacts DEF CallShape, Stages
<1>4. CallCurrent(c, revision, trades, inputs, rates)
  BY <1>2 DEF CallCurrent
<1>5. CallOK(c, revision, trades, inputs, rates)
  BY <1>3, <1>4 DEF CallOK
<1>6. c.stage = "ack" \/ c.target # NoTarget => loop' = r
  BY <1>1, <1>2, CallFacts
<1> QED
  BY <1>1, <1>5, <1>6, QuietCall

LEMMA LoadTradesStep ==
  ASSUME PnlInv, NEW r \in Threads, LoadTrades(r)
  PROVE  PnlInv'
<1> SUFFICES ASSUME NEW c, c = [reader[r] EXCEPT !.stage = "rates", !.trades = trades]
             PROVE  PnlInv'
  OBVIOUS
<1>1. /\ reader' = [reader EXCEPT ![r] = c] /\ Quiet /\ cache' = cache
      /\ loop' = loop
  BY DEF LoadTrades, Quiet, ledger, Books
<1>2. IsCall(c) /\ c.stage = "rates" /\ c.rev = reader[r].rev /\ c.target = reader[r].target
      /\ c.inp = reader[r].inp /\ c.seen = reader[r].seen /\ c.rates = reader[r].rates /\ c.trades = trades
  BY CallFacts DEF CallShape, IsCall, Fields
<1>3. CallShape(c, revision, inputs)
  BY <1>2, CallFacts DEF CallShape, Stages
<1>4. CallCurrent(c, revision, trades, inputs, rates)
  BY <1>2 DEF CallCurrent
<1>5. CallOK(c, revision, trades, inputs, rates)
  BY <1>3, <1>4 DEF CallOK
<1>6. c.stage = "ack" \/ c.target # NoTarget => loop' = r
  BY <1>1, <1>2, CallFacts
<1> QED
  BY <1>1, <1>5, <1>6, QuietCall

LEMMA LoadRatesStep ==
  ASSUME PnlInv, NEW r \in Threads, LoadRates(r)
  PROVE  PnlInv'
<1> SUFFICES ASSUME NEW c, c = [reader[r] EXCEPT !.rates = rates,
                                !.stage = IF Missing(reader[r].trades, rates) = {}
                                          THEN "positions" ELSE "fetch"]
             PROVE  PnlInv'
  OBVIOUS
<1>1. /\ reader' = [reader EXCEPT ![r] = c] /\ Quiet /\ cache' = cache
      /\ loop' = loop
  BY DEF LoadRates, Quiet, ledger, Books
<1> DEFINE stage == IF Missing(reader[r].trades, rates) = {} THEN "positions" ELSE "fetch"
<1>2. c = [reader[r] EXCEPT !.rates = rates, !.stage = stage]
  OBVIOUS
<1>3. stage \in {"positions", "fetch"} /\ reader[r].stage = "rates"
  BY DEF LoadRates
<1>4. IsCall(reader[r])
  BY CallFacts DEF CallShape
<1> HIDE DEF stage
<1>5. /\ IsCall(c) /\ c.stage = stage /\ c.rev = reader[r].rev /\ c.target = reader[r].target
       /\ c.inp = reader[r].inp /\ c.seen = reader[r].seen /\ c.rates = rates
       /\ c.trades = reader[r].trades
  BY <1>2, <1>4 DEF IsCall, Fields
<1>6. /\ IsCall(c) /\ c.stage \in {"positions", "fetch"} /\ c.rev = reader[r].rev
      /\ c.target = reader[r].target /\ c.inp = reader[r].inp /\ c.seen = reader[r].seen
      /\ c.rates = rates /\ c.trades = reader[r].trades /\ reader[r].stage = "rates"
  BY <1>3, <1>5
<1>7. CallShape(c, revision, inputs)
  BY <1>6, CallFacts DEF CallShape, Stages
<1>8. CallCurrent(c, revision, trades, inputs, rates)
  BY <1>6, CallFacts DEF CallCurrent
<1>9. CallOK(c, revision, trades, inputs, rates)
  BY <1>7, <1>8 DEF CallOK
<1>10. c.stage = "ack" \/ c.target # NoTarget => loop' = r
  BY <1>1, <1>6, CallFacts
<1> QED
  BY <1>1, <1>9, <1>10, QuietCall

LEMMA RecheckTradesStep ==
  ASSUME PnlInv, NEW r \in Threads, RecheckTrades(r)
  PROVE  PnlInv'
<1> SUFFICES ASSUME NEW c, c = [reader[r] EXCEPT !.stage = "settle", !.seen = revision]
             PROVE  PnlInv'
  OBVIOUS
<1>1. /\ reader' = [reader EXCEPT ![r] = c] /\ Quiet /\ cache' = cache
      /\ loop' = loop
  BY DEF RecheckTrades, Quiet, ledger, Books
<1>2. IsCall(c) /\ c.stage = "settle" /\ c.rev = reader[r].rev /\ c.target = reader[r].target
      /\ c.inp = reader[r].inp /\ c.seen = revision /\ c.rates = reader[r].rates
      /\ c.summary = reader[r].summary /\ reader[r].stage = "recheck"
  BY CallFacts DEF CallShape, IsCall, Fields, RecheckTrades
<1>3. CallShape(c, revision, inputs)
  BY <1>2, CallFacts DEF CallShape, Stages
<1>4. CallCurrent(c, revision, trades, inputs, rates)
  BY <1>2, CallFacts DEF CallCurrent
<1>5. CallOK(c, revision, trades, inputs, rates)
  BY <1>3, <1>4 DEF CallOK
<1>6. c.stage = "ack" \/ c.target # NoTarget => loop' = r
  BY <1>1, <1>2, CallFacts
<1> QED
  BY <1>1, <1>5, <1>6, QuietCall

LEMMA CachedSummary ==
  ASSUME PnlInv, NEW e \in cache
  PROVE  EntryOK(e, revision, trades, inputs, rates)
  BY DEF PnlInv, CacheCurrent

LEMMA LookUpStep ==
  ASSUME PnlInv, NEW r \in Threads, LookUp(r)
  PROVE  PnlInv'
<1>1. Quiet /\ cache' = cache /\ reader[r].stage = "inputs"
  BY DEF LookUp, Quiet, Books
<1>2. CASE Cached(reader[r].rev, inputs) = {}
  <2> SUFFICES ASSUME NEW c, c = [reader[r] EXCEPT !.stage = "trades", !.inp = inputs, !.left = 2]
               PROVE  PnlInv'
    OBVIOUS
  <2>1. reader' = [reader EXCEPT ![r] = c] /\ loop' = loop
    BY <1>2 DEF LookUp
  <2>2. /\ IsCall(c) /\ c.stage = "trades" /\ c.rev = reader[r].rev
        /\ c.target = reader[r].target /\ c.inp = inputs /\ c.seen = reader[r].seen
        /\ c.rates = reader[r].rates
    BY CallFacts DEF CallShape, IsCall, Fields
  <2>3. CallShape(c, revision, inputs)
    BY <2>2, CallFacts DEF CallShape, Stages
  <2>4. CallCurrent(c, revision, trades, inputs, rates)
    BY <2>2 DEF CallCurrent
  <2>5. CallOK(c, revision, trades, inputs, rates)
    BY <2>3, <2>4 DEF CallOK
  <2>6. c.stage = "ack" \/ c.target # NoTarget => loop' = r
    BY <2>1, <2>2, CallFacts
  <2> QED
    BY <1>1, <2>1, <2>5, <2>6, QuietCall
<1>3. CASE Cached(reader[r].rev, inputs) # {}
  <2>1. PICK e \in Cached(reader[r].rev, inputs) : Deliver(r, e.summary)
    BY <1>3 DEF LookUp
  <2> QED
    BY <1>1, <2>1, DeliverStep
<1> QED
  BY <1>2, <1>3

LEMMA RetryStep ==
  ASSUME PnlInv, NEW r \in Threads, Retry(r)
  PROVE  PnlInv'
<1>1. Quiet /\ cache' = cache /\ reader[r].stage = "settle"
  BY DEF Retry, Quiet, Books
<1>2. CASE Cached(reader[r].seen, inputs) = {}
  <2> SUFFICES ASSUME NEW c,
                      c = [reader[r] EXCEPT !.stage = "trades", !.rev = reader[r].seen,
                             !.inp = inputs, !.seen = 0, !.summary = NoSummary, !.left = @ - 1]
               PROVE  PnlInv'
    OBVIOUS
  <2>1. reader' = [reader EXCEPT ![r] = c] /\ loop' = loop
    BY <1>2 DEF Retry
  <2>2. /\ IsCall(c) /\ c.stage = "trades" /\ c.rev = reader[r].seen
        /\ c.target = reader[r].target /\ c.inp = inputs /\ c.seen = 0
        /\ c.rates = reader[r].rates
    BY CallFacts DEF CallShape, IsCall, Fields
  <2>3. CallShape(c, revision, inputs)
    BY <2>2, CallFacts DEF CallShape, Stages
  <2>4. CallCurrent(c, revision, trades, inputs, rates)
    BY <2>2 DEF CallCurrent
  <2>5. CallOK(c, revision, trades, inputs, rates)
    BY <2>3, <2>4 DEF CallOK
  <2>6. c.stage = "ack" \/ c.target # NoTarget => loop' = r
    BY <2>1, <2>2, CallFacts
  <2> QED
    BY <1>1, <2>1, <2>5, <2>6, QuietCall
<1>3. CASE Cached(reader[r].seen, inputs) # {}
  <2>1. PICK e \in Cached(reader[r].seen, inputs) : Deliver(r, e.summary)
    BY <1>3 DEF Retry
  <2> QED
    BY <1>1, <2>1, DeliverStep
<1> QED
  BY <1>2, <1>3

LEMMA RecheckFailsStep ==
  ASSUME PnlInv, NEW r \in Threads, RecheckFails(r)
  PROVE  PnlInv'
<1>1. Quiet /\ cache' = cache /\ Deliver(r, reader[r].summary)
  BY DEF RecheckFails, Quiet, Books
<1> QED
  BY <1>1, DeliverStep

(* The summary a call takes is right if both its key is current.           *)
LEMMA CrossCheckStep ==
  ASSUME PnlInv, NEW r \in Threads, CrossCheck(r)
  PROVE  PnlInv'
<1> SUFFICES ASSUME NEW summary,
                    summary = SummaryOf(reader[r].trades, reader[r].rates, trades)
             PROVE  PnlInv'
  OBVIOUS
<1>1. Quiet /\ cache' = cache /\ reader[r].stage = "positions"
  BY DEF CrossCheck, Quiet, Books
<1>2. CASE reader[r].left = 0
  <2>1. Deliver(r, summary)
    BY <1>2 DEF CrossCheck
  <2> QED
    BY <1>1, <2>1, DeliverStep
<1>3. CASE reader[r].left # 0
  <2> SUFFICES ASSUME NEW c,
                      c = [reader[r] EXCEPT !.stage = "recheck", !.summary = summary,
                             !.trades = {}, !.rates = NoRates]
               PROVE  PnlInv'
    OBVIOUS
  <2>1. reader' = [reader EXCEPT ![r] = c] /\ loop' = loop
    BY <1>3 DEF CrossCheck
  <2>2. IsCall(reader[r])
    BY CallFacts DEF CallShape
  <2>3. /\ IsCall(c) /\ c.stage = "recheck" /\ c.rev = reader[r].rev
        /\ c.target = reader[r].target /\ c.inp = reader[r].inp /\ c.seen = reader[r].seen
        /\ c.rates = NoRates /\ c.summary = summary
    BY <2>2 DEF IsCall, Fields
  <2>4. NoRates \in RateMaps
    BY DEF NoRates, RateMaps
  <2>5. CallShape(c, revision, inputs)
    BY <2>3, <2>4, CallFacts DEF CallShape, Stages
  <2>6. c.rev = revision /\ c.inp = inputs => summary = SummaryOf(trades, rates, trades)
    <3>1. c.rev = revision => reader[r].trades = trades
      BY <1>1, <2>3, CallFacts DEF CallCurrent
    <3>2. c.inp = inputs => reader[r].rates = rates
      BY <1>1, <2>3, CallFacts DEF CallCurrent
    <3> QED
      BY <3>1, <3>2
  <2>7. CallCurrent(c, revision, trades, inputs, rates)
    BY <2>3, <2>6 DEF CallCurrent
  <2>8. CallOK(c, revision, trades, inputs, rates)
    BY <2>5, <2>7 DEF CallOK
  <2>9. c.stage = "ack" \/ c.target # NoTarget => loop' = r
    BY <2>1, <2>3, CallFacts
  <2> QED
    BY <1>1, <2>1, <2>8, <2>9, QuietCall
<1> QED
  BY <1>2, <1>3

(* What is stored is right under the key it is stored under.               *)
LEMMA StoreStep ==
  ASSUME PnlInv, NEW r \in Threads, Store(r)
  PROVE  PnlInv'
<1> DEFINE entry == [rev |-> reader[r].rev, inp |-> inputs, summary |-> reader[r].summary]
<1>1. /\ Quiet /\ reader[r].stage = "settle" /\ inputs = reader[r].inp
      /\ cache' \in Kept(entry) /\ Deliver(r, entry.summary)
  BY DEF Store, Quiet, Books
<1>2. EntryOK(entry, revision, trades, inputs, rates)
  BY <1>1, CallFacts DEF EntryOK, CallShape, CallCurrent
<1>3. \A e \in cache' : e \in cache \/ e = entry
  BY <1>1 DEF Kept
<1>4. \A e \in cache' : e \in cache \/ EntryOK(e, revision, trades, inputs, rates)
  BY <1>2, <1>3
<1> QED
  BY <1>1, <1>4, DeliverStep

(* The days fetched end up with the same rate in the table and in the call *)
(* and, unless the input revision moves, the table does not change.        *)
LEMMA SaveRatesStep ==
  ASSUME PnlInv, NEW r \in Threads, SaveRates(r)
  PROVE  PnlInv'
<1> DEFINE missing == Missing(reader[r].trades, reader[r].rates)
<1>1. missing \subseteq Days
  BY DEF Missing
<1>2. PICK answer \in [missing -> {Rate, Invalid}] :
        /\ rates' = [d \in Days |-> IF d \in missing THEN answer[d] ELSE rates[d]]
        /\ inputs' = inputs + Cardinality({d \in missing : rates[d] # answer[d]})
        /\ reader' = [reader EXCEPT ![r].stage = "positions",
             ![r].rates = [d \in Days |-> IF d \in missing THEN answer[d]
                                          ELSE reader[r].rates[d]]]
  BY DEF SaveRates
<1>3. /\ trades' = trades /\ revision' = revision /\ cache' = cache /\ loop' = loop
      /\ reader[r].stage = "fetch"
  BY DEF SaveRates, ledger
<1> HIDE DEF missing
<1> DEFINE changed == {d \in missing : rates[d] # answer[d]}
<1>4. IsFiniteSet(changed)
  <2>1. LastDay \in Nat
    BY LedgerAssumption
  <2>2. IsFiniteSet(Days)
    BY <2>1, FS_Interval DEF Days
  <2> QED
    BY <1>1, <2>2, FS_Subset
<1>5. Cardinality(changed) \in Nat /\ (Cardinality(changed) = 0 => changed = {})
  BY <1>4, FS_CardinalityType, FS_EmptySet
<1>6. inputs' = inputs + Cardinality(changed)
  BY <1>2
<1>7. changed = {} => \A d \in missing : rates[d] = answer[d]
  OBVIOUS
<1> HIDE DEF changed
<1>8. inputs' \in Nat /\ inputs <= inputs' /\ (inputs' = inputs => changed = {})
  BY <1>5, <1>6, CallFacts
<1>9. rates \in [Days -> {Absent, Rate, Invalid}]
  BY CallFacts DEF RateMaps
<1>10. inputs' = inputs => rates' = rates
  <2> SUFFICES ASSUME inputs' = inputs
               PROVE  rates' = rates
    OBVIOUS
  <2>1. \A d \in missing : rates[d] = answer[d]
    BY <1>7, <1>8
  <2>2. rates' = [d \in Days |-> rates[d]]
    BY <1>2, <2>1
  <2> QED
    BY <1>9, <2>2
<1>11. rates' \in RateMaps
  BY <1>2, <1>9 DEF RateMaps
<1> SUFFICES ASSUME NEW c,
                    c = [reader[r] EXCEPT !.stage = "positions",
                           !.rates = [d \in Days |-> IF d \in missing THEN answer[d]
                                                     ELSE reader[r].rates[d]]]
             PROVE  PnlInv'
  OBVIOUS
<1>12. reader' = [reader EXCEPT ![r] = c]
  BY <1>2
<1>13. IsCall(reader[r])
  BY CallFacts DEF CallShape
<1>14. /\ IsCall(c) /\ c.stage = "positions" /\ c.rev = reader[r].rev
       /\ c.target = reader[r].target /\ c.inp = reader[r].inp /\ c.seen = reader[r].seen
       /\ c.trades = reader[r].trades
       /\ c.rates = [d \in Days |-> IF d \in missing THEN answer[d] ELSE reader[r].rates[d]]
  BY <1>13 DEF IsCall, Fields
<1>15. c.rates \in RateMaps
  <2>1. reader[r].rates \in [Days -> {Absent, Rate, Invalid}]
    BY CallFacts DEF CallShape, RateMaps
  <2> QED
    BY <1>14, <2>1 DEF RateMaps
<1>16. CallShape(c, revision', inputs')
  <2>1. /\ reader[r].rev \in Nat /\ reader[r].rev <= revision
        /\ reader[r].inp \in Nat /\ reader[r].inp <= inputs
        /\ reader[r].seen \in Nat /\ reader[r].seen <= revision
    BY CallFacts DEF CallShape
  <2>2. reader[r].inp <= inputs'
    BY <1>8, <2>1, CallFacts
  <2> QED
    BY <1>3, <1>14, <1>15, <2>1, <2>2 DEF CallShape, Stages
<1>17. c.rev = revision' => c.trades = trades'
  BY <1>3, <1>14, CallFacts DEF CallCurrent
<1>18. c.inp = inputs' => c.rates = rates'
  <2> SUFFICES ASSUME c.inp = inputs'
               PROVE  c.rates = rates'
    OBVIOUS
  <2>1. reader[r].inp = inputs
    BY <1>8, <1>14, CallFacts DEF CallShape
  <2>2. reader[r].rates = rates
    BY <1>3, <2>1, CallFacts DEF CallCurrent
  <2> QED
    BY <1>2, <1>14, <2>2
<1>19. CallCurrent(c, revision', trades', inputs', rates')
  BY <1>14, <1>17, <1>18 DEF CallCurrent
<1>20. CallOK(c, revision', trades', inputs', rates')
  BY <1>16, <1>19 DEF CallOK
<1>21. c.stage = "ack" \/ c.target # NoTarget => loop' = r
  BY <1>3, <1>14, CallFacts
<1>22. /\ revision' \in Nat /\ revision <= revision' /\ (revision' = revision => trades' = trades)
       /\ IsFiniteSet(trades') /\ \A e \in cache' : e \in cache
  BY <1>3, CallFacts
<1> QED
  BY <1>3, <1>8, <1>10, <1>11, <1>12, <1>20, <1>21, <1>22, OneCall

LEMMA WriteAckStep ==
  ASSUME PnlInv, NEW r \in Threads, WriteAck(r)
  PROVE  PnlInv'
<1>1. PICK t \in trades : trades' = (trades \ {t}) \cup {[t EXCEPT !.acked = reader[r].acked]}
  BY DEF WriteAck
<1>2. /\ revision' = revision + 1 /\ loop' = loop /\ rates' = rates /\ inputs' = inputs
      /\ cache' = cache
      /\ reader' = [reader EXCEPT ![r] = [Idle EXCEPT !.stage = "inputs", !.rev = revision + 1]]
  BY DEF WriteAck, Bumped
<1>3. IsFiniteSet(trades \ {t})
  BY FS_RemoveElement, CallFacts
<1>4. IsFiniteSet(trades')
  BY <1>1, <1>3, FS_AddElement
<1>5. /\ revision' \in Nat /\ revision <= revision' /\ revision' # revision
      /\ inputs' \in Nat /\ inputs <= inputs' /\ rates' \in RateMaps
  BY <1>2, CallFacts
<1> SUFFICES ASSUME NEW c, c = [Idle EXCEPT !.stage = "inputs", !.rev = revision']
             PROVE  PnlInv'
  OBVIOUS
<1>6. reader' = [reader EXCEPT ![r] = c]
  BY <1>2
<1>7. CallOK(c, revision', trades', inputs', rates')
  BY <1>5, EmptyCalls
<1>8. c.stage = "inputs" /\ c.target = NoTarget
  BY DEF Idle
<1> QED
  BY <1>2, <1>4, <1>5, <1>6, <1>7, <1>8, OneCall

-----------------------------------------------------------------------------
(* The steps of the others, and the theorems.                              *)

LEMMA WriteTradesStep ==
  ASSUME PnlInv, WriteTrades, UNCHANGED pnl
  PROVE  PnlInv'
<1>1. Grown
  BY WritesGrow DEF PnlInv
<1>2. rates' = rates /\ inputs' = inputs /\ cache' = cache /\ reader' = reader
  BY DEF pnl
<1>3. Shapes'
  BY <1>1, <1>2 DEF PnlInv, Shapes, Grown
<1>4. \A r \in Threads : loop # r
  BY <1>1, PnlAssumption DEF Grown
<1>5. LoopHeld'
  BY <1>2, <1>4 DEF PnlInv, LoopHeld
<1>6. revision \in Nat /\ inputs \in Nat
  BY DEF PnlInv, Shapes
<1>7. CallsCurrent'
  <2> SUFFICES ASSUME NEW r \in Threads
               PROVE  CallOK(reader[r], revision', trades', inputs, rates)
    BY <1>2 DEF CallsCurrent
  <2>1. CallOK(reader[r], revision, trades, inputs, rates)
    BY DEF PnlInv, CallsCurrent
  <2> QED
    BY <1>1, <1>6, <2>1, CallKept DEF Grown
<1>8. CacheCurrent'
  <2> SUFFICES ASSUME NEW e \in cache
               PROVE  EntryOK(e, revision', trades', inputs, rates)
    BY <1>2 DEF CacheCurrent
  <2>1. EntryOK(e, revision, trades, inputs, rates)
    BY DEF PnlInv, CacheCurrent
  <2> QED
    BY <1>1, <1>6, <2>1, EntryKept DEF Grown
<1> QED
  BY <1>3, <1>5, <1>7, <1>8 DEF PnlInv

LEMMA ProcessEndsStep ==
  ASSUME PnlInv, ProcessEnds
  PROVE  PnlInv'
<1>1. /\ trades' = trades /\ revision' = revision /\ rates' = rates /\ inputs' = inputs
      /\ cache' = {} /\ reader' = [r \in Threads |-> Idle] /\ loop' = Free
  BY DEF ProcessEnds
<1>2. Idle.stage = "idle" /\ Idle.target = NoTarget
  BY DEF Idle
<1>3. Shapes'
  BY <1>1 DEF PnlInv, Shapes
<1>4. LoopHeld'
  BY <1>1, <1>2 DEF LoopHeld
<1>5. CallOK(Idle, revision, trades, inputs, rates)
  BY EmptyCalls DEF PnlInv, Shapes
<1>6. CallsCurrent' /\ CacheCurrent'
  BY <1>1, <1>5 DEF CallsCurrent, CacheCurrent
<1> QED
  BY <1>3, <1>4, <1>6 DEF PnlInv

LEMMA PnlInvStep ==
  ASSUME PnlInv, [PnlNext]_<<ledger, pnl>>
  PROVE  PnlInv'
<1>1. CASE WriteTrades /\ UNCHANGED pnl
  BY <1>1, WriteTradesStep
<1>2. CASE ProcessEnds
  BY <1>2, ProcessEndsStep
<1>3. ASSUME NEW r \in Threads, ReadPnl(r)
      PROVE  PnlInv'
  <2>1. CASE View(r)
    BY <2>1, ViewStep
  <2>2. ASSUME NEW t \in trades, Acknowledge(r, t)
        PROVE  PnlInv'
    BY <2>2, AcknowledgeStep
  <2>3. CASE RevisionUnavailable(r)
    BY <2>3, RevisionUnavailableStep
  <2>4. CASE LookUp(r)
    BY <2>4, LookUpStep
  <2>5. CASE LoadTrades(r)
    BY <2>5, LoadTradesStep
  <2>6. CASE LoadRates(r)
    BY <2>6, LoadRatesStep
  <2>7. CASE SaveRates(r)
    BY <2>7, SaveRatesStep
  <2>8. CASE CrossCheck(r)
    BY <2>8, CrossCheckStep
  <2>9. CASE RecheckTrades(r)
    BY <2>9, RecheckTradesStep
  <2>10. CASE RecheckFails(r)
    BY <2>10, RecheckFailsStep
  <2>11. CASE Store(r)
    BY <2>11, StoreStep
  <2>12. CASE Retry(r)
    BY <2>12, RetryStep
  <2>13. CASE WriteAck(r)
    BY <2>13, WriteAckStep
  <2> QED
    BY <1>3, <2>1, <2>2, <2>3, <2>4, <2>5, <2>6, <2>7, <2>8, <2>9, <2>10, <2>11, <2>12,
       <2>13 DEF ReadPnl
<1>4. CASE UNCHANGED <<ledger, pnl>>
  <2>1. /\ UNCHANGED <<trades, revision, loop>>
        /\ UNCHANGED <<rates, inputs, cache, reader>>
    BY <1>4 DEF ledger, pnl
  <2> QED
    BY <2>1 DEF PnlInv, Shapes, LoopHeld, CallsCurrent, CacheCurrent
<1> QED
  BY <1>1, <1>2, <1>3, <1>4 DEF PnlNext

LEMMA PnlInvInit ==
  ASSUME PnlInit
  PROVE  PnlInv
<1>1. /\ trades = {} /\ revision = 0 /\ loop = Free
      /\ rates = NoRates /\ inputs = 0 /\ cache = {} /\ reader = [r \in Threads |-> Idle]
  BY DEF PnlInit, LedgerInit
<1>2. NoRates \in RateMaps
  BY DEF NoRates, RateMaps
<1>3. Shapes
  BY <1>1, <1>2, FS_EmptySet DEF Shapes
<1>4. Idle.stage = "idle" /\ Idle.target = NoTarget
  BY DEF Idle
<1>5. LoopHeld
  BY <1>1, <1>4 DEF LoopHeld
<1>6. CallOK(Idle, revision, trades, inputs, rates)
  BY <1>1, EmptyCalls
<1>7. CallsCurrent /\ CacheCurrent
  BY <1>1, <1>6 DEF CallsCurrent, CacheCurrent
<1> QED
  BY <1>3, <1>5, <1>7 DEF PnlInv

LEMMA PnlInvariant == PnlSpec => []PnlInv
<1>1. PnlInit => PnlInv
  BY PnlInvInit
<1>2. PnlInv /\ [PnlNext]_<<ledger, pnl>> => PnlInv'
  BY PnlInvStep
<1> QED
  BY <1>1, <1>2, PTL DEF PnlSpec

(* The calls, the rates and the cache of RealisedPnlService keep their     *)
(* shape, and only the acknowledgement that holds the event loop writes.   *)
THEOREM PnlTypeCorrect == PnlSpec => []PnlTypeOK
<1>1. PnlInv => PnlTypeOK
  <2> SUFFICES ASSUME PnlInv
               PROVE  PnlTypeOK
    OBVIOUS
  <2>1. /\ rates \in [Days -> {Absent, Rate, Invalid}] /\ inputs \in Nat /\ revision \in Nat
        /\ loop \in Threads \cup {Free, "correct"}
    BY DEF PnlInv, Shapes, RateMaps
  <2>2. \A e \in cache : e.rev \in Nat /\ e.inp \in Nat
    BY DEF PnlInv, CacheCurrent, EntryOK
  <2>3. \A r \in Threads : reader[r].stage \in Stages
    BY DEF PnlInv, CallsCurrent, CallOK, CallShape
  <2>4. \A r \in Threads : reader[r].stage = "ack" => loop = r
    BY DEF PnlInv, LoopHeld
  <2> QED
    BY <2>1, <2>2, <2>3, <2>4 DEF PnlTypeOK
<1> QED
  BY <1>1, PnlInvariant, PTL

(* However many page views, acknowledgements, imports and corrections      *)
(* overlap, a summary the cache would serve now is that of the trades and  *)
(* rates there are now: compute_summary's check of both revisions works.   *)
THEOREM CacheIsCoherent == PnlSpec => []CacheCoherent
<1>1. PnlInv => CacheCoherent
  BY DEF PnlInv, CacheCurrent, EntryOK, CacheCoherent, Cached
<1> QED
  BY <1>1, PnlInvariant, PTL

-----------------------------------------------------------------------------
(* The two replays agree.  They take the trades in one order, in which     *)
(* every place has its trade (EveryPlaceTaken), and each trade moves the   *)
(* shares FIFO stands for by as many as the average-cost replay counts     *)
(* (BuyMoves, SellMoves).  What a recursive function of the replay says is *)
(* got from its existence (SumExists, OpenExists, BooksExist,              *)
(* CountsExist), and induction is a least counterexample.                  *)

(* A set of naturals that is not empty has a least member.                 *)
LEMMA Least ==
  ASSUME NEW N, N \subseteq Nat, N # {}
  PROVE  \E n \in N : \A m \in N : n <= m
<1>1. PICK n \in N : \A m \in N : ~ (<<m, n>> \in OpToRel(<, Nat))
  BY WFMin, NatLessThanWellFounded
<1>2. ASSUME NEW m \in N, m < n PROVE FALSE
  <2>1. <<m, n>> \in Nat \X Nat /\ <<m, n>>[1] < <<m, n>>[2]
    BY <1>2
  <2> QED
    BY <1>1, <2>1 DEF OpToRel
<1>3. \A m \in N : m \in Nat /\ n \in Nat /\ ~(m < n)
  BY <1>2
<1> QED
  BY <1>3

-----------------------------------------------------------------------------
(* The order of a replay.                                                  *)

Sources == {"manual", "correction", "opening_lot", "sipp_import"}

TradeRecords ==
  [id : Nat, key : Nat, row : Int, side : {"BUY", "SELL"}, shares : Nat \ {0},
   day : Nat, source : Sources, acked : BOOLEAN]

(* The rows of the trades table: no two have one id.                       *)
TradeRows(ts) ==
  /\ IsFiniteSet(ts) /\ ts \subseteq TradeRecords
  /\ \A t, u \in ts : t.id = u.id => t = u

(* A part that lacks a member has fewer.                                   *)
LEMMA FewerMembers ==
  ASSUME NEW S, IsFiniteSet(S), NEW T, T \subseteq S, NEW x \in S, x \notin T
  PROVE  /\ IsFiniteSet(T) /\ Cardinality(T) \in Nat /\ Cardinality(S) \in Nat
         /\ Cardinality(T) < Cardinality(S)
<1>1. IsFiniteSet(T) /\ Cardinality(T) <= Cardinality(S) /\ Cardinality(T) # Cardinality(S)
  BY FS_Subset
<1>2. Cardinality(T) \in Nat /\ Cardinality(S) \in Nat
  BY <1>1, FS_CardinalityType
<1> QED
  BY <1>1, <1>2

LEMMA EarlierOrders ==
  ASSUME NEW t \in TradeRecords, NEW u \in TradeRecords, NEW v \in TradeRecords
  PROVE  /\ ~Earlier(t, t)
         /\ Earlier(t, u) /\ Earlier(u, v) => Earlier(t, v)
         /\ t.id # u.id => Earlier(t, u) \/ Earlier(u, t)
  BY DEF Earlier, TradeRecords

(* As many trades come before each as its place says, so every place of    *)
(* the order has its trade.                                                *)
LEMMA EveryPlaceTaken ==
  ASSUME NEW ts, TradeRows(ts), NEW i \in 1 .. Cardinality(ts)
  PROVE  Ordered(ts)[i] \in ts
<1> DEFINE before(t) == {u \in ts : Earlier(u, t)}
           n == Cardinality(ts)
           place == [t \in ts |-> Cardinality(before(t)) + 1]
<1>1. n \in Nat /\ IsFiniteSet(ts) /\ ts \subseteq TradeRecords
  BY FS_CardinalityType DEF TradeRows
<1>2. ASSUME NEW t \in ts
      PROVE  IsFiniteSet(before(t)) /\ Cardinality(before(t)) \in Nat /\ Cardinality(before(t)) < n
  <2>1. t \notin before(t)
    BY <1>1, EarlierOrders
  <2>2. before(t) \subseteq ts
    OBVIOUS
  <2> QED
    BY <1>1, <2>1, <2>2, FewerMembers
<1>3. ASSUME NEW t \in ts, NEW u \in ts, Earlier(t, u)
      PROVE  Cardinality(before(t)) < Cardinality(before(u))
  <2>1. before(t) \subseteq before(u) /\ t \in before(u) /\ t \notin before(t)
    BY <1>1, <1>3, EarlierOrders
  <2> QED
    BY <1>2, <2>1, FewerMembers
<1>4. place \in Injection(ts, 1 .. n)
  <2>1. ASSUME NEW t \in ts PROVE place[t] \in 1 .. n
    <3>1. place[t] = Cardinality(before(t)) + 1
      OBVIOUS
    <3> HIDE DEF before, n, place
    <3> QED
      BY <1>1, <1>2, <3>1
  <2>2. ASSUME NEW t \in ts, NEW u \in ts, place[t] = place[u] PROVE t = u
    <3>1. Cardinality(before(t)) = Cardinality(before(u))
      BY <1>2, <2>2
    <3>2. ~Earlier(t, u) /\ ~Earlier(u, t)
      BY <1>2, <1>3, <3>1
    <3> QED
      BY <1>1, <3>2, EarlierOrders DEF TradeRows
  <2> QED
    BY <2>1, <2>2 DEF Injection, IsInjective
<1>5. place \in Surjection(ts, 1 .. n)
  BY <1>1, <1>4, FS_Interval, FS_Injection
<1>6. PICK t \in ts : place[t] = i
  BY <1>5 DEF Surjection
<1>7. Cardinality(before(t)) = i - 1
  BY <1>2, <1>6
<1> QED
  BY <1>7 DEF Ordered

-----------------------------------------------------------------------------
(* The shares left in a queue.                                             *)

IsSumTo(h, lots, n) == h = [i \in 0 .. n |-> IF i = 0 THEN 0 ELSE h[i - 1] + lots[i].left]

LEMMA SumExists ==
  ASSUME NEW lots, NEW last \in Nat
  PROVE  \E h : IsSumTo(h, lots, last)
<1> DEFINE N == {n \in Nat : ~ \E h : IsSumTo(h, lots, n)}
<1> SUFFICES ASSUME ~ \E h : IsSumTo(h, lots, last) PROVE FALSE
  OBVIOUS
<1>1. N \subseteq Nat /\ N # {}
  OBVIOUS
<1>2. PICK n \in N : \A m \in N : n <= m
  <2> HIDE DEF N
  <2> QED
    BY <1>1, Least
<1>3. n \in Nat /\ ~ \E h : IsSumTo(h, lots, n)
  OBVIOUS
<1>4. n # 0
  <2> SUFFICES ASSUME n = 0 PROVE FALSE
    OBVIOUS
  <2> DEFINE h == [i \in 0 .. 0 |-> 0]
  <2>1. IsSumTo(h, lots, 0)
    BY DEF IsSumTo
  <2> QED
    BY <1>3, <2>1
<1>5. PICK k : IsSumTo(k, lots, n - 1)
  <2>1. n - 1 \in Nat /\ n - 1 < n
    BY <1>3, <1>4
  <2>2. n - 1 \notin N
    <3> HIDE DEF N
    <3> QED
      BY <1>1, <1>2, <2>1
  <2> QED
    BY <2>1, <2>2
<1> DEFINE h == [i \in 0 .. n |-> IF i = 0 THEN 0 ELSE k[i - 1] + lots[i].left]
<1>6. ASSUME NEW i \in 0 .. n - 1 PROVE h[i] = k[i]
  <2>1. i \in 0 .. n /\ h[i] = IF i = 0 THEN 0 ELSE k[i - 1] + lots[i].left
    BY <1>3, <1>6
  <2>2. k[i] = IF i = 0 THEN 0 ELSE k[i - 1] + lots[i].left
    BY <1>5, <1>6 DEF IsSumTo
  <2> QED
    BY <2>1, <2>2
<1>7. ASSUME NEW i \in 0 .. n, i # 0 PROVE h[i - 1] = k[i - 1]
  <2>1. i - 1 \in 0 .. n - 1
    BY <1>3, <1>7
  <2> HIDE DEF h
  <2> QED
    BY <1>6, <2>1
<1>8. IsSumTo(h, lots, n)
  BY <1>7 DEF IsSumTo
<1> QED
  BY <1>3, <1>8

LEMMA LeftUnfolds ==
  ASSUME NEW lots, Len(lots) \in Nat, NEW n \in 0 .. Len(lots)
  PROVE  Left(lots, n) = IF n = 0 THEN 0 ELSE Left(lots, n - 1) + lots[n].left
<1> DEFINE f == CHOOSE h : IsSumTo(h, lots, Len(lots))
<1>1. IsSumTo(f, lots, Len(lots))
  BY SumExists
<1>2. \A i : Left(lots, i) = f[i]
  BY DEF Left, IsSumTo
<1> HIDE DEF f
<1>3. f[n] = IF n = 0 THEN 0 ELSE f[n - 1] + lots[n].left
  BY <1>1 DEF IsSumTo
<1> QED
  BY <1>2, <1>3

(* The shares left in lots are a number; they depend on the lots alone; a  *)
(* lot that is pushed adds its own.                                        *)
LEMMA LeftOfNone == LeftInAll(<<>>) = 0
<1>1. Len(<<>>) = 0 /\ 0 \in 0 .. Len(<<>>)
  OBVIOUS
<1>2. Left(<<>>, 0) = 0
  BY <1>1, LeftUnfolds
<1> QED
  BY <1>1, <1>2 DEF LeftInAll

LEMMA LeftNat ==
  ASSUME NEW lots, Len(lots) \in Nat, \A i \in 1 .. Len(lots) : lots[i].left \in Nat,
         NEW n \in 0 .. Len(lots)
  PROVE  Left(lots, n) \in Nat
<1> DEFINE N == {k \in Nat : k <= Len(lots) /\ Left(lots, k) \notin Nat}
<1> SUFFICES ASSUME Left(lots, n) \notin Nat PROVE FALSE
  OBVIOUS
<1>1. N \subseteq Nat /\ N # {}
  OBVIOUS
<1>2. PICK k \in N : \A m \in N : k <= m
  <2> HIDE DEF N
  <2> QED
    BY <1>1, Least
<1>3. k \in 0 .. Len(lots) /\ Left(lots, k) \notin Nat
  OBVIOUS
<1>4. Left(lots, k) = IF k = 0 THEN 0 ELSE Left(lots, k - 1) + lots[k].left
  BY <1>3, LeftUnfolds
<1>5. k # 0 => k - 1 \notin N
  <2> HIDE DEF N
  <2> QED
    BY <1>1, <1>2
<1>6. k # 0 => Left(lots, k - 1) \in Nat /\ lots[k].left \in Nat
  BY <1>3, <1>5
<1> QED
  BY <1>3, <1>4, <1>6

LEMMA LeftAgree ==
  ASSUME NEW lots, NEW others, Len(lots) \in Nat, Len(others) \in Nat,
         NEW n \in 0 .. Len(lots), n <= Len(others),
         \A i \in 1 .. n : lots[i].left = others[i].left
  PROVE  Left(lots, n) = Left(others, n)
<1> DEFINE N == {k \in Nat : k <= n /\ Left(lots, k) # Left(others, k)}
<1> SUFFICES ASSUME Left(lots, n) # Left(others, n) PROVE FALSE
  OBVIOUS
<1>1. N \subseteq Nat /\ N # {}
  OBVIOUS
<1>2. PICK k \in N : \A m \in N : k <= m
  <2> HIDE DEF N
  <2> QED
    BY <1>1, Least
<1>3. /\ k \in 0 .. n /\ k \in 0 .. Len(lots) /\ k \in 0 .. Len(others)
      /\ Left(lots, k) # Left(others, k)
  OBVIOUS
<1>4. /\ Left(lots, k) = IF k = 0 THEN 0 ELSE Left(lots, k - 1) + lots[k].left
      /\ Left(others, k) = IF k = 0 THEN 0 ELSE Left(others, k - 1) + others[k].left
  BY <1>3, LeftUnfolds
<1>5. k # 0 => k - 1 \notin N
  <2> HIDE DEF N
  <2> QED
    BY <1>1, <1>2
<1>6. k # 0 => Left(lots, k - 1) = Left(others, k - 1) /\ lots[k].left = others[k].left
  BY <1>3, <1>5
<1> QED
  BY <1>3, <1>4, <1>6

LEMMA LeftAppends ==
  ASSUME NEW S, NEW lots \in Seq(S), NEW lot \in S, \A x \in S : x.left \in Nat
  PROVE  LeftInAll(Append(lots, lot)) = LeftInAll(lots) + lot.left
<1> DEFINE more == Append(lots, lot)
           n == Len(lots)
<1>1. /\ n \in Nat /\ Len(more) = n + 1 /\ more[n + 1] = lot
      /\ \A i \in 1 .. n : more[i] = lots[i]
  OBVIOUS
<1> HIDE DEF more, n
<1>2. Left(more, n + 1) = Left(more, n) + lot.left
  <2>1. n + 1 \in 0 .. Len(more) /\ n + 1 # 0 /\ (n + 1) - 1 = n
    BY <1>1
  <2> QED
    BY <1>1, <2>1, LeftUnfolds
<1>3. Left(more, n) = Left(lots, n)
  BY <1>1, LeftAgree DEF n
<1> QED
  BY <1>1, <1>2, <1>3 DEF LeftInAll, more, n

-----------------------------------------------------------------------------
(* What a sell leaves of a queue.                                          *)

LotRecords == [id : Nat, left : Nat, day : Nat]

Reduced(lots, shares, i) ==
  [lots[i] EXCEPT !.left = lots[i].left - Taken(lots, shares, i)]

OpenAfter(lots, shares, open, i) ==
  IF lots[i].left - Taken(lots, shares, i) = 0 THEN open
  ELSE Append(open, Reduced(lots, shares, i))

IsOpen(h, lots, shares, n) ==
  h = [i \in 0 .. n |-> IF i = 0 THEN <<>> ELSE OpenAfter(lots, shares, h[i - 1], i)]

LEMMA OpenExists ==
  ASSUME NEW lots, NEW shares, NEW last \in Nat
  PROVE  \E h : IsOpen(h, lots, shares, last)
<1> DEFINE N == {n \in Nat : ~ \E h : IsOpen(h, lots, shares, n)}
<1> SUFFICES ASSUME ~ \E h : IsOpen(h, lots, shares, last) PROVE FALSE
  OBVIOUS
<1>1. N \subseteq Nat /\ N # {}
  OBVIOUS
<1>2. PICK n \in N : \A m \in N : n <= m
  <2> HIDE DEF N
  <2> QED
    BY <1>1, Least
<1>3. n \in Nat /\ ~ \E h : IsOpen(h, lots, shares, n)
  OBVIOUS
<1>4. n # 0
  <2> SUFFICES ASSUME n = 0 PROVE FALSE
    OBVIOUS
  <2> DEFINE h == [i \in 0 .. 0 |-> <<>>]
  <2>1. IsOpen(h, lots, shares, 0)
    BY DEF IsOpen
  <2> QED
    BY <1>3, <2>1
<1>5. PICK k : IsOpen(k, lots, shares, n - 1)
  <2>1. n - 1 \in Nat /\ n - 1 < n
    BY <1>3, <1>4
  <2>2. n - 1 \notin N
    <3> HIDE DEF N
    <3> QED
      BY <1>1, <1>2, <2>1
  <2> QED
    BY <2>1, <2>2
<1> DEFINE h == [i \in 0 .. n |-> IF i = 0 THEN <<>> ELSE OpenAfter(lots, shares, k[i - 1], i)]
<1>6. ASSUME NEW i \in 0 .. n - 1 PROVE h[i] = k[i]
  <2>1. i \in 0 .. n /\ h[i] = IF i = 0 THEN <<>> ELSE OpenAfter(lots, shares, k[i - 1], i)
    BY <1>3, <1>6
  <2>2. k[i] = IF i = 0 THEN <<>> ELSE OpenAfter(lots, shares, k[i - 1], i)
    BY <1>5, <1>6 DEF IsOpen
  <2> QED
    BY <2>1, <2>2
<1>7. ASSUME NEW i \in 0 .. n, i # 0 PROVE h[i - 1] = k[i - 1]
  <2>1. i - 1 \in 0 .. n - 1
    BY <1>3, <1>7
  <2> HIDE DEF h
  <2> QED
    BY <1>6, <2>1
<1>8. IsOpen(h, lots, shares, n)
  BY <1>7 DEF IsOpen
<1> QED
  BY <1>3, <1>8

(* After the first n lots what is still open is what the sell did not take *)
(* of them.                                                                *)
LEMMA SellLeaves ==
  ASSUME NEW lots \in Seq(LotRecords), NEW shares \in Nat
  PROVE  /\ StillOpen(lots, shares) \in Seq(LotRecords)
         /\ LeftInAll(StillOpen(lots, shares)) = Surplus(LeftInAll(lots), shares)
<1> DEFINE f == CHOOSE h : IsOpen(h, lots, shares, Len(lots))
<1>1. IsOpen(f, lots, shares, Len(lots))
  BY OpenExists
<1>2. StillOpen(lots, shares) = f[Len(lots)]
  BY DEF StillOpen, IsOpen, OpenAfter, Reduced
<1> HIDE DEF f
<1> DEFINE Good(i) == f[i] \in Seq(LotRecords) /\ LeftInAll(f[i]) = Surplus(Left(lots, i), shares)
           N == {i \in Nat : i <= Len(lots) /\ ~Good(i)}
<1>3. Len(lots) \in Nat /\ \A i \in 1 .. Len(lots) : lots[i] \in LotRecords /\ lots[i].left \in Nat
  <2>1. Len(lots) \in Nat /\ \A i \in 1 .. Len(lots) : lots[i] \in LotRecords
    OBVIOUS
  <2>2. \A lot \in LotRecords : lot.left \in Nat
    BY DEF LotRecords
  <2> QED
    BY <2>1, <2>2
<1> SUFFICES ASSUME ~Good(Len(lots)) PROVE FALSE
  BY <1>2 DEF LeftInAll
<1>4. N \subseteq Nat /\ N # {}
  BY <1>3
<1>5. PICK n \in N : \A m \in N : n <= m
  <2> HIDE DEF N
  <2> QED
    BY <1>4, Least
<1>6. n \in 0 .. Len(lots) /\ ~Good(n)
  BY <1>3
<1>7. f[n] = IF n = 0 THEN <<>> ELSE OpenAfter(lots, shares, f[n - 1], n)
  BY <1>1, <1>6 DEF IsOpen
<1>8. Left(lots, n) = IF n = 0 THEN 0 ELSE Left(lots, n - 1) + lots[n].left
  BY <1>3, <1>6, LeftUnfolds
<1>9. n # 0
  <2> SUFFICES ASSUME n = 0 PROVE FALSE
    OBVIOUS
  <2>1. f[n] = <<>> /\ Left(lots, n) = 0
    BY <1>7, <1>8
  <2>2. LeftInAll(<<>>) = 0
    BY LeftOfNone
  <2>3. Good(n)
    BY <2>1, <2>2 DEF Surplus
  <2> QED
    BY <1>6, <2>3
<1>10. n - 1 \in 0 .. Len(lots) /\ n \in 1 .. Len(lots) /\ Good(n - 1)
  <2>1. n - 1 \in Nat /\ n - 1 < n /\ n - 1 <= Len(lots)
    BY <1>3, <1>6, <1>9
  <2>2. n - 1 \notin N
    <3> HIDE DEF N
    <3> QED
      BY <1>4, <1>5, <2>1
  <2> QED
    BY <1>6, <2>1, <2>2
<1> HIDE DEF N
<1> DEFINE a == Left(lots, n - 1)
           b == lots[n].left
           c == Taken(lots, shares, n)
<1>11. a \in Nat /\ b \in Nat
  BY <1>3, <1>10, LeftNat
<1>12. c = Lesser(b, Surplus(shares, a))
  BY DEF Taken
<1>13. b - c \in Nat
  BY <1>11, <1>12 DEF Lesser, Surplus
<1>14. Surplus(a + b, shares) = Surplus(a, shares) + (b - c)
  BY <1>11, <1>12 DEF Lesser, Surplus
<1>15. Left(lots, n) = a + b
  BY <1>8, <1>9
<1> HIDE DEF a, b, c
<1>16. CASE b - c = 0
  <2>1. f[n] = f[n - 1]
    BY <1>7, <1>9, <1>16 DEF OpenAfter, b, c
  <2>2. Surplus(a + b, shares) = Surplus(a, shares)
    BY <1>11, <1>14, <1>16 DEF Surplus
  <2> QED
    BY <1>6, <1>10, <1>15, <2>1, <2>2 DEF a
<1>17. CASE b - c # 0
  <2> DEFINE lot == Reduced(lots, shares, n)
  <2>1. lot \in LotRecords /\ lot.left = b - c
    BY <1>3, <1>10, <1>13 DEF Reduced, LotRecords, b, c
  <2>2. f[n] = Append(f[n - 1], lot)
    BY <1>7, <1>9, <1>17 DEF OpenAfter, b, c
  <2>3. \A x \in LotRecords : x.left \in Nat
    BY DEF LotRecords
  <2> HIDE DEF lot
  <2>4. LeftInAll(f[n]) = LeftInAll(f[n - 1]) + (b - c)
    BY <1>10, <2>1, <2>2, <2>3, LeftAppends
  <2>5. LeftInAll(f[n]) = Surplus(Left(lots, n), shares)
    BY <1>10, <1>14, <1>15, <2>4 DEF a
  <2>6. f[n] \in Seq(LotRecords)
    BY <1>10, <2>1, <2>2
  <2> QED
    BY <1>6, <2>5, <2>6
<1> QED
  BY <1>16, <1>17

-----------------------------------------------------------------------------
(* The two replays.                                                        *)

SellRecords == [id : Nat, left : Nat, acked : BOOLEAN]

BookOK(book) ==
  /\ book = [lots |-> book.lots, trips |-> book.trips, unmatched |-> book.unmatched]
  /\ book.lots \in Seq(LotRecords)
  /\ book.unmatched \in Seq(SellRecords)

LEMMA QueueNat ==
  ASSUME NEW S, NEW lots \in Seq(S), \A x \in S : x.left \in Nat
  PROVE  LeftInAll(lots) \in Nat
<1>1. Len(lots) \in Nat /\ \A i \in 1 .. Len(lots) : lots[i].left \in Nat
  OBVIOUS
<1> QED
  BY <1>1, LeftNat DEF LeftInAll

(* Each trade moves the position FIFO stands for by its own shares.        *)
LEMMA BuyMoves ==
  ASSUME NEW book, BookOK(book), NEW trade \in TradeRecords, trade.side = "BUY"
  PROVE  /\ BookOK(Matched(book, trade))
         /\ FifoNet(Matched(book, trade)) = FifoNet(book) + Moved(trade)
<1> DEFINE lot == [id |-> trade.id, left |-> trade.shares, day |-> trade.day]
           next == Matched(book, trade)
<1>1. lot \in LotRecords /\ lot.left = trade.shares /\ trade.shares \in Nat
  BY DEF LotRecords, TradeRecords
<1>2. /\ next.lots = Append(book.lots, lot) /\ next.unmatched = book.unmatched
      /\ next = [lots |-> next.lots, trips |-> next.trips, unmatched |-> next.unmatched]
  BY DEF Matched, PushLot, BookOK
<1>3. \A x \in LotRecords : x.left \in Nat
  BY DEF LotRecords
<1>4. \A x \in SellRecords : x.left \in Nat
  BY DEF SellRecords
<1> HIDE DEF lot, next
<1>5. LeftInAll(next.lots) = LeftInAll(book.lots) + trade.shares
  BY <1>1, <1>2, <1>3, LeftAppends DEF BookOK
<1>6. LeftInAll(book.lots) \in Nat /\ LeftInAll(book.unmatched) \in Nat
  BY <1>3, <1>4, QueueNat DEF BookOK
<1>7. BookOK(next)
  BY <1>1, <1>2 DEF BookOK
<1>8. FifoNet(next) = FifoNet(book) + Moved(trade)
  BY <1>1, <1>2, <1>5, <1>6 DEF FifoNet, Moved
<1> QED
  BY <1>7, <1>8 DEF next

LEMMA SellMoves ==
  ASSUME NEW book, BookOK(book), NEW trade \in TradeRecords, trade.side # "BUY"
  PROVE  /\ BookOK(Matched(book, trade))
         /\ FifoNet(Matched(book, trade)) = FifoNet(book) + Moved(trade)
<1> DEFINE short == Surplus(trade.shares, LeftInAll(book.lots))
           sell == [id |-> trade.id, left |-> short, acked |-> trade.acked]
           next == Matched(book, trade)
<1>1. trade.shares \in Nat /\ trade.id \in Nat /\ trade.acked \in BOOLEAN
  BY DEF TradeRecords
<1>2. /\ next.lots = StillOpen(book.lots, trade.shares)
      /\ next.unmatched = IF short = 0 THEN book.unmatched ELSE Append(book.unmatched, sell)
      /\ next = [lots |-> next.lots, trips |-> next.trips, unmatched |-> next.unmatched]
  BY DEF Matched, MatchSell
<1>3. \A x \in LotRecords : x.left \in Nat
  BY DEF LotRecords
<1>4. \A x \in SellRecords : x.left \in Nat
  BY DEF SellRecords
<1>5. PICK held \in Nat : held = LeftInAll(book.lots)
  BY <1>3, QueueNat DEF BookOK
<1>6. LeftInAll(book.unmatched) \in Nat
  BY <1>4, QueueNat DEF BookOK
<1>7. short \in Nat /\ held - trade.shares = Surplus(held, trade.shares) - short
  BY <1>1, <1>5 DEF Surplus
<1>8. sell \in SellRecords /\ sell.left = short
  BY <1>1, <1>7 DEF SellRecords
<1> HIDE DEF short, sell, next
<1>9. next.lots \in Seq(LotRecords) /\ LeftInAll(next.lots) = Surplus(held, trade.shares)
  BY <1>1, <1>2, <1>5, SellLeaves DEF BookOK
<1>10. /\ next.unmatched \in Seq(SellRecords)
       /\ LeftInAll(next.unmatched) = LeftInAll(book.unmatched) + short
  <2>1. CASE short = 0
    BY <1>2, <1>6, <2>1 DEF BookOK
  <2>2. CASE short # 0
    BY <1>2, <1>4, <1>8, <2>2, LeftAppends DEF BookOK
  <2> QED
    BY <2>1, <2>2
<1>11. BookOK(next)
  BY <1>2, <1>9, <1>10 DEF BookOK
<1>12. FifoNet(next) = FifoNet(book) + Moved(trade)
  <2>1. PICK rest \in Nat : rest = Surplus(held, trade.shares)
    BY <1>1 DEF Surplus
  <2>2. PICK owed \in Nat : owed = LeftInAll(book.unmatched)
    BY <1>6
  <2>3. FifoNet(book) = held - owed /\ FifoNet(next) = rest - (owed + short)
    BY <1>5, <1>9, <1>10, <2>1, <2>2 DEF FifoNet
  <2>4. Moved(trade) = -trade.shares
    BY DEF Moved
  <2> QED
    BY <1>1, <1>7, <2>1, <2>3, <2>4
<1> QED
  BY <1>11, <1>12 DEF next

(* The books and the share counts along an order.                          *)
AreBooks(h, order, n) ==
  h = [i \in 0 .. n |-> IF i = 0 THEN EmptyBook ELSE Matched(h[i - 1], order[i])]

AreCounts(h, order, n) ==
  h = [i \in 0 .. n |-> IF i = 0 THEN 0 ELSE h[i - 1] + Moved(order[i])]

LEMMA BooksExist ==
  ASSUME NEW order, NEW last \in Nat
  PROVE  \E h : AreBooks(h, order, last)
<1> DEFINE N == {n \in Nat : ~ \E h : AreBooks(h, order, n)}
<1> SUFFICES ASSUME ~ \E h : AreBooks(h, order, last) PROVE FALSE
  OBVIOUS
<1>1. N \subseteq Nat /\ N # {}
  OBVIOUS
<1>2. PICK n \in N : \A m \in N : n <= m
  <2> HIDE DEF N
  <2> QED
    BY <1>1, Least
<1>3. n \in Nat /\ ~ \E h : AreBooks(h, order, n)
  OBVIOUS
<1>4. n # 0
  <2> SUFFICES ASSUME n = 0 PROVE FALSE
    OBVIOUS
  <2> DEFINE h == [i \in 0 .. 0 |-> EmptyBook]
  <2>1. AreBooks(h, order, 0)
    BY DEF AreBooks
  <2> QED
    BY <1>3, <2>1
<1>5. PICK k : AreBooks(k, order, n - 1)
  <2>1. n - 1 \in Nat /\ n - 1 < n
    BY <1>3, <1>4
  <2>2. n - 1 \notin N
    <3> HIDE DEF N
    <3> QED
      BY <1>1, <1>2, <2>1
  <2> QED
    BY <2>1, <2>2
<1> DEFINE h == [i \in 0 .. n |-> IF i = 0 THEN EmptyBook ELSE Matched(k[i - 1], order[i])]
<1>6. ASSUME NEW i \in 0 .. n - 1 PROVE h[i] = k[i]
  <2>1. i \in 0 .. n /\ h[i] = IF i = 0 THEN EmptyBook ELSE Matched(k[i - 1], order[i])
    BY <1>3, <1>6
  <2>2. k[i] = IF i = 0 THEN EmptyBook ELSE Matched(k[i - 1], order[i])
    BY <1>5, <1>6 DEF AreBooks
  <2> QED
    BY <2>1, <2>2
<1>7. ASSUME NEW i \in 0 .. n, i # 0 PROVE h[i - 1] = k[i - 1]
  <2>1. i - 1 \in 0 .. n - 1
    BY <1>3, <1>7
  <2> HIDE DEF h
  <2> QED
    BY <1>6, <2>1
<1>8. AreBooks(h, order, n)
  BY <1>7 DEF AreBooks
<1> QED
  BY <1>3, <1>8

LEMMA CountsExist ==
  ASSUME NEW order, NEW last \in Nat
  PROVE  \E h : AreCounts(h, order, last)
<1> DEFINE N == {n \in Nat : ~ \E h : AreCounts(h, order, n)}
<1> SUFFICES ASSUME ~ \E h : AreCounts(h, order, last) PROVE FALSE
  OBVIOUS
<1>1. N \subseteq Nat /\ N # {}
  OBVIOUS
<1>2. PICK n \in N : \A m \in N : n <= m
  <2> HIDE DEF N
  <2> QED
    BY <1>1, Least
<1>3. n \in Nat /\ ~ \E h : AreCounts(h, order, n)
  OBVIOUS
<1>4. n # 0
  <2> SUFFICES ASSUME n = 0 PROVE FALSE
    OBVIOUS
  <2> DEFINE h == [i \in 0 .. 0 |-> 0]
  <2>1. AreCounts(h, order, 0)
    BY DEF AreCounts
  <2> QED
    BY <1>3, <2>1
<1>5. PICK k : AreCounts(k, order, n - 1)
  <2>1. n - 1 \in Nat /\ n - 1 < n
    BY <1>3, <1>4
  <2>2. n - 1 \notin N
    <3> HIDE DEF N
    <3> QED
      BY <1>1, <1>2, <2>1
  <2> QED
    BY <2>1, <2>2
<1> DEFINE h == [i \in 0 .. n |-> IF i = 0 THEN 0 ELSE k[i - 1] + Moved(order[i])]
<1>6. ASSUME NEW i \in 0 .. n - 1 PROVE h[i] = k[i]
  <2>1. i \in 0 .. n /\ h[i] = IF i = 0 THEN 0 ELSE k[i - 1] + Moved(order[i])
    BY <1>3, <1>6
  <2>2. k[i] = IF i = 0 THEN 0 ELSE k[i - 1] + Moved(order[i])
    BY <1>5, <1>6 DEF AreCounts
  <2> QED
    BY <2>1, <2>2
<1>7. ASSUME NEW i \in 0 .. n, i # 0 PROVE h[i - 1] = k[i - 1]
  <2>1. i - 1 \in 0 .. n - 1
    BY <1>3, <1>7
  <2> HIDE DEF h
  <2> QED
    BY <1>6, <2>1
<1>8. AreCounts(h, order, n)
  BY <1>7 DEF AreCounts
<1> QED
  BY <1>3, <1>8

(* Whatever the trades, oversold or not, the two replays of them come out  *)
(* at one number of shares.                                                *)
LEMMA ReplaysAgree ==
  ASSUME NEW ts, TradeRows(ts)
  PROVE  FifoNet(ReplayFifo(ts)) = NetShares(ts)
<1> DEFINE size == Cardinality(ts)
           order == Ordered(ts)
           books == CHOOSE h : AreBooks(h, order, size)
           counts == CHOOSE h : AreCounts(h, order, size)
<1>1. size \in Nat
  BY FS_CardinalityType DEF TradeRows
<1>2. \A i \in 1 .. size : order[i] \in TradeRecords
  BY EveryPlaceTaken DEF TradeRows
<1>3. ReplayFifo(ts) = books[size] /\ NetShares(ts) = counts[size]
  BY DEF ReplayFifo, NetShares, AreBooks, AreCounts
<1> HIDE DEF size, order
<1>4. AreBooks(books, order, size) /\ AreCounts(counts, order, size)
  BY <1>1, BooksExist, CountsExist
<1> HIDE DEF books, counts
<1> DEFINE Good(i) == /\ BookOK(books[i]) /\ counts[i] \in Int
                      /\ FifoNet(books[i]) = counts[i]
           N == {i \in Nat : i <= size /\ ~Good(i)}
<1> SUFFICES ASSUME ~Good(size) PROVE FALSE
  BY <1>3
<1>5. N \subseteq Nat /\ N # {}
  BY <1>1
<1>6. PICK n \in N : \A m \in N : n <= m
  <2> HIDE DEF N
  <2> QED
    BY <1>5, Least
<1>7. n \in 0 .. size /\ ~Good(n)
  BY <1>1
<1>8. n # 0
  <2> SUFFICES ASSUME n = 0 PROVE FALSE
    OBVIOUS
  <2>1. books[n] = EmptyBook /\ counts[n] = 0
    BY <1>4, <1>7 DEF AreBooks, AreCounts
  <2>2. BookOK(EmptyBook)
    BY DEF BookOK, EmptyBook
  <2>3. FifoNet(EmptyBook) = 0
    BY LeftOfNone DEF FifoNet, EmptyBook
  <2> QED
    BY <1>7, <2>1, <2>2, <2>3
<1>9. n \in 1 .. size /\ Good(n - 1)
  <2>1. n - 1 \in Nat /\ n - 1 < n /\ n - 1 <= size
    BY <1>1, <1>7, <1>8
  <2>2. n - 1 \notin N
    <3> HIDE DEF N
    <3> QED
      BY <1>5, <1>6, <2>1
  <2> QED
    BY <1>7, <2>1, <2>2
<1>10. /\ books[n] = Matched(books[n - 1], order[n])
       /\ counts[n] = counts[n - 1] + Moved(order[n])
  BY <1>4, <1>7, <1>8 DEF AreBooks, AreCounts
<1>11. order[n] \in TradeRecords
  BY <1>2, <1>9
<1>12. /\ BookOK(books[n])
       /\ FifoNet(books[n]) = FifoNet(books[n - 1]) + Moved(order[n])
  <2>1. CASE order[n].side = "BUY"
    BY <1>9, <1>10, <1>11, <2>1, BuyMoves
  <2>2. CASE order[n].side # "BUY"
    BY <1>9, <1>10, <1>11, <2>2, SellMoves
  <2> QED
    BY <2>1, <2>2
<1>13. Moved(order[n]) \in Int
  BY <1>11 DEF Moved, TradeRecords
<1> QED
  BY <1>7, <1>9, <1>10, <1>12, <1>13

-----------------------------------------------------------------------------
(* The rows of the trades table through every write.                       *)

TradesInv ==
  /\ TradeRows(trades)
  /\ lastId \in Nat /\ \A t \in trades : t.id <= lastId
  /\ loop = "correct" => pending \in [shares : Nat \ {0}, day : Nat]

LEMMA FewerRows ==
  ASSUME TradesInv, NEW ts, ts \subseteq trades
  PROVE  TradeRows(ts) /\ \A t \in ts : t.id <= lastId
<1>1. IsFiniteSet(ts)
  BY FS_Subset DEF TradesInv, TradeRows
<1> QED
  BY <1>1 DEF TradesInv, TradeRows

LEMMA TradeShape ==
  ASSUME NEW n \in Nat, NEW side \in {"BUY", "SELL"}, NEW shares \in Nat \ {0}, NEW day \in Nat,
         NEW source \in Sources, NEW t, t = Trade(n, side, shares, day, source)
  PROVE  t \in TradeRecords /\ t.id = n
<1>1. -1 \in Int /\ FALSE \in BOOLEAN /\ 0 \in Nat
  OBVIOUS
<1>2. t = [id |-> n, key |-> 0, row |-> -1, side |-> side, shares |-> shares,
           day |-> day, source |-> source, acked |-> FALSE]
  BY DEF Trade
<1> QED
  BY <1>1, <1>2 DEF TradeRecords

LEMMA InsertKeepsRows ==
  ASSUME TradesInv, NEW side \in {"BUY", "SELL"}, NEW shares \in Nat \ {0}, NEW day \in Nat,
         NEW source \in Sources, Inserted(Trade(0, side, shares, day, source)),
         loop' # "correct"
  PROVE  TradesInv'
<1> DEFINE row == [Trade(0, side, shares, day, source) EXCEPT !.id = lastId + 1]
<1>1. lastId \in Nat /\ lastId' = lastId + 1 /\ trades' = trades \cup {row}
  BY DEF Inserted, TradesInv
<1>2. row \in TradeRecords /\ row.id = lastId + 1
  <2>1. Trade(0, side, shares, day, source) \in TradeRecords
    BY TradeShape
  <2> QED
    BY <1>1, <2>1 DEF TradeRecords
<1> HIDE DEF row
<1>3. IsFiniteSet(trades')
  BY <1>1, FS_AddElement DEF TradesInv, TradeRows
<1>4. \A t \in trades : t.id <= lastId /\ t.id \in Nat
  BY DEF TradesInv, TradeRows, TradeRecords
<1>5. \A t, u \in trades' : t.id = u.id => t = u
  BY <1>1, <1>2, <1>4 DEF TradesInv, TradeRows
<1>6. \A t \in trades' : t.id <= lastId'
  BY <1>1, <1>2, <1>4
<1>7. trades' \subseteq TradeRecords
  BY <1>1, <1>2 DEF TradesInv, TradeRows
<1> QED
  BY <1>1, <1>3, <1>5, <1>6, <1>7 DEF TradesInv, TradeRows

(* A row that is written again keeps its id.                               *)
LEMMA RewriteKeepsRows ==
  ASSUME TradesInv, NEW t \in trades, NEW row \in TradeRecords, row.id = t.id,
         trades' = (trades \ {t}) \cup {row}, lastId' = lastId, loop' # "correct"
  PROVE  TradesInv'
<1>1. IsFiniteSet(trades \ {t})
  BY FS_RemoveElement DEF TradesInv, TradeRows
<1>2. IsFiniteSet(trades')
  BY <1>1, FS_AddElement
<1>3. \A u \in trades : u.id = t.id => u = t
  BY DEF TradesInv, TradeRows
<1>4. \A u, v \in trades' : u.id = v.id => u = v
  BY <1>3 DEF TradesInv, TradeRows
<1>5. lastId' \in Nat /\ \A u \in trades' : u.id <= lastId'
  BY DEF TradesInv
<1>6. trades' \subseteq TradeRecords
  BY DEF TradesInv, TradeRows
<1> QED
  BY <1>2, <1>4, <1>5, <1>6 DEF TradesInv, TradeRows

(* The rows of a file get the next ids, one each.                          *)
LEMMA NumberedRows ==
  ASSUME NEW F, IsFiniteSet(F), lastId \in Nat,
         \A r \in F : /\ r.key \in Nat \ {0} /\ r.row \in Nat /\ r.day \in Nat
                      /\ r.side \in {"BUY", "SELL"} /\ r.shares \in Nat \ {0},
         \A q, r \in F : q.row = r.row => q = r
  PROVE  /\ TradeRows(Numbered(F)) /\ Cardinality(F) \in Nat
         /\ \A t \in Numbered(F) : lastId < t.id /\ t.id <= lastId + Cardinality(F)
<1> DEFINE upTo(r) == {q \in F : q.row <= r.row}
           nth == [r \in F |-> [Trade(lastId + Cardinality(upTo(r)),
                                      r.side, r.shares, r.day, "sipp_import")
                                  EXCEPT !.key = r.key, !.row = r.row]]
<1>1. Cardinality(F) \in Nat
  BY FS_CardinalityType
<1>2. ASSUME NEW r \in F
      PROVE  /\ IsFiniteSet(upTo(r)) /\ Cardinality(upTo(r)) \in Nat
             /\ 0 < Cardinality(upTo(r)) /\ Cardinality(upTo(r)) <= Cardinality(F)
  <2>1. upTo(r) \subseteq F /\ r \in upTo(r)
    OBVIOUS
  <2>2. IsFiniteSet(upTo(r)) /\ Cardinality(upTo(r)) <= Cardinality(F)
    BY <2>1, FS_Subset
  <2>3. Cardinality(upTo(r)) \in Nat /\ Cardinality(upTo(r)) # 0
    BY <2>1, <2>2, FS_CardinalityType, FS_EmptySet
  <2> QED
    BY <2>2, <2>3
<1>3. ASSUME NEW q \in F, NEW r \in F, q.row < r.row
      PROVE  Cardinality(upTo(q)) < Cardinality(upTo(r))
  <2>1. upTo(q) \subseteq upTo(r) /\ r \in upTo(r) /\ r \notin upTo(q)
    BY <1>3
  <2> QED
    BY <1>2, <2>1, FewerMembers
<1>4. \A q, r \in F : Cardinality(upTo(q)) = Cardinality(upTo(r)) => q = r
  <2> SUFFICES ASSUME NEW q \in F, NEW r \in F, Cardinality(upTo(q)) = Cardinality(upTo(r))
               PROVE  q = r
    OBVIOUS
  <2> HIDE DEF upTo
  <2>1. ~(q.row < r.row) /\ ~(r.row < q.row)
    BY <1>2, <1>3
  <2> QED
    BY <2>1
<1>5. Numbered(F) = {nth[r] : r \in F}
  BY DEF Numbered
<1>6. ASSUME NEW r \in F
      PROVE  nth[r] \in TradeRecords /\ nth[r].id = lastId + Cardinality(upTo(r))
  <2> SUFFICES ASSUME NEW n, n = lastId + Cardinality(upTo(r)),
                      NEW t, t = Trade(n, r.side, r.shares, r.day, "sipp_import")
               PROVE  /\ [t EXCEPT !.key = r.key, !.row = r.row] \in TradeRecords
                      /\ [t EXCEPT !.key = r.key, !.row = r.row].id = n
    OBVIOUS
  <2> HIDE DEF upTo
  <2>1. n \in Nat
    BY <1>2
  <2>2. /\ r.key \in Nat /\ r.row \in Int /\ r.day \in Nat
        /\ r.side \in {"BUY", "SELL"} /\ r.shares \in Nat \ {0}
    OBVIOUS
  <2>3. "sipp_import" \in Sources
    BY DEF Sources
  <2>4. t \in TradeRecords /\ t.id = n
    BY <2>1, <2>2, <2>3, TradeShape
  <2>5. \A k \in Nat, m \in Int :
          /\ [t EXCEPT !.key = k, !.row = m] \in TradeRecords
          /\ [t EXCEPT !.key = k, !.row = m].id = n
    BY <2>4 DEF TradeRecords
  <2> QED
    BY <2>2, <2>5
<1> HIDE DEF nth, upTo
<1>7. IsFiniteSet(Numbered(F))
  <2>1. DOMAIN nth = F
    BY DEF nth
  <2>2. nth \in Surjection(F, Numbered(F))
    BY <1>5, <2>1, Fun_IsSurj DEF nth
  <2> QED
    BY <2>2, FS_Surjection
<1>8. Numbered(F) \subseteq TradeRecords
  BY <1>5, <1>6
<1>9. \A t, u \in Numbered(F) : t.id = u.id => t = u
  <2> SUFFICES ASSUME NEW q \in F, NEW r \in F, nth[q].id = nth[r].id
               PROVE  nth[q] = nth[r]
    BY <1>5
  <2>1. Cardinality(upTo(q)) = Cardinality(upTo(r))
    BY <1>2, <1>6
  <2> QED
    BY <1>4, <2>1
<1>10. \A t \in Numbered(F) : lastId < t.id /\ t.id <= lastId + Cardinality(F)
  BY <1>1, <1>2, <1>5, <1>6
<1> QED
  BY <1>1, <1>7, <1>8, <1>9, <1>10 DEF TradeRows

LEMMA ImportKeepsRows ==
  ASSUME TradesInv, NEW file \in Statements, NEW value, ImportStatement(file, value)
  PROVE  TradesInv'
<1> DEFINE F == Fresh(file)
<1>1. /\ lastId' = lastId + Cardinality(F) /\ trades' = trades \cup Numbered(F)
      /\ loop' = Free
  BY DEF ImportStatement
<1>2. F \subseteq file.rows
  BY DEF Fresh
<1> HIDE DEF F
<1>3. IsFiniteSet(F)
  BY <1>2, FS_Subset, LedgerAssumption
<1>4. /\ TradeRows(Numbered(F)) /\ Cardinality(F) \in Nat
      /\ \A t \in Numbered(F) : lastId < t.id /\ t.id <= lastId + Cardinality(F)
  BY <1>2, <1>3, NumberedRows, LedgerAssumption DEF TradesInv
<1>5. IsFiniteSet(trades')
  BY <1>1, <1>4, FS_Union DEF TradesInv, TradeRows
<1>6. \A t \in trades : t.id <= lastId /\ t.id \in Nat /\ lastId \in Nat
  BY DEF TradesInv, TradeRows, TradeRecords
<1>7. \A t \in Numbered(F) : t.id \in Nat
  BY <1>4 DEF TradeRows, TradeRecords
<1>8. \A t, u \in trades' : t.id = u.id => t = u
  <2> SUFFICES ASSUME NEW t \in trades', NEW u \in trades', t.id = u.id
               PROVE  t = u
    OBVIOUS
  <2>1. t \in trades /\ u \in trades => t = u
    BY DEF TradesInv, TradeRows
  <2>2. t \in Numbered(F) /\ u \in Numbered(F) => t = u
    BY <1>4 DEF TradeRows
  <2>3. \A a \in trades, b \in Numbered(F) : a.id # b.id
    BY <1>4, <1>6, <1>7
  <2> QED
    BY <1>1, <2>1, <2>2, <2>3
<1>9. lastId' \in Nat /\ \A t \in trades' : t.id <= lastId'
  <2>1. lastId' \in Nat /\ lastId <= lastId'
    BY <1>1, <1>4 DEF TradesInv
  <2> QED
    BY <1>1, <1>4, <1>6, <2>1
<1>10. loop' # "correct"
  BY <1>1 DEF Free
<1>11. trades' \subseteq TradeRecords
  BY <1>1, <1>4 DEF TradesInv, TradeRows
<1> QED
  BY <1>5, <1>8, <1>9, <1>10, <1>11 DEF TradesInv, TradeRows

LEMMA WritesKeepRows ==
  ASSUME TradesInv, WriteTrades
  PROVE  TradesInv'
<1> USE DEF Free
<1>0. Shares \subseteq Nat \ {0} /\ Days \subseteq Nat
  BY LedgerAssumption DEF Days
<1>1. ASSUME NEW side \in {"BUY", "SELL"}, NEW shares \in Shares, NEW day \in Days,
             RecordTrade(side, shares, day)
      PROVE  TradesInv'
  BY <1>0, <1>1, InsertKeepsRows DEF RecordTrade, Sources
<1>2. ASSUME NEW t, DeleteTrade(t) PROVE TradesInv'
  BY <1>2, FewerRows DEF DeleteTrade, TradesInv
<1>3. ASSUME NEW shares \in Shares, NEW day \in Days, DeletePosition(shares, day) PROVE TradesInv'
  <2>1. TradeRows({})
    BY FewerRows
  <2> QED
    BY <1>0, <1>3, <2>1 DEF DeletePosition, TradesInv
<1>4. ASSUME InsertCorrection PROVE TradesInv'
  <2>1. pending \in [shares : Nat \ {0}, day : Nat]
    BY <1>4 DEF InsertCorrection, TradesInv
  <2> QED
    BY <1>4, <2>1, InsertKeepsRows DEF InsertCorrection, Sources
<1>5. ASSUME NEW shares \in Shares, NEW day \in Days, RecordOpeningLot(shares, day)
      PROVE  TradesInv'
  BY <1>0, <1>5, InsertKeepsRows DEF RecordOpeningLot, Sources
<1>6. ASSUME NEW lot \in trades, NEW shares \in Shares, NEW day \in Days,
             UpdateOpeningLot(lot, shares, day)
      PROVE  TradesInv'
  <2> DEFINE row == [lot EXCEPT !.shares = shares, !.day = day]
  <2>1. row \in TradeRecords /\ row.id = lot.id
    BY <1>0 DEF TradesInv, TradeRows, TradeRecords
  <2> QED
    BY <1>6, <2>1, RewriteKeepsRows DEF UpdateOpeningLot
<1>7. ASSUME NEW lot, DeleteOpeningLot(lot) PROVE TradesInv'
  BY <1>2, <1>7 DEF DeleteOpeningLot
<1>8. ASSUME NEW file \in Statements, NEW value, ImportStatement(file, value) PROVE TradesInv'
  BY <1>8, ImportKeepsRows
<1> QED
  BY <1>1, <1>2, <1>3, <1>4, <1>5, <1>6, <1>7, <1>8 DEF WriteTrades

-----------------------------------------------------------------------------
(* What a call took from the trades.                                       *)

(* A summary computed while the trades rested speaks of one ledger, and    *)
(* nothing else reaches the cache.                                         *)
CallMatches(c, rev) ==
  /\ c.acked \in BOOLEAN
  /\ c.stage = "recheck" /\ c.rev = rev => ~c.summary.mismatched
  /\ c.stage = "settle" /\ c.seen = c.rev => ~c.summary.mismatched

MatchInv ==
  /\ TradesInv
  /\ \A r \in Threads : CallMatches(reader[r], revision)
  /\ NoFalseMismatch

LEMMA IdleMatches ==
  ASSUME NEW rev, NEW id, NEW acked \in BOOLEAN, NEW n
  PROVE  /\ CallMatches(Idle, rev)
         /\ CallMatches([Idle EXCEPT !.stage = "ack", !.target = id, !.acked = acked], rev)
         /\ CallMatches([Idle EXCEPT !.stage = "inputs", !.rev = n], rev)
  BY DEF CallMatches, Idle

(* One call moves, the revision grows: the others are as they were.        *)
LEMMA OthersMatch ==
  ASSUME PnlInv, MatchInv, NEW r \in Threads, NEW c,
         reader' = [reader EXCEPT ![r] = c], CallMatches(c, revision'),
         revision' \in Nat, revision <= revision'
  PROVE  \A q \in Threads : CallMatches(reader'[q], revision')
<1> SUFFICES ASSUME NEW q \in Threads PROVE CallMatches(reader'[q], revision')
  OBVIOUS
<1>1. reader'[r] = c /\ (q # r => reader'[q] = reader[q])
  BY DEF PnlInv, Shapes
<1>2. CallMatches(reader[q], revision) /\ CallShape(reader[q], revision, inputs)
  BY CallFacts DEF MatchInv
<1>3. revision \in Nat /\ reader[q].rev \in Nat /\ reader[q].rev <= revision
  BY <1>2, CallFacts DEF CallShape
<1>4. reader[q].rev = revision' => reader[q].rev = revision
  BY <1>3
<1> QED
  BY <1>1, <1>2, <1>4 DEF CallMatches

(* A step of a call that writes no trade.                                  *)
LEMMA QuietMatch ==
  ASSUME PnlInv, MatchInv, NEW r \in Threads, NEW c,
         UNCHANGED <<trades, lastId, revision, pending>>,
         reader' = [reader EXCEPT ![r] = c], CallMatches(c, revision),
         loop' = "correct" => loop = "correct",
         \A e \in cache' : e \in cache \/ ~e.summary.mismatched
  PROVE  MatchInv'
<1>1. /\ revision' \in Nat /\ revision <= revision'
      /\ CallMatches(c, revision')
  <2>1. revision \in Nat /\ revision' = revision
    BY CallFacts
  <2> QED
    BY <2>1
<1>2. \A q \in Threads : CallMatches(reader'[q], revision')
  BY <1>1, OthersMatch
<1>3. TradesInv'
  BY DEF MatchInv, TradesInv
<1>4. NoFalseMismatch'
  BY DEF MatchInv, NoFalseMismatch
<1> QED
  BY <1>2, <1>3, <1>4 DEF MatchInv

LEMMA DeliverMatch ==
  ASSUME PnlInv, MatchInv, NEW r \in Threads, NEW summary, Deliver(r, summary),
         UNCHANGED <<trades, lastId, revision, pending>>,
         \A e \in cache' : e \in cache \/ ~e.summary.mismatched
  PROVE  MatchInv'
<1> DEFINE found == {u \in Range(summary.unmatched) :
                       reader[r].target # NoTarget /\ u.id = reader[r].target}
<1>1. loop' = "correct" => loop = "correct"
  BY DEF Deliver, Free
<1>2. CASE found = {}
  <2>1. reader' = [reader EXCEPT ![r] = Idle]
    BY <1>2 DEF Deliver
  <2> QED
    BY <1>1, <2>1, IdleMatches, QuietMatch
<1>3. CASE found # {}
  <2>1. PICK u \in found :
          reader' = [reader EXCEPT ![r] = [Idle EXCEPT !.stage = "ack",
                       !.target = u.id, !.acked = ~u.acked]]
    BY <1>3 DEF Deliver
  <2>2. (~u.acked) \in BOOLEAN
    OBVIOUS
  <2> SUFFICES ASSUME NEW c, c = [Idle EXCEPT !.stage = "ack", !.target = u.id, !.acked = ~u.acked]
               PROVE  MatchInv'
    OBVIOUS
  <2>3. CallMatches(c, revision)
    BY <2>2, IdleMatches
  <2> QED
    BY <1>1, <2>1, <2>3, QuietMatch
<1> QED
  BY <1>2, <1>3

(* A summary of the trades there are agrees with itself.                   *)
LEMMA SameLedgerMatches ==
  ASSUME TradesInv, NEW fx
  PROVE  ~SummaryOf(trades, fx, trades).mismatched
  BY ReplaysAgree DEF TradesInv, SummaryOf

LEMMA CrossCheckMatch ==
  ASSUME PnlInv, MatchInv, NEW r \in Threads, CrossCheck(r)
  PROVE  MatchInv'
<1> SUFFICES ASSUME NEW summary,
                    summary = SummaryOf(reader[r].trades, reader[r].rates, trades)
             PROVE  MatchInv'
  OBVIOUS
<1>1. /\ UNCHANGED <<trades, lastId, revision, pending>> /\ cache' = cache
      /\ reader[r].stage = "positions"
  BY DEF CrossCheck, Books
<1>2. CASE reader[r].left = 0
  <2>1. Deliver(r, summary)
    BY <1>2 DEF CrossCheck
  <2> QED
    BY <1>1, <2>1, DeliverMatch
<1>3. CASE reader[r].left # 0
  <2> SUFFICES ASSUME NEW c,
                      c = [reader[r] EXCEPT !.stage = "recheck", !.summary = summary,
                             !.trades = {}, !.rates = NoRates]
               PROVE  MatchInv'
    OBVIOUS
  <2>1. reader' = [reader EXCEPT ![r] = c] /\ loop' = loop
    BY <1>3 DEF CrossCheck
  <2>2. IsCall(reader[r])
    BY CallFacts DEF CallShape
  <2>3. /\ c.stage = "recheck" /\ c.rev = reader[r].rev /\ c.summary = summary
        /\ c.acked = reader[r].acked
    BY <2>2 DEF IsCall, Fields
  <2>4. c.rev = revision => reader[r].trades = trades
    BY <1>1, <2>3, CallFacts DEF CallCurrent
  <2>5. c.rev = revision => ~summary.mismatched
    BY <2>4, SameLedgerMatches DEF MatchInv
  <2>6. CallMatches(c, revision)
    BY <2>3, <2>5 DEF CallMatches, MatchInv
  <2> QED
    BY <1>1, <2>1, <2>6, QuietMatch
<1> QED
  BY <1>2, <1>3

LEMMA RecheckTradesMatch ==
  ASSUME PnlInv, MatchInv, NEW r \in Threads, RecheckTrades(r)
  PROVE  MatchInv'
<1> SUFFICES ASSUME NEW c, c = [reader[r] EXCEPT !.stage = "settle", !.seen = revision]
             PROVE  MatchInv'
  OBVIOUS
<1>1. /\ reader' = [reader EXCEPT ![r] = c] /\ cache' = cache /\ loop' = loop
      /\ UNCHANGED <<trades, lastId, revision, pending>>
  BY DEF RecheckTrades, ledger
<1>2. /\ c.stage = "settle" /\ c.rev = reader[r].rev /\ c.seen = revision
      /\ c.summary = reader[r].summary /\ c.acked = reader[r].acked
      /\ reader[r].stage = "recheck"
  BY CallFacts DEF CallShape, IsCall, Fields, RecheckTrades
<1>3. CallMatches(c, revision)
  BY <1>2 DEF MatchInv, CallMatches
<1> QED
  BY <1>1, <1>3, QuietMatch

LEMMA StoreMatch ==
  ASSUME PnlInv, MatchInv, NEW r \in Threads, Store(r)
  PROVE  MatchInv'
<1> DEFINE entry == [rev |-> reader[r].rev, inp |-> inputs, summary |-> reader[r].summary]
<1>1. /\ UNCHANGED <<trades, lastId, revision, pending>>
      /\ reader[r].stage = "settle" /\ reader[r].seen = reader[r].rev
      /\ cache' \in Kept(entry) /\ Deliver(r, entry.summary)
  BY DEF Store, Books
<1>2. ~entry.summary.mismatched
  BY <1>1 DEF MatchInv, CallMatches
<1>3. \A e \in cache' : e \in cache \/ e = entry
  BY <1>1 DEF Kept
<1>4. \A e \in cache' : e \in cache \/ ~e.summary.mismatched
  BY <1>2, <1>3
<1> QED
  BY <1>1, <1>4, DeliverMatch

(* A step after which the call has no summary yet, or none any more.       *)
LEMMA EarlyMatch ==
  ASSUME PnlInv, MatchInv, NEW r \in Threads, NEW c,
         UNCHANGED <<trades, lastId, revision, pending, cache>>,
         reader' = [reader EXCEPT ![r] = c], c.acked = reader[r].acked,
         c.stage \notin {"recheck", "settle"},
         loop' = loop \/ loop' = r
  PROVE  MatchInv'
<1>1. CallMatches(c, revision)
  BY DEF MatchInv, CallMatches
<1>2. loop' = "correct" => loop = "correct"
  BY PnlAssumption
<1> QED
  BY <1>1, <1>2, QuietMatch

LEMMA EarlyStepsMatch ==
  ASSUME PnlInv, MatchInv, NEW r \in Threads,
         \/ View(r) \/ (\E t \in trades : Acknowledge(r, t)) \/ RevisionUnavailable(r)
         \/ LoadTrades(r) \/ LoadRates(r) \/ SaveRates(r)
  PROVE  MatchInv'
<1>0. IsCall(reader[r])
  BY CallFacts DEF CallShape
<1>1. CASE View(r)
  <2> SUFFICES ASSUME NEW c, c = [reader[r] EXCEPT !.stage = "inputs", !.rev = revision]
               PROVE  MatchInv'
    OBVIOUS
  <2>1. c.stage = "inputs" /\ c.acked = reader[r].acked
    BY <1>0 DEF IsCall, Fields
  <2> QED
    BY <1>1, <2>1, EarlyMatch DEF View, ledger
<1>2. ASSUME NEW t \in trades, Acknowledge(r, t) PROVE MatchInv'
  <2> SUFFICES ASSUME NEW c, c = [reader[r] EXCEPT !.stage = "inputs", !.rev = revision,
                                                   !.target = t.id]
               PROVE  MatchInv'
    OBVIOUS
  <2>1. c.stage = "inputs" /\ c.acked = reader[r].acked
    BY <1>0 DEF IsCall, Fields
  <2> QED
    BY <1>2, <2>1, EarlyMatch DEF Acknowledge, Books
<1>3. CASE RevisionUnavailable(r)
  <2> SUFFICES ASSUME NEW c, c = [reader[r] EXCEPT !.stage = "trades", !.left = 0]
               PROVE  MatchInv'
    OBVIOUS
  <2>1. c.stage = "trades" /\ c.acked = reader[r].acked
    BY <1>0 DEF IsCall, Fields
  <2> QED
    BY <1>3, <2>1, EarlyMatch DEF RevisionUnavailable, ledger
<1>4. CASE LoadTrades(r)
  <2> SUFFICES ASSUME NEW c, c = [reader[r] EXCEPT !.stage = "rates", !.trades = trades]
               PROVE  MatchInv'
    OBVIOUS
  <2>1. c.stage = "rates" /\ c.acked = reader[r].acked
    BY <1>0 DEF IsCall, Fields
  <2> QED
    BY <1>4, <2>1, EarlyMatch DEF LoadTrades, ledger
<1>5. CASE LoadRates(r)
  <2> DEFINE next == IF Missing(reader[r].trades, rates) = {} THEN "positions" ELSE "fetch"
  <2> SUFFICES ASSUME NEW c, c = [reader[r] EXCEPT !.rates = rates, !.stage = next]
               PROVE  MatchInv'
    OBVIOUS
  <2>1. c.stage = next /\ c.acked = reader[r].acked
    BY <1>0 DEF IsCall, Fields
  <2>2. next \notin {"recheck", "settle"}
    OBVIOUS
  <2>3. /\ reader' = [reader EXCEPT ![r] = c] /\ loop' = loop
        /\ UNCHANGED <<trades, lastId, revision, pending, cache>>
    BY <1>5 DEF LoadRates, ledger
  <2> HIDE DEF next
  <2> QED
    BY <2>1, <2>2, <2>3, EarlyMatch
<1>6. CASE SaveRates(r)
  <2> DEFINE missing == Missing(reader[r].trades, reader[r].rates)
  <2>1. PICK answer \in [missing -> {Rate, Invalid}] :
          reader' = [reader EXCEPT ![r].stage = "positions",
             ![r].rates = [d \in Days |-> IF d \in missing THEN answer[d]
                                          ELSE reader[r].rates[d]]]
    BY <1>6 DEF SaveRates
  <2> SUFFICES ASSUME NEW fx, fx = [d \in Days |-> IF d \in missing THEN answer[d]
                                                   ELSE reader[r].rates[d]],
                      NEW c, c = [reader[r] EXCEPT !.stage = "positions", !.rates = fx]
               PROVE  MatchInv'
    OBVIOUS
  <2>2. reader' = [reader EXCEPT ![r] = c]
    BY <2>1
  <2>3. c.stage = "positions" /\ c.acked = reader[r].acked
    BY <1>0 DEF IsCall, Fields
  <2>4. loop' = loop /\ UNCHANGED <<trades, lastId, revision, pending, cache>>
    BY <1>6 DEF SaveRates, ledger
  <2> QED
    BY <2>2, <2>3, <2>4, EarlyMatch
<1> QED
  BY <1>1, <1>2, <1>3, <1>4, <1>5, <1>6

LEMMA LookUpMatch ==
  ASSUME PnlInv, MatchInv, NEW r \in Threads, LookUp(r)
  PROVE  MatchInv'
<1>0. IsCall(reader[r])
  BY CallFacts DEF CallShape
<1>1. UNCHANGED <<trades, lastId, revision, pending, cache>>
  BY DEF LookUp, Books
<1>2. CASE Cached(reader[r].rev, inputs) = {}
  <2> SUFFICES ASSUME NEW c, c = [reader[r] EXCEPT !.stage = "trades", !.inp = inputs, !.left = 2]
               PROVE  MatchInv'
    OBVIOUS
  <2>1. reader' = [reader EXCEPT ![r] = c] /\ loop' = loop
    BY <1>2 DEF LookUp
  <2>2. c.stage = "trades" /\ c.acked = reader[r].acked
    BY <1>0 DEF IsCall, Fields
  <2> QED
    BY <1>1, <2>1, <2>2, EarlyMatch
<1>3. CASE Cached(reader[r].rev, inputs) # {}
  <2>1. PICK e \in Cached(reader[r].rev, inputs) : Deliver(r, e.summary)
    BY <1>3 DEF LookUp
  <2> QED
    BY <1>1, <2>1, DeliverMatch
<1> QED
  BY <1>2, <1>3

LEMMA RetryMatch ==
  ASSUME PnlInv, MatchInv, NEW r \in Threads, Retry(r)
  PROVE  MatchInv'
<1>0. IsCall(reader[r])
  BY CallFacts DEF CallShape
<1>1. UNCHANGED <<trades, lastId, revision, pending, cache>>
  BY DEF Retry, Books
<1>2. CASE Cached(reader[r].seen, inputs) = {}
  <2> SUFFICES ASSUME NEW c,
                      c = [reader[r] EXCEPT !.stage = "trades", !.rev = reader[r].seen,
                             !.inp = inputs, !.seen = 0, !.summary = NoSummary,
                             !.left = reader[r].left - 1]
               PROVE  MatchInv'
    OBVIOUS
  <2>1. reader' = [reader EXCEPT ![r] = c] /\ loop' = loop
    BY <1>2 DEF Retry
  <2>2. c.stage = "trades" /\ c.acked = reader[r].acked
    BY <1>0 DEF IsCall, Fields
  <2> QED
    BY <1>1, <2>1, <2>2, EarlyMatch
<1>3. CASE Cached(reader[r].seen, inputs) # {}
  <2>1. PICK e \in Cached(reader[r].seen, inputs) : Deliver(r, e.summary)
    BY <1>3 DEF Retry
  <2> QED
    BY <1>1, <2>1, DeliverMatch
<1> QED
  BY <1>2, <1>3

LEMMA WriteAckMatch ==
  ASSUME PnlInv, MatchInv, NEW r \in Threads, WriteAck(r)
  PROVE  MatchInv'
<1>1. PICK t \in trades : trades' = (trades \ {t}) \cup {[t EXCEPT !.acked = reader[r].acked]}
  BY DEF WriteAck
<1>2. /\ lastId' = lastId /\ pending' = pending /\ loop' = loop /\ cache' = cache
      /\ revision' = revision + 1 /\ reader[r].stage = "ack"
      /\ reader' = [reader EXCEPT ![r] = [Idle EXCEPT !.stage = "inputs", !.rev = revision + 1]]
  BY DEF WriteAck, Bumped
<1>3. loop # "correct"
  BY <1>2, CallFacts, PnlAssumption
<1>4. reader[r].acked \in BOOLEAN
  BY DEF MatchInv, CallMatches
<1>5. [t EXCEPT !.acked = reader[r].acked] \in TradeRecords
      /\ [t EXCEPT !.acked = reader[r].acked].id = t.id
  BY <1>4 DEF MatchInv, TradesInv, TradeRows, TradeRecords
<1>6. TradesInv'
  BY <1>1, <1>2, <1>3, <1>5, RewriteKeepsRows DEF MatchInv
<1>7. revision' \in Nat /\ revision <= revision'
  BY <1>2, CallFacts
<1> SUFFICES ASSUME NEW c, c = [Idle EXCEPT !.stage = "inputs", !.rev = revision + 1]
             PROVE  MatchInv'
  OBVIOUS
<1>8. reader' = [reader EXCEPT ![r] = c] /\ CallMatches(c, revision')
  BY <1>2, IdleMatches
<1>9. \A q \in Threads : CallMatches(reader'[q], revision')
  BY <1>7, <1>8, OthersMatch
<1>10. NoFalseMismatch'
  BY <1>2 DEF MatchInv, NoFalseMismatch
<1> QED
  BY <1>6, <1>9, <1>10 DEF MatchInv

LEMMA WriteTradesMatch ==
  ASSUME PnlInv, MatchInv, WriteTrades, UNCHANGED pnl
  PROVE  MatchInv'
<1>1. cache' = cache /\ reader' = reader
  BY DEF pnl
<1>2. revision' \in Nat /\ revision <= revision'
  BY WritesGrow DEF PnlInv, Grown
<1>3. TradesInv'
  BY WritesKeepRows DEF MatchInv
<1>4. NoFalseMismatch'
  BY <1>1 DEF MatchInv, NoFalseMismatch
<1>5. ASSUME NEW r \in Threads PROVE CallMatches(reader'[r], revision')
  <2>1. reader' = [reader EXCEPT ![r] = reader[r]]
    BY <1>1 DEF PnlInv, Shapes
  <2>2. CallMatches(reader[r], revision) /\ CallShape(reader[r], revision, inputs)
    BY CallFacts DEF MatchInv
  <2>3. reader[r].rev = revision' => reader[r].rev = revision
    BY <1>2, <2>2, CallFacts DEF CallShape
  <2> QED
    BY <1>1, <2>2, <2>3 DEF CallMatches
<1> QED
  BY <1>3, <1>4, <1>5 DEF MatchInv

LEMMA MatchInvStep ==
  ASSUME PnlInv, MatchInv, [PnlNext]_<<ledger, pnl>>
  PROVE  MatchInv'
<1>1. CASE WriteTrades /\ UNCHANGED pnl
  BY <1>1, WriteTradesMatch
<1>2. CASE ProcessEnds
  <2>1. /\ UNCHANGED <<trades, lastId, revision>> /\ cache' = {} /\ loop' = Free
        /\ reader' = [r \in Threads |-> Idle]
    BY <1>2 DEF ProcessEnds
  <2>2. TradesInv'
    BY <2>1 DEF MatchInv, TradesInv, Free
  <2> QED
    BY <2>1, <2>2, IdleMatches DEF MatchInv, NoFalseMismatch
<1>3. ASSUME NEW r \in Threads, ReadPnl(r)
      PROVE  MatchInv'
  <2>1. CASE RecheckFails(r)
    BY <2>1, DeliverMatch DEF RecheckFails, Books
  <2> QED
    BY <1>3, <2>1, EarlyStepsMatch, LookUpMatch, CrossCheckMatch, RecheckTradesMatch,
       StoreMatch, RetryMatch, WriteAckMatch DEF ReadPnl
<1>4. CASE UNCHANGED <<ledger, pnl>>
  BY <1>4 DEF MatchInv, TradesInv, NoFalseMismatch, ledger, pnl
<1> QED
  BY <1>1, <1>2, <1>3, <1>4 DEF PnlNext

(* Whatever trades are recorded, corrected, imported and deleted, oversold *)
(* or not, and whatever interleaves with a page, no summary that           *)
(* compute_summary stores reports its two replays apart: first in, first   *)
(* out less the unmatched sells is the average-cost share count, and the   *)
(* two were taken of one ledger.                                           *)
THEOREM NoMismatchEverFalse == PnlSpec => []NoFalseMismatch
<1>1. PnlInit => MatchInv
  <2> SUFFICES ASSUME PnlInit PROVE MatchInv
    OBVIOUS
  <2>1. /\ trades = {} /\ lastId = 0 /\ loop = Free /\ cache = {}
        /\ reader = [r \in Threads |-> Idle]
    BY DEF PnlInit, LedgerInit
  <2>2. TradesInv
    BY <2>1, FS_EmptySet DEF TradesInv, TradeRows, Free
  <2> QED
    BY <2>1, <2>2, IdleMatches DEF MatchInv, NoFalseMismatch
<1>2. PnlInv /\ MatchInv /\ [PnlNext]_<<ledger, pnl>> => MatchInv'
  BY MatchInvStep
<1>3. MatchInv => NoFalseMismatch
  BY DEF MatchInv
<1> QED
  BY <1>1, <1>2, <1>3, PnlInvariant, PTL DEF PnlSpec

-----------------------------------------------------------------------------
(* The value history.  What keeps filled-in days unique is where each      *)
(* writer may write: a run fills days before the day it began on, which    *)
(* only recedes, and the live writer and the import write today (RowsInv,  *)
(* WindowsPast), or are late.  So only runs can meet on a settled day, and *)
(* there one statement looks and inserts.                                  *)

RunFields == {"stage", "trades", "window", "todo"}
RunStages == {"idle", "starting", "opened", "begun", "valuing", "done"}
SnapshotRows ==
  [day : Int, kind : {"live", "late", "backfilled"}, value : {"real", "zero", "none"}]

(* A run of a backfiller reaches back from the day it began on.            *)
RunOK(q, now) ==
  /\ q = [f \in RunFields |-> q[f]]
  /\ q.stage \in RunStages
  /\ q.window.until \in Int /\ q.window.until <= now
  /\ \A d \in q.todo : d \in Int /\ d < now

WindowsPast ==
  /\ today \in Nat \ {0}
  /\ run = [b \in Backfillers |-> run[b]]
  /\ \A b \in Backfillers : RunOK(run[b], today)

RowsInv ==
  /\ rows \in Seq(SnapshotRows)
  /\ \A i \in DOMAIN rows :
       /\ rows[i].day <= today
       /\ rows[i].kind = "backfilled" => rows[i].day < today

ProgressPhases == {"none", "running", "again", "done", "failed"}
Phases == progress \in ProgressPhases

(* The inductive invariant.                                                *)
HistoryInv == WindowsPast /\ RowsInv /\ Phases /\ DayWrittenOnce /\ ProgressHasARun

-----------------------------------------------------------------------------
(* Rows.                                                                   *)

LEMMA RowsLater ==
  ASSUME RowsInv, today \in Int, today' \in Int, today <= today', rows' = rows
  PROVE  RowsInv'
<1> SUFFICES ASSUME NEW i \in DOMAIN rows
             PROVE  /\ rows[i].day <= today'
                    /\ rows[i].kind = "backfilled" => rows[i].day < today'
  <2>1. rows' \in Seq(SnapshotRows)
    BY DEF RowsInv
  <2> QED
    BY <2>1 DEF RowsInv
<1>1. rows[i].day \in Int
  <2>1. rows[i] \in SnapshotRows
    BY DEF RowsInv
  <2> QED
    BY <2>1 DEF SnapshotRows
<1> QED
  BY <1>1 DEF RowsInv

(* Appending a row of today, a late one, or a filled-in one of an earlier  *)
(* day without a row.                                                      *)
LEMMA RowAppended ==
  ASSUME RowsInv, DayWrittenOnce, today \in Int, today' = today,
         NEW row \in SnapshotRows, rows' = Append(rows, row),
         row.day <= today,
         \/ row.kind = "live" /\ row.day = today
         \/ row.kind = "late"
         \/ row.day < today /\ \A i \in DOMAIN rows : rows[i].day # row.day
  PROVE  RowsInv' /\ DayWrittenOnce'
<1>1. /\ rows' \in Seq(SnapshotRows) /\ Len(rows') = Len(rows) + 1
      /\ DOMAIN rows = 1 .. Len(rows) /\ DOMAIN rows' = 1 .. Len(rows) + 1
      /\ Len(rows) \in Nat
  BY DEF RowsInv
<1>2. /\ rows'[Len(rows) + 1] = row
      /\ \A i \in 1 .. Len(rows) : rows'[i] = rows[i]
  BY DEF RowsInv
<1>3. \A i \in DOMAIN rows' : i \in DOMAIN rows \/ i = Len(rows) + 1
  BY <1>1
<1>4. RowsInv'
  <2> SUFFICES ASSUME NEW i \in DOMAIN rows'
               PROVE  /\ rows'[i].day <= today'
                      /\ rows'[i].kind = "backfilled" => rows'[i].day < today'
    BY <1>1 DEF RowsInv
  <2>1. CASE i \in DOMAIN rows
    <3>1. rows'[i] = rows[i]
      BY <1>1, <1>2, <2>1
    <3> QED
      BY <2>1, <3>1 DEF RowsInv
  <2>2. CASE i = Len(rows) + 1
    BY <1>2, <2>2
  <2> QED
    BY <1>3, <2>1, <2>2
<1>5. DayWrittenOnce'
  <2> SUFFICES ASSUME NEW i \in DOMAIN rows', NEW k \in DOMAIN rows',
                      rows'[i].kind = "backfilled", rows'[k].day = rows'[i].day
               PROVE  k = i \/ rows'[k].kind = "late"
    BY DEF DayWrittenOnce
  <2>1. CASE i \in DOMAIN rows /\ k \in DOMAIN rows
    <3>1. rows'[i] = rows[i] /\ rows'[k] = rows[k]
      BY <1>1, <1>2, <2>1
    <3> QED
      BY <2>1, <3>1 DEF DayWrittenOnce
  <2>2. CASE i = Len(rows) + 1 /\ k \in DOMAIN rows
    <3>1. rows'[i] = row /\ rows'[k] = rows[k]
      BY <1>1, <1>2, <2>2
    <3> QED
      BY <2>2, <3>1 DEF SnapshotRows
  <2>3. CASE i \in DOMAIN rows /\ k = Len(rows) + 1
    <3>1. rows'[i] = rows[i] /\ rows'[k] = row
      BY <1>1, <1>2, <2>3
    <3>2. rows[i].day < today
      BY <2>3, <3>1 DEF RowsInv
    <3> QED
      BY <2>3, <3>1, <3>2
  <2>4. CASE i = Len(rows) + 1 /\ k = Len(rows) + 1
    BY <2>4
  <2> QED
    BY <1>3, <2>1, <2>2, <2>3, <2>4
<1> QED
  BY <1>4, <1>5

LEMMA LiveRow ==
  ASSUME RowsInv, DayWrittenOnce, today \in Int, today' = today,
         NEW value \in {"real", "zero", "none"}, NEW stamp \in {today - 1, today},
         rows' = Append(rows, Snapshot(stamp, IF stamp = today THEN "live" ELSE "late", value))
  PROVE  RowsInv' /\ DayWrittenOnce'
<1> DEFINE row == Snapshot(stamp, IF stamp = today THEN "live" ELSE "late", value)
<1>1. /\ row \in SnapshotRows /\ row.day = stamp
      /\ (row.kind = "live" /\ row.day = today) \/ row.kind = "late"
  BY DEF Snapshot, SnapshotRows
<1>2. rows' = Append(rows, row) /\ row.day <= today
  BY <1>1
<1> HIDE DEF row
<1> QED
  BY <1>1, <1>2, RowAppended

LEMMA WriteTradesRows ==
  ASSUME RowsInv, DayWrittenOnce, today \in Int, WriteTrades
  PROVE  RowsInv' /\ DayWrittenOnce' /\ today' = today
<1>1. ASSUME UNCHANGED <<rows, today>> PROVE RowsInv' /\ DayWrittenOnce' /\ today' = today
  BY <1>1 DEF RowsInv, DayWrittenOnce
<1>2. ASSUME NEW side, NEW shares, NEW day, RecordTrade(side, shares, day)
      PROVE  UNCHANGED <<rows, today>>
  BY <1>2 DEF RecordTrade
<1>3. ASSUME NEW t, DeleteTrade(t) PROVE UNCHANGED <<rows, today>>
  BY <1>3 DEF DeleteTrade
<1>4. ASSUME NEW shares, NEW day, DeletePosition(shares, day)
      PROVE  UNCHANGED <<rows, today>>
  BY <1>4 DEF DeletePosition
<1>5. ASSUME InsertCorrection PROVE UNCHANGED <<rows, today>>
  BY <1>5 DEF InsertCorrection
<1>6. ASSUME NEW shares, NEW day, RecordOpeningLot(shares, day)
      PROVE  UNCHANGED <<rows, today>>
  BY <1>6 DEF RecordOpeningLot
<1>7. ASSUME NEW lot, NEW shares, NEW day, UpdateOpeningLot(lot, shares, day)
      PROVE  UNCHANGED <<rows, today>>
  BY <1>7 DEF UpdateOpeningLot
<1>8. ASSUME NEW lot, DeleteOpeningLot(lot) PROVE UNCHANGED <<rows, today>>
  BY <1>3, <1>8 DEF DeleteOpeningLot
<1>9. ASSUME NEW file \in Statements, NEW value \in {"real", "zero"},
             ImportStatement(file, value)
      PROVE  RowsInv' /\ DayWrittenOnce' /\ today' = today
  <2>1. rows' = Append(rows, Snapshot(today, "live", value)) /\ today' = today
    BY <1>9 DEF ImportStatement
  <2> QED
    BY <2>1, LiveRow
<1> QED
  BY <1>1, <1>2, <1>3, <1>4, <1>5, <1>6, <1>7, <1>8, <1>9 DEF WriteTrades

-----------------------------------------------------------------------------
(* Runs.                                                                   *)

LEMMA RunFacts ==
  ASSUME HistoryInv, NEW b \in Backfillers
  PROVE  /\ RunOK(run[b], today)
         /\ today \in Nat \ {0}
         /\ run = [a \in Backfillers |-> run[a]]
         /\ progress \in ProgressPhases
  BY DEF HistoryInv, WindowsPast, Phases

LEMMA RestOK ==
  ASSUME NEW now \in Nat \ {0}
  PROVE  RunOK(Rest, now)
<1>1. Rest = [f \in RunFields |-> Rest[f]]
  BY DEF Rest, RunFields
<1>2. Rest.stage = "idle" /\ Rest.window.until = 0 /\ Rest.todo = {}
  BY DEF Rest, NoWindow, Window
<1> QED
  BY <1>1, <1>2 DEF RunOK, RunStages

LEMMA RunLater ==
  ASSUME NEW q, NEW now \in Nat, NEW then \in Nat, now <= then, RunOK(q, now)
  PROVE  RunOK(q, then)
  BY DEF RunOK

(* Shown to be under way: a web task past its marker and not yet finished. *)
UnderWay(q) == q.stage \in {"begun", "valuing", "done"}

(* A step of one backfiller that leaves the rows and the day alone keeps   *)
(* the invariant when its next run q is right and the tracker is told.     *)
LEMMA OneRun ==
  ASSUME HistoryInv, NEW b \in Backfillers, NEW q,
         run' = [run EXCEPT ![b] = q], RunOK(q, today), UNCHANGED <<rows, today>>,
         progress' \in ProgressPhases,
         Shown' =>
           \/ b \in Tasks /\ UnderWay(q)
           \/ Shown /\ (b \in Tasks => ~UnderWay(run[b]))
  PROVE  HistoryInv'
<1>1. run'[b] = q /\ \A a \in Backfillers \ {b} : run'[a] = run[a]
  BY RunFacts
<1>2. WindowsPast'
  <2>1. run' = [a \in Backfillers |-> run'[a]]
    BY RunFacts
  <2>2. \A a \in Backfillers : RunOK(run'[a], today)
    BY <1>1 DEF HistoryInv, WindowsPast
  <2> QED
    BY <2>1, <2>2, RunFacts DEF WindowsPast
<1>3. RowsInv' /\ DayWrittenOnce'
  BY DEF HistoryInv, RowsInv, DayWrittenOnce
<1>4. ProgressHasARun'
  <2> SUFFICES ASSUME Shown'
               PROVE  \E a \in Tasks : UnderWay(run'[a])
    BY DEF ProgressHasARun, UnderWay
  <2>1. Tasks \subseteq Backfillers
    BY DEF Backfillers
  <2>2. CASE b \in Tasks /\ UnderWay(q)
    BY <1>1, <2>2
  <2>3. CASE Shown /\ (b \in Tasks => ~UnderWay(run[b]))
    <3>1. PICK a \in Tasks : UnderWay(run[a])
      BY <2>3 DEF HistoryInv, ProgressHasARun, UnderWay
    <3>2. run'[a] = run[a]
      BY <1>1, <2>1, <2>3, <3>1
    <3> QED
      BY <3>1, <3>2
  <2> QED
    BY <2>2, <2>3
<1> QED
  BY <1>2, <1>3, <1>4 DEF HistoryInv, Phases

LEMMA FinishStep ==
  ASSUME HistoryInv, NEW b \in Backfillers, Finish(b), UNCHANGED <<rows, today>>,
         progress' \in ProgressPhases,
         Shown' => Shown /\ (b \in Tasks => ~UnderWay(run[b]))
  PROVE  HistoryInv'
<1>1. run' = [run EXCEPT ![b] = Rest] /\ RunOK(Rest, today)
  BY RestOK, RunFacts DEF Finish
<1> QED
  BY <1>1, OneRun

LEMMA StartRunStep ==
  ASSUME HistoryInv, NEW b \in Backfillers, StartRun(b)
  PROVE  HistoryInv'
<1> SUFFICES ASSUME NEW q, q = [run[b] EXCEPT !.stage = "starting"]
             PROVE  HistoryInv'
  OBVIOUS
<1>1. run' = [run EXCEPT ![b] = q] /\ UNCHANGED <<rows, today, progress>>
  BY DEF StartRun, ledger
<1>2. /\ q = [f \in RunFields |-> q[f]] /\ q.stage = "starting"
      /\ q.window = run[b].window /\ q.todo = run[b].todo
  BY RunFacts DEF RunOK, RunFields
<1>3. RunOK(q, today)
  BY <1>2, RunFacts DEF RunOK, RunStages
<1>4. ~UnderWay(run[b])
  BY DEF StartRun, UnderWay
<1> QED
  BY <1>1, <1>3, <1>4, OneRun, RunFacts DEF Shown

LEMMA OpenRowsStep ==
  ASSUME HistoryInv, NEW b \in Backfillers, OpenRows(b)
  PROVE  HistoryInv'
<1>1. UNCHANGED <<rows, today, progress>> /\ run[b].stage = "starting"
  BY DEF OpenRows, ledger
<1>2. ~UnderWay(run[b])
  BY <1>1 DEF UnderWay
<1>3. CASE Finish(b)
  BY <1>1, <1>2, <1>3, FinishStep, RunFacts DEF Shown
<1>4. CASE ~Finish(b)
  <2>1. PICK t \in trades :
          run' = [run EXCEPT ![b].stage = "opened", ![b].trades = trades,
                             ![b].window = Window(t.day, today)]
    BY <1>4 DEF OpenRows
  <2> SUFFICES ASSUME NEW q,
                      q = [run[b] EXCEPT !.stage = "opened", !.trades = trades,
                                         !.window = Window(t.day, today)]
               PROVE  HistoryInv'
    OBVIOUS
  <2>2. run' = [run EXCEPT ![b] = q]
    BY <2>1
  <2>3. /\ q = [f \in RunFields |-> q[f]] /\ q.stage = "opened"
        /\ q.window = Window(t.day, today) /\ q.todo = run[b].todo
    BY RunFacts DEF RunOK, RunFields
  <2>4. q.window.until = today
    BY <2>3 DEF Window
  <2>5. RunOK(q, today)
    <3>1. RunOK(run[b], today) /\ today \in Int
      BY RunFacts
    <3>2. \A d \in run[b].todo : d \in Int /\ d < today
      BY <3>1 DEF RunOK
    <3>3. q.window.until \in Int /\ q.window.until <= today
      BY <2>4, <3>1
    <3> QED
      BY <2>3, <3>2, <3>3 DEF RunOK, RunStages
  <2> QED
    BY <1>1, <1>2, <2>2, <2>5, OneRun, RunFacts DEF Shown
<1> QED
  BY <1>3, <1>4

LEMMA ReadMarkerStep ==
  ASSUME HistoryInv, NEW b \in Backfillers, ReadMarker(b)
  PROVE  HistoryInv'
<1>1. UNCHANGED <<rows, today>> /\ run[b].stage = "opened"
  BY DEF ReadMarker, ledger
<1>2. ~UnderWay(run[b])
  BY <1>1 DEF UnderWay
<1>3. CASE Finish(b) /\ UNCHANGED progress
  BY <1>1, <1>2, <1>3, FinishStep, RunFacts DEF Shown
<1>4. CASE run' = [run EXCEPT ![b].stage = "begun"] /\ Begin(b)
  <2> SUFFICES ASSUME NEW q, q = [run[b] EXCEPT !.stage = "begun"]
               PROVE  HistoryInv'
    OBVIOUS
  <2>1. run' = [run EXCEPT ![b] = q]
    BY <1>4
  <2>2. /\ q = [f \in RunFields |-> q[f]] /\ q.stage = "begun"
        /\ q.window = run[b].window /\ q.todo = run[b].todo
    BY RunFacts DEF RunOK, RunFields
  <2>3. RunOK(q, today)
    BY <2>2, RunFacts DEF RunOK, RunStages
  <2>4. progress' = IF b \in Tasks THEN "running" ELSE progress
    BY <1>4 DEF Begin
  <2>5. UnderWay(q)
    BY <2>2 DEF UnderWay
  <2> QED
    <3>1. progress' \in ProgressPhases
      BY <2>4, RunFacts DEF ProgressPhases
    <3>2. Shown' => \/ b \in Tasks /\ UnderWay(q)
                    \/ Shown /\ (b \in Tasks => ~UnderWay(run[b]))
      BY <2>4, <2>5 DEF Shown
    <3> QED
      BY <1>1, <2>1, <2>3, <3>1, <3>2, OneRun
<1> QED
  BY <1>3, <1>4 DEF ReadMarker

LEMMA ReadDatesStep ==
  ASSUME HistoryInv, NEW b \in Backfillers, ReadDates(b)
  PROVE  HistoryInv'
<1> DEFINE missing == {d \in Days :
                         /\ run[b].window.from <= d /\ d < run[b].window.until
                         /\ \A i \in DOMAIN rows : rows[i].day # d
                         /\ HeldOn(run[b].trades, d)}
<1>1. /\ UNCHANGED <<rows, today>> /\ run[b].stage = "begun" /\ Update(b, "running")
      /\ run' = [run EXCEPT ![b].stage = "valuing", ![b].trades = {}, ![b].todo = missing]
  BY DEF ReadDates, ledger
<1>2. \A d \in missing : d \in Int /\ d < run[b].window.until
  BY DEF Days
<1>3. \A d \in missing : d \in Int /\ d < today
  <2> HIDE DEF missing
  <2>1. RunOK(run[b], today) /\ today \in Int
    BY RunFacts
  <2>2. run[b].window.until \in Int /\ run[b].window.until <= today
    BY <2>1 DEF RunOK
  <2> QED
    BY <1>2, <2>1, <2>2
<1> HIDE DEF missing
<1> SUFFICES ASSUME NEW q, q = [run[b] EXCEPT !.stage = "valuing", !.trades = {},
                                              !.todo = missing]
             PROVE  HistoryInv'
  OBVIOUS
<1>4. run' = [run EXCEPT ![b] = q]
  BY <1>1
<1>5. /\ q = [f \in RunFields |-> q[f]] /\ q.stage = "valuing"
      /\ q.window = run[b].window /\ q.todo = missing
  BY RunFacts DEF RunOK, RunFields
<1>6. RunOK(q, today)
  BY <1>3, <1>5, RunFacts DEF RunOK, RunStages
<1>7. /\ progress' \in ProgressPhases
      /\ b \notin Tasks => progress' = progress
  BY <1>1, RunFacts DEF Update, ProgressPhases
<1>8. UnderWay(q)
  BY <1>5 DEF UnderWay
<1>9. Shown' => \/ b \in Tasks /\ UnderWay(q)
                \/ Shown /\ (b \in Tasks => ~UnderWay(run[b]))
  BY <1>7, <1>8 DEF Shown
<1> QED
  BY <1>1, <1>4, <1>6, <1>7, <1>9, OneRun

LEMMA SetMarkerStep ==
  ASSUME HistoryInv, NEW b \in Backfillers, SetMarker(b)
  PROVE  HistoryInv'
<1> SUFFICES ASSUME NEW q, q = [run[b] EXCEPT !.stage = "done"]
             PROVE  HistoryInv'
  OBVIOUS
<1>1. run' = [run EXCEPT ![b] = q] /\ UNCHANGED <<rows, today, progress>>
  BY DEF SetMarker, ledger
<1>2. /\ q = [f \in RunFields |-> q[f]] /\ q.stage = "done"
      /\ q.window = run[b].window /\ q.todo = run[b].todo
  BY RunFacts DEF RunOK, RunFields
<1>3. RunOK(q, today)
  BY <1>2, RunFacts DEF RunOK, RunStages
<1>4. UnderWay(q)
  BY <1>2 DEF UnderWay
<1> QED
  BY <1>1, <1>3, <1>4, OneRun, RunFacts DEF Shown

LEMMA CompleteStep ==
  ASSUME HistoryInv, NEW b \in Backfillers, Complete(b)
  PROVE  HistoryInv'
<1>1. Finish(b) /\ UNCHANGED <<rows, today>> /\ Update(b, "done")
  BY DEF Complete, ledger
<1>2. /\ progress' \in ProgressPhases
      /\ Shown' => Shown /\ b \notin Tasks
  BY <1>1, RunFacts DEF Update, ProgressPhases, Shown
<1> QED
  BY <1>1, <1>2, FinishStep

LEMMA FailRunStep ==
  ASSUME HistoryInv, NEW b \in Backfillers, FailRun(b)
  PROVE  HistoryInv'
<1>1. Finish(b) /\ UNCHANGED <<rows, today>> /\ Update(b, "failed")
  BY DEF FailRun, ledger
<1>2. /\ progress' \in ProgressPhases
      /\ Shown' => Shown /\ b \notin Tasks
  BY <1>1, RunFacts DEF Update, ProgressPhases, Shown
<1> QED
  BY <1>1, <1>2, FinishStep

(* The next missing day is filled in, unless another run was faster.       *)
LEMMA ValueDayStep ==
  ASSUME HistoryInv, NEW b \in Backfillers, ValueDay(b)
  PROVE  HistoryInv'
<1>1. PICK d \in run[b].todo :
        rows' = Appended(d) /\ run' = [run EXCEPT ![b].todo = @ \ {d}]
  BY DEF ValueDay
<1>2. run[b].stage = "valuing" /\ today' = today /\ progress' = progress
  BY DEF ValueDay, Accounts
<1>3. d \in Int /\ d < today
  BY RunFacts DEF RunOK
<1>4. RowsInv' /\ DayWrittenOnce'
  <2>1. CASE \E i \in DOMAIN rows : rows[i].day = d
    <3>1. rows' = rows
      BY <1>1, <2>1 DEF Appended
    <3> QED
      BY <1>2, <3>1 DEF HistoryInv, RowsInv, DayWrittenOnce
  <2>2. CASE \A i \in DOMAIN rows : rows[i].day # d
    <3> SUFFICES ASSUME NEW row, row = Snapshot(d, "backfilled", "real")
                 PROVE  RowsInv' /\ DayWrittenOnce'
      OBVIOUS
    <3>1. rows' = Append(rows, row)
      BY <1>1, <2>2 DEF Appended
    <3>2. row \in SnapshotRows /\ row.day = d
      BY <1>3 DEF Snapshot, SnapshotRows
    <3>3. row.day <= today /\ row.day < today /\ today \in Int
      BY <1>3, <3>2, RunFacts
    <3> QED
      BY <1>2, <2>2, <3>1, <3>2, <3>3, RowAppended DEF HistoryInv
  <2> QED
    BY <2>1, <2>2
<1> SUFFICES ASSUME NEW q, q = [run[b] EXCEPT !.todo = @ \ {d}]
             PROVE  HistoryInv'
  OBVIOUS
<1>5. run' = [run EXCEPT ![b] = q]
  BY <1>1
<1>6. /\ q = [f \in RunFields |-> q[f]] /\ q.stage = run[b].stage
      /\ q.window = run[b].window /\ q.todo = run[b].todo \ {d}
  BY RunFacts DEF RunOK, RunFields
<1>7. RunOK(q, today)
  BY <1>6, RunFacts DEF RunOK
<1>8. run'[b] = q /\ \A a \in Backfillers \ {b} : run'[a] = run[a]
  BY <1>5, RunFacts
<1>9. run' = [a \in Backfillers |-> run'[a]]
  BY <1>5, RunFacts
<1>10. \A a \in Backfillers : RunOK(run'[a], today) /\ run'[a].stage = run[a].stage
  BY <1>6, <1>7, <1>8 DEF HistoryInv, WindowsPast
<1>11. WindowsPast'
  BY <1>2, <1>9, <1>10, RunFacts DEF WindowsPast
<1>12. ProgressHasARun'
  BY <1>2, <1>10 DEF HistoryInv, ProgressHasARun, Backfillers, Shown
<1> QED
  BY <1>2, <1>4, <1>11, <1>12 DEF HistoryInv, Phases

-----------------------------------------------------------------------------
(* The steps of the others, and the theorems.                              *)

(* A step that writes rows or ends the day and touches no run.             *)
LEMMA OtherStep ==
  ASSUME HistoryInv, today' \in Nat, today <= today', UNCHANGED run,
         progress' \in ProgressPhases,
         Shown' => Shown,
         RowsInv', DayWrittenOnce'
  PROVE  HistoryInv'
<1>1. today \in Nat \ {0}
  BY DEF HistoryInv, WindowsPast
<1>2. \A b \in Backfillers : RunOK(run[b], today')
  BY <1>1, RunLater DEF HistoryInv, WindowsPast
<1>3. WindowsPast'
  BY <1>1, <1>2 DEF HistoryInv, WindowsPast
<1>4. ProgressHasARun'
  BY DEF HistoryInv, ProgressHasARun
<1> QED
  BY <1>3, <1>4 DEF HistoryInv, Phases

LEMMA WebRestartStep ==
  ASSUME HistoryInv, WebRestart
  PROVE  HistoryInv'
<1>1. /\ run' = [b \in Backfillers |-> IF b \in Tasks THEN Rest ELSE run[b]]
      /\ progress' = "none" /\ rows' = rows /\ today' = today
  BY DEF WebRestart
<1>2. today \in Nat \ {0} /\ \A b \in Backfillers : RunOK(run[b], today)
  BY DEF HistoryInv, WindowsPast
<1>3. \A b \in Backfillers : RunOK(run'[b], today)
  BY <1>1, <1>2, RestOK
<1>4. WindowsPast'
  BY <1>1, <1>2, <1>3 DEF WindowsPast
<1>5. RowsInv' /\ DayWrittenOnce'
  BY <1>1 DEF HistoryInv, RowsInv, DayWrittenOnce
<1> QED
  BY <1>1, <1>4, <1>5 DEF HistoryInv, Phases, ProgressHasARun, ProgressPhases, Shown

LEMMA RepairRowStep ==
  ASSUME HistoryInv, NEW i \in DOMAIN rows, RepairRow(i)
  PROVE  HistoryInv'
<1>1. /\ rows' = [rows EXCEPT ![i].value = "real"] /\ today' = today
      /\ run' = run /\ progress' = progress
  BY DEF RepairRow, Accounts, history
<1>2. rows \in Seq(SnapshotRows) /\ today \in Nat \ {0}
  BY DEF HistoryInv, RowsInv, WindowsPast
<1>3. rows[i] \in SnapshotRows
  BY <1>2
<1>4. [rows[i] EXCEPT !.value = "real"] \in SnapshotRows
  BY <1>3 DEF SnapshotRows
<1>5. rows' \in Seq(SnapshotRows) /\ DOMAIN rows' = DOMAIN rows
  BY <1>1, <1>2, <1>4
<1>6. \A k \in DOMAIN rows : rows'[k].day = rows[k].day /\ rows'[k].kind = rows[k].kind
  <2> SUFFICES ASSUME NEW k \in DOMAIN rows
               PROVE  rows'[k].day = rows[k].day /\ rows'[k].kind = rows[k].kind
    OBVIOUS
  <2>1. rows[k] \in SnapshotRows
    BY <1>2
  <2>2. CASE k = i
    BY <1>1, <1>2, <2>1, <2>2 DEF SnapshotRows
  <2>3. CASE k # i
    BY <1>1, <1>2, <2>3
  <2> QED
    BY <2>2, <2>3
<1>7. RowsInv' /\ DayWrittenOnce'
  BY <1>1, <1>5, <1>6 DEF HistoryInv, RowsInv, DayWrittenOnce
<1> QED
  BY <1>1, <1>2, <1>7, OtherStep DEF HistoryInv, Phases, Shown, ProgressPhases

LEMMA HistoryInvStep ==
  ASSUME HistoryInv, [HistoryNext]_<<ledger, history>>
  PROVE  HistoryInv'
<1>1. today \in Nat \ {0} /\ progress \in ProgressPhases
  BY DEF HistoryInv, WindowsPast, Phases
<1>2. CASE WriteTrades /\ UNCHANGED history
  <2>1. RowsInv' /\ DayWrittenOnce' /\ today' = today
    BY <1>1, <1>2, WriteTradesRows DEF HistoryInv
  <2> QED
    BY <1>1, <1>2, <2>1, OtherStep DEF history, Shown, ProgressPhases
<1>3. ASSUME NEW stamp, NEW value \in {"real", "none"}, UpdatePortfolioSnapshot(stamp, value),
             UNCHANGED history
      PROVE  HistoryInv'
  <2>1. /\ stamp \in {today - 1, today} /\ today' = today
        /\ rows' = Append(rows, Snapshot(stamp, IF stamp = today THEN "live" ELSE "late", value))
    BY <1>3 DEF UpdatePortfolioSnapshot
  <2>2. RowsInv' /\ DayWrittenOnce'
    BY <1>1, <2>1, LiveRow DEF HistoryInv
  <2> QED
    BY <1>1, <1>3, <2>1, <2>2, OtherStep DEF history, Shown, ProgressPhases
<1>4. ASSUME NEW b \in Backfillers, Backfill(b)
      PROVE  HistoryInv'
  BY <1>4, StartRunStep, OpenRowsStep, ReadMarkerStep, ReadDatesStep, ValueDayStep,
     SetMarkerStep, CompleteStep DEF Backfill
<1>5. ASSUME NEW b \in Backfillers, FailRun(b)
      PROVE  HistoryInv'
  BY <1>5, FailRunStep
<1>6. CASE Evict
  <2>1. UNCHANGED <<rows, today, run>> /\ progress' = "none"
    BY <1>6 DEF Evict, ledger
  <2>2. RowsInv' /\ DayWrittenOnce'
    BY <2>1 DEF HistoryInv, RowsInv, DayWrittenOnce
  <2> QED
    BY <1>1, <2>1, <2>2, OtherStep DEF Shown, ProgressPhases
<1>7. CASE WebRestart
  BY <1>7, WebRestartStep
<1>8. CASE Tomorrow
  <2>1. today' = today + 1 /\ UNCHANGED <<rows, run, progress>>
    BY <1>8 DEF Tomorrow, history
  <2>2. RowsInv'
    BY <1>1, <2>1, RowsLater DEF HistoryInv
  <2>3. DayWrittenOnce'
    BY <2>1 DEF HistoryInv, DayWrittenOnce
  <2> QED
    BY <1>1, <2>1, <2>2, <2>3, OtherStep DEF Shown, ProgressPhases
<1>9. ASSUME NEW i \in DOMAIN rows, RepairRow(i)
      PROVE  HistoryInv'
  BY <1>9, RepairRowStep
<1>10. CASE UNCHANGED <<ledger, history>>
  <2>1. UNCHANGED <<rows, today, run, progress>>
    BY <1>10 DEF ledger, history
  <2>2. RowsInv' /\ DayWrittenOnce'
    BY <2>1 DEF HistoryInv, RowsInv, DayWrittenOnce
  <2> QED
    BY <1>1, <2>1, <2>2, OtherStep DEF Shown, ProgressPhases
<1> QED
  BY <1>2, <1>3, <1>4, <1>5, <1>6, <1>7, <1>8, <1>9, <1>10 DEF HistoryNext

LEMMA HistoryInvInit ==
  ASSUME HistoryInit
  PROVE  HistoryInv
<1>1. /\ rows = <<>> /\ today = 1 /\ progress = "none"
      /\ run = [b \in Backfillers |-> Rest]
  BY DEF HistoryInit, LedgerInit
<1>2. WindowsPast
  BY <1>1, RestOK DEF WindowsPast
<1>3. RowsInv
  BY <1>1 DEF RowsInv
<1> QED
  BY <1>1, <1>2, <1>3 DEF HistoryInv, Phases, DayWrittenOnce, ProgressHasARun, ProgressPhases, Shown

LEMMA HistoryInvariant == HistorySpec => []HistoryInv
<1>1. HistoryInit => HistoryInv
  BY HistoryInvInit
<1>2. HistoryInv /\ [HistoryNext]_<<ledger, history>> => HistoryInv'
  BY HistoryInvStep
<1> QED
  BY <1>1, <1>2, PTL DEF HistorySpec

(* Every run of SnapshotBackfillService keeps its shape and only ever has  *)
(* days before the present one to fill in.                                 *)
THEOREM HistoryTypeCorrect == HistorySpec => []HistoryTypeOK
<1>1. HistoryInv => HistoryTypeOK
  BY DEF HistoryInv, Phases, WindowsPast, RunOK, RunStages, HistoryTypeOK, ProgressPhases
<1> QED
  BY <1>1, HistoryInvariant, PTL

(* However many runs overlap, and whatever the live writer, the imports    *)
(* and the repair pass write meanwhile, append_daily_value_if_absent never *)
(* gives a filled-in day a second row.                                     *)
THEOREM DaysAreWrittenOnce == HistorySpec => []DayWrittenOnce
<1>1. HistoryInv => DayWrittenOnce
  BY DEF HistoryInv
<1> QED
  BY <1>1, HistoryInvariant, PTL

(* The tracker's "running" never outlives the runs it speaks of.           *)
THEOREM ProgressAlwaysHasARun == HistorySpec => []ProgressHasARun
<1>1. HistoryInv => ProgressHasARun
  BY DEF HistoryInv
<1> QED
  BY <1>1, HistoryInvariant, PTL

-----------------------------------------------------------------------------
(* The cash balance.                                                       *)

Receipts == [name : {file.name : file \in Statements}, inserted : SUBSET Keys]
Amounts ==
  [of : {"opening"} \cup {file.name : file \in Statements}, asof : Nat, added : [Keys -> Nat]]

Stated(i) == Imported(i).balance = "stated"

(* The balance is that of import i and of the rows written after it.       *)
Follows(i) == cash.of = receipts[i].name /\ cash.asof = Imported(i).asof /\ MadeOf(i)

CashInv ==
  /\ receipts \in Seq(Receipts) /\ cash \in Amounts
  /\ (\A i \in DOMAIN receipts : ~Stated(i)) =>
       cash.of = "opening" /\ cash.asof = 0 /\ MadeOf(0)
  /\ (\E i \in DOMAIN receipts : Stated(i)) =>
       \E i \in DOMAIN receipts : HasLastWord(i) /\ Follows(i)

LEMMA NamesOne ==
  ASSUME NEW file \in Statements
  PROVE  StatementNamed(file.name) = file
  BY LedgerAssumption DEF StatementNamed

LEMMA ImportedFile ==
  ASSUME CashInv, NEW i \in DOMAIN receipts
  PROVE  Imported(i) \in Statements /\ Imported(i).asof \in Nat
<1>1. receipts[i] \in Receipts
  BY DEF CashInv
<1>2. PICK file \in Statements : receipts[i].name = file.name
  BY <1>1 DEF Receipts
<1> QED
  BY <1>2, NamesOne, LedgerAssumption DEF Imported

(* The receipt of one more import.                                         *)
Committed(file, receipt) ==
  /\ receipt \in Receipts /\ receipt.name = file.name
  /\ receipts' = Append(receipts, receipt)

LEMMA NewReceipt ==
  ASSUME CashInv, NEW file \in Statements, NEW receipt, Committed(file, receipt),
         NEW n, n = Len(receipts)
  PROVE  /\ n \in Nat /\ DOMAIN receipts = 1 .. n /\ DOMAIN receipts' = 1 .. n + 1
         /\ receipts' \in Seq(Receipts) /\ receipts'[n + 1] = receipt
         /\ Imported(n + 1)' = file
         /\ \A k \in 1 .. n : receipts'[k] = receipts[k] /\ Imported(k)' = Imported(k)
<1>1. receipts \in Seq(Receipts) /\ receipt \in Receipts /\ receipts' = Append(receipts, receipt)
  BY DEF CashInv, Committed
<1>2. /\ n \in Nat /\ DOMAIN receipts = 1 .. n /\ DOMAIN receipts' = 1 .. n + 1
      /\ receipts' \in Seq(Receipts) /\ receipts'[n + 1] = receipt
      /\ \A k \in 1 .. n : receipts'[k] = receipts[k]
  BY <1>1
<1>3. Imported(n + 1)' = file
  BY <1>2, NamesOne DEF Imported, Committed
<1>4. \A k \in 1 .. n : Imported(k)' = Imported(k)
  BY <1>2 DEF Imported
<1> QED
  BY <1>2, <1>3, <1>4

(* It adds one to what was written of its rows, when it is a file of       *)
(* deltas, and nothing was written after it.                               *)
LEMMA NewlyWritten ==
  ASSUME CashInv, NEW file \in Statements, NEW receipt, Committed(file, receipt),
         NEW n, n = Len(receipts), NEW key \in Keys
  PROVE  /\ Written(key, n + 1)' = 0
         /\ \A i \in 0 .. n :
              /\ Written(key, i) \in Nat
              /\ Written(key, i)' = IF file.balance = "deltas" /\ key \in receipt.inserted
                                    THEN Written(key, i) + 1 ELSE Written(key, i)
<1>1. /\ n \in Nat /\ DOMAIN receipts = 1 .. n /\ DOMAIN receipts' = 1 .. n + 1
      /\ receipts'[n + 1] = receipt /\ Imported(n + 1)' = file
      /\ \A k \in 1 .. n : receipts'[k] = receipts[k] /\ Imported(k)' = Imported(k)
  BY NewReceipt
<1> DEFINE By(k) == Imported(k).balance = "deltas" /\ key \in receipts[k].inserted
           after(i) == {k \in DOMAIN receipts : k > i /\ By(k)}
           Later(i) == {k \in 1 .. n + 1 : k > i /\ By(k)'}
<1>2. \A k \in 1 .. n : By(k)' <=> By(k)
  BY <1>1
<1>3. By(n + 1)' <=> file.balance = "deltas" /\ key \in receipt.inserted
  BY <1>1
<1>4. \A i : Written(key, i) = Cardinality(after(i)) /\ Written(key, i)' = Cardinality(Later(i))
  <2>1. \A i : after(i) = {k \in DOMAIN receipts : k > i /\ Imported(k).balance = "deltas"
                                                  /\ key \in receipts[k].inserted}
    OBVIOUS
  <2>2. \A i : Later(i) = {k \in DOMAIN receipts' : k > i /\ Imported(k)'.balance = "deltas"
                                                  /\ key \in receipts'[k].inserted}
    BY <1>1
  <2> QED
    BY <2>1, <2>2 DEF Written
<1>5. Written(key, n + 1)' = 0
  <2>1. Later(n + 1) = {}
    BY <1>1
  <2> QED
    BY <2>1, <1>4, FS_EmptySet
<1>6. ASSUME NEW i \in 0 .. n
      PROVE  /\ Written(key, i) \in Nat
             /\ Written(key, i)' = IF file.balance = "deltas" /\ key \in receipt.inserted
                                   THEN Written(key, i) + 1 ELSE Written(key, i)
  <2>1. IsFiniteSet(after(i)) /\ Cardinality(after(i)) \in Nat /\ n + 1 \notin after(i)
    <3>1. IsFiniteSet(1 .. n)
      BY <1>1, FS_Interval
    <3>2. after(i) \subseteq 1 .. n /\ n + 1 \notin 1 .. n
      BY <1>1
    <3> HIDE DEF after
    <3>3. IsFiniteSet(after(i))
      BY <3>1, <3>2, FS_Subset
    <3> QED
      BY <3>2, <3>3, FS_CardinalityType
  <2>2. CASE file.balance = "deltas" /\ key \in receipt.inserted
    <3>1. Later(i) = after(i) \cup {n + 1}
      BY <2>2, <1>1, <1>2, <1>3
    <3> HIDE DEF after, Later
    <3>2. Cardinality(after(i) \cup {n + 1}) = Cardinality(after(i)) + 1
      BY <2>1, FS_AddElement
    <3> QED
      BY <2>1, <2>2, <3>1, <3>2, <1>4
  <2>3. CASE ~(file.balance = "deltas" /\ key \in receipt.inserted)
    <3>1. Later(i) = after(i)
      BY <2>3, <1>1, <1>2, <1>3
    <3> HIDE DEF after, Later
    <3> QED
      BY <2>1, <2>3, <3>1, <1>4
  <2> QED
    BY <2>2, <2>3
<1> QED
  BY <1>5, <1>6

(* An import that does not set the balance adds what it wrote, and the      *)
(* last word stays where it was.                                           *)
LEMMA BalanceStays ==
  ASSUME CashInv, NEW file \in Statements, NEW receipt, Committed(file, receipt),
         cash' \in Amounts, cash'.of = cash.of, cash'.asof = cash.asof,
         \A key \in Keys : cash'.added[key] =
            IF file.balance = "deltas" /\ key \in receipt.inserted
            THEN cash.added[key] + 1 ELSE cash.added[key],
         file.balance = "stated" => cash.asof # 0 /\ file.asof < cash.asof
  PROVE  CashInv'
<1>0. PICK n : n = Len(receipts)
  OBVIOUS
<1>1. /\ n \in Nat /\ DOMAIN receipts = 1 .. n /\ DOMAIN receipts' = 1 .. n + 1
      /\ receipts' \in Seq(Receipts) /\ Imported(n + 1)' = file
      /\ \A k \in 1 .. n : receipts'[k] = receipts[k] /\ Imported(k)' = Imported(k)
  BY <1>0, NewReceipt
<1>2. \A i \in 0 .. n : MadeOf(i) => MadeOf(i)'
  <2> SUFFICES ASSUME NEW i \in 0 .. n, MadeOf(i), NEW key \in Keys
               PROVE  cash'.added[key] = Written(key, i)'
    BY DEF MadeOf
  <2>1. cash.added[key] = Written(key, i)
    BY DEF MadeOf
  <2> QED
    BY <2>1, <1>0, NewlyWritten
<1>3. CASE \A i \in DOMAIN receipts : ~Stated(i)
  <2>1. cash.of = "opening" /\ cash.asof = 0 /\ MadeOf(0)
    BY <1>3 DEF CashInv
  <2>2. file.balance # "stated"
    BY <2>1
  <2>3. \A i \in DOMAIN receipts' : ~Stated(i)'
    BY <1>1, <1>3, <2>2 DEF Stated
  <2>4. MadeOf(0)'
    BY <1>1, <1>2, <2>1
  <2> QED
    BY <1>1, <2>1, <2>3, <2>4 DEF CashInv
<1>4. CASE \E i \in DOMAIN receipts : Stated(i)
  <2>1. PICK i \in 1 .. n : HasLastWord(i) /\ Follows(i)
    BY <1>1, <1>4 DEF CashInv
  <2>2. Follows(i)'
    BY <1>1, <1>2, <2>1 DEF Follows
  <2>3. Stated(i)' /\ i \in DOMAIN receipts'
    BY <1>1, <2>1 DEF Stated, HasLastWord
  <2>4. HasLastWord(i)'
    <3> SUFFICES ASSUME NEW k \in 1 .. n + 1, Imported(k)'.balance = "stated"
                 PROVE  \/ Imported(k)'.asof < Imported(i)'.asof
                        \/ Imported(k)'.asof = Imported(i)'.asof /\ k <= i
      BY <1>1, <2>3 DEF HasLastWord, Stated
    <3>1. CASE k \in 1 .. n
      BY <3>1, <1>1, <2>1 DEF HasLastWord
    <3>2. CASE k = n + 1
      BY <3>2, <1>1, <2>1 DEF Follows
    <3> QED
      BY <1>1, <3>1, <3>2
  <2> QED
    BY <1>1, <2>2, <2>3, <2>4 DEF CashInv
<1> QED
  BY <1>3, <1>4

(* A statement that sets the balance is the newest.                        *)
LEMMA BalanceSet ==
  ASSUME CashInv, NEW file \in Statements, NEW receipt, Committed(file, receipt),
         file.balance = "stated", Newer(file.asof),
         cash' = [of |-> file.name, asof |-> file.asof, added |-> NoRows]
  PROVE  CashInv'
<1>0. PICK n : n = Len(receipts)
  OBVIOUS
<1>1. /\ n \in Nat /\ DOMAIN receipts = 1 .. n /\ DOMAIN receipts' = 1 .. n + 1
      /\ receipts' \in Seq(Receipts) /\ receipts'[n + 1] = receipt /\ Imported(n + 1)' = file
      /\ \A k \in 1 .. n : receipts'[k] = receipts[k] /\ Imported(k)' = Imported(k)
  BY <1>0, NewReceipt
<1>2. file.asof \in Nat /\ cash' \in Amounts
  BY LedgerAssumption DEF Amounts, NoRows
<1>3. \A k \in 1 .. n : Imported(k).asof \in Nat
  BY <1>1, ImportedFile
<1>4. ASSUME NEW k \in 1 .. n, Stated(k) PROVE Imported(k).asof <= file.asof
  <2>1. PICK i \in 1 .. n : HasLastWord(i) /\ Follows(i)
    BY <1>1, <1>4 DEF CashInv
  <2>2. Imported(k).asof < Imported(i).asof \/ Imported(k).asof = Imported(i).asof
    BY <1>1, <1>4, <2>1 DEF HasLastWord, Stated
  <2>3. Imported(i).asof = 0 \/ Imported(i).asof <= file.asof
    BY <2>1 DEF Follows, Newer
  <2> QED
    BY <1>2, <1>3, <2>2, <2>3
<1>5. HasLastWord(n + 1)'
  <2> SUFFICES ASSUME NEW k \in 1 .. n + 1, Imported(k)'.balance = "stated"
               PROVE  \/ Imported(k)'.asof < Imported(n + 1)'.asof
                      \/ Imported(k)'.asof = Imported(n + 1)'.asof /\ k <= n + 1
    BY <1>1 DEF HasLastWord
  <2>1. CASE k \in 1 .. n
    BY <2>1, <1>1, <1>2, <1>3, <1>4 DEF Stated
  <2>2. CASE k = n + 1
    BY <2>2, <1>1
  <2> QED
    BY <1>1, <2>1, <2>2
<1>6. MadeOf(n + 1)'
  BY <1>0, NewlyWritten DEF MadeOf, NoRows
<1>7. Follows(n + 1)' /\ Stated(n + 1)' /\ n + 1 \in DOMAIN receipts'
  BY <1>1, <1>6 DEF Follows, Stated, Committed
<1> QED
  BY <1>1, <1>2, <1>5, <1>7 DEF CashInv

LEMMA ImportKeepsCash ==
  ASSUME CashInv, NEW file \in Statements, NEW value, ImportStatement(file, value)
  PROVE  CashInv'
<1> DEFINE receipt == [name |-> file.name, inserted |-> {r.key : r \in Fresh(file)}]
<1>1. cash' = CashAfter(file, Fresh(file)) /\ receipts' = Append(receipts, receipt)
  BY DEF ImportStatement
<1>2. Committed(file, receipt)
  <2>1. \A r \in Fresh(file) : r.key \in Keys
    BY DEF Fresh, Keys
  <2> QED
    BY <1>1, <2>1 DEF Committed, Receipts
<1>3. \A k : k \in receipt.inserted <=> \E r \in Fresh(file) : r.key = k
  OBVIOUS
<1>4. receipt.inserted = {r.key : r \in Fresh(file)}
  OBVIOUS
<1>5. cash \in Amounts /\ cash.asof \in Nat /\ file.asof \in Nat /\ cash.added \in [Keys -> Nat]
  BY LedgerAssumption DEF CashInv, Amounts
<1> HIDE DEF receipt
<1>6. CASE file.balance = "stated" /\ Newer(file.asof)
  BY <1>1, <1>2, <1>6, BalanceSet DEF CashAfter
<1>7. CASE file.balance = "deltas"
  <2>1. cash' = WithRows(Fresh(file))
    BY <1>1, <1>7 DEF CashAfter
  <2>2. /\ cash'.of = cash.of /\ cash'.asof = cash.asof
        /\ cash'.added = [k \in Keys |-> IF \E r \in Fresh(file) : r.key = k
                                         THEN cash.added[k] + 1 ELSE cash.added[k]]
    BY <2>1, <1>5 DEF WithRows, Amounts
  <2>3. \A key \in Keys : cash'.added[key] =
          IF key \in receipt.inserted THEN cash.added[key] + 1 ELSE cash.added[key]
    BY <2>2, <1>3
  <2>4. cash' \in Amounts
    <3>1. cash'.added \in [Keys -> Nat]
      BY <2>2, <1>5
    <3> QED
      BY <2>1, <3>1, <1>5 DEF WithRows, Amounts
  <2> QED
    BY <1>2, <1>7, <2>2, <2>3, <2>4, BalanceStays
<1>8. CASE ~(file.balance = "stated" /\ Newer(file.asof)) /\ file.balance # "deltas"
  <2>1. cash' = cash
    BY <1>1, <1>8 DEF CashAfter
  <2>2. file.balance = "stated" => cash.asof # 0 /\ file.asof < cash.asof
    BY <1>5, <1>8 DEF Newer
  <2> QED
    BY <1>2, <1>5, <1>8, <2>1, <2>2, BalanceStays
<1> QED
  BY <1>6, <1>7, <1>8

LEMMA QuietCash ==
  ASSUME CashInv, UNCHANGED <<cash, receipts>>
  PROVE  CashInv'
<1>1. \A i : Imported(i)' = Imported(i)
  BY DEF Imported
<1>2. \A i, key : Written(key, i)' = Written(key, i)
  BY <1>1 DEF Written
<1>3. \A i : MadeOf(i)' <=> MadeOf(i)
  BY <1>2 DEF MadeOf
<1>4. \A i : /\ HasLastWord(i)' <=> HasLastWord(i)
             /\ Follows(i)' <=> Follows(i)
             /\ Stated(i)' <=> Stated(i)
  BY <1>1, <1>3 DEF HasLastWord, Follows, Stated
<1> QED
  BY <1>3, <1>4 DEF CashInv

LEMMA CashInvStep ==
  ASSUME CashInv, [HistoryNext]_<<ledger, history>>
  PROVE  CashInv'
<1>1. ASSUME NEW file \in Statements, NEW value, ImportStatement(file, value) PROVE CashInv'
  BY <1>1, ImportKeepsCash
<1>2. CASE WriteTrades
  BY <1>1, <1>2, QuietCash DEF WriteTrades, RecordTrade, DeleteTrade, DeletePosition,
     InsertCorrection, RecordOpeningLot, UpdateOpeningLot, DeleteOpeningLot
<1>3. ASSUME NEW stamp, NEW value, UpdatePortfolioSnapshot(stamp, value) PROVE CashInv'
  BY <1>3, QuietCash DEF UpdatePortfolioSnapshot
<1>4. ASSUME NEW b \in Backfillers, Backfill(b) \/ FailRun(b) PROVE CashInv'
  BY <1>4, QuietCash DEF Backfill, StartRun, OpenRows, ReadMarker, ReadDates, ValueDay,
     SetMarker, Complete, FailRun, ledger, Accounts
<1>5. CASE Evict \/ WebRestart \/ Tomorrow \/ UNCHANGED <<ledger, history>>
  BY <1>5, QuietCash DEF Evict, WebRestart, Tomorrow, ledger
<1>6. ASSUME NEW i, RepairRow(i) PROVE CashInv'
  BY <1>6, QuietCash DEF RepairRow, Accounts
<1> QED
  BY <1>2, <1>3, <1>4, <1>5, <1>6 DEF HistoryNext

(* Whatever files are imported, in whatever order, with balances of a day, *)
(* of none, missing or never stated, and whatever is written between them, *)
(* the cash is the newest balance stated and every row a file of deltas    *)
(* has written since, as often as it did: _apply_import_cash_balance never *)
(* goes back and _apply_import_cash_balance_delta never drops a row.       *)
THEOREM CashAlwaysFollowsNewest == HistorySpec => []CashFollowsNewest
<1>1. HistoryInit => CashInv
  <2> SUFFICES ASSUME HistoryInit PROVE CashInv
    OBVIOUS
  <2>1. receipts = <<>> /\ cash = Opening
    BY DEF HistoryInit, LedgerInit
  <2>2. cash \in Amounts /\ receipts \in Seq(Receipts) /\ DOMAIN receipts = {}
    BY <2>1 DEF Opening, NoRows, Amounts
  <2>3. MadeOf(0)
    <3> SUFFICES ASSUME NEW key \in Keys PROVE cash.added[key] = Written(key, 0)
      BY DEF MadeOf
    <3>1. Written(key, 0) = Cardinality({})
      BY <2>2 DEF Written
    <3>2. Written(key, 0) = 0
      BY <3>1, FS_EmptySet
    <3> QED
      BY <2>1, <3>2 DEF Opening, NoRows
  <2> QED
    BY <2>1, <2>2, <2>3 DEF CashInv, Opening
<1>2. CashInv => CashFollowsNewest
  <2> SUFFICES ASSUME CashInv, NEW i \in DOMAIN receipts, HasLastWord(i)
               PROVE  Follows(i)
    BY DEF CashInv, CashFollowsNewest, Follows, Stated
  <2>1. PICK k \in DOMAIN receipts : HasLastWord(k) /\ Follows(k)
    BY DEF CashInv, HasLastWord, Stated
  <2>2. k = i
    <3>1. Imported(k).asof \in Nat /\ Imported(i).asof \in Nat
      BY ImportedFile
    <3>2. k \in Nat /\ i \in Nat
      BY DEF CashInv
    <3> QED
      BY <2>1, <3>1, <3>2 DEF HasLastWord
  <2> QED
    BY <2>1, <2>2
<1> QED
  BY <1>1, <1>2, CashInvStep, PTL DEF HistorySpec

=============================================================================
