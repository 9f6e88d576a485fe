---------------------------- MODULE RealisedPnl ----------------------------
(***************************************************************************)
(* RealisedPnlService.compute_summary beside the routes that write trades. *)
(* A summary is kept in memory under the trade revision and the revision   *)
(* of the shared inputs (here the historical FX rates) read before it was  *)
(* computed; it is stored only if both read the same afterwards.  Readers  *)
(* are page views on worker threads, and the acknowledgement toggle, which *)
(* runs on the event loop.  The ticker trades in a foreign currency, so    *)
(* each round trip needs the rate of its two days.                         *)
(***************************************************************************)
EXTENDS TradeLedger

CONSTANTS
  CacheLimit  \* summaries kept (_CACHE_LIMIT)

ASSUME PnlAssumption == {Free, "correct"} \cap Threads = {}

VARIABLES
  rates,   \* fx_rate_cache: the days with a row, and whether it is a rate
  inputs,  \* realised_pnl_input_revision
  cache,   \* _summary_cache: a set of [rev, inp, summary]
  reader   \* per thread, one call of compute_summary

pnl == <<rates, inputs, cache, reader>>

Absent == "absent"
Rate == "rate"
Invalid == "invalid"   \* the -1.0 kept for a day that could not be resolved
NoTarget == 0

NoRates == [d \in Days |-> Absent]
NoSummary == [trips |-> {}, unmatched |-> <<>>, mismatched |-> FALSE]

(* stage: what the call does next.  target: the sell whose acknowledgement *)
(* is toggled, NoTarget for a page view.  left: computations still to try. *)
Idle ==
  [stage |-> "idle", target |-> NoTarget, left |-> 0, rev |-> 0, inp |-> 0,
   seen |-> 0, trades |-> {}, rates |-> NoRates,
   summary |-> NoSummary, acked |-> FALSE]

(* The days whose rate the round trips of these trades need and lack.      *)
Needed(ts) == UNION {{p.entry, p.exit} : p \in ReplayFifo(ts).trips}

Missing(ts, fx) == {d \in Days : d \in Needed(ts) /\ fx[d] = Absent}

(* What _compute_summary_uncached makes of the trades, the rates and, read *)
(* last, the positions.                                                    *)
SummaryOf(ts, fx, positions) ==
  LET book == ReplayFifo(ts)
  IN  [trips      |-> {[trip |-> p, resolved |-> fx[p.entry] = Rate /\ fx[p.exit] = Rate] :
                         p \in book.trips},
       unmatched  |-> book.unmatched,
       mismatched |-> FifoNet(book) # NetShares(positions)]

Cached(rev, inp) == {e \in cache : e.rev = rev /\ e.inp = inp}

(* A summary reaches its caller.  A toggle that finds its sell among the   *)
(* unmatched ones goes on to write the opposite of what the summary says.  *)
Deliver(r, summary) ==
  LET found == {u \in Range(summary.unmatched) :
                  reader[r].target # NoTarget /\ u.id = reader[r].target}
  IN  IF found = {}
      THEN /\ reader' = [reader EXCEPT ![r] = Idle]
           /\ loop' = IF loop = r THEN Free ELSE loop
      ELSE /\ \E u \in found :
                reader' = [reader EXCEPT ![r] = [Idle EXCEPT !.stage = "ack",
                             !.target = u.id, !.acked = ~u.acked]]
           /\ UNCHANGED loop

Books == <<trades, lastId, revision, cash, receipts, rows, pending, today>>

(* GET /partials/realised-pnl: reads the trade revision.                   *)
View(r) ==
  /\ reader[r].stage = "idle"
  /\ reader' = [reader EXCEPT ![r].stage = "inputs", ![r].rev = revision]
  /\ UNCHANGED <<ledger, rates, inputs, cache>>

(* POST /trades/{id}/ack: the same on the event loop, for one sell.        *)
Acknowledge(r, t) ==
  /\ loop = Free
  /\ reader[r].stage = "idle"
  /\ t \in trades
  /\ loop' = r
  /\ reader' = [reader EXCEPT ![r].stage = "inputs", ![r].rev = revision,
                              ![r].target = t.id]
  /\ UNCHANGED <<Books, rates, inputs, cache>>

(* A revision that cannot be read: the summary is computed once and        *)
(* neither looked up nor stored.                                           *)
RevisionUnavailable(r) ==
  /\ reader[r].stage = "inputs"
  /\ reader' = [reader EXCEPT ![r].stage = "trades", ![r].left = 0]
  /\ UNCHANGED <<ledger, rates, inputs, cache>>

(* The input revision is read and the cache asked.                         *)
LookUp(r) ==
  /\ reader[r].stage = "inputs"
  /\ IF Cached(reader[r].rev, inputs) = {}
     THEN /\ reader' = [reader EXCEPT ![r].stage = "trades", ![r].inp = inputs,
                                      ![r].left = 2]
          /\ UNCHANGED loop
     ELSE \E e \in Cached(reader[r].rev, inputs) : Deliver(r, e.summary)
  /\ UNCHANGED <<Books, rates, inputs, cache>>

(* get_trade_history.                                                      *)
LoadTrades(r) ==
  /\ reader[r].stage = "trades"
  /\ reader' = [reader EXCEPT ![r].stage = "rates", ![r].trades = trades]
  /\ UNCHANGED <<ledger, rates, inputs, cache>>

(* historical_fx_rates reads the rows it has; a day without one is fetched.*)
LoadRates(r) ==
  /\ reader[r].stage = "rates"
  /\ reader' = [reader EXCEPT ![r].rates = rates,
                  ![r].stage = IF Missing(reader[r].trades, rates) = {}
                               THEN "positions" ELSE "fetch"]
  /\ UNCHANGED <<ledger, rates, inputs, cache>>

(* Mutant of SaveRates: no trigger moves the input revision.               *)
SaveRatesSilently(r) ==
  LET missing == Missing(reader[r].trades, reader[r].rates)
  IN  /\ reader[r].stage = "fetch"
      /\ \E answer \in [missing -> {Rate, Invalid}] :
           /\ rates' = [d \in Days |-> IF d \in missing THEN answer[d] ELSE rates[d]]
           /\ reader' = [reader EXCEPT ![r].stage = "positions",
                ![r].rates = [d \in Days |-> IF d \in missing THEN answer[d]
                                             ELSE reader[r].rates[d]]]
      /\ UNCHANGED <<ledger, inputs, cache>>

(* What the provider answered is stored over whatever is there by now, a   *)
(* day without an answer as invalid; the triggers move the input revision  *)
(* once for every row that is new or changes.                              *)
SaveRates(r) ==
  LET missing == Missing(reader[r].trades, reader[r].rates)
  IN  /\ reader[r].stage = "fetch"
      /\ \E answer \in [missing -> {Rate, Invalid}] :
           /\ rates' = [d \in Days |-> IF d \in missing THEN answer[d] ELSE rates[d]]
           /\ inputs' = inputs + Cardinality({d \in missing : rates[d] # answer[d]})
           /\ reader' = [reader EXCEPT ![r].stage = "positions",
                ![r].rates = [d \in Days |-> IF d \in missing THEN answer[d]
                                             ELSE reader[r].rates[d]]]
      /\ UNCHANGED <<ledger, cache>>

(* _mismatched_tickers reads the positions afresh; the summary is whole.   *)
CrossCheck(r) ==
  LET summary == SummaryOf(reader[r].trades, reader[r].rates, trades)
  IN  /\ reader[r].stage = "positions"
      /\ IF reader[r].left = 0
         THEN Deliver(r, summary)
         ELSE /\ reader' = [reader EXCEPT ![r].stage = "recheck", ![r].summary = summary,
                              ![r].trades = {}, ![r].rates = NoRates]
              /\ UNCHANGED loop
      /\ UNCHANGED <<Books, rates, inputs, cache>>

(* The revisions are read again, one after the other; a failed read hands  *)
(* the summary out unstored.                                               *)
RecheckTrades(r) ==
  /\ reader[r].stage = "recheck"
  /\ reader' = [reader EXCEPT ![r].stage = "settle", ![r].seen = revision]
  /\ UNCHANGED <<ledger, rates, inputs, cache>>

RecheckFails(r) ==
  /\ reader[r].stage \in {"recheck", "settle"}
  /\ Deliver(r, reader[r].summary)
  /\ UNCHANGED <<Books, rates, inputs, cache>>

(* _cache_put: the entry replaces one under its key; over the limit the    *)
(* least recently used go, any of the others as far as this model tells.   *)
Kept(entry) ==
  LET others == cache \ Cached(entry.rev, entry.inp)
  IN  {{entry} \cup kept : kept \in
         {k \in SUBSET others : Cardinality(k) = Lesser(Cardinality(others), CacheLimit - 1)}}

(* Unchanged revisions: the summary is stored under them and handed out.   *)
Store(r) ==
  LET entry == [rev |-> reader[r].rev, inp |-> inputs, summary |-> reader[r].summary]
  IN  /\ reader[r].stage = "settle"
      /\ reader[r].seen = reader[r].rev /\ inputs = reader[r].inp
      /\ cache' \in Kept(entry)
      /\ Deliver(r, entry.summary)
      /\ UNCHANGED <<Books, rates, inputs>>

(* A write raced the computation: the call turns to the revisions just     *)
(* read, asks the cache once more and computes again, the third time for   *)
(* good.                                                                   *)
Retry(r) ==
  /\ reader[r].stage = "settle"
  /\ reader[r].seen # reader[r].rev \/ inputs # reader[r].inp
  /\ IF Cached(reader[r].seen, inputs) = {}
     THEN /\ reader' = [reader EXCEPT ![r].stage = "trades", ![r].rev = reader[r].seen,
                          ![r].inp = inputs, ![r].seen = 0, ![r].summary = NoSummary,
                          ![r].left = @ - 1]
          /\ UNCHANGED loop
     ELSE \E e \in Cached(reader[r].seen, inputs) : Deliver(r, e.summary)
  /\ UNCHANGED <<Books, rates, inputs, cache>>

(* set_ack, and the summary after it: the call starts again as a view that *)
(* still holds the event loop.                                             *)
WriteAck(r) ==
  /\ reader[r].stage = "ack"
  /\ \E t \in trades :
       /\ t.id = reader[r].target
       /\ trades' = (trades \ {t}) \cup {[t EXCEPT !.acked = reader[r].acked]}
  /\ Bumped(1)
  /\ reader' = [reader EXCEPT ![r] = [Idle EXCEPT !.stage = "inputs", !.rev = revision + 1]]
  /\ UNCHANGED <<lastId, cash, receipts, rows, loop, pending, today, rates, inputs, cache>>

(* The web process ends: the cache, the calls under way and a half-made    *)
(* correction are gone; committed transactions stay.                       *)
ProcessEnds ==
  /\ cache' = {}
  /\ reader' = [r \in Threads |-> Idle]
  /\ loop' = Free /\ pending' = Nothing
  /\ UNCHANGED <<trades, lastId, revision, cash, receipts, rows, today, rates, inputs>>

PnlInit ==
  /\ LedgerInit
  /\ rates = NoRates /\ inputs = 0
  /\ cache = {} /\ reader = [r \in Threads |-> Idle]

ReadPnl(r) ==
  \/ View(r)
  \/ \E t \in trades : Acknowledge(r, t)
  \/ RevisionUnavailable(r) \/ LookUp(r) \/ LoadTrades(r) \/ LoadRates(r)
  \/ SaveRates(r) \/ CrossCheck(r) \/ RecheckTrades(r) \/ RecheckFails(r)
  \/ Store(r) \/ Retry(r) \/ WriteAck(r)

PnlNext ==
  \/ WriteTrades /\ UNCHANGED pnl
  \/ \E r \in Threads : ReadPnl(r)
  \/ ProcessEnds

PnlSpec == PnlInit /\ [][PnlNext]_<<ledger, pnl>>

-----------------------------------------------------------------------------

Stages == {"idle", "inputs", "trades", "rates", "fetch", "positions",
           "recheck", "settle", "ack"}

(* The readers, the rates and the cache have their shape; the event loop   *)
(* is held by at most one toggle, the one that says so.                    *)
PnlTypeOK ==
  /\ rates \in [Days -> {Absent, Rate, Invalid}]
  /\ inputs \in Nat /\ revision \in Nat
  /\ \A e \in cache : e.rev \in Nat /\ e.inp \in Nat
  /\ \A r \in Threads : reader[r].stage \in Stages
  /\ loop \in Threads \cup {Free, "correct"}
  /\ \A r \in Threads : reader[r].stage = "ack" => loop = r

(* A stored summary that a reader would be given now is the summary of the *)
(* trades and rates there are now, whatever writes, fetches and other      *)
(* readers interleaved with its computation.                               *)
CacheCoherent ==
  \A e \in Cached(revision, inputs) : e.summary = SummaryOf(trades, rates, trades)

(* No stored summary reports the two replays of the trades apart: first    *)
(* in first out, less its unmatched sells, and average cost agree on every *)
(* ledger, oversold ones too, and a stored summary never mixes two.        *)
NoFalseMismatch == \A e \in cache : ~e.summary.mismatched

=============================================================================
