------------------------------ MODULE AlertBook ------------------------------
(***************************************************************************)
(* The alerts of the pipeline runs: the watched setups of alerts.db, the    *)
(* peaks of position_state.db, and AlertAgent, which a run executes over    *)
(* what it scanned (run), over the positions held (check_portfolio_stops,   *)
(* check_trailing_stops), and once more for the digest (send_summary_email).*)
(*                                                                          *)
(* A run may be killed between any two steps and its digest may not go out. *)
(* The alert halves of two runs are taken one after the other: the tables   *)
(* have no lock, and start admits a second run only where PipelineRun shows *)
(* it does.  A price is a number from 1 to TopPrice; 0 is a missing one.    *)
(***************************************************************************)
EXTENDS Naturals, FiniteSets, FiniteSetsExt

CONSTANTS
    Tickers,
    Held,           \* positions: [portfolio, ticker, cost]; cost 0: no entry_price
    AlertRuns,      \* bound: pipeline runs
    LastDate,        \* bound: days
    TopPrice,       \* the highest price
    Cooldown,       \* trigger |-> days of cooldown
    TrailPercent    \* trailing_stop_pct; 0: unset

ASSUME AlertAssumption ==
    /\ {AlertRuns, LastDate, TopPrice, TrailPercent} \subseteq Nat
    /\ Cooldown \in [{"breakout", "approaching"} -> Nat]
    /\ \A h \in Held : h.ticker \in Tickers /\ h.cost \in 0..TopPrice

VARIABLES
    date,
    alerts,     \* the alerts rows
    peak,       \* high_water_mark of a ticker; 0: no row
    agent,      \* the AlertAgent of the run at hand
    ran,        \* runs started
    seen        \* history: ticker |-> the highest quote a finished run judged

alertBook == <<date, alerts, peak, agent, ran, seen>>

Price == 0..TopPrice
EntryPrice == TopPrice      \* of every setup, from its analysis
StopLoss == 1               \* of every setup and of every position
Target == TopPrice          \* profit_target_20 of every position

\* An alerts row.
Setup == [rowid : Nat, ticker : Tickers, day : 0..LastDate,
          status : {"watching", "entered", "stopped"}]
Watching == {a \in alerts : a.status = "watching"}

\* What the scan found: a price, and what classify_alert makes of it.
Trigger == {"none", "breakout", "approaching"}
Record == [price : Price, trigger : Trigger]
Unscanned == [t \in Tickers |-> [price |-> 0, trigger |-> "none"]]

\* at: what the agent does next.  rows, tickers, held: what is left of the loop
\* at hand.  entered, stopped, buys: the queues of the digest.  hard, trailing:
\* the positions of _sell_alerts, each mailed at once.
Agent == [at : {"idle", "clear", "rows", "tickers", "trail"},
          scan : [Tickers -> Record], quote : [Tickers -> Price],
          rows : SUBSET Nat, tickers : SUBSET Tickers, held : SUBSET Held,
          entered : SUBSET Tickers, stopped : SUBSET Tickers, buys : SUBSET Tickers,
          hard : SUBSET Held, trailing : SUBSET Held]

IdleAgent == [at |-> "idle", scan |-> Unscanned, quote |-> [t \in Tickers |-> 0],
              rows |-> {}, tickers |-> {}, held |-> {}, entered |-> {}, stopped |-> {},
              buys |-> {}, hard |-> {}, trailing |-> {}]

Higher(a, b) == IF a > b THEN a ELSE b
Quote(h) == agent.quote[h.ticker]

-----------------------------------------------------------------------------
(* AlertAgent.run.                                                          *)

\* A run has scanned and analysed.
Scan ==
    /\ agent.at = "idle" /\ ran < AlertRuns
    /\ ran' = ran + 1
    /\ \E scan \in [Tickers -> Record] :
         agent' = [IdleAgent EXCEPT !.at = "clear", !.scan = scan]
    /\ UNCHANGED <<date, alerts, peak, seen>>

\* clear_terminal, and the rows check_positions reads.
ClearTerminal ==
    /\ agent.at = "clear"
    /\ alerts' = Watching
    /\ agent' = [agent EXCEPT !.at = "rows", !.rows = {a.rowid : a \in Watching}]
    /\ UNCHANGED <<date, peak, ran, seen>>

\* check_positions for one row: queued for the digest, then its status set.
Resolved(a, status) == (alerts \ {a}) \cup {[a EXCEPT !.status = status]}

CheckPosition(a) ==
    LET price == agent.scan[a.ticker].price
        rest == [agent EXCEPT !.rows = @ \ {a.rowid}] IN
    /\ agent.at = "rows" /\ a.rowid \in agent.rows
    /\ \/ /\ price >= EntryPrice
          /\ alerts' = Resolved(a, "entered")
          /\ agent' = [rest EXCEPT !.entered = @ \cup {a.ticker}]
       \/ /\ price \in 1..StopLoss /\ price < EntryPrice
          /\ alerts' = Resolved(a, "stopped")
          /\ agent' = [rest EXCEPT !.stopped = @ \cup {a.ticker}]
       \/ /\ price = 0 \/ price \in (StopLoss + 1)..(EntryPrice - 1)
          /\ agent' = rest
          /\ UNCHANGED alerts
    /\ UNCHANGED <<date, peak, ran, seen>>

CheckedPositions ==
    /\ agent.at = "rows" /\ agent.rows = {}
    /\ agent' = [agent EXCEPT !.at = "tickers", !.tickers = Tickers]
    /\ UNCHANGED <<date, alerts, peak, ran, seen>>

\* was_recently_alerted: the ticker is watched, or its last row (hence any of
\* them) is within the cooldown.  Mutant: only the cooldown counts.
OnCooldown(t, trigger) ==
    \E a \in alerts : a.ticker = t /\ date < a.day + Cooldown[trigger]

WasRecentlyAlerted(t, trigger) ==
    \/ \E a \in Watching : a.ticker = t
    \/ \E a \in alerts : a.ticker = t /\ date < a.day + Cooldown[trigger]

\* should_alert
ShouldAlert(t) ==
    LET trigger == agent.scan[t].trigger IN
    trigger # "none" /\ ~WasRecentlyAlerted(t, trigger)

\* SQLite's rowid: one more than the largest.
NextRowid == Max({0} \cup {a.rowid : a \in alerts}) + 1

\* One stock of run: queued for the digest and recorded.
Judge(t) ==
    LET rest == [agent EXCEPT !.tickers = @ \ {t}] IN
    /\ agent.at = "tickers" /\ t \in agent.tickers
    /\ \/ /\ ShouldAlert(t)
          /\ alerts' = alerts \cup {[rowid |-> NextRowid, ticker |-> t, day |-> date,
                                     status |-> "watching"]}
          /\ agent' = [rest EXCEPT !.buys = @ \cup {t}]
       \/ /\ ~ShouldAlert(t)
          /\ agent' = rest
          /\ UNCHANGED alerts
    /\ UNCHANGED <<date, peak, ran, seen>>

-----------------------------------------------------------------------------
(* The held positions and the digest.                                       *)

\* The holdings are priced, apart from the scan, and check_portfolio_stops mails
\* each stop-loss or profit target it meets.
CheckPortfolioStops ==
    /\ agent.at = "tickers" /\ agent.tickers = {}
    /\ \E quote \in [Tickers -> Price] :
         agent' = [agent EXCEPT !.at = "trail", !.quote = quote, !.held = Held,
                     !.hard = {h \in Held : quote[h.ticker] \in (1..StopLoss) \cup {Target}}]
    /\ UNCHANGED <<date, alerts, peak, ran, seen>>

\* record_high: the higher of the two.  Mutant: the latest.
RecordLatest(seed, price) == price
RecordHigh(seed, price) == Higher(seed, price)

\* check_trailing_stops for one position: the peak is seeded from its cost where
\* there is none, raised, and judged unless the ticker is alerted already.
AlreadyAlerted(h) ==
    \E k \in agent.hard \cup agent.trailing : k.ticker = h.ticker

CheckTrailingStop(h) ==
    LET t == h.ticker
        seed == IF peak[t] = 0 THEN h.cost ELSE peak[t]
        high == RecordHigh(seed, Quote(h))
        fires == /\ TrailPercent \in 1..99 /\ ~AlreadyAlerted(h)
                 /\ 100 * Quote(h) <= high * (100 - TrailPercent)
        rest == [agent EXCEPT !.held = @ \ {h}] IN
    /\ agent.at = "trail" /\ h \in agent.held
    /\ \/ Quote(h) = 0 /\ agent' = rest /\ UNCHANGED peak
       \/ /\ Quote(h) # 0
          /\ peak' = [peak EXCEPT ![t] = high]
          /\ agent' = IF fires THEN [rest EXCEPT !.trailing = @ \cup {h}] ELSE rest
    /\ UNCHANGED <<date, alerts, ran, seen>>

\* send_summary_email: the digest of the queues goes out, or does not, and the
\* agent is done.
SendSummaryEmail ==
    /\ agent.at = "trail" /\ agent.held = {}
    /\ agent' = IdleAgent
    /\ seen' = [t \in Tickers |-> Higher(seen[t],
                  IF \E h \in Held : h.ticker = t THEN agent.quote[t] ELSE 0)]
    /\ UNCHANGED <<date, alerts, peak, ran>>

\* The run is killed.
AgentDies ==
    /\ agent.at # "idle"
    /\ agent' = IdleAgent
    /\ UNCHANGED <<date, alerts, peak, ran, seen>>

Tomorrow ==
    /\ agent.at = "idle" /\ date < LastDate
    /\ date' = date + 1
    /\ UNCHANGED <<alerts, peak, agent, ran, seen>>

AlertInit ==
    /\ date = 0
    /\ alerts = {}
    /\ peak = [t \in Tickers |-> 0]
    /\ agent = IdleAgent
    /\ ran = 0
    /\ seen = [t \in Tickers |-> 0]

AlertNext ==
    \/ Scan \/ ClearTerminal \/ CheckedPositions \/ CheckPortfolioStops
    \/ SendSummaryEmail \/ AgentDies \/ Tomorrow
    \/ \E a \in alerts : CheckPosition(a)
    \/ \E t \in Tickers : Judge(t)
    \/ \E h \in Held : CheckTrailingStop(h)

AlertSpec == AlertInit /\ [][AlertNext]_alertBook

-----------------------------------------------------------------------------
(* Properties.                                                              *)

\* A ticker has one open setup at most, whatever the days, the cooldowns, the
\* runs killed half-way and the rows they leave: its buy is not announced again
\* before the setup it announced was entered or stopped.
OneOpenSetup ==
    /\ \A a, b \in Watching : a.ticker = b.ticker => a = b
    /\ \A a, b \in alerts : a.rowid = b.rowid => a = b

\* When a run has judged its positions, a ticker that stands TrailPercent below
\* the highest quote any earlier run judged has been mailed, as a trailing stop
\* or as a hard one; and trailing stops never double a mail: two portfolios
\* holding the ticker, or its hard stop, give no second one.
Fallen(t) == /\ agent.quote[t] # 0 /\ seen[t] # 0
             /\ 100 * agent.quote[t] <= seen[t] * (100 - TrailPercent)

FallMailedOnce ==
    agent.at = "trail" =>
        /\ \A h, k \in agent.trailing : h.ticker = k.ticker => h = k
        /\ \A h \in agent.hard, k \in agent.trailing : h.ticker # k.ticker
        /\ agent.held = {} /\ TrailPercent \in 1..99 =>
             \A h \in Held : Fallen(h.ticker) =>
                \E k \in agent.hard \cup agent.trailing : k.ticker = h.ticker
=============================================================================
