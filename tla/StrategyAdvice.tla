---------------------------- MODULE StrategyAdvice ----------------------------
(***************************************************************************)
(* What a strategy is shown of the market, and what becomes of its signals. *)
(*                                                                          *)
(* The market trades, splits and halts; months are scanned and committed.   *)
(* A backtest captures its prices once, adjusted by the provider for every  *)
(* split up to the capture, and shows a strategy each day as it was known   *)
(* on it: HistoricalMarketPlanes undoes the provider's adjustment and       *)
(* applies the splits up to the day, and a security's scan is that of the   *)
(* newest month committed for it.  A portfolio's recommendation shows the   *)
(* same strategy another plane: the rows the last published scan downloaded *)
(* for itself, less the dividends paid since and rounded, and what its      *)
(* detectors made of them.  Its records may be missing, stale or named      *)
(* twice, and no signal is let through that the evidence it declares to     *)
(* need was missing for.                                                    *)
(*                                                                          *)
(* Prices are whole numbers, so a split that would leave a fraction of an   *)
(* earlier price is none of the market's (StaysWhole).                      *)
(***************************************************************************)
EXTENDS StrategyRules

CONSTANTS
    Bars,         \* security |-> [high, low, close, volume, split]; split 1: none
    LastSession,  \* bound: sessions
    MonthEnds,    \* sessions a month ends on
    Scans,        \* security |-> scans of a month; NoScan: no valid_scan
    Settings,     \* parameters of the strategies
    Holdings,     \* portfolios: [cash, cost: security |-> its average cost]
    Dividends,    \* security |-> its dividends: [session, kept, of], the share kept
    Artifacts     \* published scans: [records, entries: security |-> how many name
                  \* it, age: sessions since the evidence, -1 if there is none,
                  \* found: security |-> the scan its detectors made]

\* Prices, volumes and split factors as from_evidence accepts them, windows as the
\* strategies and the regime filter accept theirs, and evidence that is of the last
\* session or of one before.
ASSUME AdviceAssumption ==
    /\ LastSession \in Nat
    /\ \A s \in Stocks : Bars[s] \subseteq {<<>>} \cup
         [high : Nat \ {0}, low : Nat \ {0}, close : Nat \ {0}, volume : Nat, split : Nat \ {0}]
    /\ \A p \in Settings :
         /\ {p.box, p.fast, p.slow, p.entry, p.exit, p.breakout, p.regimeLength} \subseteq Nat \ {0}
         /\ p.fast < p.slow /\ p.upgrade \in BOOLEAN /\ p.regime \in BOOLEAN
    /\ \A s \in Stocks : Dividends[s] \in Seq([session : Nat, kept : Nat \ {0}, of : Nat \ {0}])
    /\ \A artifact \in Artifacts : artifact.age \in Nat \cup {-1}

VARIABLES
    session,    \* sessions so far
    bars,       \* security |-> the rows it traded, as traded
    months,     \* committed snapshot months: [asof, scan: security |-> scan]
    shown       \* history: session |-> the prices a strategy was shown on it

advice == <<session, bars, months, shown>>

-----------------------------------------------------------------------------
(* Market planes.                                                           *)

\* The product of the splits after a session up to another.
SplitProduct(splits, after, through) ==
    LET counts(i) == after < splits[i].session /\ splits[i].session <= through
        product[i \in 0..Len(splits)] ==
            IF i = 0 THEN 1 ELSE product[i - 1] * (IF counts(i) THEN splits[i].value ELSE 1) IN
    product[Len(splits)]

\* A split by 1 is none.
SplitsOf(rows) == [i \in DOMAIN rows |-> [session |-> rows[i].session, value |-> rows[i].split]]

\* Prices times up, by down; volume times share.
Scaled(row, up, down, share) ==
    [row EXCEPT !.high = (@ * up) \div down, !.low = (@ * up) \div down,
                !.close = (@ * up) \div down, !.volume = @ * share]

\* What the provider serves: every row in the units of the last one, its
\* volume as traded.
Captured(traded) ==
    [splits |-> SplitsOf(traded),
     rows |-> [i \in DOMAIN traded |->
        Scaled(traded[i], 1, SplitProduct(SplitsOf(traded), traded[i].session, LastSession), 1)]]

AsTraded(evidence) ==
    [i \in DOMAIN evidence.rows |->
        Scaled(evidence.rows[i],
               SplitProduct(evidence.splits, evidence.rows[i].session, LastSession), 1, 1)]

\* split_continuous_as_of.  Mutant: splits after the day too.
SplitContinuousLate(evidence, day) ==
    LET rows == Through(AsTraded(evidence), day) IN
    [i \in DOMAIN rows |->
        LET factor == SplitProduct(evidence.splits, rows[i].session, LastSession) IN
        Scaled(rows[i], 1, factor, factor)]

SplitContinuous(evidence, day) ==
    LET rows == Through(AsTraded(evidence), day) IN
    [i \in DOMAIN rows |->
        LET factor == SplitProduct(evidence.splits, rows[i].session, day) IN
        Scaled(rows[i], 1, factor, factor)]

\* latest_committed_scan_result.
LatestScan(committed, s, day) ==
    LET visible == {month \in committed : month.scan[s] # NoScan /\ month.asof <= day} IN
    IF visible = {} THEN NoScan
    ELSE (CHOOSE month \in visible : \A other \in visible : other.asof <= month.asof).scan[s]

\* MarketView.price_history of every security, and MarketView itself.
PriceHistories(traded, day) == [s \in Stocks |-> SplitContinuous(Captured(traded[s]), day)]

ViewOn(day, histories, committed) ==
    [day |-> day, universe |-> Stocks, rows |-> histories,
     scan |-> [s \in Stocks |-> LatestScan(committed, s, day)]]

-----------------------------------------------------------------------------
(* The live recommendation.                                                 *)

\* fetch_stock_data and compute_live_technicals: auto_adjust takes the dividends
\* paid since out of each price, as the splits, and leaves the volume; rounding
\* is down.
LiveRecords ==
    [s \in Stocks |->
        LET rows == Captured(bars[s]).rows
            kept == [i \in DOMAIN Dividends[s] |->
                       [session |-> Dividends[s][i].session, value |-> Dividends[s][i].kept]]
            of == [i \in DOMAIN Dividends[s] |->
                       [session |-> Dividends[s][i].session, value |-> Dividends[s][i].of]] IN
        [i \in DOMAIN rows |->
            Scaled(rows[i], SplitProduct(kept, rows[i].session, session),
                            SplitProduct(of, rows[i].session, session), 1)]]

\* build_scan_market_view.  Two records or entries of one security are set
\* aside, both of them, and so is a record whose last row is of another session.
ScanView(artifact, histories) ==
    LET known == {s \in Stocks : artifact.records[s] = 1}
        latest == {Last(histories[s]).session : s \in {t \in known : histories[t] # <<>>}}
        day == IF artifact.age < 0 THEN Max(latest \cup {0}) ELSE session - artifact.age
        current == {s \in known : histories[s] = <<>> \/ Last(histories[s]).session = day}
        evidenced == {s \in current : artifact.age >= 0 /\ artifact.entries[s] = 1} IN
    [day |-> day, universe |-> current,
     rows |-> [s \in Stocks |-> IF s \in current THEN histories[s] ELSE <<>>],
     scan |-> [s \in Stocks |-> IF s \in evidenced THEN artifact.found[s] ELSE NoScan]]

\* The strategies' evidence_requirements: sessions of prices, a stage, a base.
\* Mutant: Weinstein's exit asks for what its entry does.
RequirementsOfEntry(rule, path, p) ==
    [sessions |->
        [darvas |-> p.box + 1, moving_average |-> p.slow + 1,
         turtle |-> IF path = "entry" THEN p.entry + 1 ELSE p.exit + 1,
         minervini |-> IF path = "entry" THEN Windows.d50 + 1 ELSE Windows.d50,
         weinstein |-> TrendWindow(p), buy_and_hold |-> Windows.d253 + 1][rule],
     stage |-> rule \in {"minervini", "weinstein"}, base |-> rule = "minervini"]

Requirements(rule, path, p) ==
    [sessions |->
        [darvas |-> p.box + 1, moving_average |-> p.slow + 1,
         turtle |-> IF path = "entry" THEN p.entry + 1 ELSE p.exit + 1,
         minervini |-> IF path = "entry" THEN Windows.d50 + 1 ELSE Windows.d50,
         weinstein |-> IF path = "entry" THEN TrendWindow(p) ELSE Windows.d150,
         buy_and_hold |-> IF path = "entry" THEN Windows.d253 + 1 ELSE 0][rule],
     stage |-> rule \in {"minervini", "weinstein"}, base |-> rule = "minervini"]

\* _falls_short of any.  Buy and hold's exit asks for nothing.
Degraded(rule, path, view, s, p) ==
    LET needed == Requirements(rule, path, p) IN
    /\ needed.sessions > 0
    /\ \/ view.rows[s] = <<>> \/ Len(view.rows[s]) < needed.sessions
       \/ needed.stage /\ view.scan[s].stage = 0
       \/ needed.base /\ view.scan[s].base = "none"

\* recommend and _map_actions.
Sells(rule, view, portfolio, p) ==
    {s \in ExitSignals(rule, view, portfolio, p) \cap view.universe :
        ~Degraded(rule, "exit", view, s, p)}

Buys(rule, view, portfolio, p) ==
    {s \in (EntrySignals(rule, view, p) \cap view.universe) \ Owned(portfolio) :
        ~Degraded(rule, "entry", view, s, p)}

-----------------------------------------------------------------------------
(* The market and the scans.                                                *)

RowOf(day, bar) ==
    [session |-> day, high |-> bar.high, low |-> bar.low, close |-> bar.close,
     volume |-> bar.volume, split |-> bar.split]

\* Every price is a whole number of the units of the last session.
StaysWhole(rows) ==
    \A i \in DOMAIN rows :
      LET units == SplitProduct(SplitsOf(rows), rows[i].session, LastSession) IN
      rows[i].high % units = 0 /\ rows[i].low % units = 0 /\ rows[i].close % units = 0

\* A session: each security trades a bar, or is halted.
TradingDay ==
    /\ session < LastSession
    /\ session' = session + 1
    /\ \E bar \in [Stocks -> UNION {Bars[s] : s \in Stocks} \cup {<<>>}] :
         /\ \A s \in Stocks : bar[s] \in Bars[s]
         /\ bars' = [s \in Stocks |->
              IF bar[s] = <<>> THEN bars[s]
              ELSE Append(bars[s], RowOf(session', bar[s]))]
    /\ \A s \in Stocks : StaysWhole(bars'[s])
    /\ shown' = Append(shown, PriceHistories(bars', session'))
    /\ UNCHANGED months

\* commit_snapshot_month, at any time after the month has ended.
CommitMonth ==
    /\ \E asof \in MonthEnds :
         /\ asof <= session /\ asof \notin {month.asof : month \in months}
         /\ \E scan \in [Stocks -> UNION {Scans[s] : s \in Stocks}] :
              /\ \A s \in Stocks : scan[s] \in Scans[s]
              /\ months' = months \cup {[asof |-> asof, scan |-> scan]}
    /\ UNCHANGED <<session, bars, shown>>

AdviceInit == session = 0 /\ bars = [s \in Stocks |-> <<>>] /\ months = {} /\ shown = <<>>

AdviceNext == TradingDay \/ CommitMonth

AdviceSpec == AdviceInit /\ [][AdviceNext]_advice

-----------------------------------------------------------------------------
(* Properties.                                                              *)

Today == ViewOn(session, shown[session], months)

\* A day shows what it showed when it was today, whatever has traded and split
\* since (price_history of a later capture), and no month that had not ended
\* (latest_committed_scan_result); and buy and hold's ranking of a day is not
\* moved by the trading of that day.
SignalsPointInTime ==
    \A day \in 1..session :
      LET view == ViewOn(day, PriceHistories(bars, day), months)
          eve == [s \in Stocks |-> Through(bars[s], day - 1)] IN
      /\ view.rows = shown[day]
      /\ view.scan = ViewOn(day, <<>>, {month \in months : month.asof <= day}).scan
      /\ \A p \in Settings : ~p.regime =>
           InitialSelection(view, p) = InitialSelection(ViewOn(day, PriceHistories(eve, day), months), p)

\* The view of a day with some evidence of one security gone: its oldest row,
\* its newest, or its scan.
Hidden(view) ==
    {[view EXCEPT !.rows[s] = IF @ = <<>> THEN @ ELSE Tail(@)] : s \in Stocks}
    \cup {[view EXCEPT !.rows[s] = IF @ = <<>> THEN @ ELSE Front(@)] : s \in Stocks \ {Benchmark}}
    \cup {[view EXCEPT !.scan[s] = NoScan] : s \in Stocks}

\* What is missing makes nobody trade: without some of the evidence a strategy
\* gives no signal that it would not give with it (issue 471).  Upgrades, which
\* compare securities, are left out: a holding that cannot be ranked leaves
\* another the weakest; so is the benchmark's newest row: the regime filter takes
\* the last close there is.
MissingEvidenceNeverTrades == session > 0 =>
    LET today == Today IN
    \A rule \in Rules, p \in Settings :
      LET entries == EntrySignals(rule, today, p)
          exits == [portfolio \in Holdings |-> OrdinaryExits(rule, today, portfolio, p)] IN
      \A less \in Hidden(today) :
        /\ EntrySignals(rule, less, p) \subseteq entries
        /\ \A portfolio \in Holdings : OrdinaryExits(rule, less, portfolio, p) \subseteq exits[portfolio]

\* A recommendation is what the rule says of the whole of the scan's own record:
\* whatever the published scan lacks, names twice or has of another session, each
\* Sell and each Buy is a signal of the strategy on all that was downloaded and
\* detected, up to the session of the scan; and when nothing is lacking no signal
\* is held back, so that what a strategy declares to need is what its rule needs
\* (build_scan_market_view, _map_actions, preflight_evidence,
\* evidence_requirements).  What a backtest would say is not asked.
LiveFollowsRule == session > 0 =>
    LET records == LiveRecords IN
    \A artifact \in Artifacts :
      LET live == ScanView(artifact, records)
          full == [day |-> live.day, universe |-> Stocks,
                   rows |-> [s \in Stocks |-> Through(records[s], live.day)],
                   scan |-> artifact.found]
          whole == \A s \in Stocks : s \in live.universe /\ live.scan[s].stage # 0
                                       /\ live.scan[s].base # "none" IN
      \A rule \in Rules, p \in Settings :
        LET entries == EntrySignals(rule, full, p) IN
        \A portfolio \in Holdings :
          LET sells == Sells(rule, live, portfolio, p)
              buys == Buys(rule, live, portfolio, p)
              exits == OrdinaryExits(rule, full, portfolio, p) IN
          /\ ~p.upgrade => sells \subseteq exits
          /\ buys \subseteq entries \ Owned(portfolio)
          /\ whole => exits \subseteq sells /\ entries \ Owned(portfolio) \subseteq buys
=============================================================================
