----------------------------- MODULE StrategyRules -----------------------------
(***************************************************************************)
(* The six installed strategies: pure functions from a market view, a       *)
(* portfolio and their parameters to the securities to enter and to exit.   *)
(*                                                                          *)
(* A view has a day, a universe, and per security its rows, oldest first,   *)
(* and its scan.  Prices and volumes are whole numbers and every mean,      *)
(* ratio and percentage is compared by cross-multiplication, which is what  *)
(* the code's exact decimals do up to their precision.  A strategy's fixed  *)
(* windows are parameters.  What a signal says of itself is left out.       *)
(***************************************************************************)
EXTENDS Integers, Sequences, FiniteSets, FiniteSetsExt, SequencesExt

CONSTANTS
    Stocks,     \* security ids, numbers in the order of the ids
    Benchmark,  \* regime_filter_benchmark_security_id
    Week,       \* session |-> its ISO week
    Windows     \* [d50, d150, d200, d204, d253, w30, w40, w52, lag]

ASSUME RulesAssumption ==
    /\ Stocks \subseteq Nat /\ Benchmark \in Stocks
    /\ \A n \in DOMAIN Windows : Windows[n] \in Nat \ {0}
    /\ DOMAIN Windows = {"d50", "d150", "d200", "d204", "d253", "w30", "w40", "w52", "lag"}
    /\ Windows.d150 <= Windows.d200 /\ Windows.d200 <= Windows.d204

\* A scan without a stage and without a base; none at all reads the same.
NoScan == [stage |-> 0, base |-> "none", score |-> 0, pivot |-> 0]

Rules == {"darvas", "moving_average", "turtle", "minervini", "weinstein", "buy_and_hold"}

\* xs[-n:] and xs[-n-1:-1].
Final(xs, n) == SubSeq(xs, Len(xs) - n + 1, Len(xs))
Preceding(xs, n) == SubSeq(xs, Len(xs) - n, Len(xs) - 1)

Total(xs) ==
    LET sum[i \in 0..Len(xs)] == IF i = 0 THEN 0 ELSE sum[i - 1] + xs[i] IN sum[Len(xs)]

Closes(rows) == [i \in DOMAIN rows |-> rows[i].close]
Volumes(rows) == [i \in DOMAIN rows |-> rows[i].volume]
Highest(rows) == Max({rows[i].high : i \in DOMAIN rows})
Lowest(rows) == Min({rows[i].low : i \in DOMAIN rows})

\* The rows up to a day; sessions come in order.
Through(rows, day) ==
    SubSeq(rows, 1, CHOOSE n \in 0..Len(rows) :
                      /\ \A i \in 1..n : rows[i].session <= day
                      /\ n < Len(rows) => rows[n + 1].session > day)

\* close against the mean of the last n closes: their difference, times n.
AboveMean(rows, n) == n * Last(rows).close - Total(Final(Closes(rows), n))

\* A volume of at least pct percent of the mean of the n before it.
Heavy(rows, n, pct) ==
    LET before == Total(Preceding(Volumes(rows), n)) IN
    before > 0 /\ 100 * n * Last(rows).volume >= pct * before

\* The rows of a security that traded on the day of the view, else none.
OfDay(view, s) ==
    IF view.rows[s] # <<>> /\ Last(view.rows[s]).session = view.day THEN view.rows[s] ELSE <<>>

\* entry_signals_permitted: the benchmark's last close, of whatever day.
EntrySignalsPermitted(view, p) ==
    \/ ~p.regime
    \/ /\ Benchmark \in view.universe
       /\ Len(view.rows[Benchmark]) >= p.regimeLength
       /\ AboveMean(view.rows[Benchmark], p.regimeLength) > 0

Owned(portfolio) == DOMAIN portfolio.cost

-----------------------------------------------------------------------------
(* Darvas, moving averages, Turtle.                                         *)

BoxBreakout(rows, p) ==
    LET box == Preceding(rows, p.box) IN
    /\ Len(rows) >= p.box + 1
    /\ 100 * (Highest(box) - Lowest(box)) <= p.boxDepth * Highest(box)
    /\ Last(rows).close > Highest(box)
    /\ Heavy(rows, p.box, p.relativeVolume)

BoxBreakdown(rows, p) ==
    Len(rows) >= p.box + 1 /\ Last(rows).close < Lowest(Preceding(rows, p.box))

\* _crossover: fast mean over slow mean, on the day before and on the day; 1,
\* -1, or 0.
Crossover(rows, p) ==
    LET closes == Closes(rows)
        before == p.slow * Total(Preceding(closes, p.fast)) - p.fast * Total(Preceding(closes, p.slow))
        now == p.slow * Total(Final(closes, p.fast)) - p.fast * Total(Final(closes, p.slow)) IN
    IF Len(rows) < p.slow + 1 THEN 0
    ELSE IF before <= 0 /\ now > 0 THEN 1 ELSE IF before >= 0 /\ now < 0 THEN -1 ELSE 0

ChannelBreakout(rows, p) ==
    Len(rows) >= p.entry + 1 /\ Last(rows).high > Highest(Preceding(rows, p.entry))

ChannelBreach(rows, p) ==
    Len(rows) >= p.exit + 1 /\ Last(rows).low < Lowest(Preceding(rows, p.exit))

-----------------------------------------------------------------------------
(* Minervini and Weinstein.                                                 *)

\* Minervini's _entry_qualification.  sound: a base whose trend template, VCP,
\* breakout volume and trend score all pass.
BaseQualifies(rows, scan, p) ==
    /\ Len(rows) >= Windows.d50 + 1
    /\ scan.stage = 2 /\ scan.base = "Breakout" /\ scan.score >= p.minimumScore
    /\ Last(rows).close >= scan.pivot
    /\ 100 * Last(rows).close <= (100 + p.extension) * scan.pivot
    /\ Heavy(rows, Windows.d50, p.relativeVolume)

\* Closes of the weeks: the last of each, of the last 52.  Sessions come in order,
\* so the rows of a week stand together.
AfterRow(weekly, rows, i) ==
    IF i > 1 /\ Week[rows[i - 1].session] = Week[rows[i].session]
    THEN [weekly EXCEPT ![Len(weekly)] = rows[i].close]
    ELSE Append(weekly, rows[i].close)

AllWeeks(rows) ==
    LET weekly[i \in 0..Len(rows)] == IF i = 0 THEN <<>> ELSE AfterRow(weekly[i - 1], rows, i) IN
    weekly[Len(rows)]

WeeklyCloses(rows) ==
    IF Len(AllWeeks(rows)) <= Windows.w52 THEN AllWeeks(rows) ELSE Final(AllWeeks(rows), Windows.w52)

\* _sma_slope, times the window.
Slope(closes, n) ==
    Total(Final(closes, n)) - Total(Final(SubSeq(closes, 1, Len(closes) - Windows.lag), n))

\* _classify_stage; 0: None.
Stage(rows) ==
    LET weekly == WeeklyCloses(rows)
        closes == Closes(rows)
        above150 == AboveMean(rows, Windows.d150) > 0
        above200 == AboveMean(rows, Windows.d200) > 0
        bullish == Windows.d200 * Total(Final(closes, Windows.d150))
                     > Windows.d150 * Total(Final(closes, Windows.d200)) IN
    IF Len(weekly) < Max({Windows.w30, Windows.w40}) + Windows.lag THEN 0
    ELSE IF above150 /\ bullish /\ Slope(weekly, Windows.w40) > 0 THEN 2
    ELSE IF ~above150 /\ ~above200 /\ Slope(weekly, Windows.w30) < 0 THEN 4
    ELSE IF (above150 /\ bullish) \/ (~above150 /\ above200) THEN 3
    ELSE 1

\* Sessions Weinstein's entry asks for.
TrendWindow(p) == Max({Windows.d204, p.breakout + 1, Windows.d50 + 1})

\* Weinstein's _entry_qualification.
TrendQualifies(rows, scan, p) ==
    /\ Len(rows) >= TrendWindow(p)
    /\ scan.stage = 2 /\ Stage(rows) = 2
    /\ Last(rows).close > Highest(Preceding(rows, p.breakout))
    /\ Heavy(rows, Windows.d50, p.relativeVolume)

Stopped(rows, cost, p) == 100 * Last(rows).close <= (100 - p.maximumLoss) * cost

\* An evidenced stage or base may fail, a missing one never.  Mutant: the
\* missing one does.
StageFailsUnseen(scan) == scan.stage # 2

StageFails(scan) == scan.stage \notin {0, 2}

BaseExit(rows, scan, cost, p) ==
    /\ Len(rows) >= Windows.d50
    /\ \/ Stopped(rows, cost, p)
       \/ AboveMean(rows, Windows.d50) < 0
       \/ StageFails(scan)
       \/ scan.base \in {"Invalid", "Damaged"}

TrendExit(rows, scan, cost, p) ==
    /\ Len(rows) >= Windows.d150
    /\ \/ Stopped(rows, cost, p)
       \/ AboveMean(rows, Windows.d150) < 0
       \/ StageFails(scan)

-----------------------------------------------------------------------------
(* entry_signals and exit_signals.                                          *)

Enters(rule, rows, scan, p) ==
    \/ rule = "darvas" /\ BoxBreakout(rows, p)
    \/ rule = "moving_average" /\ Crossover(rows, p) = 1
    \/ rule = "turtle" /\ ChannelBreakout(rows, p)
    \/ rule = "minervini" /\ BaseQualifies(rows, scan, p)
    \/ rule = "weinstein" /\ TrendQualifies(rows, scan, p)

Exits(rule, rows, scan, cost, p) ==
    \/ rule = "darvas" /\ BoxBreakdown(rows, p)
    \/ rule = "moving_average" /\ Crossover(rows, p) = -1
    \/ rule = "turtle" /\ ChannelBreach(rows, p)
    \/ rule = "minervini" /\ BaseExit(rows, scan, cost, p)
    \/ rule = "weinstein" /\ TrendExit(rows, scan, cost, p)

EntrySignals(rule, view, p) ==
    IF EntrySignalsPermitted(view, p)
    THEN {s \in view.universe : Enters(rule, OfDay(view, s), view.scan[s], p)}
    ELSE {}

\* Holdings are of whole shares: Darvas and Turtle give none for a fraction.
OrdinaryExits(rule, view, portfolio, p) ==
    {s \in view.universe \cap Owned(portfolio) :
        Exits(rule, OfDay(view, s), view.scan[s], portfolio.cost[s], p)}

\* What upgrades rank securities by, a fraction: a base's score, or how far a
\* close is above its mean.
Strength(rule, view, s) ==
    LET closes == Final(Closes(OfDay(view, s)), Windows.d150) IN
    IF rule = "minervini" THEN <<view.scan[s].score, 1>>
    ELSE <<100 * AboveMean(OfDay(view, s), Windows.d150), Total(closes)>>

HasStrength(rule, view, s) ==
    \/ rule = "minervini" /\ view.scan[s].base # "none"
    \/ rule = "weinstein" /\ Len(OfDay(view, s)) >= Windows.d150

Weaker(x, y) == x[1] * y[2] < y[1] * x[2]

\* _upgrade_exit_signal: without cash, the weakest holding gives way to a
\* candidate stronger by the margin.  The regime filter has no say in it.
UpgradeExits(rule, view, portfolio, p) ==
    LET holding == Owned(portfolio) \ OrdinaryExits(rule, view, portfolio, p)
        candidates == {s \in view.universe \ holding : Enters(rule, OfDay(view, s), view.scan[s], p)}
        ranked == {s \in holding : HasStrength(rule, view, s)}
        Of(s) == Strength(rule, view, s)
        weakest == {s \in ranked : \A t \in ranked \ {s} :
                      Weaker(Of(s), Of(t)) \/ (~Weaker(Of(t), Of(s)) /\ s < t)}
        Margin(s, t) == Of(t)[1] * Of(s)[2] - Of(s)[1] * Of(t)[2] >= p.margin * Of(s)[2] * Of(t)[2] IN
    IF p.upgrade /\ portfolio.cash = 0 /\ rule \in {"minervini", "weinstein"}
    THEN {s \in weakest : \E t \in candidates : Margin(s, t)}
    ELSE {}

ExitSignals(rule, view, portfolio, p) ==
    OrdinaryExits(rule, view, portfolio, p) \cup UpgradeExits(rule, view, portfolio, p)

-----------------------------------------------------------------------------
(* Buy and hold: one ranked selection, on the first session of a run.       *)

\* The closes _strength_score reads, of sessions strictly before the day.
PastRows(view, s) == Through(view.rows[s], view.day - 1)

\* The first top_x by return, then by id.  The run is taken to begin on or after
\* its entry_on_or_after, before which all are excluded.
InitialSelection(view, p) ==
    LET eligible == {s \in view.universe : Len(PastRows(view, s)) >= Windows.d253}
        Return(s) == LET year == Final(PastRows(view, s), Windows.d253) IN
                     <<Last(year).close, Head(year).close>>
        Ahead(s, t) == Weaker(Return(t), Return(s)) \/ (~Weaker(Return(s), Return(t)) /\ s < t) IN
    IF EntrySignalsPermitted(view, p)
    THEN {s \in eligible : Cardinality({t \in eligible \ {s} : Ahead(t, s)}) < p.top}
    ELSE {}
=============================================================================
