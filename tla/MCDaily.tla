------------------------------- MODULE MCDaily -------------------------------
(***************************************************************************)
(* What a user is told in a day: the pipeline's alerts, its recommendation  *)
(* mails, what the strategies recommend, and the realised P&L of the pages. *)
(* The four share no table and no file that another of them writes, so that *)
(* an interleaving of their steps decides nothing for any; a behaviour here *)
(* moves one of them and leaves the others at their start.                  *)
(* While mails go out a user takes one strategy away, or one pass dies or   *)
(* is broken off.                                                           *)
(***************************************************************************)
EXTENDS PortfolioDispatch, AlertBook, RealisedPnl, StrategyAdvice

VARIABLE part

daily == <<dispatch, alertBook, ledger, pnl, advice, part>>

\* A ledger that already holds one buy.
OneBuy ==
    /\ trades = {Trade(1, "BUY", 2, 1, "manual")} /\ lastId = 1 /\ revision = 1
    /\ cash = Opening /\ receipts = <<>> /\ rows = <<>>
    /\ loop = Free /\ pending = Nothing /\ today = 1

MCStatements ==
    {[name |-> "statement", balance |-> "stated", asof |-> 1,
      rows |-> {[key |-> 1, row |-> 1, side |-> "BUY", shares |-> 2, day |-> 1],
                [key |-> 2, row |-> 0, side |-> "SELL", shares |-> 1, day |-> 1]}]}

DailyInit ==
    /\ MailInit /\ AlertInit
    /\ OneBuy /\ rates = NoRates /\ inputs = 0
    /\ cache = {} /\ reader = [r \in Threads |-> Idle]
    /\ AdviceInit
    /\ part \in {"mails", "alerts", "pnl", "advice"}

\* The trade writes that matter to the pages: a sale, a correction (which
\* deletes) and an import.
FewWrites ==
    \/ RecordTrade("SELL", 1, 1)
    \/ DeletePosition(1, 1)
    \/ InsertCorrection
    \/ \E file \in Statements : ImportStatement(file, "zero")

PnlPart ==
    \/ FewWrites /\ UNCHANGED pnl
    \/ \E r \in Threads : ReadPnl(r)
    \/ ProcessEnds

FewLosses ==
    /\ assigned' \subseteq assigned
    /\ Cardinality(Portfolios \ assigned')
         + Cardinality({r \in Runs : pass'[r].at \in {"dead", "broken"}}) <= 1

DailyNext ==
    /\ UNCHANGED part
    /\ \/ part = "mails" /\ MailNext /\ FewLosses /\ UNCHANGED <<alertBook, ledger, pnl, advice>>
       \/ part = "alerts" /\ AlertNext /\ UNCHANGED <<dispatch, ledger, pnl, advice>>
       \/ part = "pnl" /\ PnlPart /\ UNCHANGED <<dispatch, alertBook, advice>>
       \/ part = "advice" /\ AdviceNext /\ UNCHANGED <<dispatch, alertBook, ledger, pnl>>

DailySpec == DailyInit /\ [][DailyNext]_daily

MCCooldown == [breakout |-> 1, approaching |-> 2]

\* One ticker in two portfolios, bought at a known price in one of them.
MCHeld == {[portfolio |-> 1, ticker |-> "t1", cost |-> 2],
           [portfolio |-> 2, ticker |-> "t1", cost |-> 0]}

\* A stock that halts, falls, or doubles and splits in two; a benchmark that
\* rises or rests.  Prices stay whole through a split on each session.
Bar(high, low, close, volume, split) ==
    [high |-> high, low |-> low, close |-> close, volume |-> volume, split |-> split]
MCBars == <<{<<>>, Bar(16, 8, 8, 2, 1), Bar(24, 24, 24, 8, 2)},
            {Bar(24, 16, 24, 1, 1), Bar(16, 16, 16, 4, 1)}>>

MCWeek == <<1, 1, 2, 3>>
MCWindows == [d50 |-> 2, d150 |-> 2, d200 |-> 3, d204 |-> 4, d253 |-> 2,
              w30 |-> 1, w40 |-> 2, w52 |-> 3, lag |-> 1]

Of(stage, base, score) == [stage |-> stage, base |-> base, score |-> score, pivot |-> 20]
MCScans == <<{NoScan, Of(2, "Breakout", 80), Of(1, "Damaged", 60)}, {Of(2, "Breakout", 70)}>>

Setting(regime, upgrade) ==
    [regime |-> regime, regimeLength |-> 2, top |-> 1, box |-> 2, boxDepth |-> 70,
     relativeVolume |-> 100, fast |-> 2, slow |-> 3, entry |-> 2, exit |-> 1,
     breakout |-> 2, minimumScore |-> 70, extension |-> 150, maximumLoss |-> 50,
     upgrade |-> upgrade, margin |-> 5]
MCSettings == {Setting(FALSE, TRUE), Setting(TRUE, FALSE)}

MCHoldings == {[cash |-> 0, cost |-> 2 :> 24], [cash |-> 5, cost |-> 1 :> 24 @@ 2 :> 16]}

\* The benchmark pays a quarter of its price, the stock a half on the session it
\* may split on.
MCDividends == <<<<[session |-> 3, kept |-> 1, of |-> 2]>>, <<[session |-> 2, kept |-> 3, of |-> 4]>>>>

\* All in order; the base broken; one named twice, with the evidence of the other
\* doubled; evidence of the session before; no evidence, and a record missing.
Artifact(records, entries, age, base) ==
    [records |-> records, entries |-> entries, age |-> age,
     found |-> <<Of(IF base = "Damaged" THEN 4 ELSE 2, base, 80), Of(2, "Breakout", 70)>>]
MCArtifacts ==
    {Artifact(<<1, 1>>, <<1, 1>>, 0, "Breakout"), Artifact(<<1, 1>>, <<1, 1>>, 0, "Damaged"),
     Artifact(<<1, 2>>, <<2, 1>>, 0, "Breakout"), Artifact(<<1, 1>>, <<1, 1>>, 1, "Damaged"),
     Artifact(<<0, 1>>, <<1, 1>>, -1, "Damaged")}

MCSymmetry == Permutations(Portfolios) \cup Permutations(Runs) \cup Permutations(Threads)
=============================================================================
