---------------------------- MODULE TradeLedger ----------------------------
(***************************************************************************)
(* The trades of one ticker in one portfolio, the revision every write of  *)
(* them moves, the portfolio's cash balance, its value snapshots and its   *)
(* import receipts: what trades.db keeps and what the routes that write    *)
(* trades do to it (TraderAgent, TradesRepository, routes/trades.py and    *)
(* routes/portfolio.py).                                                   *)
(*                                                                         *)
(* The write routes are "async def" handlers with synchronous bodies, so   *)
(* they run one after another on the event loop; pages and backfills run   *)
(* on worker threads beside them.  "loop" says what holds the event loop.  *)
(* Every action is one transaction; only a correction takes two.           *)
(***************************************************************************)
EXTENDS TradeReplay

CONSTANTS
  Shares,      \* quantities a trade may have
  LastDay,     \* days are 1..LastDay
  Statements,  \* provider files: [name, rows, balance, asof]
  MaxTrades,   \* bound: ids ever given to a trade
  MaxRevision, \* bound: writes of the trades table
  MaxRows,     \* bound: snapshot rows
  Threads      \* page views and acknowledgements that may run at once

(* What a file says of the cash.  "stated": a running balance, the winning  *)
(* row's, as of a day or (0) of none.  "unstated": its contract maps one    *)
(* but no row has it.  "deltas": its contract maps none, and each row is    *)
(* worth its credit less its debit.                                        *)
Balances == {"stated", "unstated", "deltas"}

(* A quantity is positive (CHECK(shares > 0)); an imported row has a key   *)
(* and a position of its own in its file.                                  *)
ASSUME LedgerAssumption ==
  /\ LastDay \in Nat /\ Shares \subseteq Nat \ {0}
  /\ \A file \in Statements :
       /\ IsFiniteSet(file.rows) /\ file.asof \in Nat /\ file.balance \in Balances
       /\ \A r \in file.rows : /\ r.key \in Nat \ {0} /\ r.row \in Nat /\ r.day \in Nat
                              /\ r.side \in {"BUY", "SELL"} /\ r.shares \in Nat \ {0}
       /\ \A q, r \in file.rows : q.row = r.row => q = r
  /\ \A file, other \in Statements : file.name = other.name => file = other

VARIABLES
  trades,    \* trades: the rows
  lastId,    \* the last AUTOINCREMENT id
  revision,  \* portfolio_trade_revisions
  cash,      \* account_state cash_balance and its date: [of, asof, added]
  receipts,  \* import_receipts, in order: [name, inserted]
  rows,      \* portfolio_snapshots, in order of insertion
  loop,      \* what holds the event loop
  pending,   \* the correction whose second transaction is still to come
  today      \* the current UTC day

ledger == <<trades, lastId, revision, cash, receipts, rows, loop, pending, today>>

Days == 1 .. LastDay
Free == "free"
Nothing == [shares |-> 0, day |-> 0]

Trade(id, side, shares, day, source) ==
  [id |-> id, key |-> 0, row |-> -1, side |-> side, shares |-> shares,
   day |-> day, source |-> source, acked |-> FALSE]

(* The triggers on trades: each row written moves the revision, in the     *)
(* same transaction as the row.                                            *)
Bumped(writes) ==
  /\ revision + writes <= MaxRevision
  /\ revision' = revision + writes

(* INSERT: the next id, a bump.                                            *)
Inserted(trade) ==
  /\ lastId < MaxTrades
  /\ lastId' = lastId + 1
  /\ trades' = trades \cup {[trade EXCEPT !.id = lastId + 1]}
  /\ Bumped(1)

(* POST /trades, BUY or SELL.                                              *)
RecordTrade(side, shares, day) ==
  /\ loop = Free
  /\ Inserted(Trade(0, side, shares, day, "manual"))
  /\ UNCHANGED <<cash, receipts, rows, loop, pending, today>>

(* DELETE /trades/{id}.                                                    *)
DeleteTrade(t) ==
  /\ loop = Free
  /\ t \in trades
  /\ trades' = trades \ {t}
  /\ Bumped(1)
  /\ UNCHANGED <<lastId, cash, receipts, rows, loop, pending, today>>

(* POST /trades, CORRECT: first every trade of the ticker goes ...         *)
DeletePosition(shares, day) ==
  /\ loop = Free
  /\ lastId < MaxTrades
  /\ revision + Cardinality(trades) < MaxRevision
  /\ trades' = {}
  /\ Bumped(Cardinality(trades))
  /\ loop' = "correct"
  /\ pending' = [shares |-> shares, day |-> day]
  /\ UNCHANGED <<lastId, cash, receipts, rows, today>>

(* ... and then, in a transaction of its own, one buy replaces them.       *)
InsertCorrection ==
  /\ loop = "correct"
  /\ Inserted(Trade(0, "BUY", pending.shares, pending.day, "correction"))
  /\ loop' = Free
  /\ pending' = Nothing
  /\ UNCHANGED <<cash, receipts, rows, today>>

(* _opening_lot_duplicate_check.                                           *)
SameLot(others, shares, day) ==
  \E t \in others : t.source = "opening_lot" /\ t.shares = shares /\ t.day = day

RecordOpeningLot(shares, day) ==
  /\ loop = Free
  /\ ~SameLot(trades, shares, day)
  /\ Inserted(Trade(0, "BUY", shares, day, "opening_lot"))
  /\ UNCHANGED <<cash, receipts, rows, loop, pending, today>>

(* Editing and deleting a lot are refused once a sell has touched it.      *)
UpdateOpeningLot(lot, shares, day) ==
  /\ loop = Free
  /\ lot \in trades /\ lot.source = "opening_lot"
  /\ Unconsumed(trades, lot)
  /\ ~SameLot(trades \ {lot}, shares, day)
  /\ trades' = (trades \ {lot}) \cup {[lot EXCEPT !.shares = shares, !.day = day]}
  /\ Bumped(1)
  /\ UNCHANGED <<lastId, cash, receipts, rows, loop, pending, today>>

DeleteOpeningLot(lot) ==
  /\ lot.source = "opening_lot"
  /\ Unconsumed(trades, lot)
  /\ DeleteTrade(lot)

(* The rows INSERT OR IGNORE keeps: those whose key the portfolio lacks,   *)
(* of several with one key the first in the file, numbered in file order.  *)
Fresh(file) ==
  {r \in file.rows : /\ \A t \in trades : t.key # r.key
                     /\ \A q \in file.rows : q.key = r.key => r.row <= q.row}

Numbered(fresh) ==
  {[Trade(lastId + Cardinality({q \in fresh : q.row <= r.row}),
          r.side, r.shares, r.day, "sipp_import")
      EXCEPT !.key = r.key, !.row = r.row] : r \in fresh}

(* An amount of cash is what it is made of: the balance a file stated ("of", *)
(* "asof"), and the rows added since ("added": row key |-> how often).      *)
Keys == UNION {{r.key : r \in file.rows} : file \in Statements}
NoRows == [k \in Keys |-> 0]
Opening == [of |-> "opening", asof |-> 0, added |-> NoRows]

(* _apply_import_cash_balance: a statement older than the balance stored,  *)
(* or one without a date once a dated one is stored, leaves it alone.      *)
Newer(asof) == cash.asof = 0 \/ asof >= cash.asof

(* _apply_import_cash_balance_delta: the rows written are added to whatever *)
(* is stored, of whatever day.                                             *)
WithRows(fresh) ==
  [cash EXCEPT !.added = [k \in Keys |-> IF \E r \in fresh : r.key = k THEN @[k] + 1 ELSE @[k]]]

(* Mutant of CashAfter: rows go by the date too, as a file without one.    *)
CashAfterGuarded(file, fresh) ==
  CASE file.balance = "stated" /\ Newer(file.asof) ->
         [of |-> file.name, asof |-> file.asof, added |-> NoRows]
    [] file.balance = "deltas" /\ Newer(0) -> WithRows(fresh)
    [] OTHER -> cash

CashAfter(file, fresh) ==
  CASE file.balance = "stated" /\ Newer(file.asof) ->
         [of |-> file.name, asof |-> file.asof, added |-> NoRows]
    [] file.balance = "deltas" -> WithRows(fresh)
    [] OTHER -> cash

Snapshot(day, kind, value) == [day |-> day, kind |-> kind, value |-> value]

(* POST /import-sipp: trades, cash balance, snapshot and receipt in one    *)
(* transaction.  The snapshot's value is what the analysis artifact prices *)
(* and zero when it cannot be read.                                        *)
ImportStatement(file, value) ==
  /\ loop = Free
  /\ lastId + Cardinality(Fresh(file)) <= MaxTrades
  /\ Len(rows) < MaxRows
  /\ lastId' = lastId + Cardinality(Fresh(file))
  /\ trades' = trades \cup Numbered(Fresh(file))
  /\ Bumped(Cardinality(Fresh(file)))
  /\ cash' = CashAfter(file, Fresh(file))
  /\ receipts' = Append(receipts, [name |-> file.name, inserted |-> {r.key : r \in Fresh(file)}])
  /\ rows' = Append(rows, Snapshot(today, "live", value))
  /\ UNCHANGED <<loop, pending, today>>

(* The live writer: a price refresh or a pipeline run appends a snapshot   *)
(* of the day its clock showed, NULL ("none") when a holding cannot be     *)
(* valued.  It looks at the clock before it reads the cash and inserts: a  *)
(* row whose midnight came in between is "late".                           *)
UpdatePortfolioSnapshot(stamp, value) ==
  /\ stamp \in {today - 1, today} /\ stamp > 0
  /\ Len(rows) < MaxRows
  /\ rows' = Append(rows, Snapshot(stamp, IF stamp = today THEN "live" ELSE "late", value))
  /\ UNCHANGED <<trades, lastId, revision, cash, receipts, loop, pending, today>>

LedgerInit ==
  /\ trades = {} /\ lastId = 0 /\ revision = 0
  /\ cash = Opening
  /\ receipts = <<>> /\ rows = <<>>
  /\ loop = Free /\ pending = Nothing /\ today = 1

WriteTrades ==
  \/ \E side \in {"BUY", "SELL"}, shares \in Shares, day \in Days :
       RecordTrade(side, shares, day)
  \/ \E t \in trades : DeleteTrade(t)
  \/ \E shares \in Shares, day \in Days : DeletePosition(shares, day)
  \/ InsertCorrection
  \/ \E shares \in Shares, day \in Days : RecordOpeningLot(shares, day)
  \/ \E lot \in trades, shares \in Shares, day \in Days : UpdateOpeningLot(lot, shares, day)
  \/ \E lot \in trades : DeleteOpeningLot(lot)
  \/ \E file \in Statements, value \in {"real", "zero"} : ImportStatement(file, value)

-----------------------------------------------------------------------------

StatementNamed(name) == CHOOSE file \in Statements : file.name = name
Imported(i) == StatementNamed(receipts[i].name)

(* No balance imported so far is newer than that of import i; of those of  *)
(* one day the last counts, and an undated one until a dated one arrives.  *)
HasLastWord(i) ==
  /\ Imported(i).balance = "stated"
  /\ \A k \in DOMAIN receipts : Imported(k).balance = "stated" =>
       \/ Imported(k).asof < Imported(i).asof
       \/ Imported(k).asof = Imported(i).asof /\ k <= i

(* How often a row was written by files of deltas imported after i.        *)
Written(key, i) ==
  Cardinality({k \in DOMAIN receipts :
    k > i /\ Imported(k).balance = "deltas" /\ key \in receipts[k].inserted})

MadeOf(i) == \A key \in Keys : cash.added[key] = Written(key, i)

(* The cash balance is the newest one ever stated, whatever order the files *)
(* came in, and every row that a file of deltas has written since that one  *)
(* came, each as often as it was written: no old statement brings an old    *)
(* balance back, a repeated import counts nothing twice, and "the additive  *)
(* delta is never silently dropped" for a date that is stored.             *)
CashFollowsNewest ==
  /\ (\A i \in DOMAIN receipts : Imported(i).balance # "stated") =>
       cash.of = "opening" /\ MadeOf(0)
  /\ \A i \in DOMAIN receipts : HasLastWord(i) =>
       cash.of = receipts[i].name /\ cash.asof = Imported(i).asof /\ MadeOf(i)

=============================================================================
