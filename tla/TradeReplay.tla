---------------------------- MODULE TradeReplay ----------------------------
(***************************************************************************)
(* The two replays of one ticker's trades in one portfolio: first in,      *)
(* first out for realised P&L (RealisedPnlService._replay_fifo) and running *)
(* share count for open positions (TraderAgent._replay_trades), with the   *)
(* order both take the trades in.  Pure operators: a book is a set of      *)
(* trades, prices are left out, and shares are whole numbers, so           *)
(* QUANTITY_EPSILON is the strict comparison.                              *)
(*                                                                         *)
(* A trade is [id, key, row, side, shares, day, source, acked].  "key" is  *)
(* the idempotency key of an imported row (0: none) and "row" its position *)
(* in the imported file (-1: none).                                        *)
(***************************************************************************)
EXTENDS Integers, Sequences, FiniteSets, SequencesExt

(* _replay_sort_key and _REPLAY_ORDER: by date; within a date the last row *)
(* of a file first and a row without a position last; then key, then id.   *)
Earlier(t, u) ==
  \/ t.day < u.day
  \/ t.day = u.day /\ t.row > u.row
  \/ t.day = u.day /\ t.row = u.row /\ t.key < u.key
  \/ t.day = u.day /\ t.row = u.row /\ t.key = u.key /\ t.id < u.id

Ordered(trades) ==
  [i \in 1 .. Cardinality(trades) |->
     CHOOSE t \in trades : Cardinality({u \in trades : Earlier(u, t)}) = i - 1]

Lesser(m, n) == IF m < n THEN m ELSE n
Surplus(m, n) == IF m > n THEN m - n ELSE 0

(* The shares left in the first n lots of a queue.                         *)
Left(lots, n) ==
  LET sum[i \in 0 .. Len(lots)] == IF i = 0 THEN 0 ELSE sum[i - 1] + lots[i].left
  IN  sum[n]

LeftInAll(lots) == Left(lots, Len(lots))

(* What a sell of so many shares takes from lot i: what the lots in front  *)
(* of it could not cover, up to all the lot has.                           *)
Taken(lots, shares, i) == Lesser(lots[i].left, Surplus(shares, Left(lots, i - 1)))

(* The queue after it: an emptied lot is gone.                             *)
StillOpen(lots, shares) ==
  LET rest(i) == lots[i].left - Taken(lots, shares, i)
      open[i \in 0 .. Len(lots)] ==
        IF i = 0 THEN <<>>
        ELSE IF rest(i) = 0 THEN open[i - 1]
        ELSE Append(open[i - 1], [lots[i] EXCEPT !.left = rest(i)])
  IN  open[Len(lots)]

PushLot(book, buy) ==
  [book EXCEPT !.lots = Append(@, [id |-> buy.id, left |-> buy.shares, day |-> buy.day])]

(* A sell eats the queue from the front, and shares no lot covers become   *)
(* an unmatched sell that no later buy fills.                              *)
MatchSell(book, sell) ==
  LET lots    == book.lots
      taken(i) == Taken(lots, sell.shares, i)
      short   == Surplus(sell.shares, LeftInAll(lots))
  IN  [lots      |-> StillOpen(lots, sell.shares),
       trips     |-> book.trips \cup
                       {[buy |-> lots[i].id, sell |-> sell.id, shares |-> taken(i),
                         entry |-> lots[i].day, exit |-> sell.day] :
                          i \in {n \in DOMAIN lots : taken(n) > 0}},
       unmatched |-> IF short = 0 THEN book.unmatched
                     ELSE Append(book.unmatched,
                                 [id |-> sell.id, left |-> short, acked |-> sell.acked])]

EmptyBook == [lots |-> <<>>, trips |-> {}, unmatched |-> <<>>]

Matched(book, trade) ==
  IF trade.side = "BUY" THEN PushLot(book, trade) ELSE MatchSell(book, trade)

ReplayFifo(trades) ==
  LET order == Ordered(trades)
      book[i \in 0 .. Cardinality(trades)] ==
        IF i = 0 THEN EmptyBook ELSE Matched(book[i - 1], order[i])
  IN  book[Cardinality(trades)]

(* Mutant of FifoNet: shares sold beyond the lots are forgotten.           *)
FifoNetOpen(book) == LeftInAll(book.lots)

(* The position FIFO stands for: open lots less the shortfalls.            *)
FifoNet(book) == LeftInAll(book.lots) - LeftInAll(book.unmatched)

(* The share count of the average-cost replay, which takes the trades in   *)
(* the same order: a sell of more than is held leaves a negative count.    *)
Moved(trade) == IF trade.side = "BUY" THEN trade.shares ELSE -trade.shares

NetShares(trades) ==
  LET order == Ordered(trades)
      held[i \in 0 .. Cardinality(trades)] ==
        IF i = 0 THEN 0 ELSE held[i - 1] + Moved(order[i])
  IN  held[Cardinality(trades)]

(* holdings_as_of: something is held on the day.                           *)
HeldOn(trades, day) == NetShares({t \in trades : t.day <= day}) > 0

(* opening_lot_status: a lot no sell has touched.                          *)
Unconsumed(trades, lot) ==
  \E open \in Range(ReplayFifo(trades).lots) : open.id = lot.id /\ open.left = lot.shares

=============================================================================
