--------------------------- MODULE BacktestEngine ---------------------------
(***************************************************************************)
(* The backtest simulation: _Engine replays the union of the trading        *)
(* sessions of its securities' exchanges, and in every session applies the  *)
(* corporate actions of what it holds, executes the orders that are due,    *)
(* values the portfolio and asks the strategy for signals.                  *)
(*                                                                         *)
(* Amounts are whole numbers of the smallest unit (eight decimal places in  *)
(* the program); a conversion rounds half to even and the allocation target *)
(* rounds down, as there.  The strategy may signal anything: a signal that  *)
(* is skipped leaves no trace here, so a choice among the signals that are  *)
(* accepted stands for all.  Rule ids, cost bases and the equity curve are  *)
(* left out; no step of the engine looks at them.                           *)
(***************************************************************************)
EXTENDS Integers, FiniteSetsExt

CONSTANTS
  Securities,      \* the pinned securities, numbered in the order of their ids
  LastSession,     \* bound: sessions of the run
  StartingCapital,
  Evidence         \* the market data a manifest may pin

Sessions == 1 .. LastSession

(* Per security and session: whether its exchange trades, the as-traded     *)
(* open (0: no row), the split (shares times up, divided by down), the      *)
(* dividend per share, and the rate into the base currency (num 0: missing, *)
(* stale or ambiguous).                                                     *)
Quote == [trades : BOOLEAN, open : Nat, up : Nat \ {0}, down : Nat \ {0},
          dividend : Nat, num : Nat, den : Nat \ {0}]

ASSUME EngineAssumption ==
  /\ Securities \subseteq Nat
  /\ IsFiniteSet(Securities)
  /\ LastSession \in Nat \ {0}
  /\ StartingCapital \in Nat
  /\ Evidence \subseteq [Securities -> [Sessions -> Quote]]

VARIABLES
  market,     \* the evidence the run is given
  session, phase,
  funds,      \* cash in the base currency
  positions,  \* shares held, 0 for none
  orders,    \* the one order of a security that waits for its fill
  entered     \* history: the session and shares of the position's entry

engine == <<market, session, phase, funds, positions, orders, entered>>

NoOrder == [side |-> "none", fill |-> 0, target |-> 0]
NoEntry == [session |-> 0, shares |-> 0]

HeldNow == {s \in Securities : positions[s] > 0}
Waiting == {s \in Securities : orders[s] # NoOrder}
Buys == {s \in Securities : orders[s].side = "BUY"}
Due == {s \in Waiting : orders[s].fill = session}

(* quantize_eight: n / d, rounded half to even.                             *)
HalfEven(n, d) ==
  LET q == n \div d
      r == n % d
  IN  IF 2 * r < d \/ (2 * r = d /\ q % 2 = 0) THEN q ELSE q + 1

(* What sum() adds up: the values of a function on a finite set.             *)
SumOf(f) == FoldFunction(+, 0, f)

Today(s) == market[s][session]

(* convert_to_base at this session.                                         *)
Convertible(s) == Today(s).num > 0
InBase(s, amount) == HalfEven(amount * Today(s).num, Today(s).den)

(* Mutant of Later: the signal's own session will do.                       *)
LaterOrNow(s) == {d \in Sessions : d >= session /\ market[s][d].trades}

(* _next_mic_session: sessions after this one on which the exchange trades. *)
Later(s) == {d \in Sessions : d > session /\ market[s][d].trades}

NextSession(s) == CHOOSE d \in Later(s) : \A e \in Later(s) : d <= e

Goto(next) == phase' = next
EndRun == Goto("failed") /\ UNCHANGED <<market, session, funds, positions, orders, entered>>

-----------------------------------------------------------------------------

(* apply_split: no fractional share is paid out.                            *)
Splits(s) == (positions[s] * Today(s).up) % Today(s).down = 0
AfterSplit(s) == (positions[s] * Today(s).up) \div Today(s).down

Pays(s) == Today(s).dividend > 0
Credit(s) == IF Pays(s) THEN InBase(s, positions[s] * Today(s).dividend) ELSE 0

(* _apply_actions: the dividend of a day is paid on the shares before its   *)
(* split.                                                                   *)
ApplyActions ==
  /\ phase = "actions"
  /\ IF \E s \in HeldNow : ~Splits(s) \/ (Pays(s) /\ ~Convertible(s))
     THEN EndRun
     ELSE /\ positions' = [s \in Securities |->
                             IF s \in HeldNow THEN AfterSplit(s) ELSE positions[s]]
          /\ funds' = funds + SumOf([s \in HeldNow |-> Credit(s)])
          /\ Goto("fills")
          /\ UNCHANGED <<market, session, orders, entered>>

(* Mutant of Bought: the actions of the session come after its fills.       *)
BoughtThenSplit(s, count) == (count * Today(s).up) \div Today(s).down

(* Actions come before fills: the open already is the price after a split.  *)
Bought(s, count) == count

(* _execute_buy.  A share's price is converted and rounded first, and the   *)
(* whole cost again, so that the cost may exceed what the shares were       *)
(* counted for; the engine then ends the run.                               *)
FillBuy(s) ==
  LET price == Today(s).open
      share == InBase(s, price)
      count == orders[s].target \div share
      cost == InBase(s, price * count)
      skip == UNCHANGED <<funds, positions, entered>>
  IN  IF s \in HeldNow THEN skip /\ UNCHANGED phase
      ELSE IF ~Convertible(s) \/ share = 0 THEN Goto("failed") /\ skip
      ELSE IF count = 0 THEN skip /\ UNCHANGED phase
      ELSE IF cost > orders[s].target THEN Goto("failed") /\ skip
      ELSE IF cost > funds THEN skip /\ UNCHANGED phase
      ELSE /\ funds' = funds - cost
           /\ positions' = [positions EXCEPT ![s] = Bought(s, count)]
           /\ entered' = [entered EXCEPT ![s] = [session |-> session, shares |-> count]]
           /\ UNCHANGED phase

(* _execute_sell: whatever is held by now.                                  *)
FillSell(s) ==
  IF s \notin HeldNow THEN UNCHANGED <<phase, funds, positions, entered>>
  ELSE IF ~Convertible(s) THEN Goto("failed") /\ UNCHANGED <<funds, positions, entered>>
  ELSE /\ funds' = funds + InBase(s, Today(s).open * positions[s])
       /\ positions' = [positions EXCEPT ![s] = 0]
       /\ entered' = [entered EXCEPT ![s] = NoEntry]
       /\ UNCHANGED phase

(* _fill_sort_key: sales first, then by security.                           *)
Before(s, t) ==
  \/ orders[s].side = "SELL" /\ orders[t].side = "BUY"
  \/ orders[s].side = orders[t].side /\ s <= t

(* _execute_fills, one order.                                               *)
FillOrder(s) ==
  /\ phase = "fills"
  /\ s \in Due
  /\ \A t \in Due : Before(s, t)
  /\ orders' = [orders EXCEPT ![s] = NoOrder]
  /\ IF Today(s).open = 0
     THEN Goto("failed") /\ UNCHANGED <<funds, positions, entered>>
     ELSE IF orders[s].side = "BUY" THEN FillBuy(s) ELSE FillSell(s)
  /\ UNCHANGED <<market, session>>

(* _value_state, which converts every position it marks.                    *)
Value ==
  /\ phase = "fills"
  /\ Due = {}
  /\ IF \E s \in HeldNow : ~Convertible(s) THEN EndRun
     ELSE Goto("signals") /\ UNCHANGED <<market, session, funds, positions, orders, entered>>

Reserved == SumOf([s \in Buys |-> orders[s].target])

(* Mutant of Unreserved: earlier reservations are not taken off.            *)
UnreservedCash == funds
Unreserved == funds - Reserved

(* _schedule_signal and _preflight_buy: no order waits, a sale has its      *)
(* position and a purchase none, and a session is left to fill it in.       *)
Fits(s, side) ==
  /\ s \notin Waiting
  /\ side = "SELL" <=> s \in HeldNow
  /\ Later(s) # {}

Order(s, side, target) == [side |-> side, fill |-> NextSession(s), target |-> target]

Schedule(sales, purchases, target) ==
  /\ orders' = [s \in Securities |->
                   IF s \in sales THEN Order(s, "SELL", 0)
                   ELSE IF s \in purchases THEN Order(s, "BUY", target)
                   ELSE orders[s]]
  /\ Goto("published")
  /\ UNCHANGED <<market, session, funds, positions, entered>>

(* The equal share of count purchases in what is not reserved, rounded down.*)
Share(target, count) ==
  target * count <= Unreserved /\ Unreserved < (target + 1) * count

(* _process_signals: the sales, and the purchases as one cohort.            *)
ProcessSignals(sales, purchases) ==
  /\ phase = "signals"
  /\ \A s \in sales : Fits(s, "SELL")
  /\ \A s \in purchases : Fits(s, "BUY")
  /\ \/ purchases = {} /\ Schedule(sales, {}, 0)
     \/ /\ purchases # {}
        /\ IF Unreserved < 0 THEN EndRun
           ELSE \E target \in 0 .. funds :
                  Share(target, Cardinality(purchases)) /\ Schedule(sales, purchases, target)

(* A strategy that raises or breaks its protocol, or a lost claim at the    *)
(* sink or the month boundary: the run has no result.                       *)
Abort == phase \notin {"done", "failed"} /\ EndRun

(* run: the next session; after the last one the positions are marked.      *)
Advance ==
  /\ phase = "published"
  /\ IF session = LastSession THEN Goto("done") /\ UNCHANGED session
                              ELSE Goto("actions") /\ session' = session + 1
  /\ UNCHANGED <<market, funds, positions, orders, entered>>

EngineInit ==
  /\ market \in Evidence
  /\ session = 1 /\ phase = "actions"
  /\ funds = StartingCapital
  /\ positions = [s \in Securities |-> 0]
  /\ orders = [s \in Securities |-> NoOrder]
  /\ entered = [s \in Securities |-> NoEntry]

EngineNext ==
  \/ ApplyActions \/ Value \/ Advance \/ Abort
  \/ \E s \in Securities : FillOrder(s)
  \/ \E sales, purchases \in SUBSET Securities : ProcessSignals(sales, purchases)

EngineSpec == EngineInit /\ [][EngineNext]_engine

-----------------------------------------------------------------------------

(* Until its fill an accepted order still fits the portfolio it was         *)
(* accepted for, whatever splits and other fills come first: a purchase     *)
(* finds no position, a sale finds one, on a session that is still to come. *)
(* At the end no order is left.                                             *)
OrdersFit ==
  phase # "failed" =>
    \A s \in Waiting :
      /\ orders[s].side = "SELL" <=> s \in HeldNow
      /\ orders[s].fill >= session
      /\ phase \in {"signals", "published"} => orders[s].fill > session
      /\ phase # "done"

(* The cash covers every target that is reserved, for purchases of several  *)
(* days and exchanges at a time: none is skipped for lack of cash, and no   *)
(* cohort is given what an earlier one was promised.                        *)
ReservationsCovered == Reserved <= funds

(* The product of the splits of s after one session up to another.          *)
Product(g, from, until) ==
  LET f[d \in 0 .. LastSession] == IF d <= from THEN 1 ELSE f[d - 1] * g[d]
  IN  f[until]
SplitUp(s, from, until) == Product([d \in Sessions |-> market[s][d].up], from, until)
SplitDown(s, from, until) == Product([d \in Sessions |-> market[s][d].down], from, until)

(* A position is what was bought, times every split since its entry and no  *)
(* split of the entry's own session, which its price already has.           *)
SharesFollowSplits ==
  \A s \in HeldNow :
    LET until == IF phase = "actions" THEN session - 1 ELSE session
    IN  /\ entered[s].shares > 0
        /\ phase # "failed" =>
             positions[s] * SplitDown(s, entered[s].session, until)
               = entered[s].shares * SplitUp(s, entered[s].session, until)

=============================================================================
