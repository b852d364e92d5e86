---------------------------- MODULE PaperSession ----------------------------
(***************************************************************************)
(* One candle of the paper session (services/paper_session.py) and the      *)
(* account behind it: the sizer and the risk limits (risk/), the broker     *)
(* that fills every order it gets (broker/paper_broker.py), the portfolio   *)
(* that books the fill (portfolio/portfolio.py), the protective stop        *)
(* (risk/stop_loss.py), and the snapshot a new process goes on from.        *)
(*                                                                          *)
(* When the checkpoints are written, and what a death inside one leaves, is *)
(* the subject of PaperAgent; this module is about the money.  All of it is *)
(* exact, as Decimal is here: rates are in units of 1/Den, prices in units  *)
(* of 1/Den^3 and amounts in units of 1/Den^4, so that a stop's fill with   *)
(* its commission is still an integer.  One instrument, as in the session;  *)
(* a poll of several candles is several steps.                              *)
(***************************************************************************)
EXTENDS Integers, Sequences

CONSTANTS Den,          \* rates are n / Den
          Slip, Fee,    \* slippage_rate, commission_rate
          Fixed,        \* commission_fixed
          StopPct,      \* paper_stop_loss_pct
          RiskPct,      \* paper_risk_per_trade_pct
          InitialCash,  \* initial_capital
          Lot, Mult,    \* lot_size and multiplier of the instrument
          MaxQty, MaxNotional, MaxLoss,   \* the limits of the risk manager
          Prices,       \* the prices of the market
          NBars,        \* the candles are 1 .. NBars
          MaxDay,       \* bound on the days
          MaxRestarts   \* bound on the processes

ASSUME SessionAssumption ==
    /\ Den \in Nat \ {0} /\ {Slip, Fee, Fixed} \subseteq Nat /\ Slip < Den
    /\ {StopPct, RiskPct, Lot, Mult, MaxQty, InitialCash} \subseteq Nat \ {0}
    /\ StopPct < Den /\ {MaxNotional, MaxLoss} \subseteq Nat \ {0}
    /\ Prices \subseteq Nat \ {0}
    /\ {NBars, MaxRestarts} \subseteq Nat /\ MaxDay \in Nat \ {0}

VARIABLES session,  \* the session in memory with its portfolio and broker
          saved,    \* the last snapshot, or Fresh
          day,      \* the date of the clock
          restarts, \* processes so far, after the first
          seen      \* history: the last candle this process decided on

vars == <<session, saved, day, restarts, seen>>
-----------------------------------------------------------------------------
Candles == 1 .. NBars
Days == 1 .. MaxDay
Unit == Den * Den * Den
Money == Unit * Den
Unseen == [id |-> 0, low |-> 0]

(* cash, position and profit; the trade history, of which the candle is the *)
(* one decided on (history); the broker's fills; the guards and counters of *)
(* the session.  entry is the entry candle, or 0.                           *)
Fresh ==
    [cash |-> InitialCash * Money, qty |-> 0, avg |-> 0, realized |-> 0,
     fees |-> 0, pnl |-> [d \in Days |-> 0], trades |-> <<>>, placed |-> 0,
     consumed |-> {}, entry |-> 0,
     orders |-> 0, fills |-> 0, rejections |-> 0, skips |-> 0]

Init ==
    /\ session = Fresh /\ saved = Fresh
    /\ day = 1 /\ restarts = 0 /\ seen = Unseen
-----------------------------------------------------------------------------
(* The broker: a fill at the reference price, moved against the order.      *)
FillPrice(side, ref) ==
    (ref * (IF side = "BUY" THEN Den + Slip ELSE Den - Slip)) \div Den
Commission(qty, price) == qty * price * Mult * Fee + Fixed * Money

(* apply_fill: cash, then the position.  A sale books the profit over the   *)
(* average entry; it never exceeds the position, or it raises before        *)
(* anything is changed.  The session buys only while flat, so the blending  *)
(* of entries and the reversal of a position are left out.                  *)
Bookable(s, side, qty) == side = "SELL" => qty <= s.qty

\* Mutant: the commission of a sale is not taken from the cash.
BookedWithoutFee(s, side, qty, price, b) ==
    LET amount == qty * price * Mult * Den
        profit == IF side = "SELL" THEN (price - s.avg) * qty * Mult * Den ELSE 0
    IN [s EXCEPT !.cash = IF side = "BUY" THEN @ - amount - Commission(qty, price)
                          ELSE @ + amount,
                 !.fees = @ + Commission(qty, price),
                 !.qty = IF side = "BUY" THEN @ + qty ELSE @ - qty,
                 !.avg = IF side = "BUY" THEN price ELSE @,
                 !.realized = @ + profit,
                 !.pnl[day] = @ + profit,
                 !.trades = Append(@, [side |-> side, bar |-> b])]
Booked(s, side, qty, price, b) ==
    LET amount == qty * price * Mult * Den
        fee == Commission(qty, price)
        profit == IF side = "SELL" THEN (price - s.avg) * qty * Mult * Den ELSE 0
    IN [s EXCEPT !.cash = IF side = "BUY" THEN @ - amount - fee ELSE @ + amount - fee,
                 !.fees = @ + fee,
                 !.qty = IF side = "BUY" THEN @ + qty ELSE @ - qty,
                 !.avg = IF side = "BUY" THEN price ELSE @,
                 !.realized = @ + profit,
                 !.pnl[day] = @ + profit,
                 !.trades = Append(@, [side |-> side, bar |-> b])]

(* An order at the broker and its fill in the portfolio.                    *)
Executed(s, side, qty, ref, b) ==
    LET t == [s EXCEPT !.placed = @ + 1]
    IN IF Bookable(s, side, qty)
       THEN Booked(t, side, qty, FillPrice(side, ref), b) ELSE t

(* The session counts the order, and its fill or its failure.               *)
Counted(s, t) ==
    IF t.trades # s.trades
    THEN [t EXCEPT !.orders = @ + 1, !.fills = @ + 1]
    ELSE [t EXCEPT !.orders = @ + 1, !.rejections = @ + 1]
-----------------------------------------------------------------------------
(* The day's loss is booked profit only: commissions and an open position   *)
(* do not count.                                                            *)
\* Mutant: a profit is taken for a loss.
DailyProfitHit(s) == s.pnl[day] >= MaxLoss * Money
DailyLossHit(s) == s.pnl[day] <= -(MaxLoss * Money)

(* RiskManager.evaluate, at the reference price.                            *)
Approved(s, side, qty, close) ==
    /\ (IF side = "BUY" THEN s.qty + qty ELSE s.qty - qty) <= MaxQty
    /\ close * qty * Mult <= MaxNotional
    /\ ~DailyLossHit(s)

Submit(s, side, qty, bar) ==
    Counted(s, IF Approved(s, side, qty, bar.close)
               THEN Executed(s, side, qty, bar.close * Unit, bar.id) ELSE s)

(* _force_close: past the risk manager.                                     *)
ForceClose(s, bar) ==
    Counted(s, Executed(s, "SELL", s.qty, bar.close * Unit, bar.id))

(* The sizer: the part of the equity at risk, over the distance of the      *)
(* stop, in whole lots that the cash covers at the close; 0 is a refusal.   *)
Lots(n) == (n \div Lot) * Lot
Equity(s, close) == s.cash + s.qty * close * Mult * Money
Affordable(s, close) ==
    ((s.cash - Fixed * Money) * Den) \div (close * Mult * Money * (Den + Fee))
Size(s, close) ==
    LET risked == (Equity(s, close) * RiskPct) \div (close * StopPct * Mult * Money)
    IN IF Lots(risked) <= Lots(Affordable(s, close))
       THEN Lots(risked) ELSE Lots(Affordable(s, close))
-----------------------------------------------------------------------------
Ignored(s) == [s EXCEPT !.skips = @ + 1]

HandleBuy(s, bar) ==
    IF s.qty # 0 \/ DailyLossHit(s) \/ Size(s, bar.close) <= 0
    THEN Ignored(s)
    ELSE LET t == Submit(s, "BUY", Size(s, bar.close), bar)
         IN IF t.qty > 0 THEN [t EXCEPT !.entry = bar.id] ELSE t

(* The whole position is sold; the entry candle is forgotten only with it.  *)
SellOrder(s, bar) ==
    IF DailyLossHit(s) THEN ForceClose(s, bar)
    ELSE Submit(s, "SELL", s.qty, bar)
\* Mutant: the entry candle is forgotten although the order was refused.
HandleSellForgets(s, bar) ==
    IF s.qty <= 0 THEN Ignored(s)
    ELSE [SellOrder(s, bar) EXCEPT !.entry = 0]
HandleSell(s, bar) ==
    IF s.qty <= 0 THEN Ignored(s)
    ELSE LET t == SellOrder(s, bar)
         IN IF t.qty = 0 THEN [t EXCEPT !.entry = 0] ELSE t

(* The stop, below the filled entry price; a gap through it exits at the    *)
(* open.  Never on the entry candle, nor on one before it.                  *)
StopPrice(s) == (s.avg * (Den - StopPct)) \div Den
StopReference(s, bar) ==
    IF bar.open * Unit <= StopPrice(s) THEN bar.open * Unit ELSE StopPrice(s)
\* Mutant: the exit is sized by the lot, not by the position.
StopExitLot(s, bar) == Executed(s, "SELL", Lot, StopReference(s, bar), bar.id)
StopExit(s, bar) == Executed(s, "SELL", s.qty, StopReference(s, bar), bar.id)

\* Mutant: the stop is evaluated on the entry candle too.
HandleStopOnEntry(s, bar) ==
    IF \/ s.qty <= 0 \/ s.entry = 0 \/ s.entry > bar.id
       \/ bar.low * Unit > StopPrice(s)
    THEN s
    ELSE LET t == StopExit(s, bar)
         IN [t EXCEPT !.orders = @ + 1, !.fills = @ + 1, !.entry = 0]
HandleStop(s, bar) ==
    IF \/ s.qty <= 0 \/ s.entry = 0 \/ s.entry >= bar.id
       \/ bar.low * Unit > StopPrice(s)
    THEN s
    ELSE LET t == StopExit(s, bar)
             n == IF t.trades # s.trades
                  THEN [t EXCEPT !.orders = @ + 1, !.fills = @ + 1] ELSE t
         IN IF n.qty = 0 THEN [n EXCEPT !.entry = 0] ELSE n

HandleSignal(s, signal, bar) ==
    CASE signal = "BUY" -> HandleBuy(s, bar)
      [] signal = "SELL" -> HandleSell(s, bar)
      [] OTHER -> s

Bars == {bar \in [id : Candles, open : Prices, low : Prices, close : Prices] :
            bar.low <= bar.open /\ bar.low <= bar.close}

(* A completed candle that was not consumed yet, in the open phase and      *)
(* after the warm-up: the signal first, the stop second.  The provider may  *)
(* deliver a candle behind a later one.                                     *)
Candle ==
    \E bar \in Bars, signal \in {"BUY", "SELL", "HOLD"} :
        /\ bar.id \notin session.consumed
        /\ session' = [HandleStop(HandleSignal(session, signal, bar), bar)
                          EXCEPT !.consumed = @ \cup {bar.id}]
        /\ seen' = [id |-> bar.id, low |-> bar.low]
        /\ UNCHANGED <<saved, day, restarts>>

(* Outside the open phase, or in the warm-up, it is consumed undecided.     *)
SkipCandle ==
    \E b \in Candles \ session.consumed :
        /\ session' = [Ignored(session) EXCEPT !.consumed = @ \cup {b}]
        /\ seen' = Unseen
        /\ UNCHANGED <<saved, day, restarts>>

NewDay ==
    /\ day < MaxDay /\ day' = day + 1
    /\ UNCHANGED <<session, saved, restarts, seen>>

(* A snapshot; copying a portfolio without cash raises.                     *)
Savable(s) == s.cash > 0
Save ==
    /\ Savable(session) /\ saved' = session
    /\ UNCHANGED <<session, day, restarts, seen>>

(* The process ends and another one restores the last snapshot.             *)
Restored(s) == s
Restart ==
    /\ restarts < MaxRestarts /\ restarts' = restarts + 1
    /\ session' = Restored(saved) /\ seen' = Unseen
    /\ UNCHANGED <<saved, day>>

Next == Candle \/ SkipCandle \/ NewDay \/ Save \/ Restart

Spec == Init /\ [][Next]_vars
-----------------------------------------------------------------------------
(* The shape of the state.                                                  *)
Session ==
    [cash : Int, qty : Nat, avg : Nat, realized : Int, fees : Nat,
     pnl : [Days -> Int], trades : Seq([side : {"BUY", "SELL"}, bar : Candles]),
     placed : Nat, consumed : SUBSET Candles, entry : Candles \cup {0},
     orders : Nat, fills : Nat, rejections : Nat, skips : Nat]
TypeOK ==
    /\ session \in Session /\ saved \in Session
    /\ day \in Days /\ restarts \in 0 .. MaxRestarts
    /\ seen \in [id : Candles \cup {0}, low : Prices \cup {0}]

(* "Every session fill changes cash exactly as Portfolio.apply_fill         *)
(* specifies" (docs/trading/PAPER_TRADING_V1.md, criterion 20): at any      *)
(* price, cash and position are worth the initial cash with the booked      *)
(* profit, the profit of the position and the commissions paid.             *)
BooksBalance ==
    session.cash + session.qty * session.avg * Mult * Den
        = InitialCash * Money + session.realized - session.fees

(* The broker's fills, the portfolio's trades and the session's counters    *)
(* tell the same story, over restarts too: no fill was refused by the       *)
(* books (paper_session.py:526), and trades alternate.                      *)
EveryFillBooked ==
    /\ session.placed = Len(session.trades) /\ session.fills = session.placed
    /\ session.orders = session.fills + session.rejections
    /\ \A n \in DOMAIN session.trades :
          session.trades[n].side = IF n % 2 = 1 THEN "BUY" ELSE "SELL"
    /\ session.qty > 0 <=> Len(session.trades) % 2 = 1

(* "Each consumed candle produces at most one decision/order" (criterion    *)
(* 16), as far as fills go: an entry is not stopped out on its own candle,  *)
(* and no candle is traded again after a restart.                           *)
OneFillPerCandle ==
    \A m, n \in DOMAIN session.trades :
        m # n => session.trades[m].bar # session.trades[n].bar

(* "A breach produces a paper exit" (criterion 8): no candle decided after  *)
(* the entry candle leaves a position open that it took to its stop, also   *)
(* when a sale on that or an earlier candle was refused.                    *)
StopHolds ==
    (session.qty > 0 /\ \E n \in DOMAIN session.trades :
        n = Len(session.trades) /\ session.trades[n].bar < seen.id)
            => seen.low * Unit > StopPrice(session)

(* "The daily-loss cap gates new entries only" (PAPER_TRADING_V1.md, 7):    *)
(* a position is never open on a day whose cap is hit, so the cap never     *)
(* stands between a position and its exit.                                  *)
NoPositionOverCap == session.qty > 0 => session.pnl[day] > -(MaxLoss * Money)

=============================================================================
