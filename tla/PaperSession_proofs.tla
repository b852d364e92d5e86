------------------------ MODULE PaperSession_proofs ------------------------
(***************************************************************************)
(* Theorems about PaperSession for any rates, prices, limits, candles and  *)
(* days: the books balance, every fill is booked, a candle trades at most  *)
(* once, a stop holds and the loss cap never holds a position.             *)
(*                                                                         *)
(* The session is a record that each operation of a candle maps to another *)
(* one, so the invariant is a predicate of a record; it holds of the       *)
(* session in memory and of the snapshot a restart goes on from.           *)
(***************************************************************************)
EXTENDS PaperSession, SequenceTheorems, TLAPS

Fill == [side : {"BUY", "SELL"}, bar : Candles]

\* Amounts, and that cash and position are worth the initial cash, the profit and the fees.
Amount(qty, price) == qty * price * Mult * Den

Balanced(s) ==
    s.cash + Amount(s.qty, s.avg)
        = InitialCash * Money + s.realized - s.fees

\* Purchases and sales alternate, and the last one left the position.
Alternate(trades, qty) ==
    /\ \A n \in 1 .. Len(trades) :
          trades[n].side = IF n % 2 = 1 THEN "BUY" ELSE "SELL"
    /\ qty > 0 <=> Len(trades) % 2 = 1

\* Fills, trades and counters agree.
Counts(s) ==
    /\ s.placed = Len(s.trades) /\ s.fills = s.placed
    /\ s.orders = s.fills + s.rejections
    /\ Alternate(s.trades, s.qty)

\* No candle was traded twice, and none that was not consumed.
Once(s) ==
    /\ \A n \in 1 .. Len(s.trades) : s.trades[n].bar \in s.consumed
    /\ \A m, n \in 1 .. Len(s.trades) :
          m # n => s.trades[m].bar # s.trades[n].bar

\* An open position knows the candle it was bought on.
Armed(s) == s.qty > 0 => s.entry = s.trades[Len(s.trades)].bar

\* No profit of a day to come is booked, and no position is open on a day
\* whose cap is hit.
Capped(s, today) ==
    /\ \A d \in Days : d > today => s.pnl[d] = 0
    /\ s.qty > 0 => \A d \in Days : d >= today => s.pnl[d] > -(MaxLoss * Money)

Sound(s, today) ==
    /\ s \in Session
    /\ Balanced(s) /\ Counts(s) /\ Once(s) /\ Armed(s) /\ Capped(s, today)

IInv == TypeOK /\ Sound(session, day) /\ Sound(saved, day) /\ StopHolds
-----------------------------------------------------------------------------
(* Amounts. *)

LEMMA Products == \A a, b \in Nat : a * b \in Nat /\ (a > 0 /\ b > 0 => a * b > 0)
  OBVIOUS

LEMMA Rates ==
    /\ Den \in Nat \ {0} /\ Mult \in Nat \ {0} /\ Lot \in Nat \ {0}
    /\ Slip \in Nat /\ Fee \in Nat /\ Fixed \in Nat /\ Slip < Den
    /\ MaxLoss \in Nat \ {0} /\ InitialCash \in Nat /\ Prices \subseteq Nat \ {0}
    /\ StopPct \in Nat \ {0} /\ StopPct < Den /\ RiskPct \in Nat \ {0}
  BY SessionAssumption

LEMMA Quotients == \A a \in Int, b \in Nat \ {0} :
                       a \div b \in Int /\ (a >= 0 => a \div b \in Nat)
  OBVIOUS

\* A unit of money is a positive number of the units of an amount.
LEMMA Units == Unit \in Nat \ {0} /\ Money \in Nat \ {0}
<1>1. Den \in Nat \ {0}
  BY SessionAssumption
<1>2. Den * Den \in Nat \ {0}
  BY <1>1, Products
<1>3. Unit \in Nat \ {0}
  BY <1>1, <1>2, Products DEF Unit
<1> QED BY <1>1, <1>3, Products DEF Money

\* The price of a fill at a price that is no amount less than nothing.
LEMMA FillPrices ==
    ASSUME NEW ref \in Nat, NEW side \in {"BUY", "SELL"}
    PROVE  FillPrice(side, ref) \in Nat
<1> DEFINE rate == IF side = "BUY" THEN Den + Slip ELSE Den - Slip
<1>1. rate \in Nat /\ Den \in Nat \ {0}
  BY SessionAssumption
<1>2. ref * rate \in Nat
  BY <1>1, Products
<1> QED BY <1>1, <1>2, Quotients DEF FillPrice

LEMMA Commissions ==
    ASSUME NEW qty \in Nat, NEW price \in Nat
    PROVE  Commission(qty, price) \in Nat
<1>1. Mult \in Nat /\ Fee \in Nat /\ Fixed \in Nat /\ Money \in Nat
  BY SessionAssumption, Units
<1>2. qty * price \in Nat /\ Fixed * Money \in Nat
  BY <1>1, Products
<1>3. qty * price * Mult \in Nat
  BY <1>1, <1>2, Products
<1>4. qty * price * Mult * Fee \in Nat
  BY <1>1, <1>3, Products
<1> QED BY <1>2, <1>4 DEF Commission

LEMMA Amounts ==
    ASSUME NEW qty \in Nat, NEW price \in Int
    PROVE  Amount(qty, price) \in Int /\ (price \in Nat => Amount(qty, price) \in Nat)
<1>1. Mult \in Nat /\ Den \in Nat
  BY SessionAssumption
<1>2. qty * price \in Int /\ (price \in Nat => qty * price \in Nat)
  BY Products
<1>3. qty * price * Mult \in Int /\ (price \in Nat => qty * price * Mult \in Nat)
  BY <1>1, <1>2, Products
<1> QED BY <1>1, <1>3, Products DEF Amount

\* What a fill adds to the profit.
Profit(s, side, qty, price) ==
    IF side = "SELL" THEN (price - s.avg) * qty * Mult * Den ELSE 0

LEMMA Profits ==
    ASSUME NEW s \in Session, NEW qty \in Nat, NEW price \in Nat, NEW side
    PROVE  Profit(s, side, qty, price) \in Int
<1>1. price - s.avg \in Int
  BY DEF Session
<1> USE Rates
<1>2. (price - s.avg) * qty \in Int
  BY <1>1
<1>3. (price - s.avg) * qty * Mult \in Int
  BY <1>1, <1>2
<1> QED BY <1>1, <1>3 DEF Profit
-----------------------------------------------------------------------------
(* What the operations of a candle do to a session.  t is s with at most a  *)
(* refusal counted; or s, flat and below the cap, after a purchase; or s    *)
(* after the sale of its whole position.                                    *)
Kept(s, t) ==
    /\ t \in Session
    /\ t.cash = s.cash /\ t.qty = s.qty /\ t.avg = s.avg /\ t.realized = s.realized
    /\ t.fees = s.fees /\ t.pnl = s.pnl /\ t.trades = s.trades /\ t.placed = s.placed
    /\ t.consumed = s.consumed /\ t.entry = s.entry /\ t.fills = s.fills
    /\ t.orders - t.rejections = s.orders - s.rejections

Filled(s, t, side, b) ==
    /\ t \in Session
    /\ t.trades = Append(s.trades, [side |-> side, bar |-> b])
    /\ t.placed = s.placed + 1 /\ t.fills = s.fills + 1
    /\ t.orders = s.orders + 1 /\ t.rejections = s.rejections
    /\ t.consumed = s.consumed

\* The money of a purchase of a flat session, and of a sale of all of it.
Paid(s, t) ==
    /\ t.pnl = s.pnl /\ t.realized = s.realized
    /\ t.cash = s.cash - Amount(t.qty, t.avg) - (t.fees - s.fees)

Received(s, t) ==
    \E profit \in Int :
       /\ t.pnl = [s.pnl EXCEPT ![day] = @ + profit]
       /\ t.realized = s.realized + profit
       /\ t.cash = s.cash + Amount(s.qty, s.avg) + profit - (t.fees - s.fees)

Bought(s, t, b) ==
    /\ Filled(s, t, "BUY", b) /\ Paid(s, t)
    /\ s.qty = 0 /\ t.qty > 0 /\ t.entry = b /\ ~DailyLossHit(s)

Sold(s, t, b) ==
    /\ Filled(s, t, "SELL", b) /\ Received(s, t)
    /\ s.qty > 0 /\ t.qty = 0 /\ t.entry = 0

\* The books of a fill.
BooksFill(s, t, side, qty, price, b) ==
    /\ t \in Session
    /\ t.cash = IF side = "BUY" THEN s.cash - Amount(qty, price) - Commission(qty, price)
                ELSE s.cash + Amount(qty, price) - Commission(qty, price)
    /\ t.qty = IF side = "BUY" THEN s.qty + qty ELSE s.qty - qty
    /\ t.avg = IF side = "BUY" THEN price ELSE s.avg
    /\ t.realized = s.realized + Profit(s, side, qty, price)
    /\ t.fees = s.fees + Commission(qty, price)
    /\ t.pnl = [s.pnl EXCEPT ![day] = @ + Profit(s, side, qty, price)]
    /\ t.trades = Append(s.trades, [side |-> side, bar |-> b])
    /\ t.placed = s.placed /\ t.consumed = s.consumed /\ t.entry = s.entry
    /\ t.orders = s.orders /\ t.fills = s.fills /\ t.rejections = s.rejections

\* They are kept of every fill of a position that does not turn short.
LEMMA BookedFill ==
    ASSUME NEW s \in Session, NEW qty \in Nat, NEW price \in Nat, NEW b \in Candles,
           NEW side \in {"BUY", "SELL"}, day \in Days, Bookable(s, side, qty)
    PROVE  BooksFill(s, Booked(s, side, qty, price, b), side, qty, price, b)
<1> DEFINE t == Booked(s, side, qty, price, b)
           fee == Commission(qty, price)
           amount == Amount(qty, price)
           profit == Profit(s, side, qty, price)
           cash == IF side = "BUY" THEN s.cash - amount - fee ELSE s.cash + amount - fee
           quantity == IF side = "BUY" THEN s.qty + qty ELSE s.qty - qty
           avg == IF side = "BUY" THEN price ELSE s.avg
           pnl == [s.pnl EXCEPT ![day] = @ + profit]
           trades == Append(s.trades, [side |-> side, bar |-> b])
<1>1. fee \in Nat
  BY Commissions
<1>2. amount \in Int
  <2>1. price \in Int
    OBVIOUS
  <2> QED BY <2>1, Amounts
<1>3. profit \in Int
  BY Profits
<1>4. /\ t.cash = cash /\ t.qty = quantity /\ t.avg = avg
      /\ t.realized = s.realized + profit /\ t.fees = s.fees + fee
  BY DEF Booked, Session, Profit, Amount
<1>5. t.pnl = pnl
  BY DEF Booked, Session, Profit
<1>6. t.trades = trades
  BY DEF Booked, Session
<1>7. /\ t.placed = s.placed /\ t.consumed = s.consumed /\ t.entry = s.entry
      /\ t.orders = s.orders /\ t.fills = s.fills /\ t.rejections = s.rejections
      /\ t.skips = s.skips
  BY DEF Booked, Session
<1>8. t = [s EXCEPT !.cash = t.cash, !.fees = t.fees, !.qty = t.qty, !.avg = t.avg,
                    !.realized = t.realized, !.pnl = t.pnl, !.trades = t.trades]
  BY DEF Booked, Session
<1> HIDE DEF t, fee, amount, profit
<1>9. cash \in Int /\ s.realized + profit \in Int /\ s.fees + fee \in Nat /\ avg \in Nat
  <2>1. s.cash \in Int /\ s.realized \in Int /\ s.fees \in Nat /\ s.avg \in Nat
    BY DEF Session
  <2>2. cash \in Int /\ avg \in Nat
    BY <1>1, <1>2, <2>1
  <2> QED BY <1>1, <1>3, <2>1, <2>2
<1>10. quantity \in Nat
  BY DEF Session, Bookable
<1>11. pnl \in [Days -> Int] /\ trades \in Seq(Fill)
  BY <1>3 DEF Session, Fill
<1> HIDE DEF cash, quantity, avg, pnl, trades
<1>12. t \in Session
  BY <1>4, <1>5, <1>6, <1>8, <1>9, <1>10, <1>11 DEF Session, Fill
<1> QED BY <1>4, <1>5, <1>6, <1>7, <1>12
        DEF BooksFill, t, cash, quantity, avg, pnl, trades, fee, amount, profit

\* An order filled and booked, before the session counts it.
Exchanged(s, t, side, b) ==
    /\ s \in Session /\ t \in Session
    /\ t.trades = Append(s.trades, [side |-> side, bar |-> b])
    /\ t.placed = s.placed + 1 /\ t.consumed = s.consumed /\ t.entry = s.entry
    /\ t.orders = s.orders /\ t.fills = s.fills /\ t.rejections = s.rejections

LEMMA Proceeds ==
    ASSUME NEW s \in Session, NEW qty \in Nat, NEW price \in Nat
    PROVE  Amount(qty, price) = Amount(qty, s.avg) + Profit(s, "SELL", qty, price)
<1>1. s.avg \in Int /\ qty \in Int /\ price \in Int /\ Mult \in Int /\ Den \in Int
  BY Rates DEF Session
<1>2. \A a, q, p, m, d \in Int : q * p * m * d = q * a * m * d + (p - a) * q * m * d
  OBVIOUS
<1>3. qty * price * Mult * Den
          = qty * s.avg * Mult * Den + (price - s.avg) * qty * Mult * Den
  BY <1>1, <1>2
<1> QED BY <1>3 DEF Amount, Profit

LEMMA Ordered ==
    ASSUME NEW s \in Session
    PROVE  LET t == [s EXCEPT !.placed = @ + 1] IN
           /\ t \in Session /\ t.placed = s.placed + 1
           /\ t.cash = s.cash /\ t.qty = s.qty /\ t.avg = s.avg
           /\ t.realized = s.realized /\ t.fees = s.fees /\ t.pnl = s.pnl
           /\ t.trades = s.trades /\ t.consumed = s.consumed /\ t.entry = s.entry
           /\ t.orders = s.orders /\ t.fills = s.fills /\ t.rejections = s.rejections
<1> DEFINE t == [s EXCEPT !.placed = @ + 1]
<1>1. t.placed = s.placed + 1
  BY DEF Session
<1>2. t.cash = s.cash /\ t.qty = s.qty /\ t.avg = s.avg
  BY DEF Session
<1>3. t.realized = s.realized /\ t.fees = s.fees
  BY DEF Session
<1>4. t.pnl = s.pnl
  BY DEF Session
<1>5. t.trades = s.trades /\ t.consumed = s.consumed /\ t.entry = s.entry
  BY DEF Session
<1>6. t.orders = s.orders /\ t.fills = s.fills /\ t.rejections = s.rejections
  BY DEF Session
<1>7. \A n \in Nat : [s EXCEPT !.placed = n] \in Session
  BY DEF Session
<1>8. s.placed + 1 \in Nat
  BY DEF Session
<1>9. t \in Session
  BY <1>7, <1>8
<1> QED BY <1>1, <1>2, <1>3, <1>4, <1>5, <1>6, <1>9

LEMMA ExecutedBuy ==
    ASSUME NEW s \in Session, NEW qty \in Nat, NEW ref \in Nat, NEW b \in Candles,
           day \in Days, s.qty = 0
    PROVE  LET t == Executed(s, "BUY", qty, ref, b) IN
           Exchanged(s, t, "BUY", b) /\ t.qty = qty /\ Paid(s, t)
<1> DEFINE u == [s EXCEPT !.placed = @ + 1]
           price == FillPrice("BUY", ref)
           fee == Commission(qty, price)
           t == Booked(u, "BUY", qty, price, b)
<1>1. price \in Nat
  BY FillPrices
<1>2. Executed(s, "BUY", qty, ref, b) = t /\ Bookable(u, "BUY", qty)
  BY DEF Executed, Bookable
<1>3. Profit(u, "BUY", qty, price) = 0
  BY DEF Profit
<1>4. fee \in Nat
  BY <1>1, Commissions
<1> HIDE DEF u, price
<1>5. /\ u \in Session /\ u.placed = s.placed + 1
      /\ u.cash = s.cash /\ u.qty = 0
      /\ u.realized = s.realized /\ u.fees = s.fees /\ u.pnl = s.pnl
      /\ u.trades = s.trades /\ u.consumed = s.consumed /\ u.entry = s.entry
      /\ u.orders = s.orders /\ u.fills = s.fills /\ u.rejections = s.rejections
  BY Ordered DEF u
<1>6. /\ t \in Session
      /\ t.cash = u.cash - Amount(qty, price) - fee
      /\ t.qty = u.qty + qty /\ t.avg = price
      /\ t.realized = u.realized + 0 /\ t.fees = u.fees + fee
      /\ t.pnl = [u.pnl EXCEPT ![day] = @ + 0]
      /\ t.trades = Append(u.trades, [side |-> "BUY", bar |-> b])
      /\ t.placed = u.placed /\ t.consumed = u.consumed /\ t.entry = u.entry
      /\ t.orders = u.orders /\ t.fills = u.fills /\ t.rejections = u.rejections
  <2>1. "BUY" \in {"BUY", "SELL"} /\ qty \in Nat
    OBVIOUS
  <2>2. BooksFill(u, t, "BUY", qty, price, b)
    BY <1>1, <1>2, <1>5, <2>1, BookedFill, Zenon
  <2>3. u.cash \in Int /\ Amount(qty, price) \in Int
    BY <1>1, <1>5, Amounts DEF Session
  <2> HIDE DEF t, fee
  <2> QED BY <1>3, <2>2, <2>3 DEF BooksFill, fee
<1> HIDE DEF t, fee
<1>7. Exchanged(s, t, "BUY", b)
  BY <1>5, <1>6 DEF Exchanged
<1>8. t.pnl = s.pnl /\ t.realized = s.realized /\ t.qty = qty
  <2>1. s.realized \in Int /\ s.pnl \in [Days -> Int]
    BY DEF Session
  <2>2. [s.pnl EXCEPT ![day] = @ + 0] = s.pnl
    BY <2>1
  <2> QED BY <1>5, <1>6, <2>1, <2>2
<1>9. t.fees - s.fees = fee
  <2>1. s.fees \in Nat
    BY DEF Session
  <2> QED BY <1>4, <1>5, <1>6, <2>1
<1> QED BY <1>2, <1>5, <1>6, <1>7, <1>8, <1>9 DEF Paid

LEMMA ExecutedSell ==
    ASSUME NEW s \in Session, NEW ref \in Nat, NEW b \in Candles, day \in Days
    PROVE  LET t == Executed(s, "SELL", s.qty, ref, b) IN
           Exchanged(s, t, "SELL", b) /\ t.qty = 0 /\ Received(s, t)
<1> DEFINE u == [s EXCEPT !.placed = @ + 1]
           qty == s.qty
           price == FillPrice("SELL", ref)
           fee == Commission(qty, price)
           t == Booked(u, "SELL", qty, price, b)
           profit == Profit(u, "SELL", qty, price)
<1>1. price \in Nat /\ qty \in Nat
  BY FillPrices DEF Session
<1>2. Bookable(s, "SELL", qty)
  BY <1>1 DEF Bookable
<1>3. Executed(s, "SELL", qty, ref, b) = t
  BY <1>2 DEF Executed
<1> HIDE DEF u, price, qty
<1>4. fee \in Nat
  BY <1>1, Commissions
<1>5. /\ u \in Session /\ u.placed = s.placed + 1
      /\ u.cash = s.cash /\ u.qty = qty /\ u.avg = s.avg
      /\ u.realized = s.realized /\ u.fees = s.fees /\ u.pnl = s.pnl
      /\ u.trades = s.trades /\ u.consumed = s.consumed /\ u.entry = s.entry
      /\ u.orders = s.orders /\ u.fills = s.fills /\ u.rejections = s.rejections
  BY Ordered DEF u, qty
<1>6. Bookable(u, "SELL", qty)
  BY <1>1, <1>5 DEF Bookable
<1>7. profit \in Int
  BY <1>1, <1>5, Profits
<1>8. Amount(qty, price) = Amount(qty, s.avg) + profit
  BY <1>1, <1>5, Proceeds
<1>9. /\ t \in Session
      /\ t.cash = u.cash + Amount(qty, price) - fee
      /\ t.qty = u.qty - qty
      /\ t.realized = u.realized + profit /\ t.fees = u.fees + fee
      /\ t.pnl = [u.pnl EXCEPT ![day] = @ + profit]
      /\ t.trades = Append(u.trades, [side |-> "SELL", bar |-> b])
      /\ t.placed = u.placed /\ t.consumed = u.consumed /\ t.entry = u.entry
      /\ t.orders = u.orders /\ t.fills = u.fills /\ t.rejections = u.rejections
  <2>1. "SELL" \in {"BUY", "SELL"} /\ "SELL" # "BUY"
    OBVIOUS
  <2>2. BooksFill(u, t, "SELL", qty, price, b)
    BY <1>1, <1>5, <1>6, <2>1, BookedFill, Zenon
  <2> HIDE DEF t, fee, profit
  <2> QED BY <2>1, <2>2 DEF BooksFill, fee, profit
<1> HIDE DEF t, fee, profit
<1>10. Exchanged(s, t, "SELL", b)
  BY <1>5, <1>9 DEF Exchanged
<1>11. t.fees - s.fees = fee /\ t.qty = 0
  <2>1. s.fees \in Nat
    BY DEF Session
  <2> QED BY <1>1, <1>4, <1>5, <1>9, <2>1
<1>12. t.cash = s.cash + Amount(qty, s.avg) + profit - (t.fees - s.fees)
  <2>1. s.cash \in Int /\ Amount(qty, s.avg) \in Int
    BY <1>1, Amounts DEF Session
  <2> QED BY <1>4, <1>5, <1>7, <1>8, <1>9, <1>11, <2>1
<1>13. Received(s, t)
  BY <1>5, <1>7, <1>9, <1>12 DEF Received, qty
<1> QED BY <1>3, <1>10, <1>11, <1>13 DEF qty

\* Nothing of the money, of the trades or of the candles is different.
SameBooks(s, t) ==
    /\ s \in Session /\ t \in Session
    /\ t.cash = s.cash /\ t.qty = s.qty /\ t.avg = s.avg /\ t.realized = s.realized
    /\ t.fees = s.fees /\ t.pnl = s.pnl /\ t.trades = s.trades /\ t.placed = s.placed
    /\ t.consumed = s.consumed

LEMMA Entered ==
    ASSUME NEW s \in Session, NEW e \in Candles \cup {0}
    PROVE  LET t == [s EXCEPT !.entry = e] IN
           /\ SameBooks(s, t) /\ t.entry = e
           /\ t.orders = s.orders /\ t.fills = s.fills /\ t.rejections = s.rejections
<1> DEFINE t == [s EXCEPT !.entry = e]
<1>1. t \in Session
  BY DEF Session
<1>2. t.cash = s.cash /\ t.qty = s.qty /\ t.avg = s.avg /\ t.realized = s.realized
  BY DEF Session
<1>3. t.fees = s.fees /\ t.trades = s.trades /\ t.placed = s.placed
  BY DEF Session
<1>4. t.pnl = s.pnl
  BY DEF Session
<1>5. t.consumed = s.consumed /\ t.entry = e
  BY DEF Session
<1>6. t.orders = s.orders /\ t.fills = s.fills /\ t.rejections = s.rejections
  BY DEF Session
<1> QED BY <1>1, <1>2, <1>3, <1>4, <1>5, <1>6 DEF SameBooks

LEMMA CountedFill ==
    ASSUME NEW s \in Session, NEW t \in Session, NEW side \in {"BUY", "SELL"},
           NEW b \in Candles, Exchanged(s, t, side, b)
    PROVE  LET u == [t EXCEPT !.orders = @ + 1, !.fills = @ + 1] IN
           /\ t.trades # s.trades /\ Counted(s, t) = u
           /\ SameBooks(t, u) /\ u.entry = t.entry
           /\ Filled(s, u, side, b)
<1> DEFINE u == [t EXCEPT !.orders = @ + 1, !.fills = @ + 1]
<1>1. t.trades # s.trades
  <2>1. s.trades \in Seq(Fill) /\ [side |-> side, bar |-> b] \in Fill
    BY DEF Session, Fill
  <2> HIDE DEF Fill
  <2>2. Len(t.trades) = Len(s.trades) + 1 /\ Len(s.trades) \in Nat
    BY <2>1 DEF Exchanged
  <2> QED BY <2>2
<1>2. Counted(s, t) = u
  BY <1>1 DEF Counted
<1>3. \A m, n \in Nat : [t EXCEPT !.orders = m, !.fills = n] \in Session
  BY DEF Session
<1>4. t.orders + 1 \in Nat /\ t.fills + 1 \in Nat
  <2>1. t.orders \in Nat /\ t.fills \in Nat
    BY DEF Session
  <2> QED BY <2>1
<1>5. u \in Session
  BY <1>3, <1>4
<1>6. u.cash = t.cash /\ u.qty = t.qty /\ u.avg = t.avg /\ u.realized = t.realized
  BY DEF Session
<1>7. u.fees = t.fees /\ u.trades = t.trades /\ u.placed = t.placed
  BY DEF Session
<1>8. u.pnl = t.pnl
  BY DEF Session
<1>9. u.consumed = t.consumed /\ u.entry = t.entry
  BY DEF Session
<1>10. u.orders = t.orders + 1 /\ u.fills = t.fills + 1 /\ u.rejections = t.rejections
  BY DEF Session
<1> HIDE DEF u
<1>11. SameBooks(t, u)
  BY <1>5, <1>6, <1>7, <1>8, <1>9 DEF SameBooks
<1>12. Filled(s, u, side, b)
  BY <1>5, <1>7, <1>9, <1>10 DEF Filled, Exchanged
<1> QED BY <1>1, <1>2, <1>9, <1>11, <1>12 DEF u

LEMMA CountedRefusal ==
    ASSUME NEW s \in Session
    PROVE  Kept(s, Counted(s, s))
<1> DEFINE u == [s EXCEPT !.orders = @ + 1, !.rejections = @ + 1]
<1>1. Counted(s, s) = u
  BY DEF Counted
<1>2. \A m, n \in Nat : [s EXCEPT !.orders = m, !.rejections = n] \in Session
  BY DEF Session
<1>3. s.orders + 1 \in Nat /\ s.rejections + 1 \in Nat
  BY DEF Session
<1>4. u \in Session
  BY <1>2, <1>3
<1>5. u.cash = s.cash /\ u.qty = s.qty /\ u.avg = s.avg /\ u.realized = s.realized
  BY DEF Session
<1>6. u.fees = s.fees /\ u.trades = s.trades /\ u.placed = s.placed
  BY DEF Session
<1>7. u.pnl = s.pnl
  BY DEF Session
<1>8. u.consumed = s.consumed /\ u.entry = s.entry /\ u.fills = s.fills
  BY DEF Session
<1>9. u.orders - u.rejections = s.orders - s.rejections
  <2>1. u.orders = s.orders + 1 /\ u.rejections = s.rejections + 1
    BY DEF Session
  <2>2. s.orders \in Nat /\ s.rejections \in Nat
    BY DEF Session
  <2> QED BY <2>1, <2>2
<1> QED BY <1>1, <1>4, <1>5, <1>6, <1>7, <1>8, <1>9 DEF Kept

LEMMA IgnoredSignal ==
    ASSUME NEW s \in Session
    PROVE  Kept(s, s) /\ Kept(s, Ignored(s))
<1> DEFINE u == [s EXCEPT !.skips = @ + 1]
<1>1. \A n \in Nat : [s EXCEPT !.skips = n] \in Session
  BY DEF Session
<1>2. s.skips + 1 \in Nat
  BY DEF Session
<1>3. u \in Session
  BY <1>1, <1>2
<1>4. u.cash = s.cash /\ u.qty = s.qty /\ u.avg = s.avg /\ u.realized = s.realized
  BY DEF Session
<1>5. u.fees = s.fees /\ u.trades = s.trades /\ u.placed = s.placed
  BY DEF Session
<1>6. u.pnl = s.pnl
  BY DEF Session
<1>7. u.consumed = s.consumed /\ u.entry = s.entry /\ u.fills = s.fills
  BY DEF Session
<1>8. u.orders = s.orders /\ u.rejections = s.rejections
  BY DEF Session
<1> QED BY <1>3, <1>4, <1>5, <1>6, <1>7, <1>8 DEF Kept, Ignored
-----------------------------------------------------------------------------
(* The operations of a candle.                                              *)

\* The size of an entry is a whole number, at any equity.
LEMMA Sizes ==
    ASSUME NEW s \in Session, NEW close \in Prices
    PROVE  Size(s, close) \in Int
<1>1. close \in Nat \ {0} /\ s.cash \in Int /\ s.qty \in Nat
  BY Rates DEF Session
<1>2. \A n \in Int : Lots(n) \in Int
  BY Rates, Quotients DEF Lots
<1>3. \A m, n \in Nat \ {0} : m * n \in Nat \ {0}
  OBVIOUS
<1>4. \A m, n \in Int : m * n \in Int
  OBVIOUS
<1>5. Equity(s, close) * RiskPct \in Int
  <2>1. s.qty * close \in Int /\ Mult \in Int /\ Money \in Int /\ RiskPct \in Int
    BY <1>1, <1>4, Rates, Units
  <2>2. s.qty * close * Mult * Money \in Int
    BY <2>1, <1>4
  <2>3. Equity(s, close) \in Int
    BY <1>1, <2>2 DEF Equity
  <2> QED BY <2>1, <2>3, <1>4
<1>6. close * StopPct * Mult * Money \in Nat \ {0}
  <2>1. close * StopPct \in Nat \ {0} /\ Mult \in Nat \ {0} /\ Money \in Nat \ {0}
    BY <1>1, <1>3, Rates, Units
  <2>2. close * StopPct * Mult \in Nat \ {0}
    BY <1>3, <2>1
  <2> QED BY <1>3, <2>1, <2>2
<1>7. (s.cash - Fixed * Money) * Den \in Int
  <2>1. Fixed * Money \in Int /\ Den \in Int
    BY <1>4, Rates, Units
  <2>2. s.cash - Fixed * Money \in Int
    BY <1>1, <2>1
  <2> QED BY <1>4, <2>1, <2>2
<1>8. close * Mult * Money * (Den + Fee) \in Nat \ {0}
  <2>1. close * Mult \in Nat \ {0} /\ Money \in Nat \ {0} /\ Den + Fee \in Nat \ {0}
    BY <1>1, <1>3, Rates, Units
  <2>2. close * Mult * Money \in Nat \ {0}
    BY <1>3, <2>1
  <2> QED BY <1>3, <2>1, <2>2
<1>9. (Equity(s, close) * RiskPct) \div (close * StopPct * Mult * Money) \in Int
  BY <1>5, <1>6, Quotients
<1>10. Affordable(s, close) \in Int
  BY <1>7, <1>8, Quotients DEF Affordable
<1> QED BY <1>2, <1>9, <1>10 DEF Size

LEMMA References ==
    /\ \A p \in Prices : p * Unit \in Nat
    /\ \A s \in Session : StopPrice(s) \in Nat
    /\ \A s \in Session, bar \in Bars : StopReference(s, bar) \in Nat
<1>1. \A p \in Prices : p * Unit \in Nat
  BY Products, Rates, Units
<1>2. \A s \in Session : StopPrice(s) \in Nat
  <2> TAKE s \in Session
  <2>1. s.avg \in Nat
    BY DEF Session
  <2>2. Den - StopPct \in Nat /\ Den \in Nat \ {0}
    BY Rates
  <2>3. s.avg * (Den - StopPct) \in Nat
    BY <2>1, <2>2, Products
  <2> QED BY <2>2, <2>3, Quotients DEF StopPrice
<1> QED BY <1>1, <1>2 DEF StopReference, Bars

LEMMA BuyHandled ==
    ASSUME NEW s \in Session, NEW bar \in Bars, day \in Days
    PROVE  Kept(s, HandleBuy(s, bar)) \/ Bought(s, HandleBuy(s, bar), bar.id)
<1>1. bar.id \in Candles /\ bar.close \in Prices /\ bar.close * Unit \in Nat
  BY References DEF Bars
<1> DEFINE size == Size(s, bar.close)
           t == Submit(s, "BUY", size, bar)
<1>2. size \in Int
  BY <1>1, Sizes
<1> HIDE DEF size
<1>3. CASE s.qty # 0 \/ DailyLossHit(s) \/ size <= 0
  <2>1. HandleBuy(s, bar) = Ignored(s)
    BY <1>3 DEF HandleBuy, size
  <2> QED BY <2>1, IgnoredSignal
<1>4. CASE /\ ~(s.qty # 0 \/ DailyLossHit(s) \/ size <= 0)
           /\ ~Approved(s, "BUY", size, bar.close)
  <2>1. t = Counted(s, s)
    BY <1>4 DEF Submit
  <2>2. Kept(s, t)
    BY <2>1, CountedRefusal
  <2>3. t.qty = 0
    BY <1>4, <2>2 DEF Kept
  <2>4. HandleBuy(s, bar) = t
    BY <1>4, <2>3 DEF HandleBuy, size
  <2> QED BY <2>2, <2>4
<1>5. CASE /\ ~(s.qty # 0 \/ DailyLossHit(s) \/ size <= 0)
           /\ Approved(s, "BUY", size, bar.close)
  <2> DEFINE u == Executed(s, "BUY", size, bar.close * Unit, bar.id)
             v == [u EXCEPT !.orders = @ + 1, !.fills = @ + 1]
             w == [v EXCEPT !.entry = bar.id]
  <2>1. size \in Nat /\ size > 0 /\ s.qty = 0
    BY <1>2, <1>5
  <2>2. Exchanged(s, u, "BUY", bar.id) /\ u.qty = size /\ Paid(s, u)
    BY <1>1, <2>1, ExecutedBuy
  <2>3. t = Counted(s, u)
    BY <1>5 DEF Submit
  <2> HIDE DEF u
  <2>4. u \in Session /\ "BUY" \in {"BUY", "SELL"}
    BY <2>2 DEF Exchanged
  <2>5. t = v /\ SameBooks(u, v) /\ Filled(s, v, "BUY", bar.id)
    BY <1>1, <2>2, <2>3, <2>4, CountedFill
  <2> HIDE DEF v, t
  <2>6. v \in Session /\ v.qty > 0
    BY <2>1, <2>2, <2>5 DEF SameBooks
  <2>7. /\ SameBooks(v, w) /\ w.entry = bar.id
        /\ w.orders = v.orders /\ w.fills = v.fills /\ w.rejections = v.rejections
    BY <1>1, <2>6, Entered
  <2>8. HandleBuy(s, bar) = w
    BY <1>5, <2>5, <2>6 DEF HandleBuy, t, size
  <2> HIDE DEF w
  <2>9. Filled(s, w, "BUY", bar.id)
    BY <2>5, <2>7 DEF Filled, SameBooks
  <2>10. Paid(s, w) /\ w.qty > 0
    BY <2>2, <2>5, <2>6, <2>7 DEF Paid, SameBooks
  <2> QED BY <1>5, <2>1, <2>7, <2>8, <2>9, <2>10 DEF Bought
<1> QED BY <1>3, <1>4, <1>5

\* An exit of the whole position, counted, with the entry candle forgotten.
Sale(s, ref, b) == Executed(s, "SELL", s.qty, ref, b)
CountedSale(s, ref, b) == [Sale(s, ref, b) EXCEPT !.orders = @ + 1, !.fills = @ + 1]
Exited(s, ref, b) == [CountedSale(s, ref, b) EXCEPT !.entry = 0]

LEMMA Exit ==
    ASSUME NEW s \in Session, NEW ref \in Nat, NEW b \in Candles, day \in Days, s.qty > 0
    PROVE  /\ Sale(s, ref, b).trades # s.trades
           /\ Counted(s, Sale(s, ref, b)) = CountedSale(s, ref, b)
           /\ CountedSale(s, ref, b).qty = 0
           /\ Sold(s, Exited(s, ref, b), b)
<1> DEFINE u == Executed(s, "SELL", s.qty, ref, b)
           v == [u EXCEPT !.orders = @ + 1, !.fills = @ + 1]
           w == [v EXCEPT !.entry = 0]
<1>0. Sale(s, ref, b) = u /\ CountedSale(s, ref, b) = v /\ Exited(s, ref, b) = w
  BY Zenon DEF Sale, CountedSale, Exited
<1>1. Exchanged(s, u, "SELL", b) /\ u.qty = 0 /\ Received(s, u)
  BY ExecutedSell
<1> HIDE DEF u
<1>2. u \in Session /\ "SELL" \in {"BUY", "SELL"}
  BY <1>1 DEF Exchanged
<1>3. /\ u.trades # s.trades /\ Counted(s, u) = v
      /\ SameBooks(u, v) /\ Filled(s, v, "SELL", b)
  BY <1>1, <1>2, CountedFill
<1> HIDE DEF v
<1>4. v \in Session /\ v.qty = 0
  BY <1>1, <1>3 DEF SameBooks
<1>5. /\ SameBooks(v, w) /\ w.entry = 0
      /\ w.orders = v.orders /\ w.fills = v.fills /\ w.rejections = v.rejections
  BY <1>4, Entered
<1> HIDE DEF w
<1>6. Filled(s, w, "SELL", b)
  BY <1>3, <1>5 DEF Filled, SameBooks
<1>7. Received(s, w) /\ w.qty = 0
  BY <1>1, <1>3, <1>4, <1>5 DEF Received, SameBooks
<1>8. Sold(s, w, b)
  BY <1>5, <1>6, <1>7 DEF Sold
<1> QED BY <1>0, <1>3, <1>4, <1>8

LEMMA SellHandled ==
    ASSUME NEW s \in Session, NEW bar \in Bars, day \in Days
    PROVE  Kept(s, HandleSell(s, bar)) \/ Sold(s, HandleSell(s, bar), bar.id)
<1>1. bar.id \in Candles /\ bar.close \in Prices /\ bar.close * Unit \in Nat
  BY References DEF Bars
<1> DEFINE u == Sale(s, bar.close * Unit, bar.id)
           v == CountedSale(s, bar.close * Unit, bar.id)
           w == Exited(s, bar.close * Unit, bar.id)
<1>6. s.qty \in Nat
  BY DEF Session
<1>2. CASE s.qty <= 0
  <2>1. HandleSell(s, bar) = Ignored(s)
    BY <1>2 DEF HandleSell
  <2> QED BY <2>1, IgnoredSignal
<1>3. CASE s.qty > 0 /\ SellOrder(s, bar) = Counted(s, s)
  <2>1. Kept(s, SellOrder(s, bar))
    BY <1>3, CountedRefusal
  <2>2. SellOrder(s, bar).qty # 0
    BY <1>3, <2>1 DEF Kept
  <2>3. HandleSell(s, bar) = SellOrder(s, bar)
    BY <1>3, <1>6, <2>2 DEF HandleSell
  <2> QED BY <2>1, <2>3
<1>4. CASE s.qty > 0 /\ SellOrder(s, bar) = Counted(s, u)
  <2>1. Counted(s, u) = v /\ v.qty = 0 /\ Sold(s, w, bar.id)
    BY <1>1, <1>4, Exit
  <2>2. HandleSell(s, bar) = w
    BY <1>4, <1>6, <2>1 DEF HandleSell, Exited
  <2> QED BY <2>1, <2>2
<1>5. SellOrder(s, bar) \in {Counted(s, s), Counted(s, u)}
  BY DEF SellOrder, ForceClose, Submit, Sale
<1> HIDE DEF u
<1> QED BY <1>2, <1>3, <1>4, <1>5, <1>6

LEMMA StopHandled ==
    ASSUME NEW s \in Session, NEW bar \in Bars, day \in Days
    PROVE  \/ /\ HandleStop(s, bar) = s
              /\ \/ s.qty <= 0 \/ s.entry = 0 \/ s.entry >= bar.id
                 \/ bar.low * Unit > StopPrice(s)
           \/ Sold(s, HandleStop(s, bar), bar.id) /\ s.entry < bar.id
<1> DEFINE idle == \/ s.qty <= 0 \/ s.entry = 0 \/ s.entry >= bar.id
                   \/ bar.low * Unit > StopPrice(s)
           ref == StopReference(s, bar)
           u == Sale(s, ref, bar.id)
           v == CountedSale(s, ref, bar.id)
           w == Exited(s, ref, bar.id)
<1>1. CASE idle
  BY <1>1 DEF HandleStop
<1>2. CASE ~idle
  <2>1. bar.id \in Candles /\ ref \in Nat
    BY References DEF Bars
  <2>5. s.qty \in Nat
    BY DEF Session
  <2>6. s.qty > 0
    BY <1>2, <2>5
  <2>2. u.trades # s.trades /\ v.qty = 0 /\ Sold(s, w, bar.id)
    BY <2>1, <2>6, Exit
  <2>3. StopExit(s, bar) = u
    BY DEF StopExit, Sale
  <2>4. HandleStop(s, bar) = w
    BY <1>2, <2>2, <2>3 DEF HandleStop, CountedSale, Exited
  <2>7. s.entry < bar.id
    BY <1>2, <2>1 DEF Session, Candles
  <2> QED BY <2>2, <2>4, <2>7
<1> HIDE DEF idle
<1> QED BY <1>1, <1>2 DEF idle

LEMMA SignalHandled ==
    ASSUME NEW s \in Session, NEW bar \in Bars, day \in Days,
           NEW signal \in {"BUY", "SELL", "HOLD"}
    PROVE  LET t == HandleSignal(s, signal, bar) IN
           Kept(s, t) \/ Bought(s, t, bar.id) \/ Sold(s, t, bar.id)
<1>1. CASE signal = "BUY"
  BY <1>1, BuyHandled DEF HandleSignal
<1>2. CASE signal = "SELL"
  BY <1>2, SellHandled DEF HandleSignal
<1>3. CASE signal = "HOLD"
  BY <1>3, IgnoredSignal DEF HandleSignal
<1> QED BY <1>1, <1>2, <1>3
-----------------------------------------------------------------------------
(* What the operations leave sound.                                         *)
Consume(s, b) == [s EXCEPT !.consumed = @ \cup {b}]

LEMMA Consumed ==
    ASSUME NEW s \in Session, NEW b \in Candles
    PROVE  LET t == Consume(s, b) IN
           /\ t \in Session
           /\ t.cash = s.cash /\ t.qty = s.qty /\ t.avg = s.avg /\ t.realized = s.realized
           /\ t.fees = s.fees /\ t.pnl = s.pnl /\ t.trades = s.trades /\ t.placed = s.placed
           /\ t.consumed = s.consumed \cup {b} /\ t.entry = s.entry
           /\ t.orders = s.orders /\ t.fills = s.fills /\ t.rejections = s.rejections
<1> DEFINE t == [s EXCEPT !.consumed = @ \cup {b}]
<1>1. \A c \in SUBSET Candles : [s EXCEPT !.consumed = c] \in Session
  BY DEF Session
<1>2. s.consumed \cup {b} \in SUBSET Candles
  BY DEF Session
<1>3. t \in Session
  BY <1>1, <1>2
<1>4. t.cash = s.cash /\ t.qty = s.qty /\ t.avg = s.avg /\ t.realized = s.realized
  BY DEF Session
<1>5. t.fees = s.fees /\ t.trades = s.trades /\ t.placed = s.placed
  BY DEF Session
<1>6. t.pnl = s.pnl
  BY DEF Session
<1>7. t.consumed = s.consumed \cup {b} /\ t.entry = s.entry
  BY DEF Session
<1>8. t.orders = s.orders /\ t.fills = s.fills /\ t.rejections = s.rejections
  BY DEF Session
<1> QED BY <1>3, <1>4, <1>5, <1>6, <1>7, <1>8 DEF Consume

LEMMA KeptSound ==
    ASSUME NEW s, NEW t, Sound(s, day), Kept(s, t)
    PROVE  Sound(t, day)
<1>1. Balanced(t)
  BY DEF Sound, Balanced, Kept
<1>2. Counts(t)
  <2>1. /\ s.orders \in Int /\ s.fills \in Int /\ s.rejections \in Int
        /\ t.orders \in Int /\ t.fills \in Int /\ t.rejections \in Int
    BY DEF Sound, Session, Kept
  <2>2. t.orders = t.fills + t.rejections /\ t.fills = t.placed
    BY <2>1 DEF Sound, Counts, Kept
  <2>3. t.trades = s.trades /\ t.qty = s.qty /\ t.placed = s.placed
    BY DEF Kept
  <2> QED BY <2>2, <2>3 DEF Sound, Counts
<1>3. Once(t) /\ Armed(t) /\ Capped(t, day)
  BY DEF Sound, Once, Armed, Capped, Kept
<1> QED BY <1>1, <1>2, <1>3 DEF Sound, Kept

LEMMA ConsumedSound ==
    ASSUME NEW s, NEW b \in Candles, Sound(s, day)
    PROVE  Sound(Consume(s, b), day)
<1> DEFINE t == Consume(s, b)
<1>1. /\ t \in Session
      /\ t.cash = s.cash /\ t.qty = s.qty /\ t.avg = s.avg /\ t.realized = s.realized
      /\ t.fees = s.fees /\ t.pnl = s.pnl /\ t.trades = s.trades /\ t.placed = s.placed
      /\ t.consumed = s.consumed \cup {b} /\ t.entry = s.entry
      /\ t.orders = s.orders /\ t.fills = s.fills /\ t.rejections = s.rejections
  BY Consumed DEF Sound
<1> HIDE DEF t
<1>2. Balanced(t)
  BY <1>1 DEF Sound, Balanced
<1>3. Counts(t)
  <2>1. t.orders = t.fills + t.rejections /\ t.fills = t.placed
    BY <1>1 DEF Sound, Counts
  <2>2. t.trades = s.trades /\ t.qty = s.qty /\ t.placed = s.placed
    BY <1>1
  <2> QED BY <2>1, <2>2 DEF Sound, Counts
<1>4. Once(t) /\ Armed(t) /\ Capped(t, day)
  BY <1>1 DEF Sound, Once, Armed, Capped
<1>5. Sound(t, day)
  BY <1>1, <1>2, <1>3, <1>4 DEF Sound
<1> QED BY <1>5 DEF t

LEMMA Alternating ==
    ASSUME NEW trades \in Seq(Fill), NEW qty \in Nat, NEW left \in Nat, NEW f \in Fill,
           Alternate(trades, qty), qty > 0 <=> left = 0,
           f.side = IF qty > 0 THEN "SELL" ELSE "BUY"
    PROVE  Alternate(Append(trades, f), left)
<1> DEFINE new == Append(trades, f)
<1>1. Len(trades) \in Nat /\ Len(new) = Len(trades) + 1 /\ new[Len(trades) + 1] = f
  OBVIOUS
<1>2. \A n \in 1 .. Len(trades) : new[n] = trades[n]
  OBVIOUS
<1> HIDE DEF new, Fill
<1>3. left > 0 <=> (Len(trades) + 1) % 2 = 1
  BY <1>1 DEF Alternate
<1>4. ASSUME NEW n \in 1 .. Len(trades) + 1
      PROVE  new[n].side = IF n % 2 = 1 THEN "BUY" ELSE "SELL"
  <2>1. CASE n \in 1 .. Len(trades)
    BY <1>2, <2>1 DEF Alternate
  <2>2. CASE n = Len(trades) + 1
    BY <1>1, <2>2 DEF Alternate
  <2> QED BY <1>1, <2>1, <2>2
<1>5. Alternate(new, left)
  BY <1>1, <1>3, <1>4 DEF Alternate
<1> QED BY <1>5 DEF new

\* The history of a fill.
LEMMA Appended ==
    ASSUME NEW s, NEW t, NEW side \in {"BUY", "SELL"}, NEW b \in Candles,
           Sound(s, day), Filled(s, t, side, b), b \notin s.consumed,
           side = IF s.qty > 0 THEN "SELL" ELSE "BUY", s.qty > 0 <=> t.qty = 0
    PROVE  /\ Counts(Consume(t, b)) /\ Once(Consume(t, b))
           /\ t.trades[Len(t.trades)].bar = b
<1> DEFINE f == [side |-> side, bar |-> b]
           u == Consume(t, b)
<1>1. /\ s.trades \in Seq(Fill) /\ s.qty \in Nat
      /\ t \in Session /\ t.qty \in Nat /\ f \in Fill
  BY DEF Sound, Filled, Session, Fill
<1>2. t.trades = Append(s.trades, f)
  BY DEF Filled
<1>3. f.side = side /\ f.bar = b
  OBVIOUS
<1> HIDE DEF f, Fill
<1>4. /\ Len(s.trades) \in Nat /\ Len(t.trades) = Len(s.trades) + 1
      /\ t.trades[Len(s.trades) + 1] = f
      /\ \A n \in 1 .. Len(s.trades) : t.trades[n] = s.trades[n]
  BY <1>1, <1>2
<1>5. /\ u.qty = t.qty /\ u.trades = t.trades /\ u.placed = t.placed
      /\ u.consumed = t.consumed \cup {b} /\ u.fills = t.fills
      /\ u.orders = t.orders /\ u.rejections = t.rejections
  BY <1>1, Consumed
<1> HIDE DEF u
<1>6. Alternate(t.trades, t.qty)
  BY <1>1, <1>2, <1>3, Alternating DEF Sound, Counts
<1>7. Counts(u)
  <2>1. /\ t.placed = Len(t.trades) /\ t.fills = t.placed
        /\ t.orders = t.fills + t.rejections
    <3>1. /\ s.orders \in Int /\ s.fills \in Int /\ s.rejections \in Int /\ s.placed \in Int
      BY DEF Sound, Session
    <3> QED BY <1>4, <3>1 DEF Sound, Counts, Filled
  <2> QED BY <1>5, <1>6, <2>1 DEF Counts
<1>8. \A n \in 1 .. Len(s.trades) :
          t.trades[n].bar \in s.consumed /\ t.trades[n].bar # b
  BY <1>4 DEF Sound, Once
<1>9. Once(u)
  <2>1. t.consumed = s.consumed
    BY DEF Filled
  <2>2. ASSUME NEW n \in 1 .. Len(s.trades) + 1
        PROVE  t.trades[n].bar \in s.consumed \cup {b}
    BY <1>3, <1>4, <1>8
  <2>3. ASSUME NEW m \in 1 .. Len(s.trades) + 1, NEW n \in 1 .. Len(s.trades) + 1, m # n
        PROVE  t.trades[m].bar # t.trades[n].bar
    <3>1. CASE m \in 1 .. Len(s.trades) /\ n \in 1 .. Len(s.trades)
      BY <1>4, <2>3, <3>1 DEF Sound, Once
    <3>2. CASE m = Len(s.trades) + 1
      BY <1>3, <1>4, <1>8, <2>3, <3>2
    <3>3. CASE n = Len(s.trades) + 1
      BY <1>3, <1>4, <1>8, <2>3, <3>3
    <3> QED BY <1>4, <3>1, <3>2, <3>3
  <2> QED BY <1>4, <1>5, <2>1, <2>2, <2>3 DEF Once
<1>10. t.trades[Len(t.trades)].bar = b
  BY <1>3, <1>4
<1> QED BY <1>7, <1>9, <1>10 DEF u

LEMMA BoughtSound ==
    ASSUME NEW s, NEW t, NEW b \in Candles, day \in Days,
           Sound(s, day), Bought(s, t, b), b \notin s.consumed
    PROVE  Sound(Consume(t, b), day)
<1> DEFINE u == Consume(t, b)
<1>1. /\ Counts(u) /\ Once(u) /\ t.trades[Len(t.trades)].bar = b
  <2>1. s.qty = 0 /\ t.qty > 0 /\ Filled(s, t, "BUY", b) /\ "BUY" \in {"BUY", "SELL"}
    BY DEF Bought
  <2>2. ("BUY" = IF s.qty > 0 THEN "SELL" ELSE "BUY") /\ (s.qty > 0 <=> t.qty = 0)
    BY <2>1
  <2> QED BY <2>1, <2>2, Appended
<1>2. s \in Session /\ t \in Session
  BY DEF Sound, Bought, Filled
<1>3. /\ u \in Session
      /\ u.cash = t.cash /\ u.qty = t.qty /\ u.avg = t.avg /\ u.realized = t.realized
      /\ u.fees = t.fees /\ u.pnl = t.pnl /\ u.trades = t.trades /\ u.entry = t.entry
  BY <1>2, Consumed
<1> HIDE DEF u
<1>4. Balanced(u)
  <2>1. Amount(s.qty, s.avg) = 0
    <3>1. s.qty = 0 /\ s.avg \in Int /\ Mult \in Int /\ Den \in Int
      BY <1>2, Rates DEF Bought, Session
    <3> QED BY <3>1 DEF Amount
  <2>2. /\ s.cash \in Int /\ s.realized \in Int /\ s.fees \in Int /\ t.fees \in Int
        /\ t.qty \in Nat /\ t.avg \in Int
    BY <1>2 DEF Session
  <2>3. Amount(t.qty, t.avg) \in Int /\ InitialCash * Money \in Int
    <3>1. InitialCash * Money \in Nat
      BY Products, Rates, Units
    <3>2. Amount(t.qty, t.avg) \in Int
      BY <2>2, Amounts
    <3> QED BY <3>1, <3>2
  <2>4. s.cash + 0 = InitialCash * Money + s.realized - s.fees
    BY <2>1 DEF Sound, Balanced
  <2>5. /\ t.realized = s.realized
        /\ t.cash = s.cash - Amount(t.qty, t.avg) - (t.fees - s.fees)
    BY DEF Bought, Paid
  <2>6. t.cash + Amount(t.qty, t.avg) = InitialCash * Money + t.realized - t.fees
    <3> DEFINE initial == InitialCash * Money
    <3> HIDE DEF initial
    <3> QED BY <2>2, <2>3, <2>4, <2>5 DEF initial
  <2> QED BY <1>3, <2>6 DEF Balanced
<1>5. Armed(u)
  BY <1>1, <1>3 DEF Armed, Bought
<1>6. Capped(u, day)
  <2>1. t.pnl = s.pnl /\ s.pnl[day] > -(MaxLoss * Money)
    <3>1. s.pnl[day] \in Int /\ MaxLoss * Money \in Int
      BY <1>2, Rates, Units DEF Session
    <3>2. ~(s.pnl[day] <= -(MaxLoss * Money)) /\ t.pnl = s.pnl
      BY DEF Bought, Paid, DailyLossHit
    <3> DEFINE loss == MaxLoss * Money
    <3> HIDE DEF loss
    <3> QED BY <3>1, <3>2 DEF loss
  <2>2. MaxLoss * Money \in Nat /\ MaxLoss * Money > 0
    BY Products, Rates, Units
  <2>3. \A d \in Days : d > day => s.pnl[d] = 0
    BY DEF Sound, Capped
  <2>4. \A d \in Days : d \in Int /\ day \in Int
    BY DEF Days
  <2> DEFINE loss == MaxLoss * Money
  <2> HIDE DEF loss
  <2>5. \A d \in Days : d >= day => s.pnl[d] > -loss
    BY <2>1, <2>2, <2>3, <2>4 DEF loss
  <2> QED BY <1>3, <2>1, <2>3, <2>5 DEF Capped, loss
<1>7. Sound(u, day)
  BY <1>1, <1>3, <1>4, <1>5, <1>6 DEF Sound
<1> QED BY <1>7 DEF u

LEMMA SoldSound ==
    ASSUME NEW s, NEW t, NEW b \in Candles, day \in Days,
           Sound(s, day), Sold(s, t, b), b \notin s.consumed
    PROVE  Sound(Consume(t, b), day)
<1> DEFINE u == Consume(t, b)
<1>1. /\ Counts(u) /\ Once(u)
  <2>1. s.qty > 0 /\ t.qty = 0 /\ Filled(s, t, "SELL", b) /\ "SELL" \in {"BUY", "SELL"}
    BY DEF Sold
  <2>2. ("SELL" = IF s.qty > 0 THEN "SELL" ELSE "BUY") /\ (s.qty > 0 <=> t.qty = 0)
    BY <2>1
  <2> QED BY <2>1, <2>2, Appended
<1>2. s \in Session /\ t \in Session
  BY DEF Sound, Sold, Filled
<1>3. /\ u \in Session
      /\ u.cash = t.cash /\ u.qty = t.qty /\ u.avg = t.avg /\ u.realized = t.realized
      /\ u.fees = t.fees /\ u.pnl = t.pnl /\ u.trades = t.trades /\ u.entry = t.entry
  BY <1>2, Consumed
<1>4. t.qty = 0
  BY DEF Sold
<1> HIDE DEF u
<1>5. PICK profit \in Int :
         /\ t.pnl = [s.pnl EXCEPT ![day] = @ + profit]
         /\ t.realized = s.realized + profit
         /\ t.cash = s.cash + Amount(s.qty, s.avg) + profit - (t.fees - s.fees)
  BY DEF Sold, Received
<1>6. Balanced(u)
  <2>1. Amount(t.qty, t.avg) = 0
    <3>1. t.avg \in Int /\ Mult \in Int /\ Den \in Int
      BY <1>2, Rates DEF Session
    <3> QED BY <1>4, <3>1 DEF Amount
  <2>2. /\ s.cash \in Int /\ s.realized \in Int /\ s.fees \in Int /\ t.fees \in Int
        /\ s.qty \in Nat /\ s.avg \in Int
    BY <1>2 DEF Session
  <2>3. Amount(s.qty, s.avg) \in Int /\ InitialCash * Money \in Int
    <3>1. InitialCash * Money \in Nat
      BY Products, Rates, Units
    <3>2. Amount(s.qty, s.avg) \in Int
      BY <2>2, Amounts
    <3> QED BY <3>1, <3>2
  <2>4. s.cash + Amount(s.qty, s.avg) = InitialCash * Money + s.realized - s.fees
    BY DEF Sound, Balanced
  <2>5. t.cash + 0 = InitialCash * Money + t.realized - t.fees
    <3> DEFINE initial == InitialCash * Money
    <3> HIDE DEF initial
    <3> QED BY <1>5, <2>2, <2>3, <2>4 DEF initial
  <2> QED BY <1>3, <2>1, <2>5 DEF Balanced
<1>7. Armed(u) /\ ~(u.qty > 0)
  BY <1>3, <1>4 DEF Armed
<1>8. Capped(u, day)
  <2>1. \A d \in Days : d > day => s.pnl[d] = 0
    BY DEF Sound, Capped
  <2>2. \A d \in Days : d \in Int /\ day \in Int
    BY DEF Days
  <2>3. s.pnl \in [Days -> Int]
    BY <1>2 DEF Session
  <2>4. \A d \in Days : d > day => t.pnl[d] = s.pnl[d]
    BY <1>5, <2>2, <2>3
  <2> QED BY <1>3, <1>7, <2>1, <2>4 DEF Capped
<1>9. Sound(u, day)
  BY <1>1, <1>3, <1>6, <1>7, <1>8 DEF Sound
<1> QED BY <1>9 DEF u
-----------------------------------------------------------------------------
(* The invariant. *)

LEMMA InitSound == Init => IInv
<1> SUFFICES ASSUME Init PROVE IInv
  OBVIOUS
<1>1. session = Fresh /\ saved = Fresh /\ day = 1 /\ restarts = 0 /\ seen = Unseen
  BY DEF Init
<1>2. InitialCash * Money \in Nat /\ MaxLoss * Money \in Nat /\ MaxLoss * Money > 0
  BY Products, Rates, Units
<1>3. MaxDay \in Nat \ {0} /\ MaxRestarts \in Nat
  BY SessionAssumption
<1>4. <<>> \in Seq([side : {"BUY", "SELL"}, bar : Candles]) /\ Len(<<>>) = 0
  OBVIOUS
<1>5. Fresh \in Session
  BY <1>2, <1>4 DEF Fresh, Session
<1>6. TypeOK
  BY <1>1, <1>3, <1>5 DEF TypeOK, Days, Unseen
<1>7. /\ Fresh.cash = InitialCash * Money /\ Fresh.qty = 0 /\ Fresh.avg = 0
      /\ Fresh.realized = 0 /\ Fresh.fees = 0
  BY DEF Fresh
<1>8. /\ Fresh.trades = <<>> /\ Fresh.placed = 0 /\ Fresh.orders = 0
      /\ Fresh.fills = 0 /\ Fresh.rejections = 0
  BY DEF Fresh
<1>9. Fresh.pnl = [d \in Days |-> 0]
  BY DEF Fresh
<1>10. Balanced(Fresh)
  <2>1. Amount(0, 0) = 0
    BY Rates DEF Amount
  <2> QED BY <1>2, <1>7, <2>1 DEF Balanced
<1>11. Counts(Fresh) /\ Once(Fresh)
  BY <1>4, <1>7, <1>8 DEF Counts, Alternate, Once
<1>12. Armed(Fresh) /\ Capped(Fresh, day)
  BY <1>7, <1>9 DEF Armed, Capped
<1>13. Sound(session, day) /\ Sound(saved, day)
  BY <1>1, <1>5, <1>10, <1>11, <1>12 DEF Sound
<1>14. StopHolds
  BY <1>1, <1>7 DEF StopHolds
<1> QED BY <1>6, <1>13, <1>14 DEF IInv

LEMMA LaterSound ==
    ASSUME NEW s, NEW today \in Days, NEW later \in Days, later >= today, Sound(s, today)
    PROVE  Sound(s, later)
  BY DEF Sound, Capped, Days

\* A candle, whatever it makes of the signal and of the stop.
LEMMA Decided ==
    ASSUME NEW s, NEW bar \in Bars, NEW signal \in {"BUY", "SELL", "HOLD"},
           day \in Days, Sound(s, day), bar.id \notin s.consumed
    PROVE  LET t == Consume(HandleStop(HandleSignal(s, signal, bar), bar), bar.id) IN
           /\ Sound(t, day)
           /\ \/ t.qty = 0 \/ t.trades[Len(t.trades)].bar = bar.id
              \/ t.trades[Len(t.trades)].bar >= bar.id
              \/ bar.low * Unit > StopPrice(t)
<1> DEFINE h == HandleSignal(s, signal, bar)
           t == HandleStop(h, bar)
           u == Consume(t, bar.id)
           goal == /\ Sound(u, day)
                   /\ \/ u.qty = 0 \/ u.trades[Len(u.trades)].bar = bar.id
                      \/ u.trades[Len(u.trades)].bar >= bar.id
                      \/ bar.low * Unit > StopPrice(u)
<1> SUFFICES goal
  OBVIOUS
<1>1. bar.id \in Candles /\ s \in Session
  BY DEF Bars, Sound
<1>2. Kept(s, h) \/ Bought(s, h, bar.id) \/ Sold(s, h, bar.id)
  BY <1>1, SignalHandled
<1> HIDE DEF h
<1>3. h \in Session
  BY <1>2 DEF Kept, Bought, Sold, Filled
<1>4. \/ /\ t = h
         /\ \/ h.qty <= 0 \/ h.entry = 0 \/ h.entry >= bar.id
            \/ bar.low * Unit > StopPrice(h)
      \/ Sold(h, t, bar.id) /\ h.entry < bar.id
  BY <1>3, StopHandled
<1>5. t \in Session
  BY <1>3, <1>4 DEF Sold, Filled
<1> HIDE DEF t
<1>6. u.qty = t.qty /\ u.avg = t.avg /\ u.trades = t.trades
  BY <1>1, <1>5, Consumed
<1> HIDE DEF u
<1>7. CASE Kept(s, h) /\ t = h
  <2>1. Sound(t, day)
    BY <1>7, KeptSound
  <2>2. Sound(u, day)
    BY <1>1, <2>1, ConsumedSound DEF u
  <2>3. t.qty \in Nat
    BY <1>5 DEF Session
  <2>4. CASE t.qty = 0
    BY <1>6, <2>2, <2>4
  <2>5. CASE t.qty > 0
    <3>1. t.entry = t.trades[Len(t.trades)].bar
      BY <2>1, <2>5 DEF Sound, Armed
    <3>2. t.entry # 0
      <4>1. Len(t.trades) % 2 = 1
        BY <2>1, <2>5 DEF Sound, Counts, Alternate
      <4>2. t.trades \in Seq(Fill)
        BY <1>5 DEF Session, Fill
      <4>3. Len(t.trades) \in Nat /\ Len(t.trades) # 0
        <5>1. Len(t.trades) \in Nat
          BY <4>2
        <5>2. 0 % 2 # 1
          OBVIOUS
        <5> QED BY <4>1, <5>1, <5>2
      <4>4. t.trades[Len(t.trades)] \in Fill
        <5> HIDE DEF Fill
        <5> QED BY <4>2, <4>3
      <4> QED BY <3>1, <4>4 DEF Fill, Candles
    <3>3. CASE h.entry >= bar.id
      BY <1>6, <1>7, <2>2, <3>1, <3>3
    <3>4. CASE bar.low * Unit > StopPrice(h)
      <4>1. StopPrice(u) = StopPrice(t)
        BY <1>6 DEF StopPrice
      <4> QED BY <1>7, <2>2, <3>4, <4>1
    <3>5. CASE Sold(h, t, bar.id)
      BY <1>7, <2>5, <3>5 DEF Sold
    <3> HIDE DEF goal
    <3>6. ~(h.qty <= 0)
      BY <1>7, <2>5, <2>3
    <3> QED BY <1>4, <1>7, <3>2, <3>3, <3>4, <3>5, <3>6
  <2> QED BY <2>3, <2>4, <2>5
<1>8. CASE Kept(s, h) /\ Sold(h, t, bar.id)
  <2>1. Sound(h, day) /\ bar.id \notin h.consumed
    BY <1>8, KeptSound DEF Kept
  <2>2. Sound(u, day)
    BY <1>1, <1>8, <2>1, SoldSound DEF u
  <2> QED BY <1>6, <1>8, <2>2 DEF Sold
<1>9. CASE Bought(s, h, bar.id)
  <2>1. Sound(Consume(h, bar.id), day) /\ Consume(h, bar.id) \in Session
    BY <1>1, <1>3, <1>9, BoughtSound, Consumed
  <2>2. h.trades[Len(h.trades)].bar = bar.id
    <3>1. /\ Filled(s, h, "BUY", bar.id) /\ s.qty = 0 /\ h.qty > 0
          /\ "BUY" \in {"BUY", "SELL"} /\ bar.id \notin s.consumed
      BY <1>9 DEF Bought
    <3>2. ("BUY" = IF s.qty > 0 THEN "SELL" ELSE "BUY") /\ (s.qty > 0 <=> h.qty = 0)
      BY <3>1
    <3> QED BY <1>1, <3>1, <3>2, Appended
  <2>3. h.qty > 0 /\ h.entry = bar.id
    BY <1>9 DEF Bought
  <2>4. t = h
    BY <1>1, <1>4, <2>3 DEF Candles
  <2> QED BY <1>6, <2>1, <2>2, <2>4 DEF u
<1>10. CASE Sold(s, h, bar.id)
  <2>1. t = h
    BY <1>4, <1>10 DEF Sold
  <2>2. Sound(u, day)
    BY <1>1, <1>10, <2>1, SoldSound DEF u
  <2> QED BY <1>6, <1>10, <2>1, <2>2 DEF Sold
<1> HIDE DEF goal
<1> QED BY <1>2, <1>4, <1>7, <1>8, <1>9, <1>10

LEMMA NextSound == IInv /\ [Next]_vars => IInv'
<1> SUFFICES ASSUME IInv, [Next]_vars PROVE IInv'
  OBVIOUS
<1>1. /\ TypeOK /\ Sound(session, day) /\ Sound(saved, day) /\ StopHolds
      /\ session \in Session /\ saved \in Session /\ day \in Days
      /\ restarts \in 0 .. MaxRestarts
      /\ seen \in [id : Candles \cup {0}, low : Prices \cup {0}]
  BY DEF IInv, TypeOK
<1>2. ASSUME Candle PROVE IInv'
  <2>1. PICK bar \in Bars, signal \in {"BUY", "SELL", "HOLD"} :
           /\ bar.id \notin session.consumed
           /\ session' = Consume(HandleStop(HandleSignal(session, signal, bar), bar), bar.id)
           /\ seen' = [id |-> bar.id, low |-> bar.low]
           /\ UNCHANGED <<saved, day, restarts>>
    BY <1>2 DEF Candle, Consume
  <2>2. /\ Sound(session', day)
        /\ \/ session'.qty = 0
           \/ session'.trades[Len(session'.trades)].bar = bar.id
           \/ session'.trades[Len(session'.trades)].bar >= bar.id
           \/ bar.low * Unit > StopPrice(session')
    BY <1>1, <2>1, Decided
  <2>3. TypeOK'
    <3>1. session' \in Session
      BY <2>2 DEF Sound
    <3>2. seen' \in [id : Candles \cup {0}, low : Prices \cup {0}]
      BY <2>1 DEF Bars
    <3> QED BY <1>1, <2>1, <3>1, <3>2 DEF TypeOK
  <2>4. Sound(session', day') /\ Sound(saved', day')
    BY <1>1, <2>1, <2>2
  <2>5. StopHolds'
    <3> SUFFICES ASSUME session'.qty > 0, NEW n \in DOMAIN session'.trades,
                        n = Len(session'.trades), session'.trades[n].bar < seen'.id
                 PROVE  seen'.low * Unit > StopPrice(session')
      BY DEF StopHolds, StopPrice
    <3>1. seen'.id = bar.id /\ seen'.low = bar.low /\ bar.id \in Int
      BY <2>1 DEF Bars, Candles
    <3>2. session'.trades[n].bar \in Int
      <4>1. session'.trades \in Seq(Fill)
        BY <2>2 DEF Sound, Session, Fill
      <4>2. session'.trades[n] \in Fill
        <5> HIDE DEF Fill
        <5> QED BY <4>1
      <4> QED BY <4>2 DEF Fill, Candles
    <3>3. bar.low * Unit > StopPrice(session')
      BY <2>2, <3>1, <3>2
    <3> QED BY <3>1, <3>3
  <2> QED BY <2>3, <2>4, <2>5 DEF IInv
<1>3. ASSUME session' \in Session, Sound(session', day), UNCHANGED <<saved, day>>,
             restarts' \in 0 .. MaxRestarts, seen' = Unseen
      PROVE  IInv'
  <2>1. TypeOK'
    BY <1>1, <1>3 DEF TypeOK, Unseen
  <2>2. StopHolds'
    <3>1. ASSUME NEW n \in DOMAIN session'.trades PROVE ~(session'.trades[n].bar < seen'.id)
      <4>1. session'.trades \in Seq(Fill)
        BY <1>3 DEF Session, Fill
      <4>2. session'.trades[n] \in Fill
        <5> HIDE DEF Fill
        <5> QED BY <4>1, <3>1
      <4>3. session'.trades[n].bar \in Candles /\ seen'.id = 0
        BY <1>3, <4>2 DEF Fill, Unseen
      <4> QED BY <4>3 DEF Candles
    <3> QED BY <3>1 DEF StopHolds
  <2> QED BY <1>1, <1>3, <2>1, <2>2 DEF IInv
<1>4. ASSUME SkipCandle PROVE IInv'
  <2>1. PICK b \in Candles \ session.consumed :
           /\ session' = Consume(Ignored(session), b) /\ seen' = Unseen
           /\ UNCHANGED <<saved, day, restarts>>
    BY <1>4 DEF SkipCandle, Consume
  <2>2. Sound(Ignored(session), day)
    BY <1>1, IgnoredSignal, KeptSound
  <2>3. Sound(session', day)
    BY <2>1, <2>2, ConsumedSound
  <2> QED BY <1>1, <1>3, <2>1, <2>3 DEF Sound
<1>5. ASSUME NewDay PROVE IInv'
  <2>1. day' \in Days /\ day' >= day /\ UNCHANGED <<session, saved, restarts, seen>>
    BY <1>1, <1>5, SessionAssumption DEF NewDay, Days
  <2>2. Sound(session', day') /\ Sound(saved', day')
    BY <1>1, <2>1, LaterSound
  <2>3. TypeOK' /\ StopHolds'
    BY <1>1, <2>1 DEF TypeOK, StopHolds, StopPrice
  <2> QED BY <2>2, <2>3 DEF IInv
<1>6. ASSUME Save PROVE IInv'
  BY <1>1, <1>6 DEF Save, IInv, TypeOK, StopHolds, StopPrice
<1>7. ASSUME Restart PROVE IInv'
  <2>1. /\ session' = saved /\ seen' = Unseen /\ UNCHANGED <<saved, day>>
        /\ restarts' \in 0 .. MaxRestarts
    BY <1>1, <1>7, SessionAssumption DEF Restart, Restored
  <2> QED BY <1>1, <1>3, <2>1
<1>8. ASSUME UNCHANGED vars PROVE IInv'
  BY <1>1, <1>8 DEF vars, IInv, TypeOK, StopHolds, StopPrice
<1> QED BY <1>2, <1>4, <1>5, <1>6, <1>7, <1>8 DEF Next

LEMMA Invariance == Spec => []IInv
  BY InitSound, NextSound, PTL DEF Spec
-----------------------------------------------------------------------------
\* The variables have their types: no session, in memory or in a snapshot,
\* is short of its instrument or counts less than nothing.
THEOREM Typing == Spec => []TypeOK
  BY Invariance, PTL DEF IInv

\* Cash and position are worth, at any price, the initial cash with the booked
\* profit, the profit of the position and the commissions paid, over every
\* sequence of signals, stops, snapshots and restarts.
THEOREM Balance == Spec => []BooksBalance
<1>1. IInv => BooksBalance
  BY DEF IInv, Sound, Balanced, Amount, BooksBalance
<1> QED BY <1>1, Invariance, PTL

\* The broker's fills, the trades of the portfolio and the counters of the
\* session agree, and purchases and sales alternate.
THEOREM Booking == Spec => []EveryFillBooked
<1>1. IInv => EveryFillBooked
  <2> SUFFICES ASSUME IInv PROVE EveryFillBooked
    OBVIOUS
  <2>1. session.trades \in Seq(Fill)
    BY DEF IInv, Sound, Session, Fill
  <2>2. DOMAIN session.trades = 1 .. Len(session.trades)
    BY <2>1
  <2>3. Counts(session) /\ Alternate(session.trades, session.qty)
    BY DEF IInv, Sound, Counts
  <2>4. session.qty > 0 <=> Len(session.trades) % 2 = 1
    BY <2>3 DEF Alternate
  <2>5. \A n \in DOMAIN session.trades :
           session.trades[n].side = IF n % 2 = 1 THEN "BUY" ELSE "SELL"
    BY <2>2, <2>3 DEF Alternate
  <2> QED BY <2>3, <2>4, <2>5 DEF Counts, EveryFillBooked
<1> QED BY <1>1, Invariance, PTL

\* No candle is traded twice, over restarts too.
THEOREM OneTrade == Spec => []OneFillPerCandle
<1>1. IInv => OneFillPerCandle
  <2> SUFFICES ASSUME IInv PROVE OneFillPerCandle
    OBVIOUS
  <2>1. session.trades \in Seq(Fill)
    BY DEF IInv, Sound, Session, Fill
  <2>2. DOMAIN session.trades = 1 .. Len(session.trades)
    BY <2>1
  <2> QED BY <2>2 DEF IInv, Sound, Once, OneFillPerCandle
<1> QED BY <1>1, Invariance, PTL

\* No candle decided after the entry leaves a position open that it took to
\* its stop.
THEOREM Stopped == Spec => []StopHolds
  BY Invariance, PTL DEF IInv

\* A position is never open on a day whose loss cap is hit.
THEOREM CapLeavesExits == Spec => []NoPositionOverCap
<1>1. IInv => NoPositionOverCap
  BY DEF IInv, TypeOK, Sound, Capped, Days, NoPositionOverCap
<1> QED BY <1>1, Invariance, PTL
=============================================================================
