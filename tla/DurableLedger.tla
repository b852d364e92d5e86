--------------------------- MODULE DurableLedger ---------------------------
(***************************************************************************)
(* What the daily paper track promises about the account it keeps on disk, *)
(* whatever happens to the processes that keep it: the account advances as *)
(* one run that is never interrupted would make it advance.  A bar is       *)
(* consumed once and never out of order, it trades at most once, entries    *)
(* and exits alternate, and a day is left flat before another one begins.   *)
(* Process deaths, refused restarts and sidecar writes are stutters.        *)
(***************************************************************************)
EXTENDS Naturals, Sequences

CONSTANTS Bars,      \* the bars of all days, numbered in the order of time
          DayOf(_)   \* the trading day of a bar

VARIABLE ledger      \* the account: [day, last, open, fills, eod]

(* An account before its first bar.                                        *)
Opened == [day |-> 0, last |-> 0, open |-> FALSE, fills |-> <<>>,
           eod |-> "NONE"]

Bought(l, b) ==
    [l EXCEPT !.open = TRUE, !.fills = Append(@, [side |-> "BUY", bar |-> b])]
Sold(l, b) ==
    [l EXCEPT !.open = FALSE, !.fills = Append(@, [side |-> "SELL", bar |-> b])]

(* The account at bar b: the first bar of a day starts a session of its    *)
(* own.                                                                     *)
Reached(b) ==
    [ledger EXCEPT !.last = b, !.day = DayOf(b),
                   !.eod = IF DayOf(b) = ledger.day THEN @ ELSE "NONE"]

Consume ==
    \E b \in Bars :
      /\ b > ledger.last
      /\ ledger.open => DayOf(b) = ledger.day
      /\ LET l == Reached(b) IN
         \/ ledger' = l
         \/ ~ledger.open /\ ledger' = Bought(l, b)
         \/ /\ ledger.open
            /\ \E e \in {l.eod, "FLATTENED"} :
                 ledger' = [Sold(l, b) EXCEPT !.eod = e]

(* The end-of-day exit at the last known close.                            *)
Flatten ==
    /\ ledger.open
    /\ ledger' = [Sold(ledger, ledger.last) EXCEPT !.eod = "FLATTENED"]

Close ==
    /\ ~ledger.open
    /\ ledger.eod = "NONE"
    /\ ledger.last # 0
    /\ ledger' = [ledger EXCEPT !.eod = "FLAT"]

LedgerNext == Consume \/ Flatten \/ Close

LedgerSpec == ledger = Opened /\ [][LedgerNext]_ledger
=============================================================================
