------------------------- MODULE RestartableAccount -------------------------
(***************************************************************************)
(* What a paper agent that checkpoints its session promises about the       *)
(* account it keeps on disk: the account only ever goes on from where it    *)
(* was.  A bar is decided once, a trade once made stays in the history, and *)
(* new trades alternate and fall on newly decided bars.  An account that a  *)
(* death left where no new process finds it is lost; then it starts afresh. *)
(***************************************************************************)
EXTENDS Naturals, Sequences

CONSTANT Bars            \* the bars, numbered in the order of time

VARIABLE account         \* [bars, trades], or Lost

Empty == [bars |-> {}, trades |-> <<>>]
Lost == [bars |-> {}, trades |-> <<[side |-> "LOST", bar |-> 0]>>]

Start == account = Empty

Side(n) == IF n % 2 = 1 THEN "BUY" ELSE "SELL"

(* b goes on from a.                                                        *)
GoesOn(a, b) ==
    /\ a.bars \subseteq b.bars /\ b.bars \subseteq Bars
    /\ Len(a.trades) <= Len(b.trades)
    /\ \A n \in 1 .. Len(a.trades) : b.trades[n] = a.trades[n]
    /\ \A n \in Len(a.trades) + 1 .. Len(b.trades) :
          /\ b.trades[n].bar \in b.bars \ a.bars
          /\ b.trades[n].side = Side(n)
          /\ \A m \in 1 .. n - 1 : b.trades[m].bar # b.trades[n].bar

Advance == account # Lost /\ GoesOn(account, account')
Lose == account # Lost /\ account' = Lost
Afresh == account = Lost /\ GoesOn(Empty, account')

AccountSpec == Start /\ [][Advance \/ Lose \/ Afresh]_account
=============================================================================
