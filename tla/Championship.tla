---------------------------- MODULE Championship ----------------------------
(***************************************************************************)
(* What a registry of champions promises about the champion on record: one  *)
(* at a time; a new one is always one that was never champion before, and   *)
(* the title goes back only to one that was appointed before the one that   *)
(* loses it, in the order of appointment - even if that one had itself been *)
(* sent back before.  Nobody is forgotten.  A record that is contested, by  *)
(* a writer who had not seen another's entry or by a damaged entry,         *)
(* promises nothing any more.                                               *)
(***************************************************************************)
EXTENDS Naturals, Sequences

VARIABLE title          \* [line, champion], or Contested

Vacant == [line |-> <<>>, champion |-> 0]
Contested == [line |-> <<>>, champion |-> 1]

Start == title = Vacant

(* From a to b.                                                             *)
Appointed(a, b) ==
    /\ a # Contested /\ b.line = Append(a.line, b.champion)
    /\ \A n \in 1 .. Len(a.line) : a.line[n] # b.champion

Returned(a, b) ==
    /\ a # Contested /\ b.line = a.line
    /\ \E m, n \in 1 .. Len(a.line) :
          m < n /\ b.champion = a.line[m] /\ a.champion = a.line[n]

Appoint == Appointed(title, title')
Return == Returned(title, title')
Contest == title' = Contested

TitleSpec == Start /\ [][Appoint \/ Return \/ Contest]_title
=============================================================================
