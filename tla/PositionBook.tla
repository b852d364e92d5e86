---------------------------- MODULE PositionBook ----------------------------
(***************************************************************************)
(* What the options paper simulation promises about the positions whose    *)
(* records were saved: every event has at most one entry fill and at most   *)
(* one exit fill, a fill once written is never written again, and a record  *)
(* that is rejected or reconciled stays what it is.                         *)
(***************************************************************************)
EXTENDS Naturals

CONSTANTS Event,    \* the events
          Instant   \* the instants of the clock

VARIABLE book       \* what is on record for each event

Blank == [stage |-> "none", entry |-> 0, exit |-> 0]

Fills(stage) ==
    IF stage \in {"none", "rejected"} THEN {<<0, 0>>}
    ELSE IF stage = "open" THEN {<<i, 0>> : i \in Instant}
    ELSE {f \in Instant \X Instant : f[1] <= f[2]}

Entries(stage) ==
    {[stage |-> stage, entry |-> f[1], exit |-> f[2]] : f \in Fills(stage)}

Later == [none |-> {"rejected", "open", "closed", "reconciled"},
          rejected |-> {}, open |-> {"closed", "reconciled"},
          closed |-> {"reconciled"}, reconciled |-> {}]

Init == book = [e \in Event |-> Blank]

(* A record moves forward and keeps the fills it has.                       *)
Record(e, stage, b) ==
    /\ stage \in Later[book[e].stage]
    /\ b \in Entries(stage)
    /\ book[e].entry \in {0, b.entry}
    /\ book[e].exit \in {0, b.exit}
    /\ book' = [book EXCEPT ![e] = b]

Next == \E e \in Event, stage \in DOMAIN Later : \E b \in Entries(stage) :
            Record(e, stage, b)

Spec == Init /\ [][Next]_book
=============================================================================
