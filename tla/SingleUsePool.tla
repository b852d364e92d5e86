--------------------------- MODULE SingleUsePool ---------------------------
(* What the fresh out-of-sample pool promises, whoever collects into it and *)
(* validates it, and whenever they die: the bars of a day never change once *)
(* the pool has them, and the pool is used once, for a set of days that it  *)
(* held when it was used.  Once two collections disturb each other, only    *)
(* the single use is left of that.                                          *)
EXTENDS Naturals, FiniteSets

CONSTANTS Days,         \* the trading days after the boundary
          Hashes,       \* the contents a day may have
          Established,  \* the days the pool starts with
          OldHash,      \* their content
          Nothing,      \* no content, no use
          MinDays       \* the days a use needs

VARIABLES content,  \* what the pool holds of each day
          used,     \* what it was used with
          disturbed \* whether two collections may be writing at once

PoolInit ==
    /\ content = [d \in Days |-> IF d \in Established THEN OldHash ELSE Nothing]
    /\ used = Nothing
    /\ disturbed = FALSE

Store(d, h) ==
    /\ content[d] = Nothing
    /\ content' = [content EXCEPT ![d] = h]
    /\ UNCHANGED used

Use(D) ==
    /\ used = Nothing
    /\ Cardinality(D) >= MinDays
    /\ \A d \in D : content[d] # Nothing
    /\ used' = [d \in D |-> content[d]]
    /\ UNCHANGED content

Disturb ==
    /\ disturbed'
    /\ used' # used => used = Nothing

PoolNext == \/ UNCHANGED disturbed /\ \E d \in Days, h \in Hashes : Store(d, h)
            \/ UNCHANGED disturbed /\ \E D \in SUBSET Days : Use(D)
            \/ Disturb

PoolSpec == PoolInit /\ [][PoolNext]_<<content, used, disturbed>>
=============================================================================
