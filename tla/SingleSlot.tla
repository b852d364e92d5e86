------------------------------ MODULE SingleSlot ------------------------------
(***************************************************************************)
(* What the single directional option slot promises, without orders, steps *)
(* or failures: at most one run holds it, the account only trades while it *)
(* is held, it holds one leg at a time and never less than nothing of it,  *)
(* and the slot is given up only once the account is flat.                 *)
(***************************************************************************)
EXTENDS Integers

CONSTANTS Machine, Lot, NoOne

Contracts == {"CE", "PE"}

VARIABLES holder,   \* the run that holds the slot, or NoOne
          held      \* the quantity of each leg in the account

vars == <<holder, held>>

OneLeg(q) == /\ \A ct \in Contracts : q[ct] >= 0
             /\ \E ct \in Contracts : q[ct] = 0

Flat(q) == \A ct \in Contracts : q[ct] = 0

Init == /\ holder = NoOne
        /\ held \in [Contracts -> 0..Lot]
        /\ OneLeg(held)

Take(m) == /\ holder = NoOne
           /\ holder' = m
           /\ UNCHANGED held

\* A trade of one unit in one leg, on behalf of the holder.
Trade == /\ holder # NoOne
         /\ \E ct \in Contracts, d \in {-1, 1} :
                held' = [held EXCEPT ![ct] = @ + d]
         /\ OneLeg(held')
         /\ UNCHANGED holder

Give == /\ holder # NoOne
        /\ Flat(held)
        /\ holder' = NoOne
        /\ UNCHANGED held

Next == Trade \/ Give \/ \E m \in Machine : Take(m)

Spec == Init /\ [][Next]_vars
=============================================================================
