------------------------ MODULE VNextMachine_proofs ------------------------
(***************************************************************************)
(* Theorems about VNextMachine for any runs, orders, lot and faults: what  *)
(* it keeps has its type, a reservation always belongs to the guard that   *)
(* recorded it, and it is given up only on a flat account.                 *)
(*                                                                         *)
(* The second half is about a broker that may refuse a submission or give  *)
(* a final order a status the adapter reads as working, but whose answers  *)
(* are otherwise those of the venue, and a process that does not restart:  *)
(* the account is never oversold, the reservation covers what it holds,    *)
(* every run believes the truth between transitions, and the account       *)
(* implements the abstract single slot.  A lost acknowledgement or a wrong *)
(* reconciliation breaks these, so their hypothesis names the two faults   *)
(* they survive.                                                           *)
(***************************************************************************)
EXTENDS VNextMachine, TLAPS

Steps == [action : {"OPEN", "CLOSE"}, ct : Contracts]

\* The step a call works on, and what it has secured before it gets there.
Planned(m) == /\ tr[m].step \in DOMAIN Plan(m)
              /\ Cur(m) \in Steps

Secured(m) ==
    /\ pc[m] \notin {"off", "idle"} => InFlight(m)
    /\ InFlight(m) => Planned(m)
    /\ pc[m] = "size" => Cur(m).action = "CLOSE"
    /\ pc[m] \in {"claim", "precheck"} => Cur(m).action = "OPEN"
    /\ pc[m] = "precheck" => guard[m] # NoOne
    /\ pc[m] \in {"precheck", "submit"} => tr[m].qty > 0
    /\ pc[m] = "submit" /\ Cur(m).action = "OPEN" => guard[m] # NoOne

IInv == TypeOK /\ ReservationHeld /\ \A m \in Machine : Secured(m)

-----------------------------------------------------------------------------
(* Lemmas about plans and readings. *)

\* plan_orders returns one or two steps, or nothing when the position is
\* already the target.
LEMMA PlanShape ==
    ASSUME NEW p \in Positions, NEW d \in Signals, PlanOrders(p, d) # <<>>
    PROVE  /\ 1 \in DOMAIN PlanOrders(p, d)
           /\ \A k \in DOMAIN PlanOrders(p, d) :
                 k \in 1..2 /\ PlanOrders(p, d)[k] \in Steps
           /\ Len(PlanOrders(p, d)) \in 1..2
           /\ DOMAIN PlanOrders(p, d) = 1..Len(PlanOrders(p, d))
<1>1. \A q \in Positions, a \in {"OPEN", "CLOSE"} : Step(a, q) \in Steps
  BY DEF Step, Steps, Held, Contracts, Positions
<1>2. Target(d) \in Positions
  BY DEF Target, Signals, Positions
<1>3. Target(d) # p
  BY DEF PlanOrders
<1>4. CASE p = "FLAT"
  <2>1. PlanOrders(p, d) = <<Step("OPEN", Target(d))>>
    BY <1>3, <1>4 DEF PlanOrders
  <2> QED BY <2>1, <1>1, <1>2
<1>5. CASE p # "FLAT" /\ d = "FLAT"
  <2>1. PlanOrders(p, d) = <<Step("CLOSE", p)>>
    BY <1>3, <1>5 DEF PlanOrders
  <2> QED BY <2>1, <1>1
<1>6. CASE p # "FLAT" /\ d # "FLAT"
  <2>1. PlanOrders(p, d) = <<Step("CLOSE", p), Step("OPEN", Target(d))>>
    BY <1>3, <1>6 DEF PlanOrders
  <2> QED BY <2>1, <1>1, <1>2
<1> QED BY <1>4, <1>5, <1>6

\* A transition in flight is never mistaken for none.
LEMMA TransitionIsOne ==
    ASSUME NEW t \in Transition
    PROVE  t # NoTransition
  BY DEF Transition, NoTransition

\* An action of run m that drops or keeps its transition leaves what other
\* runs have secured.
LEMMA OthersSecured ==
    ASSUME NEW m \in Machine, NEW n \in Machine, n # m, Secured(n),
           pc'[n] = pc[n], tr'[n] = tr[n], guard'[n] = guard[n]
    PROVE  Secured(n)'
  BY DEF Secured, Planned, InFlight, Cur, Plan

\* A broker snapshot that can be read is a position or a safety stop.
LEMMA ReadingsTyped ==
    ASSUME TypeOK
    PROVE  Readings \subseteq Positions \cup {"UNSAFE", "ERROR", "RAISED"}
<1>1. ReconcileToState(pos) \in Positions \cup {"UNSAFE"}
  BY DEF ReconcileToState, Positions, TypeOK, Contracts
<1> QED BY <1>1 DEF Readings

-----------------------------------------------------------------------------
(* The invariant is inductive. *)

LEMMA InitInv == Init => IInv
<1> SUFFICES ASSUME Init PROVE IInv
  OBVIOUS
<1> USE VNextAssumption
<1>1. TypeOK
  BY DEF Init, TypeOK, Contracts, Done, Order, Statuses, NoSlot, Positions, Places
<1>2. ReservationHeld
  BY DEF Init, ReservationHeld, InFlight
<1>3. ASSUME NEW m \in Machine PROVE Secured(m)
  BY DEF Init, Secured, InFlight
<1> QED BY <1>1, <1>2, <1>3 DEF IInv

LEMMA VenueInv == IInv /\ Venue => IInv'
<1> SUFFICES ASSUME IInv, NEW i \in OrderId, Post(i) \/ Settle(i) PROVE IInv'
  BY DEF Venue
<1> USE VNextAssumption
<1>1. TypeOK'
  <2>1. CASE Post(i)
    BY <2>1 DEF IInv, TypeOK, Post, Order, Statuses, Done, Contracts
  <2>2. CASE Settle(i)
    <3>1. orders[i] \in Order /\ orders \in [OrderId -> Order]
      BY DEF IInv, TypeOK
    <3>2. \A st \in Statuses : Done(st) \in Order
      BY DEF Done, Order, Contracts
    <3>3. Finals(orders[i]) \subseteq Statuses
      BY DEF Finals, Statuses
    <3>4. [orders[i] EXCEPT !.status = "FILLED"] \in Order
      BY <3>1 DEF Order, Statuses
    <3>5. orders' \in [OrderId -> Order]
      BY <2>2, <3>1, <3>2, <3>3, <3>4 DEF Settle
    <3> QED BY <2>2, <3>5 DEF IInv, TypeOK, Settle
  <2> QED BY <2>1, <2>2
<1>2. ReservationHeld'
  BY DEF IInv, Post, Settle, ReservationHeld, InFlight
<1>3. ASSUME NEW m \in Machine PROVE Secured(m)'
  BY DEF IInv, Post, Settle, Secured, Planned, InFlight, Cur, Plan
<1> QED BY <1>1, <1>2, <1>3 DEF IInv

\* Recording an open takes no reservation from another run.
LEMMA RecordOpenHeld ==
    ASSUME NEW m \in Machine, NEW ct \in Contracts, IInv, CanHold(m), RecordOpen(m, ct),
           \A n \in Machine : InFlight(n)' /\ (tr[n].openId)' # NoOrder =>
                              InFlight(n) /\ tr[n].openId # NoOrder
    PROVE  ReservationHeld'
<1>1. guard'[m] = ct /\ slot'.holder = m
  BY DEF RecordOpen, IInv, TypeOK
<1>2. ASSUME NEW n \in Machine, n # m PROVE guard[n] = NoOne /\ guard'[n] = NoOne
  BY <1>2, VNextAssumption DEF RecordOpen, CanHold, IInv, TypeOK, ReservationHeld
<1>3. ct # NoOne
  BY VNextAssumption DEF Contracts
<1> QED BY <1>1, <1>2, <1>3 DEF IInv, ReservationHeld

LEMMA ConstructInv == ASSUME NEW m \in Machine, IInv, Construct(m) PROVE IInv'
<1> USE VNextAssumption DEF IInv, TypeOK, Construct, Goto, book
<1>1. TypeOK'
  BY DEF Held, Contracts, Places, RecordOpen
<1>2. ReservationHeld'
  <2>1. PICK r \in Readings \cap Positions :
            IF r = "FLAT" THEN UNCHANGED <<slot, guard>>
            ELSE CanHold(m) /\ RecordOpen(m, Held(r))
    OBVIOUS
  <2>2. CASE r = "FLAT"
    BY <2>1, <2>2 DEF ReservationHeld, InFlight
  <2>3. CASE r # "FLAT"
    BY <2>1, <2>3, RecordOpenHeld DEF Held, Contracts, InFlight
  <2> QED BY <2>2, <2>3
<1>3. Secured(m)'
  BY DEF Secured, Planned, InFlight, Cur, Plan
<1>4. ASSUME NEW n \in Machine, n # m PROVE Secured(n)'
  BY <1>4, OthersSecured DEF RecordOpen
<1> QED BY <1>1, <1>2, <1>3, <1>4

\* A run that only moves on, to a place that presumes nothing.
LEMMA MoveInv ==
    ASSUME NEW m \in Machine, IInv, pc[m] # "off", InFlight(m),
           NEW l \in {"idle", "status", "confirm", "fail", "abort", "release"},
           Goto(m, l), UNCHANGED <<book, slot, guard, state, tr>>
    PROVE  IInv'
<1> USE DEF IInv, TypeOK, Goto, book
<1>1. TypeOK'
  BY DEF Places
<1>2. ReservationHeld'
  BY DEF ReservationHeld, InFlight
<1>3. Secured(m)'
  BY DEF Secured, Planned, InFlight, Cur, Plan
<1>4. ASSUME NEW n \in Machine, n # m PROVE Secured(n)'
  BY <1>4, OthersSecured
<1> QED BY <1>1, <1>2, <1>3, <1>4

LEMMA EscapeInv ==
    ASSUME NEW m \in Machine, IInv, pc[m] \notin {"off", "idle"},
           NEW how, Escape(m, how)
    PROVE  IInv'
<1>1. InFlight(m)
  BY DEF IInv, Secured
<1>2. \E l \in {"abort", "release"} : Goto(m, l) /\ UNCHANGED <<book, slot, guard, state, tr>>
  BY DEF Escape
<1> QED BY <1>1, <1>2, MoveInv

\* A run whose transition ends, with its reservation kept or recorded closed.
LEMMA EndInv ==
    ASSUME NEW m \in Machine, IInv, NEW s \in Positions, EndTransition(m, s),
           RecordClose(m) \/ UNCHANGED <<slot, guard>>, UNCHANGED book
    PROVE  IInv'
<1> USE VNextAssumption DEF IInv, TypeOK, EndTransition, RecordClose, Goto, book
<1>1. TypeOK'
  BY DEF Places
<1>2. ReservationHeld'
  BY DEF ReservationHeld, InFlight
<1>3. Secured(m)'
  BY DEF Secured, InFlight
<1>4. ASSUME NEW n \in Machine, n # m PROVE Secured(n)'
  BY <1>4, OthersSecured
<1> QED BY <1>1, <1>2, <1>3, <1>4

LEMMA AdoptedTyped ==
    ASSUME NEW m \in Machine, IInv, NEW r
    PROVE  Adopted(m, r) \in Positions
  BY DEF Adopted, IInv, TypeOK

\* on_signal starts a plan at its first step, or leaves everything as it is.
LEMMA OnSignalInv == ASSUME NEW m \in Machine, NEW d \in Signals, IInv, OnSignal(m, d)
                     PROVE  IInv'
<1> USE VNextAssumption
<1> DEFINE plan == PlanOrders(state[m], d)
<1>1. state[m] \in Positions /\ tr[m] \in Transition \cup {NoTransition}
  BY DEF IInv, TypeOK
<1>2. CASE plan = <<>>
  <2>1. UNCHANGED vars
    BY <1>2 DEF OnSignal, vars, book
  <2> QED BY <2>1 DEF vars, IInv, TypeOK, ReservationHeld, Secured, InFlight, Planned, Cur, Plan
<1>3. CASE plan # <<>>
  <2>1. /\ 1 \in DOMAIN plan
        /\ plan[1] \in Steps
    BY <1>1, <1>3, PlanShape
  <2>2. TypeOK'
    <3> DEFINE t == [signal |-> d, before |-> state[m], step |-> 1, qty |-> 0,
                     closeId |-> NoOrder, openId |-> NoOrder]
    <3>1. t \in Transition
      BY <1>1 DEF Transition
    <3>2. tr' = [tr EXCEPT ![m] = t] /\ UNCHANGED <<book, slot, guard, state>>
      BY <1>3 DEF OnSignal
    <3>3. pc' \in [Machine -> Places]
      BY <1>3, <2>1 DEF OnSignal, Goto, FirstCall, IInv, TypeOK, Places
    <3> HIDE DEF t
    <3> QED BY <3>1, <3>2, <3>3 DEF IInv, TypeOK, book
  <2>3. ReservationHeld'
    BY <1>1, <1>3 DEF IInv, TypeOK, ReservationHeld, OnSignal, InFlight, book
  <2>4. Secured(m)'
    <3>1. /\ tr'[m] = [signal |-> d, before |-> state[m], step |-> 1, qty |-> 0,
                       closeId |-> NoOrder, openId |-> NoOrder]
          /\ pc'[m] = FirstCall(plan, 1)
      BY <1>3 DEF OnSignal, Goto, IInv, TypeOK
    <3>2. Plan(m)' = plan /\ Cur(m)' = plan[1]
      BY <3>1 DEF Plan, Cur
    <3>3. Planned(m)'
      BY <3>1, <3>2, <2>1 DEF Planned
    <3>4. InFlight(m)'
      BY <3>1 DEF InFlight, NoTransition
    <3>5. pc'[m] = IF Cur(m)'.action = "CLOSE" THEN "size" ELSE "claim"
      BY <3>1, <3>2 DEF FirstCall
    <3> QED BY <3>2, <3>3, <3>4, <3>5, <2>1 DEF Secured, Steps
  <2>5. ASSUME NEW n \in Machine, n # m PROVE Secured(n)'
    BY <2>5, <1>3, OthersSecured DEF IInv, TypeOK, OnSignal, Goto, book
  <2> QED BY <2>2, <2>3, <2>4, <2>5 DEF IInv
<1> QED BY <1>2, <1>3

LEMMA PollInv == ASSUME NEW m \in Machine, NEW d \in Signals, IInv, Poll(m, d) PROVE IInv'
<1>1. \E l \in {"idle", "status"} : Goto(m, l)
  BY DEF Poll, Goto, IInv, TypeOK
<1> QED BY <1>1, MoveInv DEF Poll

\* What is known of a run in the middle of a call.
LEMMA InCall ==
    ASSUME NEW m \in Machine, IInv, pc[m] \notin {"off", "idle"}
    PROVE  /\ tr[m] \in Transition
           /\ InFlight(m)
           /\ tr[m].step \in DOMAIN Plan(m)
           /\ Cur(m) \in Steps
  BY DEF IInv, TypeOK, Secured, InFlight, Planned

LEMMA StatusInv == ASSUME NEW m \in Machine, IInv, Status(m) PROVE IInv'
<1>1. InFlight(m)
  BY InCall DEF Status
<1>2. CASE \E how \in Raises("status") : Escape(m, how)
  BY <1>2, EscapeInv DEF Status
<1>3. CASE \E st, l : l \in After(st) /\ Goto(m, l) /\ UNCHANGED <<book, slot, guard, state, tr>>
  BY <1>1, <1>3, MoveInv DEF After, Status
<1> QED BY <1>2, <1>3 DEF Status

LEMMA SizeInv == ASSUME NEW m \in Machine, IInv, Size(m) PROVE IInv'
<1> USE DEF Size
<1>1. CASE \E how : Escape(m, how)
  BY <1>1, EscapeInv
<1>2. CASE ~\E how : Escape(m, how)
  <2>1. /\ pos[Cur(m).ct] > 0
        /\ tr' = [tr EXCEPT ![m].qty = pos[Cur(m).ct]]
        /\ Goto(m, "submit")
        /\ UNCHANGED <<book, slot, guard, state>>
    BY <1>2 DEF ResolveFails
  <2>2. tr[m] \in Transition /\ Cur(m) \in Steps /\ Cur(m).action = "CLOSE"
    BY InCall DEF IInv, Secured
  <2>3. pos[Cur(m).ct] \in 1..MaxPos
    BY <2>1, <2>2, VNextAssumption DEF IInv, TypeOK, Steps
  <2>4. tr'[m] = [tr[m] EXCEPT !.qty = pos[Cur(m).ct]] /\ tr'[m] \in Transition
    BY <2>1, <2>2, <2>3 DEF IInv, TypeOK, Transition
  <2>5. TypeOK'
    BY <2>1, <2>4 DEF IInv, TypeOK, Goto, Places, book
  <2>6. ReservationHeld'
    BY <2>1, <2>2, <2>4, TransitionIsOne DEF IInv, TypeOK, ReservationHeld, InFlight, Transition
  <2>7. Plan(m)' = Plan(m) /\ Cur(m)' = Cur(m) /\ tr'[m].step = tr[m].step
    BY <2>2, <2>4 DEF Plan, Cur, Transition
  <2>8. Secured(m)'
    BY <2>1, <2>2, <2>3, <2>4, <2>7, InCall, TransitionIsOne
       DEF IInv, TypeOK, Secured, Planned, InFlight, Goto, Transition
  <2>9. ASSUME NEW n \in Machine, n # m PROVE Secured(n)'
    BY <2>1, <2>9, OthersSecured DEF IInv, TypeOK, Goto
  <2> QED BY <2>5, <2>6, <2>8, <2>9 DEF IInv
<1> QED BY <1>1, <1>2

LEMMA ClaimInv == ASSUME NEW m \in Machine, IInv, Claim(m) PROVE IInv'
<1>1. CASE ResolveFails(m)
  BY <1>1, EscapeInv DEF ResolveFails, Claim
<1>2. CASE /\ ~CanHold(m)
           /\ EndTransition(m, state[m])
           /\ UNCHANGED <<book, slot, guard>>
  BY <1>2, EndInv DEF IInv, TypeOK
<1>3. CASE /\ CanHold(m)
           /\ RecordOpen(m, Cur(m).ct)
           /\ tr' = [tr EXCEPT ![m].qty = Lot]
           /\ Goto(m, "precheck")
           /\ UNCHANGED <<book, state>>
  <2>1. tr[m] \in Transition /\ Cur(m) \in Steps /\ Cur(m).action = "OPEN"
    BY InCall DEF IInv, Secured, Claim
  <2>2. tr'[m] = [tr[m] EXCEPT !.qty = Lot] /\ tr'[m] \in Transition
    BY <1>3, <2>1, VNextAssumption DEF IInv, TypeOK, Transition
  <2>3. TypeOK'
    BY <1>3, <2>1, <2>2 DEF IInv, TypeOK, Goto, Places, book, RecordOpen, Steps
  <2>4. ReservationHeld'
    <3>1. \A n \in Machine : InFlight(n)' /\ (tr[n].openId)' # NoOrder =>
                               InFlight(n) /\ tr[n].openId # NoOrder
      BY <1>3, <2>1, <2>2, TransitionIsOne DEF IInv, TypeOK, InFlight, Transition
    <3> QED BY <1>3, <2>1, <3>1, RecordOpenHeld DEF Steps
  <2>5. Plan(m)' = Plan(m) /\ Cur(m)' = Cur(m) /\ tr'[m].step = tr[m].step
    BY <2>1, <2>2 DEF Plan, Cur, Transition
  <2>6. guard'[m] # NoOne
    BY <1>3, <2>1, VNextAssumption DEF RecordOpen, IInv, TypeOK, Steps, Contracts
  <2>7. Secured(m)'
    BY <1>3, <2>1, <2>2, <2>5, <2>6, InCall, TransitionIsOne, VNextAssumption
       DEF IInv, TypeOK, Secured, Planned, InFlight, Goto, Transition, Claim
  <2>8. ASSUME NEW n \in Machine, n # m PROVE Secured(n)'
    BY <1>3, <2>8, OthersSecured DEF IInv, TypeOK, Goto, RecordOpen
  <2> QED BY <2>3, <2>4, <2>7, <2>8 DEF IInv
<1> QED BY <1>1, <1>2, <1>3 DEF Claim

LEMMA PrecheckInv == ASSUME NEW m \in Machine, IInv, Precheck(m) PROVE IInv'
<1>1. CASE \E how : Escape(m, how)
  BY <1>1, EscapeInv DEF Precheck
<1>2. CASE Goto(m, "submit") /\ UNCHANGED <<book, slot, guard, state, tr>>
  <2>1. TypeOK'
    BY <1>2 DEF IInv, TypeOK, Goto, Places, book
  <2>2. ReservationHeld'
    BY <1>2 DEF IInv, ReservationHeld, InFlight
  <2>3. Secured(m)'
    BY <1>2 DEF IInv, TypeOK, Secured, Planned, InFlight, Cur, Plan, Goto, Precheck
  <2>4. ASSUME NEW n \in Machine, n # m PROVE Secured(n)'
    BY <1>2, <2>4, OthersSecured DEF IInv, TypeOK, Goto
  <2> QED BY <2>1, <2>2, <2>3, <2>4 DEF IInv
<1> QED BY <1>1, <1>2 DEF Precheck

\* An accepted order is one the book can hold.
LEMMA AcceptTyped ==
    ASSUME NEW m \in Machine, NEW i \in OrderId, IInv, pc[m] = "submit",
           Accept(m, i) \/ orders' = [orders EXCEPT ![i] = Done("REFUSED")]
    PROVE  orders' \in [OrderId -> Order]
<1>1. tr[m] \in Transition /\ Cur(m) \in Steps /\ tr[m].qty \in 1..MaxPos
  BY InCall, VNextAssumption DEF IInv, Secured, Transition
<1>2. Done("REFUSED") \in Order
  BY VNextAssumption DEF Done, Order, Statuses, Contracts
<1> QED BY <1>1, <1>2, VNextAssumption
       DEF Accept, Order, Statuses, Steps, IInv, TypeOK

LEMMA SubmitAckedInv ==
    ASSUME NEW m \in Machine, NEW i \in OrderId, IInv, pc[m] = "submit", SubmitAcked(m, i)
    PROVE  IInv'
<1>1. tr[m] \in Transition /\ Cur(m) \in Steps
  BY InCall
<1>2. /\ tr'[m] = IF Cur(m).action = "OPEN" THEN [tr[m] EXCEPT !.openId = i]
                                            ELSE [tr[m] EXCEPT !.closeId = i]
      /\ tr'[m] \in Transition
      /\ \A n \in Machine : n # m => tr'[n] = tr[n]
  BY <1>1 DEF SubmitAcked, Remember, IInv, TypeOK, Transition
<1>3. \E l \in {"status", "fail"} : Goto(m, l)
  BY DEF SubmitAcked
<1>4. TypeOK'
  BY <1>2, <1>3, AcceptTyped DEF SubmitAcked, Remember, IInv, TypeOK, Goto, Places
<1>5. Cur(m).action = "OPEN" => guard[m] # NoOne
  BY DEF IInv, Secured
<1>6. ReservationHeld'
  BY <1>1, <1>2, <1>5, TransitionIsOne
     DEF SubmitAcked, IInv, TypeOK, ReservationHeld, InFlight, Transition
<1>7. Plan(m)' = Plan(m) /\ Cur(m)' = Cur(m) /\ tr'[m].step = tr[m].step
  BY <1>1, <1>2 DEF Plan, Cur, Transition
<1>8. Secured(m)'
  BY <1>2, <1>3, <1>7, InCall, TransitionIsOne
     DEF IInv, TypeOK, Secured, Planned, InFlight, Goto
<1>9. ASSUME NEW n \in Machine, n # m PROVE Secured(n)'
  BY <1>2, <1>3, <1>9, OthersSecured DEF SubmitAcked, IInv, TypeOK, Goto
<1> QED BY <1>4, <1>6, <1>8, <1>9 DEF IInv

LEMMA SubmitInv == ASSUME NEW m \in Machine, IInv, Submit(m) PROVE IInv'
<1>1. CASE \E i \in FreshIds : SubmitAcked(m, i)
  BY <1>1, SubmitAckedInv DEF FreshIds, Submit
<1>2. CASE \E how : Escape(m, how)
  BY <1>2, EscapeInv DEF Submit
<1>3. ASSUME NEW i \in FreshIds, SubmitLostAck(m, i) PROVE IInv'
  <2>1. \E l \in {"abort", "release"} : Goto(m, l)
    BY <1>3 DEF SubmitLostAck
  <2>2. TypeOK'
    BY <1>3, <2>1, AcceptTyped DEF SubmitLostAck, FreshIds, Submit, IInv, TypeOK, Goto, Places
  <2>3. ReservationHeld'
    BY <1>3 DEF SubmitLostAck, IInv, ReservationHeld, InFlight
  <2>4. Secured(m)'
    BY <1>3, <2>1 DEF SubmitLostAck, Submit, IInv, TypeOK, Secured, Planned, InFlight, Cur, Plan, Goto
  <2>5. ASSUME NEW n \in Machine, n # m PROVE Secured(n)'
    BY <1>3, <2>1, <2>5, OthersSecured DEF SubmitLostAck, IInv, TypeOK, Goto
  <2> QED BY <2>2, <2>3, <2>4, <2>5 DEF IInv
<1> QED BY <1>1, <1>2, <1>3 DEF Submit

\* The reversal keeps its reservation and turns to the leg it opens.
LEMMA ReversalInv ==
    ASSUME NEW m \in Machine, IInv, pc[m] = "confirm", tr[m].step < Len(Plan(m)),
           tr' = [tr EXCEPT ![m].closeId = NoOrder, ![m].step = @ + 1],
           state' = [state EXCEPT ![m] = "FLAT"],
           Goto(m, FirstCall(Plan(m), tr[m].step + 1)),
           UNCHANGED <<book, slot, guard>>
    PROVE  IInv'
<1>1. /\ tr[m] \in Transition
      /\ tr[m].step \in DOMAIN Plan(m)
  BY InCall
<1>2. Plan(m) # <<>> /\ tr[m].before \in Positions /\ tr[m].signal \in Signals
  BY <1>1 DEF Transition
<1>3. /\ DOMAIN Plan(m) = 1..Len(Plan(m))
      /\ Len(Plan(m)) \in 1..2
      /\ \A k \in DOMAIN Plan(m) : Plan(m)[k] \in Steps
  BY <1>2, PlanShape DEF Plan
<1>4. tr[m].step + 1 \in 1..2 /\ tr[m].step + 1 \in DOMAIN Plan(m)
  BY <1>1, <1>3 DEF Transition
<1>5. /\ tr'[m] = [signal |-> tr[m].signal, before |-> tr[m].before,
                   step |-> tr[m].step + 1, qty |-> tr[m].qty,
                   closeId |-> NoOrder, openId |-> tr[m].openId]
      /\ tr'[m] \in Transition
      /\ \A n \in Machine : n # m => tr'[n] = tr[n]
  BY <1>1, <1>4 DEF IInv, TypeOK, Transition
<1>6. TypeOK'
  BY <1>5 DEF IInv, TypeOK, Goto, FirstCall, Places, Positions, book
<1>7. ReservationHeld'
  BY <1>1, <1>5, TransitionIsOne DEF IInv, TypeOK, ReservationHeld, InFlight, Transition
<1>8. Plan(m)' = Plan(m) /\ Cur(m)' = Plan(m)[tr[m].step + 1] /\ tr'[m].step = tr[m].step + 1
  <2>1. /\ tr'[m].before = tr[m].before /\ tr'[m].signal = tr[m].signal
        /\ tr'[m].step = tr[m].step + 1
    BY <1>5
  <2>2. Plan(m)' = Plan(m)
    BY <2>1 DEF Plan
  <2> QED BY <2>1, <2>2 DEF Cur
<1>9. pc'[m] = IF Cur(m)'.action = "CLOSE" THEN "size" ELSE "claim"
  BY <1>8 DEF Goto, FirstCall, IInv, TypeOK
<1>10. Secured(m)'
  BY <1>3, <1>4, <1>5, <1>8, <1>9, TransitionIsOne DEF Secured, Planned, InFlight, Steps
<1>11. ASSUME NEW n \in Machine, n # m PROVE Secured(n)'
  BY <1>5, <1>11, OthersSecured DEF IInv, TypeOK, Goto
<1> QED BY <1>6, <1>7, <1>10, <1>11 DEF IInv

LEMMA ConfirmInv == ASSUME NEW m \in Machine, IInv, Confirm(m) PROVE IInv'
<1>1. CASE \E how : Escape(m, how)
  BY <1>1, EscapeInv DEF Confirm
<1>2. ASSUME NEW r, ConfirmOpen(m, r), UNCHANGED book PROVE IInv'
  BY <1>2, EndInv, AdoptedTyped DEF ConfirmOpen
<1>3. ASSUME NEW r, ConfirmClose(m, r), UNCHANGED book PROVE IInv'
  <2>1. CASE r = "FLAT" /\ tr[m].step < Len(Plan(m))
    BY <1>3, <2>1, ReversalInv DEF ConfirmClose, Confirm
  <2>2. CASE ~(r = "FLAT" /\ tr[m].step < Len(Plan(m)))
    BY <1>3, <2>2, EndInv, AdoptedTyped DEF ConfirmClose
  <2> QED BY <2>1, <2>2
<1> QED BY <1>1, <1>2, <1>3 DEF Confirm

LEMMA FailInv == ASSUME NEW m \in Machine, IInv, Fail(m) PROVE IInv'
<1>1. CASE \E how : Escape(m, how)
  BY <1>1, EscapeInv DEF Fail
<1>2. CASE ~\E how : Escape(m, how)
  BY <1>2, EndInv, AdoptedTyped DEF Fail
<1> QED BY <1>1, <1>2

LEMMA AbortInv == ASSUME NEW m \in Machine, IInv, Abort(m) PROVE IInv'
  BY EndInv, AdoptedTyped DEF Abort

LEMMA ReleaseInv == ASSUME NEW m \in Machine, IInv, Release(m) PROVE IInv'
<1>1. state[m] \in Positions
  BY DEF IInv, TypeOK
<1> QED BY <1>1, EndInv DEF Release

LEMMA WorkInv == ASSUME NEW m \in Machine, IInv, Work(m) PROVE IInv'
  BY SizeInv, ClaimInv, PrecheckInv, SubmitInv, StatusInv, ConfirmInv, FailInv,
     AbortInv, ReleaseInv DEF Work

\* Losing the runs of S, with the registry kept for others or lost with all.
LEMMA ForgetInv ==
    ASSUME NEW S \in SUBSET Machine, IInv, Forget(S),
           slot' = slot \/ (S = Machine /\ slot' = NoSlot)
    PROVE  IInv'
<1> USE DEF IInv, TypeOK, Forget, book
<1>1. TypeOK'
  BY DEF Places, Positions
<1>2. ReservationHeld'
  BY DEF ReservationHeld, InFlight
<1>3. ASSUME NEW n \in Machine, n \in S PROVE Secured(n)'
  BY <1>3 DEF Secured, InFlight
<1>4. ASSUME NEW n \in Machine, n \notin S PROVE Secured(n)'
  BY <1>4 DEF Secured, Planned, InFlight, Cur, Plan
<1> QED BY <1>1, <1>2, <1>3, <1>4

LEMMA StepInv == IInv /\ [Next]_vars => IInv'
<1> SUFFICES ASSUME IInv, [Next]_vars PROVE IInv'
  OBVIOUS
<1>1. CASE Venue
  BY <1>1, VenueInv
<1>2. CASE Crash
  BY <1>2, ForgetInv DEF Crash
<1>3. ASSUME NEW m \in Machine, Construct(m) \/ Rebuild(m) \/ Work(m) PROVE IInv'
  BY <1>3, ConstructInv, WorkInv, ForgetInv DEF Rebuild
<1>4. ASSUME NEW m \in Machine, NEW d \in Signals, OnSignal(m, d) \/ Poll(m, d) PROVE IInv'
  BY <1>4, OnSignalInv, PollInv
<1>5. CASE UNCHANGED vars
  BY <1>5 DEF vars, IInv, TypeOK, ReservationHeld, Secured, Planned, InFlight, Cur, Plan
<1> QED BY <1>1, <1>2, <1>3, <1>4, <1>5 DEF Next

-----------------------------------------------------------------------------
(* Theorems. *)

\* In every behaviour the invariant holds.
THEOREM Invariance == Spec => []IInv
  BY InitInv, StepInv, PTL DEF Spec

\* The account, the book, the registry and every run keep their types.
THEOREM Typing == Spec => []TypeOK
  BY Invariance, PTL DEF IInv

\* A guard that recorded an open owns the registry, and the run that waits
\* for an opening order holds its reservation, whatever fails in between.
THEOREM Reservation == Spec => []ReservationHeld
  BY Invariance, PTL DEF IInv

\* A step that ends a reservation is a close recorded by its holder while the
\* account reads flat, or the end of the process.
THEOREM FlatRelease == Spec => ReleasedOnlyWhenFlat
<1> DEFINE Given == slot.holder # NoOne /\ slot'.holder # slot.holder
           Lawful == /\ slot'.holder = NoOne
                     /\ \/ ReconcileToState(pos) = "FLAT"
                        \/ \A m \in Machine : pc'[m] = "off"
<1>1. ASSUME NEW m \in Machine, IInv, RecordClose(m), Given PROVE slot'.holder = NoOne
  BY <1>1 DEF RecordClose, NoSlot
<1>2. ASSUME NEW m \in Machine, NEW ct, IInv, CanHold(m), RecordOpen(m, ct) PROVE ~Given
  BY <1>2 DEF CanHold, RecordOpen
<1>3. "FLAT" \in Readings => ReconcileToState(pos) = "FLAT"
  BY DEF Readings
<1>4. ASSUME IInv, [Next]_vars PROVE Given => Lawful
  <2>1. CASE Venue
    BY <2>1 DEF Venue, Post, Settle
  <2>2. CASE Crash
    BY <2>2 DEF Crash, Forget, NoSlot
  <2>3. ASSUME NEW m \in Machine, Construct(m) PROVE Given => Lawful
    BY <2>3, <1>2, <1>4 DEF Construct
  <2>4. ASSUME NEW m \in Machine, Rebuild(m) PROVE Given => Lawful
    BY <2>4 DEF Rebuild
  <2>5. ASSUME NEW m \in Machine, NEW d \in Signals, OnSignal(m, d) \/ Poll(m, d)
        PROVE Given => Lawful
    BY <2>5 DEF OnSignal, Poll
  <2>6. ASSUME NEW m \in Machine, Size(m) \/ Precheck(m) \/ Submit(m) \/ Status(m)
        PROVE Given => Lawful
    BY <2>6 DEF Size, ResolveFails, Precheck, Submit, SubmitAcked, SubmitLostAck, Status, Escape
  <2>7. ASSUME NEW m \in Machine, Claim(m) PROVE Given => Lawful
    BY <2>7, <1>2, <1>4 DEF Claim, ResolveFails, Escape
  <2>8. ASSUME NEW m \in Machine, Confirm(m) \/ Fail(m) \/ Abort(m) \/ Release(m)
        PROVE Given => Lawful
    <3>1. UNCHANGED slot \/ ("FLAT" \in Readings /\ RecordClose(m))
      BY <2>8 DEF Confirm, ConfirmClose, ConfirmOpen, Fail, Abort, Release, Escape
    <3> QED BY <3>1, <1>1, <1>3, <1>4
  <2>9. CASE UNCHANGED vars
    BY <2>9 DEF vars
  <2> QED BY <1>4, <2>1, <2>2, <2>3, <2>4, <2>5, <2>6, <2>7, <2>8, <2>9 DEF Next, Work
<1> QED BY <1>4, Invariance, PTL DEF Spec, ReleasedOnlyWhenFlat
-----------------------------------------------------------------------------

\* A run that has an order to wait for.
Ordered(m) == pc[m] \in {"status", "confirm", "fail"} \/ (pc[m] = "idle" /\ InFlight(m))

Flat == \A ct \in Contracts : pos[ct] = 0

\* An order is finished exactly when it is filled to its quantity or written
\* off, so no order the machines take for final trades again.
Finished ==
    \A i \in OrderId : /\ orders[i].posted <= orders[i].qty
                       /\ orders[i].status # "WORKING" => orders[i].posted = orders[i].qty

\* One leg at a time, and only the reserved one once a run exists.
OneLegHeld ==
    /\ \A ct \in Contracts : pos[ct] >= 0
    /\ \E ct \in Contracts : pos[ct] = 0
    /\ (\E m \in Machine : pc[m] # "off") =>
          \A ct \in Contracts : pos[ct] # 0 => slot.holder # NoOne /\ slot.ct = ct

\* An order that can trade is the one the holder of the slot waits for, on
\* the reserved leg, and sells no more than the account has.
Claimed(i) ==
    /\ slot.holder \in Machine
    /\ pc[slot.holder] \in {"idle", "status"} /\ InFlight(slot.holder)
    /\ Awaited(slot.holder) = i
    /\ orders[i].ct = slot.ct
    /\ orders[i].side = "SELL" => orders[i].qty - orders[i].posted <= pos[slot.ct]

\* A run without the slot is flat, and no further than the door of the slot.
Outside(m) ==
    slot.holder # m =>
        /\ state[m] = "FLAT" /\ guard[m] = NoOne
        /\ (pc[m] \in {"off", "idle"} /\ ~InFlight(m)) \/ pc[m] = "claim"

\* The run with the slot: its guard, its belief, and what it is about to do.
Inside(m) ==
    slot.holder = m =>
        /\ guard[m] = slot.ct /\ pc[m] \notin {"off", "release"}
        /\ pc[m] = "idle" /\ ~InFlight(m) => state[m] = ReconcileToState(pos)
        /\ pc[m] = "claim" => Flat
        /\ pc[m] \in {"size", "precheck", "submit"} \/ Ordered(m) => Cur(m).ct = slot.ct
        /\ pc[m] = "submit" /\ Cur(m).action = "CLOSE" => tr[m].qty = pos[slot.ct]
        /\ Ordered(m) => Awaited(m) \in OrderId

\* Before a step is submitted there is no order to wait for, and after it
\* there is one.
Unordered(m) ==
    InFlight(m) =>
        /\ tr[m].closeId = NoOrder \/ tr[m].openId = NoOrder
        /\ pc[m] \in {"size", "claim", "precheck", "submit"} =>
              tr[m].closeId = NoOrder /\ tr[m].openId = NoOrder

RInv ==
    /\ IInv
    /\ Finished /\ OneLegHeld
    /\ \A i \in OrderId : Live(i) => Claimed(i)
    /\ \A m \in Machine : Outside(m) /\ Inside(m) /\ Unordered(m)

-----------------------------------------------------------------------------
(* What the invariant says of the account, the orders and the runs. *)

LEMMA PlanOrder ==
    ASSUME NEW p \in Positions, NEW d \in Signals, PlanOrders(p, d) # <<>>
    PROVE  /\ p = "FLAT" => PlanOrders(p, d)[1].action = "OPEN"
           /\ p # "FLAT" => PlanOrders(p, d)[1] = Step("CLOSE", p)
           /\ 2 \in DOMAIN PlanOrders(p, d) => PlanOrders(p, d)[2].action = "OPEN"
<1>1. CASE p = "FLAT"
  <2>1. PlanOrders(p, d) = <<Step("OPEN", Target(d))>>
    BY <1>1 DEF PlanOrders
  <2> QED BY <1>1, <2>1 DEF Step
<1>2. CASE p # "FLAT" /\ d = "FLAT"
  <2>1. PlanOrders(p, d) = <<Step("CLOSE", p)>>
    BY <1>2 DEF PlanOrders
  <2> QED BY <1>2, <2>1
<1>3. CASE p # "FLAT" /\ d # "FLAT"
  <2>1. PlanOrders(p, d) = <<Step("CLOSE", p), Step("OPEN", Target(d))>>
    BY <1>3 DEF PlanOrders
  <2> QED BY <1>3, <2>1 DEF Step
<1> QED BY <1>1, <1>2, <1>3

\* The one answer of a broker that answers.
LEMMA Answers ==
    ASSUME Faults \subseteq {"submit", "unmapped"}
    PROVE  /\ Readings = {ReconcileToState(pos)}
           /\ Raises("status") = {} /\ Raises("submit") \subseteq {"ERROR"}
           /\ \A f \in {"resolve", "lostack", "lag", "rebuild", "crash"} : f \notin Faults
  BY DEF Readings, Raises

LEMMA Reading ==
    ASSUME TypeOK, OneLegHeld
    PROVE  /\ ReconcileToState(pos) \in Positions
           /\ ReconcileToState(pos) = "FLAT" <=> Flat
           /\ ReconcileToState(pos) # "FLAT" => pos[Held(ReconcileToState(pos))] # 0
  BY DEF TypeOK, OneLegHeld, ReconcileToState, Positions, Flat, Held, Contracts

\* Nothing can trade unless the holder of the slot waits for it.
LEMMA Quiet ==
    ASSUME RInv, slot.holder \in Machine => pc[slot.holder] \notin {"idle", "status"}
    PROVE  \A i \in OrderId : ~Live(i)
  BY DEF RInv, Claimed

\* A run that is past the door holds the slot.
LEMMA Holder ==
    ASSUME RInv, NEW m \in Machine, pc[m] \notin {"off", "idle", "claim"}
    PROVE  slot.holder = m /\ pc[m] # "release"
  BY DEF RInv, Outside, Inside

\* What an action of run m leaves to another one.
LEMMA Others ==
    ASSUME RInv, NEW m \in Machine, NEW n \in Machine, n # m,
           pc'[n] = pc[n], state'[n] = state[n], tr'[n] = tr[n], guard'[n] = guard[n],
           pos' = pos, slot' = slot \/ (slot.holder # n /\ slot'.holder # n)
    PROVE  Outside(n)' /\ Inside(n)' /\ Unordered(n)'
<1>1. InFlight(n)' = InFlight(n) /\ Cur(n)' = Cur(n) /\ Awaited(n)' = Awaited(n)
  BY DEF InFlight, Cur, Plan, Awaited
<1>2. Unordered(n)'
  BY <1>1 DEF RInv, Unordered
<1>3. CASE slot' = slot
  BY <1>1, <1>2, <1>3 DEF RInv, Outside, Inside, Ordered, Flat
<1>4. CASE slot.holder # n /\ slot'.holder # n
  BY <1>1, <1>2, <1>4 DEF RInv, Outside, Inside
<1> QED BY <1>3, <1>4

\* The orders and the account stay, and so does what is claimed of them.
LEMMA SameBook ==
    ASSUME RInv, UNCHANGED book,
           (\A i \in OrderId : ~Live(i)) \/
              (UNCHANGED slot /\ \A m \in Machine : slot.holder = m =>
                  pc'[m] \in {"idle", "status"} /\ InFlight(m)' /\ Awaited(m)' = Awaited(m))
    PROVE  Finished' /\ \A i \in OrderId : Live(i)' => Claimed(i)'
<1>1. Finished'
  BY DEF RInv, Finished, book
<1>2. \A i \in OrderId : Live(i)' = Live(i)
  BY DEF Live, book
<1>3. ASSUME NEW i \in OrderId, Live(i) PROVE Claimed(i)'
  BY <1>3 DEF RInv, Claimed, book
<1> QED BY <1>1, <1>2, <1>3
-----------------------------------------------------------------------------
(* The venue. *)
LEMMA PostR ==
    ASSUME RInv, NEW i \in OrderId, Post(i), IInv', Faults \subseteq {"submit", "unmapped"}
    PROVE  RInv'
<1> DEFINE o == orders[i]
           m == slot.holder
<1>1. o \in Order /\ o.posted < o.qty /\ pos \in [Contracts -> -MaxPos..MaxPos]
      /\ MaxPos \in Nat
  BY VNextAssumption DEF Post, RInv, IInv, TypeOK
<1>2. Live(i) /\ Claimed(i)
  BY <1>1 DEF Live, RInv
<1>3. o.status = "WORKING"
  BY <1>1 DEF RInv, Finished, Order
<1>4. /\ orders' = [orders EXCEPT ![i] = [o EXCEPT !.posted = @ + 1]]
      /\ pos' = [pos EXCEPT ![slot.ct] = @ + (IF o.side = "BUY" THEN 1 ELSE -1)]
      /\ UNCHANGED <<slot, guard, pc, state, tr>>
  BY <1>2, <1>3 DEF Post, Claimed
<1>5. /\ m \in Machine /\ slot.ct \in Contracts /\ InFlight(m)
      /\ pc[m] \in {"idle", "status"} /\ Awaited(m) = i
  BY <1>1, <1>2 DEF Claimed, Order
<1>6. orders'[i] = [o EXCEPT !.posted = @ + 1] /\ \A j \in OrderId : j # i => orders'[j] = orders[j]
  BY <1>4 DEF RInv, IInv, TypeOK
<1>7. Finished'
  BY <1>1, <1>3, <1>6 DEF RInv, Finished, Order
<1>8. /\ pos'[slot.ct] = pos[slot.ct] + (IF o.side = "BUY" THEN 1 ELSE -1)
      /\ \A ct \in Contracts : ct # slot.ct => pos'[ct] = pos[ct]
  BY <1>1, <1>4, <1>5
<1>9. /\ pos[slot.ct] \in Int /\ pos[slot.ct] >= 0
      /\ o.side = "SELL" => o.qty - o.posted <= pos[slot.ct]
  BY <1>1, <1>2, <1>5 DEF Claimed, RInv, OneLegHeld
<1>10. pos'[slot.ct] \in Int /\ pos'[slot.ct] >= 0
  BY <1>1, <1>8, <1>9 DEF Order
<1>11. OneLegHeld'
  <2>1. \A ct \in Contracts : pos'[ct] >= 0
    BY <1>8, <1>10 DEF RInv, OneLegHeld
  <2>2. \A ct \in Contracts : ct # slot.ct => pos'[ct] = 0
    BY <1>5, <1>8, VNextAssumption DEF RInv, OneLegHeld
  <2>3. \E ct \in Contracts : ct # slot.ct
    BY <1>5 DEF Contracts
  <2>4. slot.holder # NoOne
    BY <1>5, VNextAssumption
  <2> QED BY <1>4, <2>1, <2>2, <2>3, <2>4 DEF OneLegHeld
<1>12. ASSUME NEW j \in OrderId, Live(j)' PROVE Claimed(j)'
  <2>1. j = i
    BY <1>5, <1>6, <1>12 DEF Live, RInv, Claimed
  <2>2. InFlight(m)' /\ Awaited(m)' = i
    BY <1>4, <1>5 DEF InFlight, Awaited
  <2>3. /\ orders'[i].ct = slot.ct /\ orders'[i].side = o.side
        /\ orders'[i].qty = o.qty /\ orders'[i].posted = o.posted + 1
    BY <1>1, <1>2, <1>6 DEF Claimed, Order
  <2>4. o.side = "SELL" => orders'[i].qty - orders'[i].posted <= pos'[slot.ct]
    BY <1>1, <1>8, <1>9, <2>3 DEF Order
  <2> QED BY <1>4, <1>5, <2>1, <2>2, <2>3, <2>4 DEF Claimed
<1>13. ASSUME NEW n \in Machine PROVE Outside(n)' /\ Inside(n)' /\ Unordered(n)'
  <2>1. InFlight(n)' = InFlight(n) /\ Cur(n)' = Cur(n) /\ Awaited(n)' = Awaited(n)
    BY <1>4 DEF InFlight, Cur, Plan, Awaited
  <2>2. Outside(n) /\ Inside(n) /\ Unordered(n)
    BY DEF RInv
  <2>3. slot.holder = n => pc[n] \in {"idle", "status"} /\ InFlight(n)
    BY <1>5
  <2>4. Outside(n)' /\ Unordered(n)'
    BY <1>4, <2>1, <2>2 DEF Outside, Unordered
  <2>5. Inside(n)'
    BY <1>4, <2>1, <2>2, <2>3 DEF Inside, Ordered
  <2> QED BY <2>4, <2>5
<1> QED BY <1>7, <1>11, <1>12, <1>13 DEF RInv

LEMMA SettleR ==
    ASSUME RInv, NEW i \in OrderId, Settle(i), IInv', Faults \subseteq {"submit", "unmapped"}
    PROVE  RInv'
<1>1. PICK st \in {"FILLED", "REFUSED", "UNMAPPED"} : orders' = [orders EXCEPT ![i] = Done(st)]
  BY Answers DEF Settle, Finals
<1>2. UNCHANGED <<pos, slot, guard, pc, state, tr>>
  BY DEF Settle
<1>3. orders'[i] = Done(st) /\ \A j \in OrderId : j # i => orders'[j] = orders[j]
  BY <1>1 DEF RInv, IInv, TypeOK
<1>4. Finished'
  BY <1>3 DEF RInv, Finished, Done
<1>5. ASSUME NEW j \in OrderId, Live(j)' PROVE Claimed(j)'
  <2>1. j # i
    BY <1>3, <1>5 DEF Live, Done
  <2>2. orders'[j] = orders[j] /\ Live(j)
    BY <1>3, <1>5, <2>1 DEF Live
  <2> QED BY <1>2, <2>2 DEF RInv, Claimed, InFlight, Awaited
<1>6. OneLegHeld'
  BY <1>2 DEF RInv, OneLegHeld
<1>7. ASSUME NEW n \in Machine PROVE Outside(n)' /\ Inside(n)' /\ Unordered(n)'
  BY <1>2 DEF RInv, Outside, Inside, Unordered, Ordered, InFlight, Cur, Plan, Awaited, Flat
<1> QED BY <1>4, <1>5, <1>6, <1>7 DEF RInv
-----------------------------------------------------------------------------
(* The calls of a run. *)

\* A run that leaves a call for the safety abort.
LEMMA EscapeR ==
    ASSUME RInv, NEW m \in Machine, pc[m] \in {"size", "precheck", "submit"},
           Escape(m, "ERROR"), IInv'
    PROVE  RInv'
<1>1. slot.holder = m
  BY Holder
<1>2. /\ pc' = [pc EXCEPT ![m] = "abort"]
      /\ UNCHANGED <<pos, orders, slot, guard, state, tr>>
  BY DEF Escape, Goto, book
<1>3. Finished' /\ \A i \in OrderId : Live(i)' => Claimed(i)'
  BY <1>1, <1>2, Quiet, SameBook DEF book
<1>4. pc'[m] = "abort" /\ \A n \in Machine : n # m => pc'[n] = pc[n]
  BY <1>2 DEF RInv, IInv, TypeOK
<1>5. OneLegHeld'
  BY <1>1, <1>2, VNextAssumption DEF RInv, OneLegHeld
<1>6. Outside(m)' /\ Inside(m)' /\ Unordered(m)'
  BY <1>1, <1>2, <1>4 DEF RInv, Outside, Inside, Unordered, Ordered, InFlight
<1>7. ASSUME NEW n \in Machine, n # m PROVE Outside(n)' /\ Inside(n)' /\ Unordered(n)'
  BY <1>2, <1>4, <1>7, Others
<1> QED BY <1>3, <1>5, <1>6, <1>7 DEF RInv

\* A run whose transition ends with the position of the account adopted.
LEMMA EndR ==
    ASSUME RInv, NEW m \in Machine, pc[m] \in {"confirm", "fail", "abort"},
           EndTransition(m, ReconcileToState(pos)), UNCHANGED book,
           UNCHANGED <<slot, guard>> \/ (Flat /\ RecordClose(m)), IInv'
    PROVE  RInv'
<1>1. slot.holder = m /\ guard[m] = slot.ct
  BY Holder DEF RInv, Inside
<1>2. /\ pc' = [pc EXCEPT ![m] = "idle"] /\ tr' = [tr EXCEPT ![m] = NoTransition]
      /\ state' = [state EXCEPT ![m] = ReconcileToState(pos)]
      /\ UNCHANGED <<pos, orders>>
  BY DEF EndTransition, Goto, book
<1>3. /\ pc'[m] = "idle" /\ tr'[m] = NoTransition /\ state'[m] = ReconcileToState(pos)
      /\ \A n \in Machine : n # m => pc'[n] = pc[n] /\ tr'[n] = tr[n] /\ state'[n] = state[n]
  BY <1>2 DEF RInv, IInv, TypeOK
<1>4. Finished' /\ \A i \in OrderId : Live(i)' => Claimed(i)'
  BY <1>1, <1>2, Quiet, SameBook DEF book
<1>5. ~InFlight(m)'
  BY <1>3 DEF InFlight
<1>6. CASE UNCHANGED <<slot, guard>>
  <2>1. OneLegHeld'
    BY <1>1, <1>2, <1>6, VNextAssumption DEF RInv, OneLegHeld
  <2>2. Outside(m)' /\ Inside(m)' /\ Unordered(m)'
    BY <1>1, <1>2, <1>3, <1>5, <1>6 DEF Outside, Inside, Unordered, Ordered
  <2>3. ASSUME NEW n \in Machine, n # m PROVE Outside(n)' /\ Inside(n)' /\ Unordered(n)'
    BY <1>2, <1>3, <1>6, <2>3, Others
  <2> QED BY <1>4, <2>1, <2>2, <2>3 DEF RInv
<1>7. CASE Flat /\ RecordClose(m)
  <2>1. guard[m] # NoOne
    <3>1. slot \in [holder : Machine, ct : Contracts]
      BY <1>1, VNextAssumption DEF RInv, IInv, TypeOK, NoSlot
    <3> QED BY <1>1, <3>1, VNextAssumption DEF Contracts
  <2>2. slot' = NoSlot /\ guard' = [guard EXCEPT ![m] = NoOne]
    BY <1>7, <2>1 DEF RecordClose
  <2>3. guard'[m] = NoOne /\ \A n \in Machine : n # m => guard'[n] = guard[n]
    BY <2>2 DEF RInv, IInv, TypeOK
  <2>4. slot'.holder = NoOne
    BY <2>2 DEF NoSlot
  <2>5. OneLegHeld'
    BY <1>2, <1>7 DEF RInv, OneLegHeld, Flat
  <2>6. state'[m] = "FLAT"
    BY <1>3, <1>7, Reading DEF RInv, IInv
  <2>7. Outside(m)' /\ Inside(m)' /\ Unordered(m)'
    BY <1>3, <1>5, <2>3, <2>4, <2>6, VNextAssumption DEF Outside, Inside, Unordered
  <2>8. ASSUME NEW n \in Machine, n # m PROVE Outside(n)' /\ Inside(n)' /\ Unordered(n)'
    <3>1. slot'.holder # n /\ slot.holder # n
      BY <1>1, <2>4, <2>8, VNextAssumption
    <3> QED BY <1>2, <1>3, <2>3, <2>8, <3>1, Others
  <2> QED BY <1>4, <2>5, <2>7, <2>8 DEF RInv
<1> QED BY <1>6, <1>7

LEMMA AdoptedIs ==
    ASSUME RInv, NEW m \in Machine
    PROVE  Adopted(m, ReconcileToState(pos)) = ReconcileToState(pos)
  BY Reading DEF Adopted, RInv, IInv

LEMMA FailR ==
    ASSUME RInv, NEW m \in Machine, Fail(m), IInv', Faults \subseteq {"submit", "unmapped"}
    PROVE  RInv'
<1> DEFINE r == ReconcileToState(pos)
<1>1. r \in Positions /\ (r = "FLAT" => Flat) /\ Adopted(m, r) = r /\ Readings = {r}
  BY Reading, AdoptedIs, Answers DEF RInv, IInv
<1>2. r \notin {"ERROR", "RAISED"}
  BY <1>1 DEF Positions
<1> HIDE DEF r
<1>3. /\ IF r = "FLAT" THEN RecordClose(m) ELSE UNCHANGED <<slot, guard>>
      /\ EndTransition(m, r) /\ UNCHANGED book
  BY <1>1, <1>2 DEF Fail
<1> QED BY <1>1, <1>3, EndR DEF Fail, r

LEMMA AbortR ==
    ASSUME RInv, NEW m \in Machine, Abort(m), IInv', Faults \subseteq {"submit", "unmapped"}
    PROVE  RInv'
<1> DEFINE r == ReconcileToState(pos)
<1>1. r \in Positions /\ (r = "FLAT" => Flat) /\ Adopted(m, r) = r /\ Readings = {r}
  BY Reading, AdoptedIs, Answers DEF RInv, IInv
<1> HIDE DEF r
<1>2. /\ IF r = "FLAT" THEN RecordClose(m) ELSE UNCHANGED <<slot, guard>>
      /\ EndTransition(m, r) /\ UNCHANGED book
  BY <1>1 DEF Abort
<1> QED BY <1>1, <1>2, EndR DEF Abort, r

\* A reversal turns to its opening step with the account flat.
LEMMA ReversalR ==
    ASSUME RInv, NEW m \in Machine, pc[m] = "confirm", Flat, tr[m].closeId # NoOrder,
           tr[m].step < Len(Plan(m)),
           tr' = [tr EXCEPT ![m].closeId = NoOrder, ![m].step = @ + 1],
           state' = [state EXCEPT ![m] = "FLAT"],
           Goto(m, FirstCall(Plan(m), tr[m].step + 1)),
           UNCHANGED <<book, slot, guard>>, IInv'
    PROVE  RInv'
<1>1. slot.holder = m /\ guard[m] = slot.ct
  BY Holder DEF RInv, Inside
<1>2. /\ tr[m] \in Transition /\ InFlight(m)
      /\ tr[m].step \in DOMAIN Plan(m)
  BY InCall DEF RInv
<1>3. Plan(m) # <<>> /\ tr[m].before \in Positions /\ tr[m].signal \in Signals
  BY <1>2 DEF Transition
<1>4. tr[m].step + 1 = 2 /\ 2 \in DOMAIN Plan(m)
  <2>1. DOMAIN Plan(m) = 1..Len(Plan(m)) /\ Len(Plan(m)) \in 1..2
    BY <1>3, PlanShape DEF Plan
  <2>2. tr[m].step \in 1..2
    BY <1>2 DEF Transition
  <2> QED BY <2>1, <2>2
<1>5. Plan(m)[2].action = "OPEN"
  BY <1>3, <1>4, PlanOrder DEF Plan
<1>6. pc' = [pc EXCEPT ![m] = "claim"]
  BY <1>4, <1>5 DEF Goto, FirstCall
<1>7. tr[m].openId = NoOrder
  BY <1>2 DEF RInv, Unordered
<1>8. tr'[m].closeId = NoOrder /\ tr'[m].openId = NoOrder
  BY <1>2, <1>7 DEF RInv, IInv, TypeOK, Transition
<1>9. /\ pc'[m] = "claim"
      /\ \A n \in Machine : n # m => pc'[n] = pc[n] /\ tr'[n] = tr[n] /\ state'[n] = state[n]
  BY <1>6 DEF RInv, IInv, TypeOK
<1>10. Finished' /\ \A i \in OrderId : Live(i)' => Claimed(i)'
  BY <1>1, Quiet, SameBook DEF book
<1>11. OneLegHeld'
  BY <1>1, VNextAssumption DEF RInv, OneLegHeld, book
<1>12. Outside(m)' /\ Inside(m)' /\ Unordered(m)'
  BY <1>1, <1>8, <1>9 DEF Outside, Inside, Unordered, Ordered, Flat, book
<1>13. ASSUME NEW n \in Machine, n # m PROVE Outside(n)' /\ Inside(n)' /\ Unordered(n)'
  BY <1>9, <1>13, Others DEF book
<1> QED BY <1>10, <1>11, <1>12, <1>13 DEF RInv

LEMMA ConfirmR ==
    ASSUME RInv, NEW m \in Machine, Confirm(m), IInv', Faults \subseteq {"submit", "unmapped"}
    PROVE  RInv'
<1> DEFINE r == ReconcileToState(pos)
<1>1. r \in Positions /\ (r = "FLAT" => Flat) /\ Adopted(m, r) = r /\ Readings = {r}
  BY Reading, AdoptedIs, Answers DEF RInv, IInv
<1>2. r \notin {"ERROR", "RAISED"}
  BY <1>1 DEF Positions
<1> HIDE DEF r
<1>3. (ConfirmClose(m, r) \/ ConfirmOpen(m, r)) /\ UNCHANGED book /\ pc[m] = "confirm"
  BY <1>1, <1>2 DEF Confirm
<1>4. CASE ConfirmOpen(m, r)
  BY <1>1, <1>3, <1>4, EndR DEF ConfirmOpen, r
<1>5. CASE ConfirmClose(m, r) /\ r = "FLAT" /\ tr[m].step < Len(Plan(m))
  BY <1>1, <1>3, <1>5, ReversalR DEF ConfirmClose
<1>6. CASE ConfirmClose(m, r) /\ ~(r = "FLAT" /\ tr[m].step < Len(Plan(m)))
  BY <1>1, <1>3, <1>6, EndR DEF ConfirmClose, r
<1> QED BY <1>3, <1>4, <1>5, <1>6

LEMMA ConstructR ==
    ASSUME RInv, NEW m \in Machine, Construct(m), IInv', Faults \subseteq {"submit", "unmapped"}
    PROVE  RInv'
<1> DEFINE r == ReconcileToState(pos)
<1>1. pc[m] = "off" /\ slot.holder # m
  BY DEF Construct, RInv, Inside
<1>2. state[m] = "FLAT" /\ guard[m] = NoOne /\ ~InFlight(m)
  BY <1>1 DEF RInv, Outside
<1>3. r \in Positions /\ (r = "FLAT" <=> Flat) /\ (r # "FLAT" => pos[Held(r)] # 0)
      /\ Readings = {r}
  BY Reading, Answers DEF RInv, IInv
<1> HIDE DEF r
<1>4. /\ state' = [state EXCEPT ![m] = r] /\ pc' = [pc EXCEPT ![m] = "idle"]
      /\ UNCHANGED <<pos, orders, tr>>
      /\ IF r = "FLAT" THEN UNCHANGED <<slot, guard>>
         ELSE CanHold(m) /\ RecordOpen(m, Held(r))
  BY <1>3 DEF Construct, Goto, book
<1>5. /\ pc'[m] = "idle" /\ state'[m] = r /\ InFlight(m)' = InFlight(m)
      /\ \A n \in Machine : n # m => pc'[n] = pc[n] /\ tr'[n] = tr[n] /\ state'[n] = state[n]
  BY <1>4 DEF RInv, IInv, TypeOK, InFlight
<1>6. CASE r = "FLAT"
  <2>1. Finished' /\ \A i \in OrderId : Live(i)' => Claimed(i)'
    <3>1. \A n \in Machine : slot.holder = n => n # m /\ pc'[n] = pc[n] /\ tr'[n] = tr[n]
      BY <1>1, <1>5
    <3>2. ASSUME NEW i \in OrderId, Live(i) PROVE Claimed(i)'
      BY <1>4, <1>6, <3>1, <3>2 DEF RInv, Claimed, InFlight, Awaited
    <3> QED BY <1>4, <3>2 DEF RInv, Finished, Live
  <2>2. OneLegHeld'
    BY <1>3, <1>4, <1>6 DEF RInv, OneLegHeld, Flat
  <2>3. Outside(m)' /\ Inside(m)' /\ Unordered(m)'
    BY <1>1, <1>2, <1>4, <1>5, <1>6 DEF Outside, Inside, Unordered
  <2>4. ASSUME NEW n \in Machine, n # m PROVE Outside(n)' /\ Inside(n)' /\ Unordered(n)'
    BY <1>4, <1>5, <1>6, <2>4, Others
  <2> QED BY <2>1, <2>2, <2>3, <2>4 DEF RInv
<1>7. CASE r # "FLAT"
  <2>1. slot.holder = NoOne
    BY <1>1, <1>4, <1>7 DEF CanHold
  <2>2. Held(r) \in Contracts
    BY DEF Held, Contracts
  <2>3. /\ slot' = [holder |-> m, ct |-> Held(r)] /\ guard'[m] = Held(r)
        /\ \A n \in Machine : n # m => guard'[n] = guard[n]
    BY <1>4, <1>7 DEF RecordOpen, RInv, IInv, TypeOK
  <2>4. \A ct \in Contracts : pos[ct] # 0 => ct = Held(r)
    BY <1>3, <1>7, <2>2 DEF RInv, OneLegHeld, Contracts
  <2>5. Finished' /\ \A i \in OrderId : Live(i)' => Claimed(i)'
    BY <1>4, <2>1, VNextAssumption, Quiet, SameBook DEF book
  <2>6. OneLegHeld'
    BY <1>4, <2>3, <2>4, VNextAssumption DEF RInv, OneLegHeld
  <2>7. Outside(m)' /\ Inside(m)' /\ Unordered(m)'
    <3>1. state'[m] = ReconcileToState(pos')
      BY <1>4, <1>5 DEF r
    <3> QED BY <1>2, <1>5, <2>3, <3>1 DEF Outside, Inside, Unordered, Ordered
  <2>8. ASSUME NEW n \in Machine, n # m PROVE Outside(n)' /\ Inside(n)' /\ Unordered(n)'
    <3>1. slot.holder # n /\ slot'.holder # n
      BY <2>1, <2>3, <2>8, VNextAssumption
    <3> QED BY <1>4, <1>5, <2>3, <2>8, <3>1, Others
  <2> QED BY <2>5, <2>6, <2>7, <2>8 DEF RInv
<1> QED BY <1>6, <1>7

LEMMA OnSignalR ==
    ASSUME RInv, NEW m \in Machine, NEW d \in Signals, OnSignal(m, d), IInv'
    PROVE  RInv'
<1> DEFINE plan == PlanOrders(state[m], d)
           t == [signal |-> d, before |-> state[m], step |-> 1, qty |-> 0,
                 closeId |-> NoOrder, openId |-> NoOrder]
<1>1. pc[m] = "idle" /\ ~InFlight(m) /\ state[m] \in Positions
  BY DEF OnSignal, RInv, IInv, TypeOK
<1>2. \A i \in OrderId : ~Live(i) \/ slot.holder # m
  BY <1>1 DEF RInv, Claimed
<1>3. CASE plan = <<>>
  <2>1. UNCHANGED vars
    BY <1>3 DEF OnSignal, vars, book
  <2>2. Finished' /\ OneLegHeld' /\ \A i \in OrderId : Live(i)' => Claimed(i)'
    BY <2>1 DEF vars, RInv, Finished, OneLegHeld, Live, Claimed, InFlight, Awaited
  <2>3. \A n \in Machine : Outside(n)' /\ Inside(n)' /\ Unordered(n)'
    BY <2>1 DEF vars, RInv, Outside, Inside, Unordered, Ordered, InFlight, Awaited, Flat, Cur, Plan
  <2> QED BY <2>2, <2>3 DEF RInv
<1>4. CASE plan # <<>>
  <2>1. /\ tr' = [tr EXCEPT ![m] = t] /\ pc' = [pc EXCEPT ![m] = FirstCall(plan, 1)]
        /\ UNCHANGED <<pos, orders, slot, guard, state>>
    BY <1>4 DEF OnSignal, Goto, book
  <2>2. /\ pc'[m] = FirstCall(plan, 1) /\ tr'[m] = t
        /\ \A n \in Machine : n # m => pc'[n] = pc[n] /\ tr'[n] = tr[n]
    BY <2>1 DEF RInv, IInv, TypeOK
  <2>3. plan[1] \in Steps
    BY <1>1, <1>4, PlanShape
  <2>4. Cur(m)' = plan[1]
    BY <2>2 DEF Cur, Plan
  <2>5. tr'[m].closeId = NoOrder /\ tr'[m].openId = NoOrder
    BY <2>2
  <2>6. Finished' /\ \A i \in OrderId : Live(i)' => Claimed(i)'
    <3>1. CASE slot.holder = m
      BY <1>2, <2>1, <3>1, SameBook DEF book
    <3>2. CASE slot.holder # m
      <4>1. ASSUME NEW i \in OrderId, Live(i) PROVE Claimed(i)'
        BY <2>1, <2>2, <3>2, <4>1 DEF RInv, Claimed, InFlight, Awaited
      <4> QED BY <2>1, <4>1 DEF RInv, Finished, Live
    <3> QED BY <3>1, <3>2
  <2>7. OneLegHeld'
    BY <1>1, <2>1 DEF RInv, OneLegHeld
  <2>8. Outside(m)' /\ Inside(m)' /\ Unordered(m)'
    <3>1. Unordered(m)'
      BY <2>5 DEF Unordered
    <3>2. CASE state[m] = "FLAT"
      <4>1. pc'[m] = "claim"
        BY <1>1, <1>4, <2>2, <3>2, PlanOrder DEF FirstCall
      <4>2. Outside(m)'
        BY <2>1, <3>2, <4>1 DEF RInv, Outside
      <4>3. slot.holder = m => Flat
        BY <1>1, <3>2, Reading DEF RInv, Inside, IInv
      <4>4. Inside(m)'
        BY <2>1, <4>1, <4>3 DEF RInv, Inside, Ordered, Flat
      <4> QED BY <3>1, <4>2, <4>4
    <3>3. CASE state[m] # "FLAT"
      <4>1. plan[1] = Step("CLOSE", state[m])
        BY <1>1, <1>4, <3>3, PlanOrder
      <4>2. pc'[m] = "size" /\ Cur(m)'.ct = Held(state[m])
        BY <2>2, <2>4, <4>1 DEF FirstCall, Step
      <4>3. slot.holder = m
        BY <3>3 DEF RInv, Outside
      <4>4. state[m] = ReconcileToState(pos)
        BY <1>1, <4>3 DEF RInv, Inside
      <4>5. Held(state[m]) = slot.ct
        <5>1. pos[Held(state[m])] # 0 /\ Held(state[m]) \in Contracts
          BY <3>3, <4>4, Reading DEF RInv, IInv, Held, Contracts
        <5> QED BY <1>1, <5>1 DEF RInv, OneLegHeld
      <4>6. Outside(m)' /\ Inside(m)'
        BY <2>1, <4>2, <4>3, <4>5 DEF RInv, Outside, Inside, Ordered
      <4> QED BY <3>1, <4>6
    <3> QED BY <3>2, <3>3
  <2>9. ASSUME NEW n \in Machine, n # m PROVE Outside(n)' /\ Inside(n)' /\ Unordered(n)'
    BY <2>1, <2>2, <2>9, Others
  <2> QED BY <2>6, <2>7, <2>8, <2>9 DEF RInv
<1> QED BY <1>3, <1>4

\* A call that waits for an order only moves on.
LEMMA MoveR ==
    ASSUME RInv, NEW m \in Machine, pc[m] \in {"idle", "status"}, InFlight(m),
           NEW l \in {"idle", "status", "confirm", "fail", "abort"}, Goto(m, l),
           l \in {"confirm", "fail", "abort"} => ~Live(Awaited(m)),
           UNCHANGED <<pos, orders, slot, guard, state, tr>>, IInv'
    PROVE  RInv'
<1>1. slot.holder = m
  BY DEF RInv, Outside
<1>2. pc'[m] = l /\ \A n \in Machine : n # m => pc'[n] = pc[n]
  BY DEF Goto, RInv, IInv, TypeOK
<1>3. InFlight(m)' /\ Awaited(m)' = Awaited(m) /\ Cur(m)' = Cur(m)
  BY DEF InFlight, Awaited, Cur, Plan
<1>4. Finished' /\ \A i \in OrderId : Live(i)' => Claimed(i)'
  <2>1. ASSUME NEW i \in OrderId, Live(i) PROVE Claimed(i)'
    BY <1>1, <1>2, <1>3, <2>1 DEF RInv, Claimed
  <2> QED BY <2>1 DEF RInv, Finished, Live
<1>5. OneLegHeld'
  BY <1>1, VNextAssumption DEF RInv, OneLegHeld
<1>6. Outside(m)' /\ Inside(m)' /\ Unordered(m)'
  BY <1>1, <1>2, <1>3 DEF RInv, Outside, Inside, Unordered, Ordered, InFlight
<1>7. ASSUME NEW n \in Machine, n # m PROVE Outside(n)' /\ Inside(n)' /\ Unordered(n)'
  BY <1>2, <1>7, Others
<1> QED BY <1>4, <1>5, <1>6, <1>7 DEF RInv

LEMMA PollR ==
    ASSUME RInv, NEW m \in Machine, NEW d \in Signals, Poll(m, d), IInv'
    PROVE  RInv'
<1>1. \E l \in {"idle", "status"} : Goto(m, l)
  BY DEF Poll, Goto, RInv, IInv, TypeOK
<1> QED BY <1>1, MoveR DEF Poll, book

LEMMA StatusR ==
    ASSUME RInv, NEW m \in Machine, Status(m), IInv', Faults \subseteq {"submit", "unmapped"}
    PROVE  RInv'
<1>1. slot.holder = m /\ InFlight(m) /\ pc[m] = "status"
  BY Holder, InCall DEF Status, RInv
<1>2. Awaited(m) \in OrderId
  BY <1>1 DEF RInv, Inside, Ordered
<1>3. PICK l \in After(orders[Awaited(m)].status) :
          Goto(m, l) /\ UNCHANGED <<pos, orders, slot, guard, state, tr>>
  BY Answers DEF Status, book
<1>4. orders[Awaited(m)].status # "WORKING" => ~Live(Awaited(m))
  BY <1>2 DEF RInv, Finished, Live, IInv, TypeOK, Order
<1>5. l \in {"idle", "confirm", "fail", "abort"}
  BY <1>3 DEF After
<1>6. l \in {"confirm", "fail", "abort"} => ~Live(Awaited(m))
  BY <1>3, <1>4 DEF After
<1> QED BY <1>1, <1>3, <1>5, <1>6, MoveR

LEMMA SizeR ==
    ASSUME RInv, NEW m \in Machine, Size(m), IInv', Faults \subseteq {"submit", "unmapped"}
    PROVE  RInv'
<1> DEFINE r == ReconcileToState(pos)
<1>1. /\ slot.holder = m /\ pc[m] = "size" /\ InFlight(m) /\ tr[m] \in Transition
      /\ Cur(m).ct = slot.ct /\ Cur(m).action = "CLOSE"
  BY Holder, InCall DEF Size, RInv, Inside, IInv, Secured
<1>2. r \in Positions /\ Readings = {r}
  BY Reading, Answers DEF RInv, IInv
<1>3. r # "RAISED"
  BY <1>2 DEF Positions
<1> HIDE DEF r
<1>4. CASE Escape(m, "ERROR")
  BY <1>1, <1>4, EscapeR
<1>5. CASE /\ tr' = [tr EXCEPT ![m].qty = pos[slot.ct]]
           /\ Goto(m, "submit")
           /\ UNCHANGED <<book, slot, guard, state>>
  <2>1. /\ pc'[m] = "submit"
        /\ \A n \in Machine : n # m => pc'[n] = pc[n] /\ tr'[n] = tr[n]
    BY <1>5 DEF Goto, RInv, IInv, TypeOK
  <2>2. /\ tr'[m].qty = pos[slot.ct]
        /\ tr'[m].before = tr[m].before /\ tr'[m].signal = tr[m].signal
        /\ tr'[m].step = tr[m].step
        /\ tr'[m].closeId = tr[m].closeId /\ tr'[m].openId = tr[m].openId
    BY <1>1, <1>5 DEF RInv, IInv, TypeOK, Transition
  <2>3. Cur(m)' = Cur(m)
    BY <2>2 DEF Cur, Plan
  <2>4. Finished' /\ \A i \in OrderId : Live(i)' => Claimed(i)'
    BY <1>1, <1>5, Quiet, SameBook
  <2>5. OneLegHeld'
    BY <1>1, <1>5, VNextAssumption DEF RInv, OneLegHeld, book
  <2>6. Outside(m)' /\ Inside(m)' /\ Unordered(m)'
    BY <1>1, <1>5, <2>1, <2>2, <2>3 DEF RInv, Outside, Inside, Unordered, Ordered, book
  <2>7. ASSUME NEW n \in Machine, n # m PROVE Outside(n)' /\ Inside(n)' /\ Unordered(n)'
    BY <1>5, <2>1, <2>7, Others DEF book
  <2> QED BY <2>4, <2>5, <2>6, <2>7 DEF RInv
<1> QED BY <1>1, <1>2, <1>3, <1>4, <1>5, Answers DEF Size, ResolveFails

\* A run that is turned away, or that takes the slot on a flat account.
LEMMA ClaimR ==
    ASSUME RInv, NEW m \in Machine, Claim(m), IInv', Faults \subseteq {"submit", "unmapped"}
    PROVE  RInv'
<1>1. /\ pc[m] = "claim" /\ InFlight(m) /\ tr[m] \in Transition /\ Cur(m) \in Steps
      /\ Cur(m).action = "OPEN"
  BY InCall DEF Claim, RInv, IInv, Secured
<1>2. CASE ~CanHold(m) /\ EndTransition(m, state[m]) /\ UNCHANGED <<book, slot, guard>>
  <2>1. slot.holder # m
    BY <1>2 DEF CanHold
  <2>2. /\ pc' = [pc EXCEPT ![m] = "idle"] /\ tr' = [tr EXCEPT ![m] = NoTransition]
        /\ state' = state /\ UNCHANGED <<pos, orders, slot, guard>>
    BY <1>2 DEF EndTransition, Goto, book, RInv, IInv, TypeOK
  <2>3. /\ pc'[m] = "idle" /\ tr'[m] = NoTransition
        /\ \A n \in Machine : n # m => pc'[n] = pc[n] /\ tr'[n] = tr[n]
    BY <2>2 DEF RInv, IInv, TypeOK
  <2>4. Finished' /\ \A i \in OrderId : Live(i)' => Claimed(i)'
    <3>1. ASSUME NEW i \in OrderId, Live(i) PROVE Claimed(i)'
      BY <2>1, <2>2, <2>3, <3>1 DEF RInv, Claimed, InFlight, Awaited
    <3> QED BY <2>2, <3>1 DEF RInv, Finished, Live
  <2>5. OneLegHeld'
    BY <1>1, <2>2 DEF RInv, OneLegHeld
  <2>6. Outside(m)' /\ Inside(m)' /\ Unordered(m)'
    BY <2>1, <2>2, <2>3 DEF RInv, Outside, Inside, Unordered, InFlight
  <2>7. ASSUME NEW n \in Machine, n # m PROVE Outside(n)' /\ Inside(n)' /\ Unordered(n)'
    BY <2>2, <2>3, <2>7, Others
  <2> QED BY <2>4, <2>5, <2>6, <2>7 DEF RInv
<1>3. CASE /\ CanHold(m) /\ RecordOpen(m, Cur(m).ct)
           /\ tr' = [tr EXCEPT ![m].qty = Lot]
           /\ Goto(m, "precheck")
           /\ UNCHANGED <<book, state>>
  <2>1. Flat
    BY <1>1, <1>3 DEF CanHold, RInv, Inside, OneLegHeld, Flat
  <2>2. /\ slot' = [holder |-> m, ct |-> Cur(m).ct] /\ guard'[m] = Cur(m).ct
        /\ \A n \in Machine : n # m => guard'[n] = guard[n]
    BY <1>3 DEF RecordOpen, RInv, IInv, TypeOK
  <2>3. /\ pc'[m] = "precheck"
        /\ \A n \in Machine : n # m => pc'[n] = pc[n] /\ tr'[n] = tr[n]
    BY <1>3 DEF Goto, RInv, IInv, TypeOK
  <2>4. /\ tr'[m].before = tr[m].before /\ tr'[m].signal = tr[m].signal
        /\ tr'[m].step = tr[m].step
        /\ tr'[m].closeId = tr[m].closeId /\ tr'[m].openId = tr[m].openId
    BY <1>1, <1>3 DEF RInv, IInv, TypeOK, Transition
  <2>5. Cur(m)' = Cur(m)
    BY <2>4 DEF Cur, Plan
  <2>6. Finished' /\ \A i \in OrderId : Live(i)' => Claimed(i)'
    BY <1>1, <1>3, VNextAssumption, Quiet, SameBook DEF CanHold
  <2>7. OneLegHeld'
    BY <1>3, <2>1, <2>2 DEF RInv, OneLegHeld, Flat, book
  <2>8. Outside(m)' /\ Inside(m)' /\ Unordered(m)'
    BY <1>1, <2>2, <2>3, <2>4, <2>5 DEF RInv, Outside, Inside, Unordered, Ordered
  <2>9. ASSUME NEW n \in Machine, n # m PROVE Outside(n)' /\ Inside(n)' /\ Unordered(n)'
    <3>1. slot.holder # n /\ slot'.holder # n
      BY <1>3, <2>2, <2>9, VNextAssumption DEF CanHold
    <3> QED BY <1>3, <2>2, <2>3, <2>9, <3>1, Others DEF book
  <2> QED BY <2>6, <2>7, <2>8, <2>9 DEF RInv
<1> QED BY <1>2, <1>3, Answers DEF Claim, ResolveFails

LEMMA PrecheckR ==
    ASSUME RInv, NEW m \in Machine, Precheck(m), IInv', Faults \subseteq {"submit", "unmapped"}
    PROVE  RInv'
<1> DEFINE r == ReconcileToState(pos)
<1>1. /\ slot.holder = m /\ pc[m] = "precheck" /\ InFlight(m)
      /\ Cur(m).ct = slot.ct /\ Cur(m).action = "OPEN"
  BY Holder, InCall DEF Precheck, RInv, Inside, IInv, Secured
<1>2. r \in Positions /\ Readings = {r}
  BY Reading, Answers DEF RInv, IInv
<1>3. r # "RAISED"
  BY <1>2 DEF Positions
<1> HIDE DEF r
<1>4. CASE Escape(m, "ERROR")
  BY <1>1, <1>4, EscapeR
<1>5. CASE Goto(m, "submit") /\ UNCHANGED <<book, slot, guard, state, tr>>
  <2>1. pc'[m] = "submit" /\ \A n \in Machine : n # m => pc'[n] = pc[n]
    BY <1>5 DEF Goto, RInv, IInv, TypeOK
  <2>2. Cur(m)' = Cur(m) /\ tr'[m] = tr[m]
    BY <1>5 DEF Cur, Plan
  <2>3. Finished' /\ \A i \in OrderId : Live(i)' => Claimed(i)'
    BY <1>1, <1>5, Quiet, SameBook
  <2>4. OneLegHeld'
    BY <1>1, <1>5, VNextAssumption DEF RInv, OneLegHeld, book
  <2>5. Outside(m)' /\ Inside(m)' /\ Unordered(m)'
    BY <1>1, <1>5, <2>1, <2>2 DEF RInv, Outside, Inside, Unordered, Ordered, book
  <2>6. ASSUME NEW n \in Machine, n # m PROVE Outside(n)' /\ Inside(n)' /\ Unordered(n)'
    BY <1>5, <2>1, <2>6, Others DEF book
  <2> QED BY <2>3, <2>4, <2>5, <2>6 DEF RInv
<1> QED BY <1>1, <1>2, <1>3, <1>4, <1>5 DEF Precheck

LEMMA SubmitAckedR ==
    ASSUME RInv, NEW m \in Machine, pc[m] = "submit", NEW i \in FreshIds,
           SubmitAcked(m, i), IInv'
    PROVE  RInv'
<1>1. /\ slot.holder = m /\ InFlight(m) /\ tr[m] \in Transition /\ Cur(m) \in Steps
      /\ Cur(m).ct = slot.ct
      /\ tr[m].closeId = NoOrder /\ tr[m].openId = NoOrder
  BY Holder, InCall DEF RInv, Inside, Unordered
<1>2. i \in OrderId /\ i # NoOrder
  BY VNextAssumption DEF FreshIds
<1>3. \A j \in OrderId : ~Live(j)
  BY <1>1, Quiet
<1>4. /\ tr'[m].before = tr[m].before /\ tr'[m].signal = tr[m].signal
      /\ tr'[m].step = tr[m].step
      /\ tr'[m].closeId = IF Cur(m).action = "OPEN" THEN NoOrder ELSE i
      /\ tr'[m].openId = IF Cur(m).action = "OPEN" THEN i ELSE NoOrder
      /\ \A n \in Machine : n # m => tr'[n] = tr[n]
  BY <1>1 DEF SubmitAcked, Remember, RInv, IInv, TypeOK, Transition
<1>5. Awaited(m)' = i /\ Cur(m)' = Cur(m)
  BY <1>2, <1>4 DEF Awaited, Cur, Plan
<1>6. UNCHANGED <<pos, slot, guard, state>>
  BY DEF SubmitAcked
<1>7. InFlight(m)'
  BY <1>2, <1>4, TransitionIsOne, <1>1
     DEF SubmitAcked, Remember, RInv, IInv, TypeOK, Transition, InFlight
<1>8. OneLegHeld'
  BY <1>1, <1>6, VNextAssumption DEF RInv, OneLegHeld
<1>9. ASSUME NEW n \in Machine, n # m, pc'[n] = pc[n]
      PROVE  Outside(n)' /\ Inside(n)' /\ Unordered(n)'
  BY <1>4, <1>6, <1>9, Others
<1>10. ASSUME pc'[m] \in {"status", "fail"}
       PROVE  Outside(m)' /\ Inside(m)' /\ Unordered(m)'
  BY <1>1, <1>2, <1>4, <1>5, <1>6, <1>10 DEF RInv, Outside, Inside, Unordered, Ordered
<1>11. CASE orders' = [orders EXCEPT ![i] = Done("REFUSED")] /\ Goto(m, "fail")
  <2>1. orders'[i] = Done("REFUSED") /\ \A j \in OrderId : j # i => orders'[j] = orders[j]
    BY <1>2, <1>11 DEF RInv, IInv, TypeOK
  <2>2. Finished' /\ \A j \in OrderId : ~Live(j)'
    BY <1>3, <2>1 DEF RInv, Finished, Live, Done
  <2>3. pc'[m] = "fail" /\ \A n \in Machine : n # m => pc'[n] = pc[n]
    BY <1>11 DEF Goto, RInv, IInv, TypeOK
  <2> QED BY <1>8, <1>9, <1>10, <2>2, <2>3 DEF RInv
<1>12. CASE Accept(m, i) /\ Goto(m, "status")
  <2>1. /\ orders'[i].ct = slot.ct /\ orders'[i].posted = 0
        /\ orders'[i].qty = tr[m].qty /\ orders'[i].status = "WORKING"
        /\ orders'[i].side = IF Cur(m).action = "OPEN" THEN "BUY" ELSE "SELL"
        /\ \A j \in OrderId : j # i => orders'[j] = orders[j]
    BY <1>1, <1>2, <1>12 DEF Accept, RInv, IInv, TypeOK
  <2>2. pc'[m] = "status" /\ \A n \in Machine : n # m => pc'[n] = pc[n]
    BY <1>12 DEF Goto, RInv, IInv, TypeOK
  <2>3. tr[m].qty \in Nat /\ MaxPos \in Nat
    BY <1>1, VNextAssumption DEF Transition
  <2>4. Finished'
    BY <2>1, <2>3 DEF RInv, Finished
  <2>5. ASSUME NEW j \in OrderId, Live(j)' PROVE Claimed(j)'
    <3>1. j = i
      BY <1>3, <2>1, <2>5 DEF Live
    <3>2. orders'[i].side = "SELL" => orders'[i].qty - orders'[i].posted <= pos[slot.ct]
      <4>1. Cur(m).action = "CLOSE" => tr[m].qty = pos[slot.ct]
        BY <1>1 DEF RInv, Inside
      <4> QED BY <1>1, <2>1, <2>3, <4>1 DEF Steps
    <3> QED BY <1>1, <1>5, <1>6, <1>7, <2>1, <2>2, <3>1, <3>2 DEF Claimed
  <2> QED BY <1>8, <1>9, <1>10, <2>2, <2>4, <2>5 DEF RInv
<1> QED BY <1>11, <1>12 DEF SubmitAcked

LEMMA SubmitR ==
    ASSUME RInv, NEW m \in Machine, Submit(m), IInv', Faults \subseteq {"submit", "unmapped"}
    PROVE  RInv'
<1>1. CASE \E i \in FreshIds : SubmitAcked(m, i)
  BY <1>1, SubmitAckedR DEF Submit
<1>2. CASE Escape(m, "ERROR")
  BY <1>2, EscapeR DEF Submit
<1> QED BY <1>1, <1>2, Answers DEF Submit, SubmitLostAck
-----------------------------------------------------------------------------
LEMMA InitR == Init => RInv
<1> SUFFICES ASSUME Init PROVE RInv
  OBVIOUS
<1>1. IInv
  BY InitInv
<1>2. Finished /\ \A i \in OrderId : ~Live(i)
  BY DEF Init, Finished, Live, Done
<1>3. OneLegHeld
  BY VNextAssumption DEF Init, OneLegHeld, Contracts
<1>4. \A m \in Machine : Outside(m) /\ Inside(m) /\ Unordered(m)
  BY VNextAssumption DEF Init, NoSlot, Outside, Inside, Unordered, InFlight
<1> QED BY <1>1, <1>2, <1>3, <1>4 DEF RInv

LEMMA StepR ==
    ASSUME Faults \subseteq {"submit", "unmapped"}
    PROVE  RInv /\ [Next]_vars => RInv'
<1> SUFFICES ASSUME RInv, [Next]_vars PROVE RInv'
  OBVIOUS
<1>1. IInv'
  BY StepInv DEF RInv
<1>2. CASE Venue
  BY <1>1, <1>2, PostR, SettleR DEF Venue
<1>3. ASSUME NEW m \in Machine, Construct(m) \/ Work(m) PROVE RInv'
  <2>1. ~Release(m)
    BY Holder DEF Release
  <2> QED BY <1>1, <1>3, <2>1, ConstructR, SizeR, ClaimR, PrecheckR, SubmitR, StatusR,
             ConfirmR, FailR, AbortR DEF Work
<1>4. ASSUME NEW m \in Machine, NEW d \in Signals, OnSignal(m, d) \/ Poll(m, d) PROVE RInv'
  BY <1>1, <1>4, OnSignalR, PollR
<1>5. CASE UNCHANGED vars
  <2>1. Finished' /\ OneLegHeld' /\ \A i \in OrderId : Live(i)' => Claimed(i)'
    BY <1>5 DEF vars, RInv, Finished, OneLegHeld, Live, Claimed, InFlight, Awaited
  <2>2. \A n \in Machine : Outside(n)' /\ Inside(n)' /\ Unordered(n)'
    BY <1>5 DEF vars, RInv, Outside, Inside, Unordered, Ordered, InFlight, Awaited, Flat, Cur, Plan
  <2> QED BY <1>1, <2>1, <2>2 DEF RInv
<1> QED BY <1>2, <1>3, <1>4, <1>5, Answers DEF Next, Crash, Rebuild

LEMMA Reliable == ASSUME Faults \subseteq {"submit", "unmapped"} PROVE Spec => []RInv
  BY InitR, StepR, PTL DEF Spec

\* What each step does to the slot and to the account.
LEMMA SlotStep ==
    ASSUME RInv, RInv', [Next]_vars, Faults \subseteq {"submit", "unmapped"}
    PROVE  \/ UNCHANGED <<slot.holder, pos>>
           \/ /\ \E ct \in Contracts, d \in {-1, 1} : pos' = [pos EXCEPT ![ct] = @ + d]
              /\ slot.holder # NoOne /\ slot'.holder = slot.holder
           \/ Flat /\ slot.holder # NoOne /\ slot'.holder = NoOne /\ pos' = pos
           \/ slot.holder = NoOne /\ slot'.holder \in Machine /\ pos' = pos
<1> DEFINE r == ReconcileToState(pos)
<1>1. r \in Positions /\ (r = "FLAT" => Flat) /\ Readings = {r}
  BY Reading, Answers DEF RInv, IInv
<1>2. r \notin {"ERROR", "RAISED"}
  BY <1>1 DEF Positions
<1> HIDE DEF r
<1>3. ASSUME NEW m \in Machine, RecordClose(m), Flat, pos' = pos
      PROVE  UNCHANGED <<slot.holder, pos>> \/
             (Flat /\ slot.holder # NoOne /\ slot'.holder = NoOne /\ pos' = pos)
  <2>1. guard[m] # NoOne => slot.holder = m
    BY DEF RInv, IInv, ReservationHeld
  <2> QED BY <1>3, <2>1, VNextAssumption DEF RecordClose, NoSlot
<1>4. ASSUME NEW m \in Machine, NEW ct, CanHold(m), RecordOpen(m, ct), pos' = pos
      PROVE  \/ UNCHANGED <<slot.holder, pos>>
             \/ slot.holder = NoOne /\ slot'.holder \in Machine /\ pos' = pos
  BY <1>4 DEF CanHold, RecordOpen
<1>5. ASSUME NEW i \in OrderId, Post(i) \/ Settle(i)
      PROVE  \/ UNCHANGED <<slot.holder, pos>>
             \/ /\ \E ct \in Contracts, d \in {-1, 1} : pos' = [pos EXCEPT ![ct] = @ + d]
                /\ slot.holder # NoOne /\ slot'.holder = slot.holder
  <2>1. CASE Settle(i)
    BY <2>1 DEF Settle
  <2>2. CASE Post(i)
    <3>1. orders[i] \in Order /\ orders[i].posted < orders[i].qty
      BY <2>2 DEF Post, RInv, IInv, TypeOK
    <3>2. slot.holder # NoOne
      BY <3>1, VNextAssumption DEF Live, RInv, Claimed
    <3>3. \E d \in {-1, 1} : pos' = [pos EXCEPT ![orders[i].ct] = @ + d]
      BY <2>2 DEF Post
    <3> QED BY <2>2, <3>1, <3>2, <3>3 DEF Post, Order
  <2> QED BY <1>5, <2>1, <2>2
<1>6. ASSUME NEW m \in Machine, Construct(m)
      PROVE  \/ UNCHANGED <<slot.holder, pos>>
             \/ slot.holder = NoOne /\ slot'.holder \in Machine /\ pos' = pos
  BY <1>4, <1>6 DEF Construct, book
<1>7. ASSUME NEW m \in Machine, NEW d \in Signals, OnSignal(m, d) \/ Poll(m, d)
      PROVE  UNCHANGED <<slot.holder, pos>>
  BY <1>7 DEF OnSignal, Poll, book
<1>8. ASSUME NEW m \in Machine, Size(m) \/ Precheck(m) \/ Submit(m) \/ Status(m)
      PROVE  UNCHANGED <<slot.holder, pos>>
  BY <1>8 DEF Size, ResolveFails, Precheck, Submit, SubmitAcked, SubmitLostAck, Status,
              Escape, book
<1>9. ASSUME NEW m \in Machine, Claim(m)
      PROVE  \/ UNCHANGED <<slot.holder, pos>>
             \/ slot.holder = NoOne /\ slot'.holder \in Machine /\ pos' = pos
  BY <1>4, <1>9 DEF Claim, ResolveFails, Escape, book
<1>10. ASSUME NEW m \in Machine, Confirm(m) \/ Fail(m) \/ Abort(m) \/ Release(m)
       PROVE  UNCHANGED <<slot.holder, pos>> \/
              (Flat /\ slot.holder # NoOne /\ slot'.holder = NoOne /\ pos' = pos)
  <2>1. UNCHANGED slot \/ (r = "FLAT" /\ RecordClose(m))
    BY <1>1, <1>2, <1>10 DEF Confirm, ConfirmClose, ConfirmOpen, Fail, Abort, Release
  <2>2. pos' = pos
    BY <1>10 DEF Confirm, Fail, Abort, Release, Escape, book
  <2> QED BY <1>1, <1>3, <2>1, <2>2
<1>11. CASE UNCHANGED vars
  BY <1>11 DEF vars
<1>12. CASE Venue
  BY <1>5, <1>12 DEF Venue
<1>13. CASE \E m \in Machine : Construct(m) \/ Work(m)
  BY <1>6, <1>8, <1>9, <1>10, <1>13 DEF Work
<1>14. CASE \E m \in Machine : \E d \in Signals : OnSignal(m, d) \/ Poll(m, d)
  BY <1>7, <1>14
<1> QED BY <1>11, <1>12, <1>13, <1>14, Answers DEF Next, Crash, Rebuild

\* The account between two steps is one the abstract slot allows.
LEMMA SlotLeg == RInv => Slot!OneLeg(pos) /\ (Flat => Slot!Flat(pos))
  BY DEF RInv, OneLegHeld, Slot!OneLeg, Slot!Flat, Slot!Contracts, Contracts, Flat

-----------------------------------------------------------------------------
(* Theorems, as long as the broker's answers are those of the venue. *)

\* Sell orders at the venue never add up to more than the account holds.
THEOREM NoOversell == Faults \subseteq {"submit", "unmapped"} => (Spec => []NeverOversold)
<1> SUFFICES ASSUME Faults \subseteq {"submit", "unmapped"} PROVE Spec => []NeverOversold
  OBVIOUS
<1>1. RInv => NeverOversold
  <2> SUFFICES ASSUME RInv, NEW ct \in Contracts
               PROVE  /\ pos[ct] >= 0
                      /\ \A i, j \in LiveOrder("SELL", ct) : i = j
                      /\ \A i \in LiveOrder("SELL", ct) : Remaining(i) <= pos[ct]
    BY DEF NeverOversold
  <2>1. pos[ct] >= 0
    BY DEF RInv, OneLegHeld
  <2>2. \A i \in LiveOrder("SELL", ct) : i = Awaited(slot.holder) /\ Remaining(i) <= pos[ct]
    BY DEF LiveOrder, RInv, Claimed, Remaining
  <2> QED BY <2>1, <2>2
<1> QED BY <1>1, Reliable, PTL

\* Every position and every live order is under the reservation of its leg.
THEOREM Covering == Faults \subseteq {"submit", "unmapped"} => (Spec => []SlotCoversAccount)
<1> SUFFICES ASSUME Faults \subseteq {"submit", "unmapped"} PROVE Spec => []SlotCoversAccount
  OBVIOUS
<1>1. RInv => SlotCoversAccount
  <2> SUFFICES ASSUME RInv, \E m \in Machine : pc[m] # "off", NEW ct \in Contracts, Exposed(ct)
               PROVE  slot.holder # NoOne /\ slot.ct = ct
    BY DEF SlotCoversAccount
  <2>1. CASE pos[ct] # 0
    BY <2>1 DEF RInv, OneLegHeld
  <2>2. CASE LiveOrder("BUY", ct) # {}
    BY <2>2, VNextAssumption DEF LiveOrder, RInv, Claimed
  <2> QED BY <2>1, <2>2 DEF Exposed
<1> QED BY <1>1, Reliable, PTL

\* Between transitions every run believes what the account says of it.
THEOREM Belief == Faults \subseteq {"submit", "unmapped"} => (Spec => []BeliefMatchesAccount)
<1> SUFFICES ASSUME Faults \subseteq {"submit", "unmapped"} PROVE Spec => []BeliefMatchesAccount
  OBVIOUS
<1>1. RInv => BeliefMatchesAccount
  BY DEF RInv, Outside, Inside, BeliefMatchesAccount
<1> QED BY <1>1, Reliable, PTL

\* The account under its reservations is the abstract single slot: runs take
\* and give it back whole, flat, and one leg at a time trades in between.
THEOREM Refinement == Faults \subseteq {"submit", "unmapped"} => (Spec => SlotSpec)
<1> SUFFICES ASSUME Faults \subseteq {"submit", "unmapped"} PROVE Spec => SlotSpec
  OBVIOUS
<1>1. Init => Slot!Init
  <2> SUFFICES ASSUME Init PROVE Slot!Init
    OBVIOUS
  <2>1. slot.holder = NoOne
    BY DEF Init, NoSlot
  <2>2. pos \in [Slot!Contracts -> 0..Lot]
    BY VNextAssumption DEF Init, Contracts, Slot!Contracts
  <2>3. Slot!OneLeg(pos)
    BY InitR, SlotLeg
  <2> QED BY <2>1, <2>2, <2>3 DEF Slot!Init
<1>2. ASSUME RInv, RInv', [Next]_vars PROVE [Slot!Next]_(Slot!vars)
  <2>1. Slot!OneLeg(pos) /\ (Flat => Slot!Flat(pos)) /\ Slot!OneLeg(pos')
    <3>1. Slot!OneLeg(pos')
      BY <1>2 DEF RInv, OneLegHeld, Slot!OneLeg, Slot!Contracts, Contracts
    <3> QED BY <1>2, <3>1, SlotLeg
  <2>2. CASE UNCHANGED <<slot.holder, pos>>
    BY <2>2 DEF Slot!vars
  <2>3. CASE /\ \E ct \in Contracts, d \in {-1, 1} : pos' = [pos EXCEPT ![ct] = @ + d]
             /\ slot.holder # NoOne /\ slot'.holder = slot.holder
    BY <2>1, <2>3 DEF Slot!Next, Slot!Trade, Slot!Contracts, Contracts
  <2>4. CASE Flat /\ slot.holder # NoOne /\ slot'.holder = NoOne /\ pos' = pos
    BY <2>1, <2>4 DEF Slot!Next, Slot!Give
  <2>5. CASE slot.holder = NoOne /\ slot'.holder \in Machine /\ pos' = pos
    BY <2>5 DEF Slot!Next, Slot!Take
  <2> QED BY <1>2, <2>2, <2>3, <2>4, <2>5, SlotStep
<1> QED BY <1>1, <1>2, Reliable, PTL DEF Spec, SlotSpec, Slot!Spec
=============================================================================
