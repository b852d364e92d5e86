---------------------------- MODULE VNextMachine ----------------------------
(***************************************************************************)
(* The vNext option execution machines of one process (execution/vnext/):  *)
(* every run owns a VNextOptionExecutionMachine, all runs share one        *)
(* SlotRegistry, and all of them trade one broker account.  on_signal is   *)
(* cut at its broker calls, because orders progress at the venue, and      *)
(* other runs run, between any two of them.                                *)
(***************************************************************************)
EXTENDS Integers, Sequences, FiniteSets

CONSTANTS
    Machine,    \* the runs (holder ids) of the process
    OrderId,    \* orders the venue or a machine can still refer to (a bound)
    Lot,        \* quantity of an opening order: _quantity or the lot size
    MaxPos,     \* bound on the absolute account quantity of a leg
    Faults,     \* which failures of FaultKinds this instance admits
    NoOne, NoOrder

FaultKinds == {"resolve",   \* the resolver raises, mismatches, or is expired
               "submit",    \* submit_order raises, the venue never saw it
               "lostack",   \* submit_order raises after the venue accepted
               "status",    \* get_order_status raises a VNextError
               "reconcile", \* reconcile raises, or reports a bad quantity
               "unknown",   \* a broker call raises something else
               "lag",       \* FILLED is reported before the position shows it
               "unmapped",  \* a final status the adapter reads as still working
               "rebuild",   \* a run's machine is rebuilt inside the process
               "crash"}     \* the process dies and starts again

ASSUME VNextAssumption ==
    /\ Lot \in Nat \ {0}
    /\ MaxPos \in Nat /\ Lot <= MaxPos
    /\ Faults \subseteq FaultKinds
    /\ NoOne \notin Machine \cup {"CE", "PE"}
    /\ NoOrder \notin OrderId

Signals   == {"LONG", "SHORT", "FLAT"}
Contracts == {"CE", "PE"}
Positions == {"FLAT", "LONG_CALL", "LONG_PUT"}

\* SUBMITTED, PENDING and PARTIALLY_FILLED are WORKING; REJECTED, CANCELLED
\* and UNFILLED, which differ only in the reason reported, are REFUSED.  An
\* UNMAPPED order is final too, but _map_order_status reads it as one of the
\* first three: a token it does not know is SUBMITTED, and a "completed" order
\* that filled short is PARTIALLY_FILLED.
Statuses == {"WORKING", "FILLED", "REFUSED", "UNMAPPED"}

Held(p)   == IF p = "LONG_CALL" THEN "CE" ELSE "PE"
Other(ct) == IF ct = "CE" THEN "PE" ELSE "CE"

\* plan_orders: the ordered steps for a position and a signal; a reversal
\* sells the held leg before it buys the opposite one.
Target(d) == IF d = "LONG" THEN "LONG_CALL"
             ELSE IF d = "SHORT" THEN "LONG_PUT" ELSE "FLAT"

Step(action, p) == [action |-> action, ct |-> Held(p)]

PlanOrders(p, d) ==
    IF Target(d) = p THEN <<>>
    ELSE IF p = "FLAT" THEN <<Step("OPEN", Target(d))>>
    ELSE IF d = "FLAT" THEN <<Step("CLOSE", p)>>
    ELSE <<Step("CLOSE", p), Step("OPEN", Target(d))>>

\* reconcile_to_state: "UNSAFE" stands for a decision with a safety_stop, for
\* a short leg or for both legs held.
ReconcileToState(q) ==
    IF \/ \E ct \in Contracts : q[ct] < 0
       \/ \A ct \in Contracts : q[ct] > 0
    THEN "UNSAFE"
    ELSE IF q["CE"] > 0 THEN "LONG_CALL"
    ELSE IF q["PE"] > 0 THEN "LONG_PUT"
    ELSE "FLAT"

VARIABLES
    pos,      \* the account: signed quantity of each leg at the venue
    orders,   \* the orders the venue accepted
    slot,     \* SlotRegistry: the holder and the leg it holds
    guard,    \* per run: SingleSlotGuard._expected_contract_type
    pc,       \* per run: where on_signal stands ("idle" between calls)
    state,    \* per run: _state
    tr        \* per run: _transition, or NoTransition

vars == <<pos, orders, slot, guard, pc, state, tr>>
book == <<pos, orders>>

NoSlot       == [holder |-> NoOne, ct |-> NoOne]
NoTransition == [signal |-> NoOne]

Transition == [signal : Signals, before : Positions, step : 1..2,
               qty : 0..MaxPos,
               closeId : OrderId \cup {NoOrder}, openId : OrderId \cup {NoOrder}]
Order == [side : {"BUY", "SELL"}, ct : Contracts, qty : 1..MaxPos,
          posted : 0..MaxPos, status : Statuses]

\* An order nothing more can happen to; its particulars no longer matter.
Done(st) == [side |-> "BUY", ct |-> "CE", qty |-> 1, posted |-> 1, status |-> st]

Places == {"off", "idle", "size", "claim", "precheck", "submit",
           "status", "confirm", "fail", "abort", "release"}

TypeOK ==
    /\ pos \in [Contracts -> -MaxPos..MaxPos]
    /\ orders \in [OrderId -> Order]
    /\ slot \in [holder : Machine, ct : Contracts] \cup {NoSlot}
    /\ guard \in [Machine -> Contracts \cup {NoOne}]
    /\ pc \in [Machine -> Places]
    /\ state \in [Machine -> Positions]
    /\ tr \in [Machine -> Transition \cup {NoTransition}]

InFlight(m) == tr[m] # NoTransition
Plan(m)     == PlanOrders(tr[m].before, tr[m].signal)
Cur(m)      == Plan(m)[tr[m].step]

\* The order a call asks about: the close of a transition before its open.
Awaited(m) == IF tr[m].closeId # NoOrder THEN tr[m].closeId ELSE tr[m].openId

\* Orders that can still move the account, and ids a new order may take.
Live(i)  == orders[i].status = "WORKING" \/ orders[i].posted < orders[i].qty
Known(i) == \E m \in Machine : InFlight(m) /\ i \in {tr[m].closeId, tr[m].openId}
FreshIds == {i \in OrderId : ~Live(i) /\ ~Known(i)}

-----------------------------------------------------------------------------
(* The venue. *)

\* One unit of an accepted order trades.
Post(i) ==
    LET o == orders[i]
        q == pos[o.ct] + (IF o.side = "BUY" THEN 1 ELSE -1)
    IN /\ o.posted < o.qty
       /\ q \in -MaxPos..MaxPos                       \* bound MaxPos
       /\ pos' = [pos EXCEPT ![o.ct] = q]
       /\ orders' = [orders EXCEPT ![i] =
              IF o.status = "FILLED" /\ o.posted + 1 = o.qty
              THEN Done("FILLED") ELSE [o EXCEPT !.posted = @ + 1]]
       /\ UNCHANGED <<slot, guard, pc, state, tr>>

\* What the adapter may say of an order that will not trade any more.
Finals(o) == {IF o.posted = o.qty THEN "FILLED" ELSE "REFUSED"}
             \cup (IF "unmapped" \in Faults THEN {"UNMAPPED"} ELSE {})

\* A working order reaches its final status; it may be refused after a
\* partial fill, FILLED may run ahead of the position, and the status may be
\* one the adapter has no name for, whatever has traded.
Settle(i) ==
    /\ orders[i].status = "WORKING"
    /\ \/ \E st \in Finals(orders[i]) : orders' = [orders EXCEPT ![i] = Done(st)]
       \/ /\ "lag" \in Faults /\ orders[i].posted < orders[i].qty
          /\ orders' = [orders EXCEPT ![i].status = "FILLED"]
    /\ UNCHANGED <<pos, slot, guard, pc, state, tr>>

Venue == \E i \in OrderId : Post(i) \/ Settle(i)

\* What a broker.reconcile() of this step may give its caller.
Readings == {ReconcileToState(pos)}
            \cup (IF "reconcile" \in Faults THEN {"UNSAFE", "ERROR"} ELSE {})
            \cup (IF "unknown" \in Faults THEN {"RAISED"} ELSE {})

-----------------------------------------------------------------------------
(* The slot registry and the guards. *)

CanHold(m) == slot.holder \in {NoOne, m}

RecordOpen(m, ct) ==
    /\ slot' = [holder |-> m, ct |-> ct]
    /\ guard' = [guard EXCEPT ![m] = ct]

RecordClose(m) ==
    IF guard[m] = NoOne
    THEN UNCHANGED <<slot, guard>>
    ELSE /\ slot' = NoSlot
         /\ guard' = [guard EXCEPT ![m] = NoOne]

-----------------------------------------------------------------------------
(* The machine. *)

Goto(m, l) == pc' = [pc EXCEPT ![m] = l]

\* on_signal ends with the transition dropped and state s.
EndTransition(m, s) ==
    /\ Goto(m, "idle")
    /\ tr' = [tr EXCEPT ![m] = NoTransition]
    /\ state' = [state EXCEPT ![m] = s]

\* A raised call leaves through the except clauses of _run_transition.
Escape(m, how) ==
    /\ Goto(m, IF how = "ERROR" THEN "abort" ELSE "release")
    /\ UNCHANGED <<book, slot, guard, state, tr>>

\* The raising outcomes of a broker call that can fail with fault f.
Raises(f) == (IF f \in Faults THEN {"ERROR"} ELSE {})
             \cup (IF "unknown" \in Faults THEN {"RAISED"} ELSE {})

\* mutant: the restarted machine adopts the position but not the slot
ConstructUnreserved(m) ==
    /\ pc[m] = "off"
    /\ \E r \in Readings \cap Positions : state' = [state EXCEPT ![m] = r]
    /\ Goto(m, "idle")
    /\ UNCHANGED <<book, slot, guard, tr>>

\* __init__ and _adopt_broker_position; an unsafe snapshot, or a slot held by
\* another run, raises out of the constructor and leaves no machine.
Construct(m) ==
    /\ pc[m] = "off"
    /\ \E r \in Readings \cap Positions :
        /\ state' = [state EXCEPT ![m] = r]
        /\ IF r = "FLAT"
           THEN UNCHANGED <<slot, guard>>
           ELSE CanHold(m) /\ RecordOpen(m, Held(r))
    /\ Goto(m, "idle")
    /\ UNCHANGED <<book, tr>>

\* Where the current step of a plan starts: _submit_step up to its first read.
FirstCall(plan, k) == IF plan[k].action = "CLOSE" THEN "size" ELSE "claim"

\* on_signal with no transition in flight; an empty plan is HELD.
OnSignal(m, d) ==
    /\ pc[m] = "idle" /\ ~InFlight(m)
    /\ IF PlanOrders(state[m], d) = <<>>
       THEN UNCHANGED <<pc, tr>>
       ELSE /\ tr' = [tr EXCEPT ![m] =
                [signal |-> d, before |-> state[m], step |-> 1, qty |-> 0,
                 closeId |-> NoOrder, openId |-> NoOrder]]
            /\ Goto(m, FirstCall(PlanOrders(state[m], d), 1))
    /\ UNCHANGED <<book, slot, guard, state>>

\* mutant: a poll submits the current step again
PollResubmits(m, d) ==
    /\ pc[m] = "idle" /\ InFlight(m)
    /\ IF d = tr[m].signal THEN Goto(m, FirstCall(Plan(m), tr[m].step)) ELSE UNCHANGED pc
    /\ UNCHANGED <<book, slot, guard, state, tr>>

\* on_signal in flight: the same signal polls the order it waits for, another
\* one is refused and changes nothing.
Poll(m, d) ==
    /\ pc[m] = "idle" /\ InFlight(m)
    /\ IF d = tr[m].signal THEN Goto(m, "status") ELSE UNCHANGED pc
    /\ UNCHANGED <<book, slot, guard, state, tr>>

\* The resolver raises, or resolves to another or an expired contract.
ResolveFails(m) == "resolve" \in Faults /\ Escape(m, "ERROR")

\* A CLOSE is resolved and sized by what the broker reports for the leg.
Size(m) ==
    /\ pc[m] = "size"
    /\ \/ ResolveFails(m)
       \/ \E r \in Readings :
             IF r \in Positions /\ pos[Cur(m).ct] > 0
             THEN /\ tr' = [tr EXCEPT ![m].qty = pos[Cur(m).ct]]
                  /\ Goto(m, "submit")
                  /\ UNCHANGED <<book, slot, guard, state>>
             ELSE Escape(m, IF r = "RAISED" THEN r ELSE "ERROR")

\* mutant: the guard is asked but the open is not recorded
ClaimUnrecorded(m) ==
    /\ pc[m] = "claim"
    /\ \/ ResolveFails(m)
       \/ /\ CanHold(m)
          /\ tr' = [tr EXCEPT ![m].qty = Lot]
          /\ Goto(m, "precheck")
          /\ UNCHANGED <<book, state, slot, guard>>
       \/ /\ ~CanHold(m)
          /\ EndTransition(m, state[m])
          /\ UNCHANGED <<book, slot, guard>>

\* An OPEN is resolved, then guard.check_can_open and guard.record_open; a
\* slot of another run raises, and the transition is discarded.
Claim(m) ==
    /\ pc[m] = "claim"
    /\ \/ ResolveFails(m)
       \/ /\ CanHold(m)
          /\ RecordOpen(m, Cur(m).ct)
          /\ tr' = [tr EXCEPT ![m].qty = Lot]
          /\ Goto(m, "precheck")
          /\ UNCHANGED <<book, state>>
       \/ /\ ~CanHold(m)
          /\ EndTransition(m, state[m])
          /\ UNCHANGED <<book, slot, guard>>

\* The pre-entry reconciliation: a BUY is only placed from a confirmed FLAT.
Precheck(m) ==
    /\ pc[m] = "precheck"
    /\ \E r \in Readings :
        IF r = "FLAT"
        THEN Goto(m, "submit") /\ UNCHANGED <<book, slot, guard, state, tr>>
        ELSE Escape(m, IF r = "RAISED" THEN r ELSE "ERROR")

\* The venue takes the order of the current step under id i.
Accept(m, i) ==
    orders' = [orders EXCEPT ![i] =
        [side |-> IF Cur(m).action = "OPEN" THEN "BUY" ELSE "SELL",
         ct |-> Cur(m).ct, qty |-> tr[m].qty, posted |-> 0, status |-> "WORKING"]]

Remember(m, i) ==
    tr' = IF Cur(m).action = "OPEN" THEN [tr EXCEPT ![m].openId = i]
                                    ELSE [tr EXCEPT ![m].closeId = i]

\* The venue takes the order, or refuses it at once.
SubmitAcked(m, i) ==
    /\ \/ Accept(m, i) /\ Goto(m, "status")
       \/ orders' = [orders EXCEPT ![i] = Done("REFUSED")] /\ Goto(m, "fail")
    /\ Remember(m, i)
    /\ UNCHANGED <<pos, slot, guard, state>>

\* The call raises although the venue took the order: its id is lost.
SubmitLostAck(m, i) ==
    /\ "lostack" \in Faults
    /\ Accept(m, i)
    /\ \E how \in Raises("lostack") :
          Goto(m, IF how = "ERROR" THEN "abort" ELSE "release")
    /\ UNCHANGED <<pos, slot, guard, state, tr>>

Submit(m) ==
    /\ pc[m] = "submit"
    /\ \/ \E i \in FreshIds : SubmitAcked(m, i) \/ SubmitLostAck(m, i)  \* bound OrderId
       \/ \E how \in Raises("submit") : Escape(m, how)

\* mutant: a refused order is taken for one still working
StatusForgetsRefused(m) ==
    /\ pc[m] = "status"
    /\ \/ /\ Goto(m, IF orders[Awaited(m)].status = "FILLED" THEN "confirm" ELSE "idle")
          /\ UNCHANGED <<book, slot, guard, state, tr>>
       \/ \E how \in Raises("status") : Escape(m, how)

\* Where an answer of get_order_status leads: an order read as working ends
\* the call with the transition kept (STOPPED); of the refused ones the
\* adapter raises for a REJECTED and returns the others.
After(st) == IF st = "FILLED" THEN {"confirm"}
             ELSE IF st = "REFUSED" THEN {"fail", "abort"} ELSE {"idle"}

\* _verify_close / _verify_open: get_order_status of the order in flight.
Status(m) ==
    /\ pc[m] = "status"
    /\ \/ /\ \E l \in After(orders[Awaited(m)].status) : Goto(m, l)
          /\ UNCHANGED <<book, slot, guard, state, tr>>
       \/ \E how \in Raises("status") : Escape(m, how)

\* mutants: the safety stop of a reading is not looked at; a stop keeps the
\* machine's own belief
AdoptedUnchecked(m, r) == IF m \in Machine THEN r ELSE state[m]
AdoptedNever(m, r)     == IF r = "FLAT" THEN r ELSE state[m]

\* The position an ended transition leaves: the broker's, when it is readable.
Adopted(m, r) == IF r \in Positions THEN r ELSE state[m]

\* The reconciliation after a FILLED close: final close, reversal, or a stop.
\* A reversal carries its reservation to the opposite leg.
ConfirmClose(m, r) ==
    /\ tr[m].closeId # NoOrder
    /\ IF r = "FLAT" /\ tr[m].step < Len(Plan(m))
       THEN /\ tr' = [tr EXCEPT ![m].closeId = NoOrder, ![m].step = @ + 1]
            /\ state' = [state EXCEPT ![m] = "FLAT"]
            /\ Goto(m, FirstCall(Plan(m), tr[m].step + 1))
            /\ UNCHANGED <<slot, guard>>
       ELSE /\ EndTransition(m, Adopted(m, r))
            /\ IF r = "FLAT" THEN RecordClose(m) ELSE UNCHANGED <<slot, guard>>

\* The reconciliation after a FILLED open: COMPLETED if it shows the leg, a
\* stop otherwise; the reservation is kept either way.
ConfirmOpen(m, r) ==
    /\ tr[m].closeId = NoOrder
    /\ EndTransition(m, Adopted(m, r))
    /\ UNCHANGED <<slot, guard>>

Confirm(m) ==
    /\ pc[m] = "confirm"
    /\ \E r \in Readings :
        IF r \in {"ERROR", "RAISED"} THEN Escape(m, r)
        ELSE (ConfirmClose(m, r) \/ ConfirmOpen(m, r)) /\ UNCHANGED book

\* mutant: a failed order frees the slot whatever the account holds
FailAlwaysReleases(m) ==
    /\ pc[m] = "fail"
    /\ \E r \in Readings :
        IF r \in {"ERROR", "RAISED"} THEN Escape(m, r)
        ELSE /\ RecordClose(m)
             /\ EndTransition(m, Adopted(m, r))
             /\ UNCHANGED book

\* _fail_exit and _fail_entry: only a confirmed FLAT frees the slot.
Fail(m) ==
    /\ pc[m] = "fail"
    /\ \E r \in Readings :
        IF r \in {"ERROR", "RAISED"} THEN Escape(m, r)
        ELSE /\ IF r = "FLAT" THEN RecordClose(m) ELSE UNCHANGED <<slot, guard>>
             /\ EndTransition(m, Adopted(m, r))
             /\ UNCHANGED book

\* _safety_abort: mirror the broker when it can be read.
Abort(m) ==
    /\ pc[m] = "abort"
    /\ \E r \in Readings :
        /\ EndTransition(m, Adopted(m, r))
        /\ IF r = "FLAT" THEN RecordClose(m) ELSE UNCHANGED <<slot, guard>>
    /\ UNCHANGED book

\* mutant: an unknown exception frees the slot without asking the broker
ReleaseBlindly(m) ==
    /\ pc[m] = "release"
    /\ RecordClose(m)
    /\ EndTransition(m, state[m])
    /\ UNCHANGED book

\* The last except clause: _release_if_flat, drop the transition, re-raise.
Release(m) ==
    /\ pc[m] = "release"
    /\ \E r \in Readings :
        IF r = "FLAT" THEN RecordClose(m) ELSE UNCHANGED <<slot, guard>>
    /\ EndTransition(m, state[m])
    /\ UNCHANGED book

\* The rest of a call that on_signal started: it runs to its return.
Work(m) == \/ Size(m) \/ Claim(m) \/ Precheck(m) \/ Submit(m)
           \/ Status(m) \/ Confirm(m) \/ Fail(m) \/ Abort(m) \/ Release(m)

-----------------------------------------------------------------------------
(* Restarts: orders at the venue outlive every machine. *)

Forget(S) ==
    /\ pc' = [m \in Machine |-> IF m \in S THEN "off" ELSE pc[m]]
    /\ state' = [m \in Machine |-> IF m \in S THEN "FLAT" ELSE state[m]]
    /\ tr' = [m \in Machine |-> IF m \in S THEN NoTransition ELSE tr[m]]
    /\ guard' = [m \in Machine |-> IF m \in S THEN NoOne ELSE guard[m]]
    /\ UNCHANGED book

\* A run drops its machine between calls; its reservation stays registered.
Rebuild(m) == /\ "rebuild" \in Faults
              /\ pc[m] = "idle"
              /\ Forget({m})
              /\ UNCHANGED slot

\* The process dies at any point; the in-memory registry dies with it.
Crash == /\ "crash" \in Faults
         /\ \E m \in Machine : pc[m] # "off"
         /\ Forget(Machine)
         /\ slot' = NoSlot

-----------------------------------------------------------------------------
Init ==
    /\ pos \in {[ct \in Contracts |-> 0],
                [ct \in Contracts |-> IF ct = "CE" THEN Lot ELSE 0],
                [ct \in Contracts |-> IF ct = "PE" THEN Lot ELSE 0]}
    /\ orders = [i \in OrderId |-> Done("REFUSED")]
    /\ slot = NoSlot
    /\ guard = [m \in Machine |-> NoOne]
    /\ pc = [m \in Machine |-> "off"]
    /\ state = [m \in Machine |-> "FLAT"]
    /\ tr = [m \in Machine |-> NoTransition]

Next ==
    \/ Venue
    \/ Crash
    \/ \E m \in Machine :
        \/ Construct(m) \/ Rebuild(m) \/ Work(m)
        \/ \E d \in Signals : OnSignal(m, d) \/ Poll(m, d)

Spec == Init /\ [][Next]_vars

\* A call that started returns, the venue eventually finishes an order, and
\* the caller keeps polling the signal it has in flight.
Fairness ==
    /\ \A m \in Machine : WF_vars(Work(m)) /\ WF_vars(InFlight(m) /\ Poll(m, tr[m].signal))
    /\ \A i \in OrderId : WF_vars(Settle(i))

FairSpec == Spec /\ Fairness
-----------------------------------------------------------------------------
(* Properties. *)

Remaining(i)    == orders[i].qty - orders[i].posted
LiveOrder(s, ct) == {i \in OrderId : Live(i) /\ orders[i].side = s /\ orders[i].ct = ct}
Exposed(ct)     == pos[ct] # 0 \/ LiveOrder("BUY", ct) # {}

\* Sell orders at the venue never add up to more than the account holds of
\* the leg, so no sequence of polls, partial fills and re-submissions can
\* over-sell into a short (machine.py _step_quantity).
NeverOversold ==
    \A ct \in Contracts :
        /\ pos[ct] >= 0
        /\ \A i, j \in LiveOrder("SELL", ct) : i = j
        /\ \A i \in LiveOrder("SELL", ct) : Remaining(i) <= pos[ct]

\* Once a machine exists, every position and every live order is covered by
\* the reservation of some run, and the registry names its leg; the slot is
\* not given up while something of it is still at the venue.  A CE and a PE
\* are therefore never owned, or being bought, together: a reversal buys the
\* opposite leg only after the close is confirmed flat, and two runs on one
\* account never open side by side (machine.py _submit_step, guards.py).
SlotCoversAccount ==
    (\E m \in Machine : pc[m] # "off") =>
        \A ct \in Contracts : Exposed(ct) => slot.holder # NoOne /\ slot.ct = ct

\* Between transitions a run that holds the slot believes what the account
\* says, and a run that does not hold it believes FLAT: no phantom position
\* and no phantom flat survive a call.
BeliefMatchesAccount ==
    \A m \in Machine :
        pc[m] = "idle" /\ ~InFlight(m) =>
            state[m] = IF slot.holder = m THEN ReconcileToState(pos) ELSE "FLAT"

\* Whatever fails: a guard that recorded an open owns the registry, and an
\* opening order a run is waiting for is always under that run's
\* reservation, so release never meets a slot of another holder.
ReservationHeld ==
    \A m \in Machine :
        /\ guard[m] # NoOne => slot.holder = m
        /\ InFlight(m) /\ tr[m].openId # NoOrder => guard[m] # NoOne

\* Whatever fails short of a crash: a reservation is only given up at a moment
\* when the account is flat, and it never moves from one run to another.
ReleasedOnlyWhenFlat ==
    [][slot.holder # NoOne /\ slot'.holder # slot.holder =>
          /\ slot'.holder = NoOne
          /\ \/ ReconcileToState(pos) = "FLAT"
             \/ \A m \in Machine : pc'[m] = "off"]_vars

\* Every accepted signal is eventually done with, unless the order it waits
\* for ends in a status the adapter reads as working: no raised call, lost
\* acknowledgement, restart, refusal or partial fill leaves a transition in
\* flight for ever, and only an answer that never says "final" does
\* (machine.py _verify_close, _verify_open; upstox_broker.py
\* _map_order_status).
NeverFinal(m) == /\ Awaited(m) # NoOrder
                 /\ orders[Awaited(m)].status = "UNMAPPED"
TransitionSettles ==
    \A m \in Machine : InFlight(m) ~> (~InFlight(m) \/ NeverFinal(m))

\* The account under its reservations is the abstract single slot.
Slot == INSTANCE SingleSlot WITH holder <- slot.holder, held <- pos
SlotSpec == Slot!Spec

\* machine.py:374: a close "is closed exactly and can never over-sell into a
\* short".
NeverShort == \A ct \in Contracts : pos[ct] >= 0
=============================================================================
