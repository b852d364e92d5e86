------------------------- MODULE LiveExecutionTest --------------------------
(***************************************************************************)
(* LiveExecutionTestManager.run (execution/manager.py): one controlled     *)
(* live test, cut at every call it makes to the broker, the audit file and *)
(* the clock, because the venue, the clock and the operator's consent move *)
(* in between.  The manager drives an ExecutionTestStateMachine.  The side *)
(* of the entry (CALL buys, PUT sells) is symmetric: quantities are        *)
(* counted in the direction of the entry.                                  *)
(***************************************************************************)
EXTENDS Integers, FiniteSets, ExecutionTestState

CONSTANTS
    Lot,          \* the lot size, the quantity of the entry
    Close,        \* the end of the session; every time is in 0..
    Hold,         \* hold_seconds
    Buffer,       \* FINALIZATION_BUFFER_SECONDS
    Timeout,      \* order_timeout_seconds
    Poll,         \* poll_seconds
    MaxLatency,   \* bound on the time all calls of a run take together
    MaxPre,       \* bound on what the account already held of the contract
    Keying,       \* the id the venue answers status and cancel calls for
    Faults

FaultKinds == {"refuse",      \* place_order raises, the venue has no order
               "lostack",     \* place_order raises after the venue took it
               "poll",        \* get_order_status raises
               "lag",         \* COMPLETE is not reported yet, or without the
                              \* filled quantity
               "cancel",      \* cancel_order fails
               "latecancel",  \* a confirmed cancel that has not taken effect
               "reject",      \* the venue rejects or cancels a working order
               "audit",       \* an audit record raises
               "withdraw",    \* the consent expires or is taken back
               "positions",   \* get_positions raises
               "payload"}     \* its answer has no readable row of the contract

ASSUME LiveTestAssumption ==
    /\ Lot \in Nat \ {0} /\ Poll \in Nat \ {0}
    /\ {Close, Hold, Buffer, Timeout, MaxLatency, MaxPre} \subseteq Nat
    /\ Timeout + Poll + MaxLatency <= Buffer
    /\ Keying \in {"order_id", "provider_order_id"}
    /\ Faults \subseteq FaultKinds

Legs == {"entry", "exit"}
OrderStatuses == {"none", "open", "complete", "rejected", "cancelled"}
Places == {"start", "auth", "validate", "decide", "preflight", "gate", "place",
           "entryack", "wait", "cancel", "filled", "hold", "exit", "exitack",
           "reconcile", "complete", "caught", "finish", "over"}

VARIABLES
    now, spent,   \* the clock, and how much of it calls took
    consent,      \* whether the gate would say ok at this moment
    gateOk,       \* gate_decision.ok, taken when the run starts
    mode,         \* the fixed inputs: dry_run, confirmed, forced leg
    pc,           \* where run() stands
    order,        \* per leg: the order at the venue
    placed,       \* per leg: orders that ever reached the venue
    acked,        \* legs whose ack the manager holds
    deadline, fillQty,
    pre,          \* what the account held of the contract before the run
    misread,      \* history: an open account was read as flat
    result        \* "none", or what run() returned or raised

vars == <<st, entryGiven, exitGiven, now, spent, consent, gateOk, mode, pc,
          order, placed, acked, deadline, fillQty, pre, misread, result>>
venue == <<order, placed>>
clock == <<now, spent>>
run   == <<gateOk, acked, deadline, fillQty, result>>
still == <<consent, mode, pre, misread>>

Order == [status : OrderStatuses, filled : 0..Lot, qty : 0..Lot]

\* The net exposure of the account in the contract.
Net == pre + order["entry"].filled - order["exit"].filled
Working(leg) == order[leg].status = "open"

TypeOK ==
    /\ st \in States /\ entryGiven \in 0..1 /\ exitGiven \in 0..1
    /\ now \in Nat /\ spent \in 0..MaxLatency
    /\ consent \in BOOLEAN /\ gateOk \in BOOLEAN
    /\ mode \in [dry : BOOLEAN, confirmed : BOOLEAN, forced : BOOLEAN]
    /\ pc \in Places
    /\ order \in [Legs -> Order]
    /\ placed \in [Legs -> Nat]
    /\ acked \subseteq Legs
    /\ deadline \in Nat
    /\ fillQty \in 0..Lot
    /\ pre \in 0..MaxPre /\ misread \in BOOLEAN
    /\ result \in {"none", "PASS", "FAIL", "raised"}

-----------------------------------------------------------------------------
(* The venue, the clock and the operator. *)

Trade(leg) ==
    LET o == order[leg]
    IN /\ Working(leg)
       /\ order' = [order EXCEPT ![leg] =
              [o EXCEPT !.filled = @ + 1,
                        !.status = IF o.filled + 1 = o.qty THEN "complete" ELSE @]]
       /\ UNCHANGED <<smVars, clock, still, run, pc, placed>>

Reject(leg) ==
    /\ "reject" \in Faults
    /\ Working(leg)
    /\ \E s \in {"cancelled"} \cup (IF order[leg].filled = 0 THEN {"rejected"} ELSE {}) :
          order' = [order EXCEPT ![leg].status = s]
    /\ UNCHANGED <<smVars, clock, still, run, pc, placed>>

Latency ==
    /\ pc # "over" /\ spent < MaxLatency                    \* bound MaxLatency
    /\ now' = now + 1 /\ spent' = spent + 1
    /\ UNCHANGED <<smVars, venue, still, run, pc>>

Withdraw ==
    /\ "withdraw" \in Faults /\ consent /\ pc # "over"
    /\ consent' = FALSE
    /\ UNCHANGED <<smVars, venue, clock, mode, pre, misread, run, pc>>

-----------------------------------------------------------------------------
(* The manager. *)

Goto(p) == pc' = p

\* _record, then the next call: an exception in it ends in run()'s handler.
Recorded(p) == pc' \in {p} \cup (IF "audit" \in Faults THEN {"caught"} ELSE {})

\* self.state.transition(s); a forbidden edge raises.
Move(s) == TransitionTo(s)
MoveAnd(s, go) == \/ Move(s) /\ go
                  \/ ~CanTransition(s) /\ UNCHANGED smVars /\ Goto("caught")

\* What place_order does at the venue, and whether the ack comes back.
Reach(leg, q) ==
    /\ order' = [order EXCEPT ![leg] = [status |-> "open", filled |-> 0, qty |-> q]]
    /\ placed' = [placed EXCEPT ![leg] = @ + 1]

PlaceAcked(leg, q) ==
    /\ acked' = acked \cup {leg}
    /\ IF mode.dry THEN UNCHANGED venue ELSE Reach(leg, q)

PlaceRaises(leg, q) ==
    /\ UNCHANGED acked
    /\ \/ "refuse" \in Faults /\ UNCHANGED venue
       \/ "lostack" \in Faults /\ ~mode.dry /\ Reach(leg, q)

\* run(): the gate is asked once, before anything else.
Start ==
    /\ pc = "start"
    /\ gateOk' = consent
    /\ \/ MoveAnd("AUTHENTICATING", Goto("auth")) /\ UNCHANGED result
       \/ /\ "audit" \in Faults
          /\ Goto("over") /\ result' = "raised" /\ UNCHANGED smVars
    /\ UNCHANGED <<venue, clock, still, acked, deadline, fillQty>>

Authenticate ==
    /\ pc = "auth"
    /\ \/ UNCHANGED smVars /\ Recorded("validate")
       \/ MoveAnd("FAILED", Recorded("finish"))
    /\ UNCHANGED <<venue, clock, still, run>>

ValidateInstrument ==
    /\ pc = "validate"
    /\ \/ MoveAnd("INSTRUMENT_VALIDATED", Goto("decide"))
       \/ MoveAnd("FAILED", Goto("finish"))
    /\ UNCHANGED <<venue, clock, still, run>>

\* The signal (HOLD aborts unless a leg is forced) and the reference price.
Decide ==
    /\ pc = "decide"
    /\ \/ UNCHANGED smVars /\ Recorded("preflight")
       \/ ~mode.forced /\ MoveAnd("ABORTED", Recorded("finish"))
       \/ MoveAnd("FAILED", Goto("finish"))
    /\ UNCHANGED <<venue, clock, still, run>>

\* OvernightGuard.allows_entry; every other check of the preflight may refuse.
\* Mutant: the guard without the finalization buffer.
AllowsEntryLate == now + Hold <= Close
AllowsEntry == now < Close /\ now + Hold + Buffer <= Close

Preflight ==
    /\ pc = "preflight"
    /\ \/ AllowsEntry /\ UNCHANGED smVars /\ Goto("gate")
       \/ MoveAnd("ABORTED", Recorded("finish"))
    /\ UNCHANGED <<venue, clock, still, run>>

\* The real-send gate of step 6, on the decision taken at the start.
MaySend == mode.dry \/ (mode.confirmed /\ gateOk)

Gate ==
    /\ pc = "gate"
    /\ IF MaySend THEN UNCHANGED smVars /\ Goto("place")
                  ELSE MoveAnd("ABORTED", Goto("finish"))
    /\ UNCHANGED <<venue, clock, still, run>>

PlaceEntry ==
    /\ pc = "place"
    /\ \/ PlaceAcked("entry", Lot) /\ GiveEntry /\ Goto("entryack")
       \/ PlaceRaises("entry", Lot) /\ MoveAnd("FAILED", Goto("finish"))
    /\ UNCHANGED <<clock, still, gateOk, deadline, fillQty, result>>

EntryAck ==
    /\ pc = "entryack"
    /\ MoveAnd("ENTRY_ACKNOWLEDGED", Recorded("wait"))
    /\ deadline' = now + Timeout
    /\ UNCHANGED <<venue, clock, still, gateOk, acked, fillQty, result>>

\* _wait_for_fill, for the leg the state machine is waiting for.
Leg == IF st = "ENTRY_ACKNOWLEDGED" THEN "entry" ELSE "exit"

\* What get_order_status may answer for an order, mapped by
\* _map_order_status: ENDED is REJECTED or CANCELLED; OPEN stands for
\* SUBMITTED, PARTIALLY_FILLED and for a call that raised.
Answers(o) ==
    IF mode.dry THEN {"FILLED"}
    ELSE IF Keying = "provider_order_id" THEN {"OPEN"}
    ELSE (IF o.status = "complete" THEN {"FILLED"}
          ELSE IF o.status \in {"rejected", "cancelled"} THEN {"ENDED"}
          ELSE {"OPEN"})
         \cup (IF "poll" \in Faults \/ o.status = "rejected" THEN {"OPEN"} ELSE {})
         \cup (IF "lag" \in Faults /\ o.status = "complete" THEN {"OPEN"} ELSE {})

FillReports(o) ==
    IF mode.dry THEN {Lot} ELSE {o.qty} \cup (IF "lag" \in Faults THEN {0} ELSE {})

SeesFill ==
    /\ pc = "wait" /\ "FILLED" \in Answers(order[Leg])
    /\ IF Leg = "entry"
       THEN /\ MoveAnd("ENTRY_FILLED", Goto("filled"))
            /\ fillQty' \in FillReports(order["entry"])
       ELSE /\ MoveAnd("EXIT_FILLED", Recorded("reconcile"))
            /\ UNCHANGED fillQty
    /\ UNCHANGED <<venue, clock, still, gateOk, acked, deadline, result>>

SeesEnd ==
    /\ pc = "wait" /\ "ENDED" \in Answers(order[Leg])
    /\ MoveAnd("FAILED", Recorded("finish"))
    /\ UNCHANGED <<venue, clock, still, run>>

\* Mutant: a wait that ran past its deadline neither polls nor gives up.
KeepsWaitingForever ==
    /\ pc = "wait" /\ "OPEN" \in Answers(order[Leg])
    /\ now <= deadline
    /\ now' = now + Poll
    /\ UNCHANGED <<smVars, venue, spent, still, run, pc>>

KeepsWaiting ==
    /\ pc = "wait" /\ "OPEN" \in Answers(order[Leg])
    /\ IF now > deadline
       THEN Goto("cancel") /\ UNCHANGED now
       ELSE now' = now + Poll /\ UNCHANGED pc
    /\ UNCHANGED <<smVars, venue, spent, still, run>>

\* The timeout: one best-effort cancel, then FAILED.
Cancel ==
    /\ pc = "cancel"
    /\ \/ /\ Keying = "order_id" /\ Working(Leg)
          /\ order' = [order EXCEPT ![Leg].status = "cancelled"]
       \/ /\ \/ {"cancel", "latecancel"} \cap Faults # {}
             \/ Keying = "provider_order_id"
             \/ ~Working(Leg)
          /\ UNCHANGED order
    /\ \/ MoveAnd("FAILED", Recorded("finish"))
       \/ "audit" \in Faults /\ UNCHANGED smVars /\ Goto("caught")
    /\ UNCHANGED <<placed, clock, still, run>>

EntryFilled ==
    /\ pc = "filled"
    /\ MoveAnd("HOLDING", Recorded("hold"))
    /\ UNCHANGED <<venue, clock, still, run>>

HoldPosition ==
    /\ pc = "hold"
    /\ now' = now + Hold
    /\ Recorded("exit")
    /\ UNCHANGED <<smVars, venue, spent, still, run>>

\* An Order of quantity zero cannot be built: that exception is not the
\* handled one of place_order.
\* Mutant: the filled quantity is added to the lot.
ExitQtyAdded == IF mode.forced THEN fillQty + Lot ELSE Lot
ExitQty == IF mode.forced THEN fillQty ELSE Lot

\* Mutant: a failed exit is handed to the handler of run() as well.
PlaceExitRaises ==
    /\ pc = "exit"
    /\ \/ ExitQty = 0 /\ UNCHANGED <<smVars, venue, acked>> /\ Goto("caught")
       \/ /\ ExitQty > 0
          /\ \/ PlaceAcked("exit", ExitQty) /\ GiveExit /\ Goto("exitack")
             \/ PlaceRaises("exit", ExitQty) /\ UNCHANGED smVars /\ Goto("caught")
    /\ UNCHANGED <<clock, still, gateOk, deadline, fillQty, result>>

PlaceExit ==
    /\ pc = "exit"
    /\ \/ ExitQty = 0 /\ UNCHANGED <<smVars, venue, acked>> /\ Goto("caught")
       \/ /\ ExitQty > 0
          /\ \/ PlaceAcked("exit", ExitQty) /\ GiveExit /\ Goto("exitack")
             \/ PlaceRaises("exit", ExitQty) /\ MoveAnd("FAILED", Goto("finish"))
    /\ UNCHANGED <<clock, still, gateOk, deadline, fillQty, result>>

ExitAck ==
    /\ pc = "exitack"
    /\ MoveAnd("EXIT_ACKNOWLEDGED", Recorded("wait"))
    /\ deadline' = now + Timeout
    /\ UNCHANGED <<venue, clock, still, gateOk, acked, fillQty, result>>

\* _is_flat_result: what the account's positions may be read as.  A call that
\* raises is not flat; an answer whose "data" is no list, or whose rows have
\* another name or no quantity, is.
FlatReadings ==
    {mode.dry \/ Net = 0}
    \cup (IF "positions" \in Faults /\ ~mode.dry THEN {FALSE} ELSE {})
    \cup (IF "payload" \in Faults /\ ~mode.dry THEN {TRUE} ELSE {})

\* Mutant: the final reconciliation is skipped.
ReconcileBlindly ==
    /\ pc = "reconcile"
    /\ MoveAnd("FLAT_RECONCILED", Goto("complete"))
    /\ UNCHANGED <<venue, clock, still, run>>

Reconcile ==
    /\ pc = "reconcile"
    /\ \E flat \in FlatReadings :
          /\ MoveAnd(IF flat THEN "FLAT_RECONCILED" ELSE "FAILED",
                     Goto(IF flat THEN "complete" ELSE "finish"))
          /\ misread' = (flat /\ ~mode.dry /\ Net # 0)
    /\ UNCHANGED <<venue, clock, consent, mode, pre, run>>

Complete ==
    /\ pc = "complete"
    /\ MoveAnd("COMPLETE", Recorded("finish"))
    /\ UNCHANGED <<venue, clock, still, run>>

\* run()'s handler: _try_emergency_flatten, then _to_failed.
\* Mutant: the flatten also acts on an entry that was only acknowledged.
FlattenAnyEntry == "entry" \in acked /\ "exit" \notin acked
MayFlatten ==
    /\ "entry" \in acked /\ "exit" \notin acked
    /\ st \in {"ENTRY_FILLED", "HOLDING", "EXIT_REQUESTED"}

ToFailed == IF CanTransition("FAILED") THEN TransitionTo("FAILED") ELSE UNCHANGED smVars

Caught ==
    /\ pc = "caught"
    /\ IF MayFlatten
       THEN PlaceAcked("exit", Lot) \/ PlaceRaises("exit", Lot)
       ELSE UNCHANGED <<venue, acked>>
    /\ \/ ToFailed /\ Goto("finish") /\ UNCHANGED result
       \/ /\ "audit" \in Faults /\ MayFlatten    \* the record of it raises too
          /\ UNCHANGED smVars /\ Goto("over") /\ result' = "raised"
    /\ UNCHANGED <<clock, still, gateOk, deadline, fillQty>>

Finish ==
    /\ pc = "finish"
    /\ Goto("over")
    /\ result' \in {IF st = "COMPLETE" THEN "PASS" ELSE "FAIL"}
                   \cup (IF "audit" \in Faults THEN {"raised"} ELSE {})
    /\ UNCHANGED <<smVars, venue, clock, still, gateOk, acked, deadline, fillQty>>

Manager == \/ Start \/ Authenticate \/ ValidateInstrument \/ Decide \/ Preflight
           \/ Gate \/ PlaceEntry \/ EntryAck \/ SeesFill \/ SeesEnd
           \/ KeepsWaiting \/ Cancel \/ EntryFilled \/ HoldPosition
           \/ PlaceExit \/ ExitAck \/ Reconcile \/ Complete \/ Caught \/ Finish

Init ==
    /\ MachineInit
    /\ now \in 0..Close /\ spent = 0
    /\ consent \in BOOLEAN /\ gateOk = FALSE
    /\ mode \in [dry : BOOLEAN, confirmed : BOOLEAN, forced : BOOLEAN]
    /\ pc = "start"
    /\ order = [leg \in Legs |-> [status |-> "none", filled |-> 0, qty |-> 0]]
    /\ placed = [leg \in Legs |-> 0]
    /\ acked = {} /\ deadline = 0 /\ fillQty = 0
    /\ pre \in 0..MaxPre /\ misread = FALSE
    /\ result = "none"

Next == Manager \/ Latency \/ Withdraw \/ \E leg \in Legs : Trade(leg) \/ Reject(leg)

Spec == Init /\ [][Next]_vars

\* The manager is a running thread, and its clock advances by its sleeps.
FairSpec == Spec /\ WF_vars(Manager)

-----------------------------------------------------------------------------
(* What a run promises. *)

\* At most one entry and one exit of a run ever reach the venue, whatever is
\* lost, times out or raises ("exactly one", manager.py steps 7 and 10).
OneOrderPerLeg == \A leg \in Legs : placed[leg] <= 1

\* The exit, the emergency one included, never trades more than the entry did:
\* the test cannot turn its position around (_try_emergency_flatten is only
\* reached with a completed entry).
ExitCoveredByEntry ==
    placed["exit"] > 0 => /\ order["entry"].status = "complete"
                          /\ order["exit"].qty <= order["entry"].filled

\* PASS is only reported with both orders complete and the entry closed to the
\* last unit, whatever the polls, the cancels and the positions said; and what
\* the account held of the contract before is only overlooked when the answer
\* for its positions could not be read (steps 9 to 11).
PassLeavesNothing ==
    result = "PASS" /\ ~mode.dry =>
        /\ \A leg \in Legs : order[leg].status = "complete"
        /\ order["exit"].filled = order["entry"].filled
        /\ Net = 0 \/ misread

\* No overnight position: every exit goes out before the close, because an
\* entry is refused unless the hold and the finalization buffer still fit
\* (OvernightGuard), and the wait for the entry fits into that buffer.
ExitBeforeClose == [][placed'["exit"] # placed["exit"] => now <= Close]_vars

\* run() comes to an end: every poll loop is bounded by its deadline.
RunEnds == <>(pc = "over")

-----------------------------------------------------------------------------
(* What the repository says of the program and the program does not do. *)

\* manager.py:10 "order ack -> fill confirmation -> 5-minute hold -> exit": an
\* order the venue completed is not timed out by a manager whose calls all
\* succeed.
CompletedIsConfirmed ==
    [][pc = "wait" /\ pc' = "cancel" => order[Leg].status # "complete"]_vars
=============================================================================
