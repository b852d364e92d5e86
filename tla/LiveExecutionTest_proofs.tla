---------------------- MODULE LiveExecutionTest_proofs ----------------------
(***************************************************************************)
(* For every lot, every timing within LiveTestAssumption and every set of  *)
(* faults: one entry and one exit per run, an exit never larger than the   *)
(* completed entry, no exit after the close, and no PASS that leaves       *)
(* anything of the entry behind.                                           *)
(***************************************************************************)
EXTENDS LiveExecutionTest, TLAPS

Early   == {"start", "auth", "validate", "decide", "preflight", "gate", "place"}
NoEntry == {"IDLE", "AUTHENTICATING", "INSTRUMENT_VALIDATED"}
Entered == {"ENTRY_REQUESTED", "ENTRY_ACKNOWLEDGED", "ENTRY_FILLED", "HOLDING"}
Exited  == {"EXIT_REQUESTED", "EXIT_ACKNOWLEDGED", "EXIT_FILLED",
            "FLAT_RECONCILED", "COMPLETE"}
Filled  == {"ENTRY_FILLED", "HOLDING"} \cup Exited

\* The counters follow the state.
Counts ==
    /\ exitGiven <= entryGiven
    /\ st \in NoEntry => entryGiven = 0 /\ exitGiven = 0
    /\ st \in Entered => entryGiven = 1 /\ exitGiven = 0
    /\ st \in Exited  => entryGiven = 1 /\ exitGiven = 1

\* Where run() stands tells the state of the state machine.
Stage ==
    /\ pc = "start" => st = "IDLE"
    /\ pc \in {"auth", "validate"} => st = "AUTHENTICATING"
    /\ pc \in {"decide", "preflight", "gate", "place"} => st = "INSTRUMENT_VALIDATED"
    /\ pc = "entryack" => st = "ENTRY_REQUESTED"
    /\ pc \in {"wait", "cancel"} => st \in {"ENTRY_ACKNOWLEDGED", "EXIT_ACKNOWLEDGED"}
    /\ pc = "filled" => st = "ENTRY_FILLED"
    /\ pc \in {"hold", "exit"} => st = "HOLDING"
    /\ pc = "exitack" => st = "EXIT_REQUESTED"
    /\ pc = "reconcile" => st = "EXIT_FILLED"
    /\ pc = "complete" => st = "FLAT_RECONCILED"

\* No order before its place in run(); none at all from a dry run.
Unsent ==
    /\ pc \in Early => placed["entry"] = 0
    /\ pc \in Early \cup {"entryack", "filled", "hold", "exit"}
           => placed["exit"] = 0
    /\ st = "ENTRY_ACKNOWLEDGED" => placed["exit"] = 0
    /\ pc \in {"wait", "cancel", "caught"} /\ st \notin Exited \cup TerminalStates
           => placed["exit"] = 0
    /\ st \in Exited => "exit" \in acked
    /\ mode.dry => placed["entry"] = 0 /\ placed["exit"] = 0
    /\ placed["entry"] <= 1 /\ placed["exit"] <= 1

\* A completed order traded its whole quantity; a held or exited position
\* comes from a completed entry of one lot.
Books ==
    /\ \A leg \in Legs : /\ order[leg].filled <= order[leg].qty
                         /\ order[leg].status = "complete"
                               => order[leg].filled = order[leg].qty
                         /\ order[leg].status = "open"
                               => order[leg].filled < order[leg].qty
                         /\ placed[leg] = 0 => order[leg].status = "none"
    /\ placed["entry"] > 0 => order["entry"].qty = Lot
    /\ pc = "entryack" /\ ~mode.dry => placed["entry"] > 0
    /\ st = "ENTRY_ACKNOWLEDGED" /\ ~mode.dry => placed["entry"] > 0
    /\ st \in Filled /\ ~mode.dry
           => placed["entry"] > 0 /\ order["entry"].status = "complete"
    /\ placed["exit"] > 0
           => /\ placed["entry"] > 0 /\ order["entry"].status = "complete"
              /\ order["exit"].qty = Lot
    /\ fillQty \in {0, Lot}

\* Time net of latency: what the guard allowed, plus the wait, plus the hold.
Entry == Close - Hold - Buffer
Timing ==
    /\ pc \in {"gate", "place", "entryack"} => now - spent <= Entry
    /\ pc = "wait" /\ st = "ENTRY_ACKNOWLEDGED"
           => deadline - spent <= Entry + Timeout /\ now - spent <= Entry + Timeout + Poll
    /\ pc \in {"filled", "hold"} => now - spent <= Entry + Timeout + Poll
    /\ pc \in {"exit", "exitack"} \/ (pc = "caught" /\ MayFlatten)
           => now - spent <= Entry + Timeout + Poll + Hold

IInv == TypeOK /\ Counts /\ Stage /\ Unsent /\ Books /\ Timing

USE LiveTestAssumption DEF Legs

THEOREM InitInv == Init => IInv
<1> SUFFICES ASSUME Init PROVE IInv
  OBVIOUS
<1>1. order \in [Legs -> Order] /\ placed \in [Legs -> Nat]
  BY DEF Init, Order, OrderStatuses
<1>2. TypeOK
  <2>1. now \in Nat /\ spent \in 0..MaxLatency /\ deadline \in Nat
        /\ fillQty \in 0..Lot /\ pre \in 0..MaxPre
    BY DEF Init
  <2>2. st \in States /\ entryGiven \in 0..1 /\ exitGiven \in 0..1
    BY DEF Init, MachineInit, States
  <2> QED
    BY <1>1, <2>1, <2>2 DEF Init, TypeOK, Places
<1>3. Counts /\ Stage /\ Unsent /\ Timing
  BY DEF Init, MachineInit, Counts, Stage, Unsent, Timing, MayFlatten, Early, NoEntry, Entered, Exited, Filled, States, TerminalStates
<1>4. Books
  BY DEF Init, MachineInit, Books, Early, NoEntry, Entered, Exited, Filled, States, TerminalStates
<1> QED
  BY <1>2, <1>3, <1>4 DEF IInv

\* What place_order can have done once it acked or raised.
LEMMA Placing ==
    ASSUME TypeOK, NEW leg \in Legs, NEW q \in 0..Lot,
           PlaceAcked(leg, q) \/ PlaceRaises(leg, q)
    PROVE  /\ order' \in [Legs -> Order] /\ placed' \in [Legs -> Nat]
           /\ acked' \subseteq Legs
           /\ \A other \in Legs \ {leg} : /\ order'[other] = order[other]
                                         /\ placed'[other] = placed[other]
           /\ \/ order' = order /\ placed' = placed
              \/ /\ ~mode.dry /\ placed'[leg] = placed[leg] + 1
                 /\ order'[leg] = [status |-> "open", filled |-> 0, qty |-> q]
<1>1. Reach(leg, q) => order' \in [Legs -> Order] /\ placed' \in [Legs -> Nat]
  BY DEF Reach, TypeOK, Order, OrderStatuses
<1>2. acked' \subseteq Legs
  BY DEF PlaceAcked, PlaceRaises, TypeOK
<1> QED
  BY <1>1, <1>2 DEF PlaceAcked, PlaceRaises, Reach, venue, TypeOK

LEMMA StartInv == IInv /\ Start => IInv'
<1> SUFFICES ASSUME IInv, Start PROVE IInv'
  OBVIOUS
<1> USE DEF Start, MoveAnd, Move, TransitionTo, Goto, Recorded, smVars, venue, clock, run, still
<1>1. TypeOK'
  BY DEF IInv, TypeOK, Places, Stage, Early, NoEntry, Entered, Exited, Filled, States, TerminalStates
<1>2. Counts' /\ Stage'
  BY DEF IInv, TypeOK, Counts, Stage, Early, NoEntry, Entered, Exited, Filled, States, TerminalStates
<1>3. Unsent'
  BY DEF IInv, TypeOK, Unsent, Stage, Counts, Early, NoEntry, Entered, Exited, Filled, States, TerminalStates
<1>4. Books'
  BY DEF IInv, TypeOK, Books, Order, Stage, Unsent, Early, NoEntry, Entered, Exited, Filled, States, TerminalStates
<1>5. Timing'
  BY DEF IInv, TypeOK, Timing, Entry, Stage, MayFlatten, Early, NoEntry, Entered, Exited, Filled, States, TerminalStates
<1> QED
  BY <1>1, <1>2, <1>3, <1>4, <1>5 DEF IInv

LEMMA AuthenticateInv == IInv /\ Authenticate => IInv'
<1> SUFFICES ASSUME IInv, Authenticate PROVE IInv'
  OBVIOUS
<1> USE DEF Authenticate, MoveAnd, Move, TransitionTo, Goto, Recorded, smVars, venue, clock, run, still
<1>1. TypeOK'
  BY DEF IInv, TypeOK, Places, Stage, Early, NoEntry, Entered, Exited, Filled, States, TerminalStates
<1>2. Counts' /\ Stage'
  BY DEF IInv, TypeOK, Counts, Stage, Early, NoEntry, Entered, Exited, Filled, States, TerminalStates
<1>3. Unsent'
  BY DEF IInv, TypeOK, Unsent, Stage, Counts, Early, NoEntry, Entered, Exited, Filled, States, TerminalStates
<1>4. Books'
  BY DEF IInv, TypeOK, Books, Order, Stage, Unsent, Early, NoEntry, Entered, Exited, Filled, States, TerminalStates
<1>5. Timing'
  BY DEF IInv, TypeOK, Timing, Entry, Stage, MayFlatten, Early, NoEntry, Entered, Exited, Filled, States, TerminalStates
<1> QED
  BY <1>1, <1>2, <1>3, <1>4, <1>5 DEF IInv

LEMMA ValidateInstrumentInv == IInv /\ ValidateInstrument => IInv'
<1> SUFFICES ASSUME IInv, ValidateInstrument PROVE IInv'
  OBVIOUS
<1> USE DEF ValidateInstrument, MoveAnd, Move, TransitionTo, Goto, Recorded, smVars, venue, clock, run, still
<1>1. TypeOK'
  BY DEF IInv, TypeOK, Places, Stage, Early, NoEntry, Entered, Exited, Filled, States, TerminalStates
<1>2. Counts' /\ Stage'
  BY DEF IInv, TypeOK, Counts, Stage, Early, NoEntry, Entered, Exited, Filled, States, TerminalStates
<1>3. Unsent'
  BY DEF IInv, TypeOK, Unsent, Stage, Counts, Early, NoEntry, Entered, Exited, Filled, States, TerminalStates
<1>4. Books'
  BY DEF IInv, TypeOK, Books, Order, Stage, Unsent, Early, NoEntry, Entered, Exited, Filled, States, TerminalStates
<1>5. Timing'
  BY DEF IInv, TypeOK, Timing, Entry, Stage, MayFlatten, Early, NoEntry, Entered, Exited, Filled, States, TerminalStates
<1> QED
  BY <1>1, <1>2, <1>3, <1>4, <1>5 DEF IInv

LEMMA DecideInv == IInv /\ Decide => IInv'
<1> SUFFICES ASSUME IInv, Decide PROVE IInv'
  OBVIOUS
<1> USE DEF Decide, MoveAnd, Move, TransitionTo, Goto, Recorded, smVars, venue, clock, run, still
<1>1. TypeOK'
  BY DEF IInv, TypeOK, Places, Stage, Early, NoEntry, Entered, Exited, Filled, States, TerminalStates
<1>2. Counts' /\ Stage'
  BY DEF IInv, TypeOK, Counts, Stage, Early, NoEntry, Entered, Exited, Filled, States, TerminalStates
<1>3. Unsent'
  BY DEF IInv, TypeOK, Unsent, Stage, Counts, Early, NoEntry, Entered, Exited, Filled, States, TerminalStates
<1>4. Books'
  BY DEF IInv, TypeOK, Books, Order, Stage, Unsent, Early, NoEntry, Entered, Exited, Filled, States, TerminalStates
<1>5. Timing'
  BY DEF IInv, TypeOK, Timing, Entry, Stage, MayFlatten, Early, NoEntry, Entered, Exited, Filled, States, TerminalStates
<1> QED
  BY <1>1, <1>2, <1>3, <1>4, <1>5 DEF IInv

LEMMA PreflightInv == IInv /\ Preflight => IInv'
<1> SUFFICES ASSUME IInv, Preflight PROVE IInv'
  OBVIOUS
<1> USE DEF Preflight, MoveAnd, Move, TransitionTo, Goto, Recorded, smVars, venue, clock, run, still, AllowsEntry
<1>1. TypeOK'
  BY DEF IInv, TypeOK, Places, Stage, Early, NoEntry, Entered, Exited, Filled, States, TerminalStates
<1>2. Counts' /\ Stage'
  BY DEF IInv, TypeOK, Counts, Stage, Early, NoEntry, Entered, Exited, Filled, States, TerminalStates
<1>3. Unsent'
  BY DEF IInv, TypeOK, Unsent, Stage, Counts, Early, NoEntry, Entered, Exited, Filled, States, TerminalStates
<1>4. Books'
  BY DEF IInv, TypeOK, Books, Order, Stage, Unsent, Early, NoEntry, Entered, Exited, Filled, States, TerminalStates
<1>5. Timing'
  BY DEF IInv, TypeOK, Timing, Entry, Stage, MayFlatten, Early, NoEntry, Entered, Exited, Filled, States, TerminalStates
<1> QED
  BY <1>1, <1>2, <1>3, <1>4, <1>5 DEF IInv

LEMMA GateInv == IInv /\ Gate => IInv'
<1> SUFFICES ASSUME IInv, Gate PROVE IInv'
  OBVIOUS
<1> USE DEF Gate, MoveAnd, Move, TransitionTo, Goto, Recorded, smVars, venue, clock, run, still
<1>1. TypeOK'
  BY DEF IInv, TypeOK, Places, Stage, Early, NoEntry, Entered, Exited, Filled, States, TerminalStates
<1>2. Counts' /\ Stage'
  BY DEF IInv, TypeOK, Counts, Stage, Early, NoEntry, Entered, Exited, Filled, States, TerminalStates
<1>3. Unsent'
  BY DEF IInv, TypeOK, Unsent, Stage, Counts, Early, NoEntry, Entered, Exited, Filled, States, TerminalStates
<1>4. Books'
  BY DEF IInv, TypeOK, Books, Order, Stage, Unsent, Early, NoEntry, Entered, Exited, Filled, States, TerminalStates
<1>5. Timing'
  BY DEF IInv, TypeOK, Timing, Entry, Stage, MayFlatten, Early, NoEntry, Entered, Exited, Filled, States, TerminalStates
<1> QED
  BY <1>1, <1>2, <1>3, <1>4, <1>5 DEF IInv

LEMMA PlaceEntryInv == IInv /\ PlaceEntry => IInv'
<1> SUFFICES ASSUME IInv, PlaceEntry PROVE IInv'
  OBVIOUS
<1> USE DEF PlaceEntry, MoveAnd, Move, TransitionTo, Goto, Recorded, smVars, venue, clock, run, still, PlaceAcked, PlaceRaises, Reach, GiveEntry, CanGiveEntry, PreEntryStates
<1>0. /\ order' \in [Legs -> Order] /\ placed' \in [Legs -> Nat]
      /\ acked' \subseteq Legs
  BY Placing, Lot \in 0..Lot DEF IInv, TypeOK
<1>1. TypeOK'
  BY <1>0 DEF IInv, TypeOK, Places, Stage, Counts, Early, NoEntry, Entered, Exited, Filled, States, TerminalStates
<1>2. Counts' /\ Stage'
  BY DEF IInv, TypeOK, Counts, Stage, Early, NoEntry, Entered, Exited, Filled, States, TerminalStates
<1>3. Unsent'
  BY DEF IInv, TypeOK, Unsent, Stage, Counts, Early, NoEntry, Entered, Exited, Filled, States, TerminalStates
<1>4. Books'
  BY DEF IInv, TypeOK, Books, Order, Stage, Unsent, Early, NoEntry, Entered, Exited, Filled, States, TerminalStates
<1>5. Timing'
  BY DEF IInv, TypeOK, Timing, Entry, Stage, MayFlatten, Early, NoEntry, Entered, Exited, Filled, States, TerminalStates
<1> QED
  BY <1>1, <1>2, <1>3, <1>4, <1>5 DEF IInv

LEMMA EntryAckInv == IInv /\ EntryAck => IInv'
<1> SUFFICES ASSUME IInv, EntryAck PROVE IInv'
  OBVIOUS
<1> USE DEF EntryAck, MoveAnd, Move, TransitionTo, Goto, Recorded, smVars, venue, clock, run, still
<1>1. TypeOK'
  BY DEF IInv, TypeOK, Places, Stage, Early, NoEntry, Entered, Exited, Filled, States, TerminalStates
<1>2. Counts' /\ Stage'
  BY DEF IInv, TypeOK, Counts, Stage, Early, NoEntry, Entered, Exited, Filled, States, TerminalStates
<1>3. Unsent'
  BY DEF IInv, TypeOK, Unsent, Stage, Counts, Early, NoEntry, Entered, Exited, Filled, States, TerminalStates
<1>4. Books'
  BY DEF IInv, TypeOK, Books, Order, Stage, Unsent, Early, NoEntry, Entered, Exited, Filled, States, TerminalStates
<1>5. Timing'
  BY DEF IInv, TypeOK, Timing, Entry, Stage, MayFlatten, Early, NoEntry, Entered, Exited, Filled, States, TerminalStates
<1> QED
  BY <1>1, <1>2, <1>3, <1>4, <1>5 DEF IInv

LEMMA SeesFillInv == IInv /\ SeesFill => IInv'
<1> SUFFICES ASSUME IInv, SeesFill PROVE IInv'
  OBVIOUS
<1> USE DEF SeesFill, MoveAnd, Move, TransitionTo, Goto, Recorded, smVars, venue, clock, run, still, Leg, FillReports, Answers
<1>1. TypeOK'
  <2>1. fillQty' \in 0..Lot
    BY DEF IInv, TypeOK, Order
  <2>2. st' \in States /\ pc' \in Places
    BY DEF IInv, TypeOK, Places, States
  <2>3. UNCHANGED <<entryGiven, exitGiven, venue, clock, still, gateOk, acked,
                    deadline, result>>
    OBVIOUS
  <2> QED
    BY <2>1, <2>2, <2>3 DEF IInv, TypeOK
<1>2. Counts' /\ Stage'
  BY DEF IInv, TypeOK, Counts, Stage, Early, NoEntry, Entered, Exited, Filled, States, TerminalStates
<1>3. Unsent'
  BY DEF IInv, TypeOK, Unsent, Stage, Counts, Early, NoEntry, Entered, Exited, Filled, States, TerminalStates
<1>4. Books'
  BY DEF IInv, TypeOK, Books, Order, Stage, Unsent, Early, NoEntry, Entered, Exited, Filled, States, TerminalStates
<1>5. Timing'
  BY DEF IInv, TypeOK, Timing, Entry, Stage, MayFlatten, Early, NoEntry, Entered, Exited, Filled, States, TerminalStates
<1> QED
  BY <1>1, <1>2, <1>3, <1>4, <1>5 DEF IInv

LEMMA SeesEndInv == IInv /\ SeesEnd => IInv'
<1> SUFFICES ASSUME IInv, SeesEnd PROVE IInv'
  OBVIOUS
<1> USE DEF SeesEnd, MoveAnd, Move, TransitionTo, Goto, Recorded, smVars, venue, clock, run, still
<1>1. TypeOK'
  BY DEF IInv, TypeOK, Places, Stage, Early, NoEntry, Entered, Exited, Filled, States, TerminalStates
<1>2. Counts' /\ Stage'
  BY DEF IInv, TypeOK, Counts, Stage, Early, NoEntry, Entered, Exited, Filled, States, TerminalStates
<1>3. Unsent'
  BY DEF IInv, TypeOK, Unsent, Stage, Counts, Early, NoEntry, Entered, Exited, Filled, States, TerminalStates
<1>4. Books'
  BY DEF IInv, TypeOK, Books, Order, Stage, Unsent, Early, NoEntry, Entered, Exited, Filled, States, TerminalStates
<1>5. Timing'
  BY DEF IInv, TypeOK, Timing, Entry, Stage, MayFlatten, Early, NoEntry, Entered, Exited, Filled, States, TerminalStates
<1> QED
  BY <1>1, <1>2, <1>3, <1>4, <1>5 DEF IInv

LEMMA KeepsWaitingInv == IInv /\ KeepsWaiting => IInv'
<1> SUFFICES ASSUME IInv, KeepsWaiting PROVE IInv'
  OBVIOUS
<1> USE DEF KeepsWaiting, MoveAnd, Move, TransitionTo, Goto, Recorded, smVars, venue, clock, run, still, Leg
<1>1. TypeOK'
  BY DEF IInv, TypeOK, Places, Stage, Early, NoEntry, Entered, Exited, Filled, States, TerminalStates
<1>2. Counts' /\ Stage'
  BY DEF IInv, TypeOK, Counts, Stage, Early, NoEntry, Entered, Exited, Filled, States, TerminalStates
<1>3. Unsent'
  BY DEF IInv, TypeOK, Unsent, Stage, Counts, Early, NoEntry, Entered, Exited, Filled, States, TerminalStates
<1>4. Books'
  BY DEF IInv, TypeOK, Books, Order, Stage, Unsent, Early, NoEntry, Entered, Exited, Filled, States, TerminalStates
<1>5. Timing'
  BY DEF IInv, TypeOK, Timing, Entry, Stage, MayFlatten, Early, NoEntry, Entered, Exited, Filled, States, TerminalStates
<1> QED
  BY <1>1, <1>2, <1>3, <1>4, <1>5 DEF IInv

LEMMA CancelInv == IInv /\ Cancel => IInv'
<1> SUFFICES ASSUME IInv, Cancel PROVE IInv'
  OBVIOUS
<1> USE DEF Cancel, MoveAnd, Move, TransitionTo, Goto, Recorded, smVars, venue, clock, run, still, Leg, Working
<1>1. TypeOK'
  BY DEF IInv, TypeOK, Places, Order, OrderStatuses, Stage, Early, NoEntry, Entered, Exited, Filled, States, TerminalStates
<1>2. Counts' /\ Stage'
  BY DEF IInv, TypeOK, Counts, Stage, Early, NoEntry, Entered, Exited, Filled, States, TerminalStates
<1>3. Unsent'
  BY DEF IInv, TypeOK, Unsent, Stage, Counts, Early, NoEntry, Entered, Exited, Filled, States, TerminalStates
<1>4. Books'
  BY DEF IInv, TypeOK, Books, Order, Stage, Unsent, Early, NoEntry, Entered, Exited, Filled, States, TerminalStates
<1>5. Timing'
  BY DEF IInv, TypeOK, Timing, Entry, Stage, MayFlatten, Early, NoEntry, Entered, Exited, Filled, States, TerminalStates
<1> QED
  BY <1>1, <1>2, <1>3, <1>4, <1>5 DEF IInv

LEMMA EntryFilledInv == IInv /\ EntryFilled => IInv'
<1> SUFFICES ASSUME IInv, EntryFilled PROVE IInv'
  OBVIOUS
<1> USE DEF EntryFilled, MoveAnd, Move, TransitionTo, Goto, Recorded, smVars, venue, clock, run, still
<1>1. TypeOK'
  BY DEF IInv, TypeOK, Places, Stage, Early, NoEntry, Entered, Exited, Filled, States, TerminalStates
<1>2. Counts' /\ Stage'
  BY DEF IInv, TypeOK, Counts, Stage, Early, NoEntry, Entered, Exited, Filled, States, TerminalStates
<1>3. Unsent'
  BY DEF IInv, TypeOK, Unsent, Stage, Counts, Early, NoEntry, Entered, Exited, Filled, States, TerminalStates
<1>4. Books'
  BY DEF IInv, TypeOK, Books, Order, Stage, Unsent, Early, NoEntry, Entered, Exited, Filled, States, TerminalStates
<1>5. Timing'
  BY DEF IInv, TypeOK, Timing, Entry, Stage, MayFlatten, Early, NoEntry, Entered, Exited, Filled, States, TerminalStates
<1> QED
  BY <1>1, <1>2, <1>3, <1>4, <1>5 DEF IInv

LEMMA HoldPositionInv == IInv /\ HoldPosition => IInv'
<1> SUFFICES ASSUME IInv, HoldPosition PROVE IInv'
  OBVIOUS
<1> USE DEF HoldPosition, MoveAnd, Move, TransitionTo, Goto, Recorded, smVars, venue, clock, run, still
<1>1. TypeOK'
  BY DEF IInv, TypeOK, Places, Stage, Early, NoEntry, Entered, Exited, Filled, States, TerminalStates
<1>2. Counts' /\ Stage'
  BY DEF IInv, TypeOK, Counts, Stage, Early, NoEntry, Entered, Exited, Filled, States, TerminalStates
<1>3. Unsent'
  BY DEF IInv, TypeOK, Unsent, Stage, Counts, Early, NoEntry, Entered, Exited, Filled, States, TerminalStates
<1>4. Books'
  BY DEF IInv, TypeOK, Books, Order, Stage, Unsent, Early, NoEntry, Entered, Exited, Filled, States, TerminalStates
<1>5. Timing'
  BY DEF IInv, TypeOK, Timing, Entry, Stage, MayFlatten, Early, NoEntry, Entered, Exited, Filled, States, TerminalStates
<1> QED
  BY <1>1, <1>2, <1>3, <1>4, <1>5 DEF IInv

\* A failed exit finds its edge: a raise there would reach the flatten.
LEMMA HoldMayFail == st = "HOLDING" => CanTransition("FAILED")
BY DEF CanTransition, RequestedStates, AllowedTransitions, MayFail, States, TerminalStates

LEMMA PlaceExitInv == IInv /\ PlaceExit => IInv'
<1> SUFFICES ASSUME IInv, PlaceExit PROVE IInv'
  OBVIOUS
<1> USE DEF PlaceExit, MoveAnd, Move, TransitionTo, Goto, Recorded, smVars, venue, clock, run, still, PlaceAcked, PlaceRaises, Reach, GiveExit, CanGiveExit, PreExitStates, ExitQty
<1>0. /\ order' \in [Legs -> Order] /\ placed' \in [Legs -> Nat]
      /\ acked' \subseteq Legs
  BY Placing, Lot \in 0..Lot DEF IInv, TypeOK
<1>1. TypeOK'
  BY <1>0 DEF IInv, TypeOK, Places, Stage, Counts, Early, NoEntry, Entered, Exited, Filled, States, TerminalStates
<1>2. Counts' /\ Stage'
  BY DEF IInv, TypeOK, Counts, Stage, Early, NoEntry, Entered, Exited, Filled, States, TerminalStates
<1>3. Unsent'
  <2>1. CASE ExitQty = 0
    BY <2>1 DEF IInv, TypeOK, Unsent, Stage, Counts, Early, NoEntry, Entered, Exited, States, TerminalStates
  <2>2. CASE PlaceAcked("exit", ExitQty) /\ GiveExit /\ Goto("exitack")
    BY <2>2 DEF IInv, TypeOK, Unsent, Stage, Counts, Early, NoEntry, Entered, Exited, States, TerminalStates
  <2>3. CASE PlaceRaises("exit", ExitQty) /\ MoveAnd("FAILED", Goto("finish"))
    BY <2>3, HoldMayFail DEF IInv, TypeOK, Unsent, Stage, Counts, Early, NoEntry, Entered, Exited, States, TerminalStates
  <2> QED
    BY <2>1, <2>2, <2>3
<1>4. Books'
  BY DEF IInv, TypeOK, Books, Order, Stage, Unsent, Early, NoEntry, Entered, Exited, Filled, States, TerminalStates
<1>5. Timing'
  BY DEF IInv, TypeOK, Timing, Entry, Stage, MayFlatten, Early, NoEntry, Entered, Exited, Filled, States, TerminalStates
<1> QED
  BY <1>1, <1>2, <1>3, <1>4, <1>5 DEF IInv

LEMMA ExitAckInv == IInv /\ ExitAck => IInv'
<1> SUFFICES ASSUME IInv, ExitAck PROVE IInv'
  OBVIOUS
<1> USE DEF ExitAck, MoveAnd, Move, TransitionTo, Goto, Recorded, smVars, venue, clock, run, still
<1>1. TypeOK'
  BY DEF IInv, TypeOK, Places, Stage, Early, NoEntry, Entered, Exited, Filled, States, TerminalStates
<1>2. Counts' /\ Stage'
  BY DEF IInv, TypeOK, Counts, Stage, Early, NoEntry, Entered, Exited, Filled, States, TerminalStates
<1>3. Unsent'
  BY DEF IInv, TypeOK, Unsent, Stage, Counts, Early, NoEntry, Entered, Exited, Filled, States, TerminalStates
<1>4. Books'
  BY DEF IInv, TypeOK, Books, Order, Stage, Unsent, Early, NoEntry, Entered, Exited, Filled, States, TerminalStates
<1>5. Timing'
  BY DEF IInv, TypeOK, Timing, Entry, Stage, MayFlatten, Early, NoEntry, Entered, Exited, Filled, States, TerminalStates
<1> QED
  BY <1>1, <1>2, <1>3, <1>4, <1>5 DEF IInv

LEMMA ReconcileInv == IInv /\ Reconcile => IInv'
<1> SUFFICES ASSUME IInv, Reconcile PROVE IInv'
  OBVIOUS
<1> USE DEF Reconcile, MoveAnd, Move, TransitionTo, Goto, Recorded, smVars, venue, clock, run, still
<1>1. TypeOK'
  BY DEF IInv, TypeOK, Places, Stage, Early, NoEntry, Entered, Exited, Filled, States, TerminalStates
<1>2. Counts' /\ Stage'
  BY DEF IInv, TypeOK, Counts, Stage, Early, NoEntry, Entered, Exited, Filled, States, TerminalStates
<1>3. Unsent'
  BY DEF IInv, TypeOK, Unsent, Stage, Counts, Early, NoEntry, Entered, Exited, Filled, States, TerminalStates
<1>4. Books'
  BY DEF IInv, TypeOK, Books, Order, Stage, Unsent, Early, NoEntry, Entered, Exited, Filled, States, TerminalStates
<1>5. Timing'
  BY DEF IInv, TypeOK, Timing, Entry, Stage, MayFlatten, Early, NoEntry, Entered, Exited, Filled, States, TerminalStates
<1> QED
  BY <1>1, <1>2, <1>3, <1>4, <1>5 DEF IInv

LEMMA CompleteInv == IInv /\ Complete => IInv'
<1> SUFFICES ASSUME IInv, Complete PROVE IInv'
  OBVIOUS
<1> USE DEF Complete, MoveAnd, Move, TransitionTo, Goto, Recorded, smVars, venue, clock, run, still
<1>1. TypeOK'
  BY DEF IInv, TypeOK, Places, Stage, Early, NoEntry, Entered, Exited, Filled, States, TerminalStates
<1>2. Counts' /\ Stage'
  BY DEF IInv, TypeOK, Counts, Stage, Early, NoEntry, Entered, Exited, Filled, States, TerminalStates
<1>3. Unsent'
  BY DEF IInv, TypeOK, Unsent, Stage, Counts, Early, NoEntry, Entered, Exited, Filled, States, TerminalStates
<1>4. Books'
  BY DEF IInv, TypeOK, Books, Order, Stage, Unsent, Early, NoEntry, Entered, Exited, Filled, States, TerminalStates
<1>5. Timing'
  BY DEF IInv, TypeOK, Timing, Entry, Stage, MayFlatten, Early, NoEntry, Entered, Exited, Filled, States, TerminalStates
<1> QED
  BY <1>1, <1>2, <1>3, <1>4, <1>5 DEF IInv

LEMMA CaughtInv == IInv /\ Caught => IInv'
<1> SUFFICES ASSUME IInv, Caught PROVE IInv'
  OBVIOUS
<1> USE DEF Caught, MoveAnd, Move, TransitionTo, Goto, Recorded, smVars, venue, clock, run, still, PlaceAcked, PlaceRaises, Reach, ToFailed, MayFlatten
<1>0. /\ order' \in [Legs -> Order] /\ placed' \in [Legs -> Nat]
      /\ acked' \subseteq Legs
  BY Placing, Lot \in 0..Lot DEF IInv, TypeOK
<1>1. TypeOK'
  BY <1>0 DEF IInv, TypeOK, Places, Stage, Counts, Early, NoEntry, Entered, Exited, Filled, States, TerminalStates
<1>2. Counts' /\ Stage'
  BY DEF IInv, TypeOK, Counts, Stage, Early, NoEntry, Entered, Exited, Filled, States, TerminalStates
<1>3. Unsent'
  BY DEF IInv, TypeOK, Unsent, Stage, Counts, Early, NoEntry, Entered, Exited, Filled, States, TerminalStates
<1>4. Books'
  BY DEF IInv, TypeOK, Books, Order, Stage, Unsent, Early, NoEntry, Entered, Exited, Filled, States, TerminalStates
<1>5. Timing'
  BY DEF IInv, TypeOK, Timing, Entry, Stage, MayFlatten, Early, NoEntry, Entered, Exited, Filled, States, TerminalStates
<1> QED
  BY <1>1, <1>2, <1>3, <1>4, <1>5 DEF IInv

LEMMA FinishInv == IInv /\ Finish => IInv'
<1> SUFFICES ASSUME IInv, Finish PROVE IInv'
  OBVIOUS
<1> USE DEF Finish, MoveAnd, Move, TransitionTo, Goto, Recorded, smVars, venue, clock, run, still
<1>1. TypeOK'
  BY DEF IInv, TypeOK, Places, Stage, Early, NoEntry, Entered, Exited, Filled, States, TerminalStates
<1>2. Counts' /\ Stage'
  BY DEF IInv, TypeOK, Counts, Stage, Early, NoEntry, Entered, Exited, Filled, States, TerminalStates
<1>3. Unsent'
  BY DEF IInv, TypeOK, Unsent, Stage, Counts, Early, NoEntry, Entered, Exited, Filled, States, TerminalStates
<1>4. Books'
  BY DEF IInv, TypeOK, Books, Order, Stage, Unsent, Early, NoEntry, Entered, Exited, Filled, States, TerminalStates
<1>5. Timing'
  BY DEF IInv, TypeOK, Timing, Entry, Stage, MayFlatten, Early, NoEntry, Entered, Exited, Filled, States, TerminalStates
<1> QED
  BY <1>1, <1>2, <1>3, <1>4, <1>5 DEF IInv

LEMMA TradeInv == IInv /\ (\E leg \in Legs : Trade(leg)) => IInv'
<1> SUFFICES ASSUME IInv, \E leg \in Legs : Trade(leg) PROVE IInv'
  OBVIOUS
<1> USE DEF Trade, smVars, venue, clock, run, still, Working
<1>1. TypeOK'
  <2>1. PICK leg \in Legs : Trade(leg)
    OBVIOUS
  <2>2. order[leg] \in Order /\ order[leg].filled + 1 \in 0..Lot
    BY <2>1 DEF IInv, TypeOK, Order, Books
  <2>3. order' \in [Legs -> Order]
    BY <2>1, <2>2 DEF IInv, TypeOK, Order, OrderStatuses
  <2> QED
    BY <2>1, <2>3 DEF IInv, TypeOK
<1>2. Counts' /\ Stage'
  BY DEF IInv, Counts, Stage
<1>3. Unsent'
  BY DEF IInv, Unsent
<1>4. Books'
  BY DEF IInv, TypeOK, Order, Books
<1>5. Timing'
  BY DEF IInv, TypeOK, Timing, Entry, MayFlatten
<1> QED
  BY <1>1, <1>2, <1>3, <1>4, <1>5 DEF IInv

LEMMA RejectInv == IInv /\ (\E leg \in Legs : Reject(leg)) => IInv'
<1> SUFFICES ASSUME IInv, \E leg \in Legs : Reject(leg) PROVE IInv'
  OBVIOUS
<1> USE DEF Reject, smVars, venue, clock, run, still, Working
<1>1. TypeOK'
  BY DEF IInv, TypeOK, Places, Order, OrderStatuses
<1>2. Counts' /\ Stage'
  BY DEF IInv, Counts, Stage
<1>3. Unsent'
  BY DEF IInv, Unsent
<1>4. Books'
  BY DEF IInv, TypeOK, Order, Books
<1>5. Timing'
  BY DEF IInv, TypeOK, Timing, Entry, MayFlatten
<1> QED
  BY <1>1, <1>2, <1>3, <1>4, <1>5 DEF IInv

LEMMA LatencyInv == IInv /\ Latency => IInv'
<1> SUFFICES ASSUME IInv, Latency PROVE IInv'
  OBVIOUS
<1> USE DEF Latency, smVars, venue, clock, run, still
<1>1. TypeOK'
  BY DEF IInv, TypeOK, Places
<1>2. Counts' /\ Stage'
  BY DEF IInv, Counts, Stage
<1>3. Unsent'
  BY DEF IInv, Unsent
<1>4. Books'
  BY DEF IInv, TypeOK, Order, Books
<1>5. Timing'
  BY DEF IInv, TypeOK, Timing, Entry, MayFlatten
<1> QED
  BY <1>1, <1>2, <1>3, <1>4, <1>5 DEF IInv

LEMMA WithdrawInv == IInv /\ Withdraw => IInv'
<1> SUFFICES ASSUME IInv, Withdraw PROVE IInv'
  OBVIOUS
<1> USE DEF Withdraw, smVars, venue, clock, run, still
<1>1. TypeOK'
  <2>1. consent' = FALSE /\ UNCHANGED <<smVars, venue, clock, mode, pre, run, pc>>
    OBVIOUS
  <2> QED
    BY <2>1 DEF IInv, TypeOK
<1>2. Counts' /\ Stage'
  BY DEF IInv, Counts, Stage
<1>3. Unsent'
  BY DEF IInv, Unsent
<1>4. Books'
  BY DEF IInv, TypeOK, Order, Books
<1>5. Timing'
  BY DEF IInv, TypeOK, Timing, Entry, MayFlatten
<1> QED
  BY <1>1, <1>2, <1>3, <1>4, <1>5 DEF IInv

THEOREM StepInv == IInv /\ [Next]_vars => IInv'
<1> SUFFICES ASSUME IInv, [Next]_vars PROVE IInv'
  OBVIOUS
<1>1. CASE Manager
  BY <1>1, StartInv, AuthenticateInv, ValidateInstrumentInv, DecideInv, PreflightInv, GateInv, PlaceEntryInv, EntryAckInv, SeesFillInv, SeesEndInv, KeepsWaitingInv, CancelInv, EntryFilledInv, HoldPositionInv, PlaceExitInv, ExitAckInv, ReconcileInv, CompleteInv, CaughtInv, FinishInv
     DEF Manager
<1>2. CASE \E leg \in Legs : Trade(leg) \/ Reject(leg)
  BY <1>2, TradeInv, RejectInv
<1>3. CASE Latency \/ Withdraw
  BY <1>3, LatencyInv, WithdrawInv
<1>4. CASE UNCHANGED vars
  BY <1>4 DEF vars, IInv, TypeOK, Counts, Stage, Unsent, Books, Timing, MayFlatten
<1> QED
  BY <1>1, <1>2, <1>3, <1>4 DEF Next

THEOREM Invariance == Spec => []IInv
<1>1. Init => IInv
  BY InitInv
<1>2. IInv /\ [Next]_vars => IInv'
  BY StepInv
<1> QED
  BY <1>1, <1>2, PTL DEF Spec

\* The variables keep their types, the time bounded by latency included.
THEOREM Typing == Spec => []TypeOK
<1>1. IInv => TypeOK
  BY DEF IInv
<1> QED
  BY <1>1, Invariance, PTL

\* One entry and one exit per run reach the venue, whatever is lost or raised.
THEOREM OneEach == Spec => []OneOrderPerLeg
<1>1. IInv => OneOrderPerLeg
  BY DEF IInv, Unsent, OneOrderPerLeg
<1> QED
  BY <1>1, Invariance, PTL

\* An exit is never sent without, nor for more than, the completed entry.
THEOREM Covered == Spec => []ExitCoveredByEntry
<1>1. IInv => ExitCoveredByEntry
  BY DEF IInv, TypeOK, Order, Books, ExitCoveredByEntry
<1> QED
  BY <1>1, Invariance, PTL

\* The state machine of a run completes only by one entry and one exit.
THEOREM RoundTrip == Spec => []SingleRoundTrip
<1>1. IInv => SingleRoundTrip
  BY DEF IInv, TypeOK, Counts, SingleRoundTrip, Exited
<1> QED
  BY <1>1, Invariance, PTL

\* No exit leaves after the close of the session.
THEOREM NoOvernight == Spec => ExitBeforeClose
<1>1. IInv /\ [Next]_vars => [placed'["exit"] # placed["exit"] => now <= Close]_vars
  <2> SUFFICES ASSUME IInv, Next, placed'["exit"] # placed["exit"] PROVE now <= Close
    OBVIOUS
  <2>1. PlaceExit \/ (Caught /\ MayFlatten)
    BY DEF IInv, TypeOK, Next, Manager, Start, Authenticate, ValidateInstrument, Decide,
           Preflight, Gate, PlaceEntry, EntryAck, SeesFill, SeesEnd, KeepsWaiting,
           Cancel, EntryFilled, HoldPosition, ExitAck, Reconcile, Complete, Caught,
           Finish, Latency, Withdraw, Trade, Reject, venue,
           PlaceAcked, PlaceRaises, Reach
  <2>2. now - spent <= Entry + Timeout + Poll + Hold
    BY <2>1 DEF IInv, Timing, PlaceExit, Caught
  <2> QED
    BY <2>2 DEF IInv, TypeOK, Entry
<1> QED
  BY <1>1, Invariance, PTL DEF Spec, ExitBeforeClose

-----------------------------------------------------------------------------
Settling == {"EXIT_FILLED", "FLAT_RECONCILED", "COMPLETE"}

\* What the manager has confirmed stays so: nothing trades after both orders
\* are complete, and no handler sends another.
Confirmed ==
    /\ st \in Settling /\ ~mode.dry => order["exit"].status = "complete"
    /\ st \in {"FLAT_RECONCILED", "COMPLETE"} /\ ~mode.dry => Net = 0 \/ misread
    /\ result = "PASS" => st = "COMPLETE" /\ pc = "over"

LEMMA VenueConfirmed ==
  ASSUME IInv, Confirmed, UNCHANGED <<st, mode, pre, misread, result, pc>>,
         st \in Settling /\ ~mode.dry => order' = order
  PROVE  Confirmed'
  BY DEF Confirmed, Net, Settling

LEMMA TradeConfirmed ==
  ASSUME IInv, Confirmed, NEW leg \in Legs, Trade(leg) \/ Reject(leg) PROVE Confirmed'
<1>1. order[leg].status = "open" /\ UNCHANGED <<smVars, still, run, pc>>
  BY DEF Trade, Reject, Working
<1>2. ~(st \in Settling /\ ~mode.dry)
  BY <1>1 DEF IInv, Books, Confirmed, Settling, Filled, Exited
<1> QED BY <1>1, <1>2, VenueConfirmed DEF smVars, still, run

\* A step that leaves the settling states alone and out of reach.
LEMMA ElsewhereConfirmed ==
  ASSUME Confirmed, st' \notin Settling, result' # "PASS" PROVE Confirmed'
  BY DEF Confirmed, Settling

LEMMA BeforeConfirmed ==
  ASSUME IInv, Confirmed, pc # "over",
         \/ Start \/ Authenticate \/ ValidateInstrument \/ Decide \/ Preflight \/ Gate
         \/ PlaceEntry \/ EntryAck \/ SeesEnd \/ KeepsWaiting \/ Cancel \/ EntryFilled
         \/ HoldPosition \/ PlaceExit \/ ExitAck
  PROVE  Confirmed'
<1>1. st' \notin Settling
  BY DEF IInv, Stage, Settling, Start, Authenticate, ValidateInstrument, Decide, Preflight,
         Gate, PlaceEntry, EntryAck, SeesEnd, KeepsWaiting, Cancel, EntryFilled, HoldPosition,
         PlaceExit, ExitAck, MoveAnd, Move, TransitionTo, GiveEntry, GiveExit, smVars
<1>2. result' # "PASS"
  <2>1. result' = result \/ result' = "raised"
    BY DEF Start, Authenticate, ValidateInstrument, Decide, Preflight, Gate, PlaceEntry,
           EntryAck, SeesEnd, KeepsWaiting, Cancel, EntryFilled, HoldPosition, PlaceExit,
           ExitAck, run
  <2> QED BY <2>1 DEF Confirmed
<1> QED BY <1>1, <1>2, ElsewhereConfirmed

LEMMA SeesFillConfirmed == ASSUME IInv, Confirmed, SeesFill PROVE Confirmed'
<1>1. /\ pc = "wait" /\ "FILLED" \in Answers(order[Leg]) /\ UNCHANGED <<venue, still, result>>
      /\ st \in {"ENTRY_ACKNOWLEDGED", "EXIT_ACKNOWLEDGED"}
  BY DEF SeesFill, IInv, Stage
<1>2. result' # "PASS"
  BY <1>1 DEF Confirmed
<1>3. CASE st = "ENTRY_ACKNOWLEDGED"
  <2>1. st' \in {"ENTRY_FILLED", "ENTRY_ACKNOWLEDGED"}
    BY <1>3 DEF SeesFill, Leg, MoveAnd, Move, TransitionTo, smVars
  <2> QED BY <1>2, <2>1, ElsewhereConfirmed DEF Settling
<1>4. CASE st = "EXIT_ACKNOWLEDGED"
  <2>1. st' \in {"EXIT_FILLED", "EXIT_ACKNOWLEDGED"}
    BY <1>4 DEF SeesFill, Leg, MoveAnd, Move, TransitionTo, smVars
  <2>2. ~mode.dry => order["exit"].status = "complete"
    BY <1>1, <1>4 DEF Leg, Answers
  <2> QED BY <1>1, <1>2, <2>1, <2>2 DEF Confirmed, Settling, venue, still
<1> QED BY <1>1, <1>3, <1>4

LEMMA ReconcileConfirmed == ASSUME IInv, Confirmed, Reconcile PROVE Confirmed'
<1>1. pc = "reconcile" /\ st = "EXIT_FILLED" /\ UNCHANGED <<venue, mode, pre, run>>
  BY DEF Reconcile, IInv, Stage
<1>2. PICK flat \in FlatReadings :
          /\ MoveAnd(IF flat THEN "FLAT_RECONCILED" ELSE "FAILED",
                     Goto(IF flat THEN "complete" ELSE "finish"))
          /\ misread' = (flat /\ ~mode.dry /\ Net # 0)
  BY DEF Reconcile
<1>3. result' # "PASS"
  BY <1>1 DEF Confirmed, run
<1>4. flat /\ ~mode.dry => Net = 0 \/ misread'
  BY <1>2
<1>5. /\ st' \in {"FLAT_RECONCILED", "FAILED", "EXIT_FILLED"}
      /\ st' = "FLAT_RECONCILED" => flat
  BY <1>1, <1>2 DEF MoveAnd, Move, TransitionTo, smVars
<1> QED BY <1>1, <1>3, <1>4, <1>5 DEF Confirmed, Settling, Net, venue

LEMMA CompleteConfirmed == ASSUME IInv, Confirmed, Complete PROVE Confirmed'
<1>1. /\ st = "FLAT_RECONCILED" /\ pc = "complete" /\ UNCHANGED <<venue, still, run>>
      /\ st' \in {"COMPLETE", "FLAT_RECONCILED"}
  BY DEF Complete, IInv, Stage, MoveAnd, Move, TransitionTo, smVars
<1> QED BY <1>1 DEF Confirmed, Settling, Net, venue, still, run

\* The handler of run() sends nothing for a run that got as far as its exit.
LEMMA CaughtConfirmed == ASSUME IInv, Confirmed, Caught PROVE Confirmed'
<1>1. pc = "caught" /\ UNCHANGED still /\ st' \in {st, "FAILED"} /\ result' # "PASS"
  BY DEF Caught, ToFailed, TransitionTo, smVars, Confirmed
<1>2. CASE st' \in Settling
  <2>1. st' = st /\ ~MayFlatten
    BY <1>1, <1>2 DEF Settling, MayFlatten
  <2>2. UNCHANGED venue
    BY <2>1 DEF Caught
  <2> QED BY <1>1, <2>1, <2>2 DEF Confirmed, Settling, Net, venue, still
<1>3. CASE st' \notin Settling
  BY <1>1, <1>3, ElsewhereConfirmed
<1> QED BY <1>2, <1>3

LEMMA FinishConfirmed == ASSUME IInv, Confirmed, Finish PROVE Confirmed'
<1>1. /\ UNCHANGED <<smVars, venue, still>> /\ pc' = "over"
      /\ result' = "PASS" => st = "COMPLETE"
  BY DEF Finish, Goto
<1> QED BY <1>1 DEF Confirmed, Settling, Net, smVars, venue, still

LEMMA StepConfirmed == IInv /\ Confirmed /\ [Next]_vars => Confirmed'
<1> SUFFICES ASSUME IInv, Confirmed, [Next]_vars PROVE Confirmed'
  OBVIOUS
<1>1. CASE Manager
  <2>1. pc # "over"
    BY <1>1 DEF Manager, Start, Authenticate, ValidateInstrument, Decide, Preflight, Gate,
       PlaceEntry, EntryAck, SeesFill, SeesEnd, KeepsWaiting, Cancel, EntryFilled,
       HoldPosition, PlaceExit, ExitAck, Reconcile, Complete, Caught, Finish
  <2> QED BY <1>1, <2>1, BeforeConfirmed, SeesFillConfirmed, ReconcileConfirmed,
             CompleteConfirmed, CaughtConfirmed, FinishConfirmed DEF Manager
<1>2. CASE \E leg \in Legs : Trade(leg) \/ Reject(leg)
  BY <1>2, TradeConfirmed
<1>3. CASE Latency \/ Withdraw \/ UNCHANGED vars
  BY <1>3, VenueConfirmed DEF Latency, Withdraw, vars, smVars, venue, still, run
<1> QED BY <1>1, <1>2, <1>3 DEF Next

\* PASS is only reported with both orders complete and the entry closed to the
\* last unit (manager.py steps 9 to 11), however the venue, the clock and the
\* calls behaved; an account that is not flat then had its positions misread.
THEOREM Passing == Spec => []PassLeavesNothing
<1>1. Init => Confirmed
  BY DEF Init, MachineInit, Confirmed, Settling
<1>2. IInv /\ Confirmed => PassLeavesNothing
  <2> SUFFICES ASSUME IInv, Confirmed, result = "PASS", ~mode.dry
               PROVE  /\ \A leg \in Legs : order[leg].status = "complete"
                      /\ order["exit"].filled = order["entry"].filled
                      /\ Net = 0 \/ misread
    BY DEF PassLeavesNothing
  <2>1. st = "COMPLETE"
    BY DEF Confirmed
  <2>2. placed["entry"] > 0 /\ order["entry"].status = "complete"
    BY <2>1 DEF IInv, Books, Filled, Exited
  <2>3. order["exit"].status = "complete" /\ (Net = 0 \/ misread)
    BY <2>1 DEF Confirmed, Settling
  <2>4. placed["exit"] > 0
    BY <2>3 DEF IInv, Books, TypeOK
  <2>5. order["exit"].filled = Lot /\ order["entry"].filled = Lot
    BY <2>2, <2>3, <2>4 DEF IInv, Books
  <2> QED BY <2>2, <2>3, <2>5
<1> QED
  BY <1>1, <1>2, Invariance, StepConfirmed, PTL DEF Spec
=============================================================================
