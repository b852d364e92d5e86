------------------------- MODULE ExecutionTestState -------------------------
(***************************************************************************)
(* ExecutionTestStateMachine (execution/state.py): the lifecycle object of *)
(* one live execution test.  Its callers may invoke its methods in any     *)
(* order; a call that raises changes nothing.  The class promises one      *)
(* entry, then at most one exit of a held position, then nothing more.     *)
(***************************************************************************)
EXTENDS Naturals

TerminalStates  == {"COMPLETE", "FAILED", "ABORTED", "HALTED"}
PreEntryStates  == {"INSTRUMENT_VALIDATED"}
PreExitStates   == {"HOLDING"}
RequestedStates == {"ENTRY_REQUESTED", "EXIT_REQUESTED"}

States == {"IDLE", "AUTHENTICATING", "INSTRUMENT_VALIDATED", "ENTRY_REQUESTED",
           "ENTRY_ACKNOWLEDGED", "ENTRY_FILLED", "HOLDING", "EXIT_REQUESTED",
           "EXIT_ACKNOWLEDGED", "EXIT_FILLED", "FLAT_RECONCILED"}
          \cup TerminalStates

\* The successful path, and the states that may fail or be aborted.
Path == {<<"IDLE", "AUTHENTICATING">>,
         <<"AUTHENTICATING", "INSTRUMENT_VALIDATED">>,
         <<"INSTRUMENT_VALIDATED", "ENTRY_REQUESTED">>,
         <<"ENTRY_REQUESTED", "ENTRY_ACKNOWLEDGED">>,
         <<"ENTRY_ACKNOWLEDGED", "ENTRY_FILLED">>,
         <<"ENTRY_FILLED", "HOLDING">>,
         <<"HOLDING", "EXIT_REQUESTED">>,
         <<"EXIT_REQUESTED", "EXIT_ACKNOWLEDGED">>,
         <<"EXIT_ACKNOWLEDGED", "EXIT_FILLED">>,
         <<"EXIT_FILLED", "FLAT_RECONCILED">>,
         <<"FLAT_RECONCILED", "COMPLETE">>}

MayFail  == States \ ({"IDLE", "ENTRY_FILLED", "FLAT_RECONCILED"} \cup TerminalStates)
MayAbort == {"AUTHENTICATING", "INSTRUMENT_VALIDATED"}

AllowedTransitions == Path \cup {<<s, "FAILED">> : s \in MayFail}
                           \cup {<<s, "ABORTED">> : s \in MayAbort}

VARIABLES st, entryGiven, exitGiven

smVars == <<st, entryGiven, exitGiven>>

MachineInit == st = "IDLE" /\ entryGiven = 0 /\ exitGiven = 0

CanGiveEntry == entryGiven = 0 /\ st \in PreEntryStates
CanGiveExit  == exitGiven = 0 /\ st \in PreExitStates

\* transition(): every edge except the two request edges.  fail() and abort()
\* are transitions to FAILED and ABORTED.

CanTransition(target) ==
    /\ target \notin RequestedStates
    /\ <<st, target>> \in AllowedTransitions

TransitionTo(target) ==
    /\ CanTransition(target)
    /\ st' = target
    /\ UNCHANGED <<entryGiven, exitGiven>>

GiveEntry == /\ CanGiveEntry
             /\ entryGiven' = entryGiven + 1
             /\ st' = "ENTRY_REQUESTED"
             /\ UNCHANGED exitGiven

GiveExit == /\ CanGiveExit
            /\ exitGiven' = exitGiven + 1
            /\ st' = "EXIT_REQUESTED"
            /\ UNCHANGED entryGiven

MachineNext == GiveEntry \/ GiveExit \/ \E s \in States : TransitionTo(s)

MachineSpec == MachineInit /\ [][MachineNext]_smVars

-----------------------------------------------------------------------------
\* COMPLETE is only reached by one entry and one exit, no exit is given
\* without an entry before it, and neither is ever given twice (give_entry,
\* give_exit), whatever the order of the calls.
SingleRoundTrip ==
    /\ exitGiven <= entryGiven
    /\ entryGiven <= 1
    /\ st = "COMPLETE" => exitGiven = 1

=============================================================================
