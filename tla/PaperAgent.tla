----------------------------- MODULE PaperAgent -----------------------------
(***************************************************************************)
(* The continuous paper agent (agent/) with the paper session it drives     *)
(* (services/paper_session.py), the two checkpoints it writes at the end of *)
(* every cycle, the trade ledger it appends to, and the process that runs   *)
(* it (scripts/run_paper_agent.py), which may die between any two writes.   *)
(*                                                                          *)
(* Time runs over the instants 1 .. MaxNow; every cycle is at a later       *)
(* instant than the one before.  The market is OPEN at the instants in      *)
(* OpenAt, and the bar named b is complete at instant b.  The provider may  *)
(* deliver a bar late, or behind a later one.  What a bar makes the session *)
(* do is left open: while flat it may buy (a signal, sized and approved),   *)
(* while long it may sell (a signal, or the stop); prices and limits only   *)
(* decide which.                                                            *)
(***************************************************************************)
EXTENDS Naturals, Sequences, FiniteSets

CONSTANTS MaxNow,     \* the last instant
          OpenAt,     \* the instants at which the market is open
          MinGap,     \* the minimum interval between two runs of a job
          MaxCrashes  \* bound on the deaths of the process

ASSUME AgentAssumption ==
    /\ MaxNow \in Nat /\ OpenAt \subseteq 1 .. MaxNow
    /\ MinGap \in Nat \ {0} /\ MaxCrashes \in Nat

VARIABLES now,       \* the instant of the last cycle
          pc,        \* "off", "idle", "poll" or the file being written
          agent,     \* the agent in memory: state, jobs, cycles, synced
          session,   \* the paper session in memory, or None
          eligible,  \* the bars a poll still has to decide
          sessFile,  \* the session snapshot with its metadata
          agentFile, \* the agent record with its metadata
          ledger,    \* the attributed trade ledger: its round trips, does it parse
          crashes,   \* deaths so far
          lost,      \* history: a death left a session no start will find
          name       \* of the session: "safe", or changed by _safe_name

vars == <<now, pc, agent, session, eligible, sessFile, agentFile, ledger,
          crashes, lost, name>>
-----------------------------------------------------------------------------
Bars == OpenAt
Instants == 1 .. MaxNow
AgentStateFor(t) == IF t \in OpenAt THEN "MARKET_OPEN" ELSE "MARKET_CLOSED"

(* A session: the bars consumed, the fills of its portfolio, and the candle *)
(* its open position was entered on, or 0.                                  *)
None == [bars |-> {}, trades |-> <<>>, entry |-> MaxNow + 1]
NewSession == [bars |-> {}, trades |-> <<>>, entry |-> 0]
IsLong(s) == Len(s.trades) % 2 = 1

NewAgent == [state |-> "INIT", jobs |-> 0, cycles |-> 0, synced |-> 0]

(* A fill is stamped by the clock: no two fills of a process, and none of   *)
(* two processes, have the same time.                                       *)
Stamp(s) == <<crashes, Len(s.trades) + 1>>
Trade(s, b) ==
    [side |-> IF IsLong(s) THEN "SELL" ELSE "BUY", bar |-> b, at |-> Stamp(s)]

\* Mutant: the entry candle is kept after the position was closed.
TradedKeepsEntry(s, b) ==
    [s EXCEPT !.trades = Append(@, Trade(s, b)),
              !.entry = IF @ = 0 THEN b ELSE @]
Traded(s, b) ==
    [s EXCEPT !.trades = Append(@, Trade(s, b)),
              !.entry = IF IsLong(s) THEN 0 ELSE b]

(* _process_candle: a bar that is decided may make the session trade.       *)
Decided(s, b) == [s EXCEPT !.bars = @ \cup {b}]
\* Mutant: a candle that traded is not marked as consumed.
ProcessedUnmarked(s, b) == {Decided(s, b), Traded(s, b)}
Processed(s, b) == {Decided(s, b), Traded(Decided(s, b), b)}

(* A payload with its metadata: the hash of what the payload was when the   *)
(* metadata was written.  None and NewAgent stand for a file that does not  *)
(* exist or does not parse.                                                 *)
Whole(f) == f.body = f.sha
NoSession == [body |-> None, sha |-> None]
NoRecord == [body |-> NewAgent, sha |-> NewAgent]
Record == [agent EXCEPT !.synced = 0]
-----------------------------------------------------------------------------
(* start: the agent record, then the session, each only if it is whole; the *)
(* state read is replaced by the one of the clock.                          *)
\* Mutant: the agent starts without its record.
RestoredWithoutRecord(a) == [NewAgent EXCEPT !.state = a.state]
RestoredAgent(a) == IF Whole(agentFile) /\ agentFile.body # NewAgent
                    THEN agentFile.body ELSE a
(* The session is saved under _safe_name of its name and looked up under    *)
(* the name itself: one with a blank, as of the symbol "Nifty 50", is never *)
(* found again.                                                             *)
Found == name = "safe" /\ Whole(sessFile)
RestoredSession == IF Found THEN sessFile.body ELSE None
Synced(s) == IF s = None THEN 0 ELSE Len(s.trades)

Started(a, t) ==
    [RestoredAgent(a) EXCEPT !.state = AgentStateFor(t),
                             !.synced = Synced(RestoredSession)]

Init ==
    /\ now = 1 /\ pc = "off" /\ agent = NewAgent /\ session = None
    /\ eligible = {} /\ sessFile = NoSession /\ agentFile = NoRecord
    /\ ledger = [trips |-> <<>>, reads |-> TRUE] /\ crashes = 0 /\ lost = FALSE
    /\ name \in {"safe", "changed"}

(* The script builds the agent and starts it.                               *)
Boot ==
    /\ pc = "off" /\ pc' = "idle"
    /\ agent' = Started(NewAgent, now) /\ session' = RestoredSession
    /\ UNCHANGED <<now, eligible, sessFile, agentFile, ledger, crashes, lost,
                   name>>

(* The end of a cycle: it is counted, and the checkpoint begins with the    *)
(* session, if there is one, and goes on with the record.                   *)
Ends(a, s) ==
    /\ pc' = (IF s = None THEN "record" ELSE "session") /\ session' = s
    /\ agent' = [a EXCEPT !.cycles = @ + 1] /\ eligible' = {}

(* _open_cycle: the watchdog stops the cycle before the poll, or the poll   *)
(* takes up what the provider delivers and the session has not consumed;    *)
(* nothing, when the provider fails.                                        *)
OpenCycle(a, s, t) ==
    \/ Ends(a, s)
    \/ \E seen \in SUBSET {b \in Bars : b <= t} :
          /\ pc' = "poll" /\ session' = s /\ agent' = a
          /\ eligible' = seen \ s.bars

(* _closed_cycle: a due job runs and may fail; only a success is dated.     *)
JobDue(a, t) == a.jobs = 0 \/ t >= a.jobs + MinGap
ClosedCycle(a, s, t) ==
    \/ Ends(a, s)
    \/ JobDue(a, t) /\ Ends([a EXCEPT !.jobs = t], s)

(* A cycle at t.  Without a session the agent is started again.             *)
AgentAt(t) ==
    IF session = None THEN Started(agent, t)
    ELSE [agent EXCEPT !.state = AgentStateFor(t)]
SessionAt == IF session = None THEN RestoredSession ELSE session
EnsuredSession == IF SessionAt = None THEN NewSession ELSE SessionAt

Cycle ==
    /\ pc = "idle"
    /\ \E t \in now + 1 .. MaxNow :
          /\ now' = t
          /\ \/ agent.state = "HALTED" /\ UNCHANGED <<pc, agent, session, eligible>>
             \/ /\ agent.state # "HALTED" /\ t \in OpenAt
                /\ OpenCycle(AgentAt(t), EnsuredSession, t)
             \/ /\ agent.state # "HALTED" /\ t \notin OpenAt
                /\ ClosedCycle(AgentAt(t), SessionAt, t)
    /\ UNCHANGED <<sessFile, agentFile, ledger, crashes, lost, name>>

(* The poll decides the bars one by one, in the order of time.              *)
Candle ==
    /\ pc = "poll"
    /\ \E b \in eligible :
          /\ \A c \in eligible : b <= c
          /\ session' \in Processed(session, b) /\ eligible' = eligible \ {b}
    /\ UNCHANGED <<now, pc, agent, sessFile, agentFile, ledger, crashes, lost,
                   name>>

(* It raises at a bar: what it decided before stays decided.                *)
PollFails ==
    /\ pc = "poll" /\ eligible # {} /\ Ends(agent, session)
    /\ UNCHANGED <<now, sessFile, agentFile, ledger, crashes, lost, name>>

(* The operator.                                                            *)
Halt ==
    /\ pc = "idle" /\ agent.state # "HALTED"
    /\ agent' = [agent EXCEPT !.state = "HALTED"]
    /\ UNCHANGED <<now, pc, session, eligible, sessFile, agentFile, ledger,
                   crashes, lost, name>>

Resume ==
    /\ pc = "idle"
    /\ agent' = [agent EXCEPT !.state = "INIT"]
    /\ UNCHANGED <<now, pc, session, eligible, sessFile, agentFile, ledger,
                   crashes, lost, name>>
-----------------------------------------------------------------------------
(* pair_round_trips over the whole history.                                 *)
RoundTrips(s) ==
    [n \in 1 .. Len(s.trades) \div 2 |->
        [entry |-> s.trades[2 * n - 1], exit |-> s.trades[2 * n]]]

Trips == ledger.trips
(* A round trip is known by the times of its two fills.                     *)
Known(p) == \E n \in DOMAIN Trips : Trips[n].entry.at = p.entry.at
                                 /\ Trips[n].exit.at = p.exit.at
\* Mutant: the records already in the ledger are written again.
AddedAgain(s) == {RoundTrips(s)}
(* What a sync adds, in the order of the history: the round trips at the    *)
(* places that are not known, of which there is one listing.                *)
Added(s) ==
    LET new == {n \in DOMAIN RoundTrips(s) : ~Known(RoundTrips(s)[n])}
        listings == {at \in [1 .. Cardinality(new) -> new] :
                         /\ \A j, k \in DOMAIN at : j < k => at[j] < at[k]
                         /\ \A n \in new : \E k \in DOMAIN at : at[k] = n}
    IN {[k \in DOMAIN at |-> RoundTrips(s)[at[k]]] : at \in listings}

\* Mutant: a sync that failed counts as done.
SyncLeavesOut ==
    /\ pc = "poll" /\ eligible = {} /\ ledger' = ledger
    /\ Ends([agent EXCEPT !.synced = Len(session.trades)], session)
    /\ UNCHANGED <<now, sessFile, agentFile, crashes, lost, name>>
(* _sync_ledger: only after new fills; a failure is logged and passed over, *)
(* and a ledger that does not parse fails every sync.                       *)
Sync ==
    /\ pc = "poll" /\ eligible = {}
    /\ \/ /\ Len(session.trades) > agent.synced /\ ledger.reads
          /\ \E new \in Added(session) : ledger' = [ledger EXCEPT !.trips = @ \o new]
          /\ Ends([agent EXCEPT !.synced = Len(session.trades)], session)
       \/ ledger' = ledger /\ Ends(agent, session)
    /\ UNCHANGED <<now, sessFile, agentFile, crashes, lost, name>>

(* The checkpoint, a file after the other.                                  *)
Write ==
    /\ \/ /\ pc = "session" /\ pc' = "session.meta"
          /\ sessFile' = [sessFile EXCEPT !.body = session]
          /\ UNCHANGED <<agentFile, lost>>
       \/ /\ pc = "session.meta" /\ pc' = "record"
          /\ sessFile' = [sessFile EXCEPT !.sha = sessFile.body]
          /\ lost' = FALSE /\ UNCHANGED agentFile
       \/ /\ pc = "record" /\ pc' = "record.meta"
          /\ agentFile' = [agentFile EXCEPT !.body = Record]
          /\ UNCHANGED <<sessFile, lost>>
       \/ /\ pc = "record.meta" /\ pc' = "idle"
          /\ agentFile' = [agentFile EXCEPT !.sha = agentFile.body]
          /\ UNCHANGED <<sessFile, lost>>
    /\ UNCHANGED <<now, agent, session, eligible, ledger, crashes, name>>

(* The process dies, or an error ends it.  A write in progress, write_text  *)
(* over the old file, may leave a file that does not parse.                 *)
Torn ==
    \/ UNCHANGED <<sessFile, agentFile, ledger>>
    \/ /\ pc = "session" /\ sessFile' = [sessFile EXCEPT !.body = None]
       /\ UNCHANGED <<agentFile, ledger>>
    \/ /\ pc = "session.meta" /\ sessFile' = [sessFile EXCEPT !.sha = None]
       /\ UNCHANGED <<agentFile, ledger>>
    \/ /\ pc = "record" /\ agentFile' = [agentFile EXCEPT !.body = NewAgent]
       /\ UNCHANGED <<sessFile, ledger>>
    \/ /\ pc = "record.meta" /\ agentFile' = [agentFile EXCEPT !.sha = NewAgent]
       /\ UNCHANGED <<sessFile, ledger>>
    \/ /\ pc = "poll" /\ eligible = {} /\ Len(session.trades) > agent.synced
       /\ ledger.reads /\ <<>> \notin Added(session)
       /\ ledger' = [ledger EXCEPT !.reads = FALSE]
       /\ UNCHANGED <<sessFile, agentFile>>

Crash ==
    /\ pc # "off" /\ crashes < MaxCrashes
    /\ crashes' = crashes + 1 /\ pc' = "off"
    /\ agent' = NewAgent /\ session' = None /\ eligible' = {}
    /\ Torn /\ UNCHANGED <<now, name>> /\ lost' = (lost \/ ~Found')

Next == \/ Boot \/ Cycle \/ Candle \/ PollFails \/ Sync \/ Halt \/ Resume
        \/ Write \/ Crash

Spec == Init /\ [][Next]_vars
-----------------------------------------------------------------------------
(* The shape of the state.                                                  *)
Fills == [side : {"BUY", "SELL"}, bar : Bars, at : Nat \X Nat]
Sessions == [bars : SUBSET Bars, trades : Seq(Fills),
             entry : Bars \cup {0, MaxNow + 1}]
Agents == [state : {"INIT", "HALTED", "MARKET_OPEN", "MARKET_CLOSED"},
           jobs : 0 .. MaxNow, cycles : Nat, synced : Nat]
TypeOK ==
    /\ now \in Nat
    /\ pc \in {"off", "idle", "poll", "session", "session.meta", "record",
               "record.meta"}
    /\ agent \in Agents /\ agentFile \in [body : Agents, sha : Agents]
    /\ session \in Sessions /\ sessFile \in [body : Sessions, sha : Sessions]
    /\ pc \in {"poll", "session", "session.meta"} => session # None
    /\ eligible \subseteq Bars \ session.bars
    /\ agent.synced <= Len(session.trades)
    /\ ledger \in [trips : Seq([entry : Fills, exit : Fills]), reads : BOOLEAN]
    /\ crashes \in 0 .. MaxCrashes /\ lost \in BOOLEAN
    /\ name \in {"safe", "changed"}

(* The stop only protects a position whose entry candle the session knows   *)
(* (paper_session.py:430): in memory and in every snapshot, restored or     *)
(* not, a long position has the candle it was bought on and a flat session  *)
(* has none.                                                                *)
StopArmed ==
    \A s \in {session, sessFile.body, sessFile.sha} : s # None =>
        s.entry = IF IsLong(s) THEN s.trades[Len(s.trades)].bar ELSE 0

(* "A restart resumes exactly where the loop stopped" (agent.py:20): the    *)
(* account on disk only goes on, but for a death inside a checkpoint and    *)
(* for any death when the session's name is not one that _safe_name keeps:  *)
(* then a new process starts an account of its own, and overwrites it.      *)
Account(s) == [bars |-> s.bars, trades |-> s.trades]
Durable == INSTANCE RestartableAccount WITH
               account <- IF lost
                          THEN [bars |-> {},
                                trades |-> <<[side |-> "LOST", bar |-> 0]>>]
                          ELSE Account(sessFile.sha)
AccountGoesOn == Durable!AccountSpec

(* The ledger never has a round trip twice, unless a death made a new       *)
(* process trade the same bars again.                                       *)
DuplicatesFromDeaths ==
    \A m, n \in DOMAIN Trips :
        (m # n /\ Trips[m].entry.bar = Trips[n].entry.bar
               /\ Trips[m].exit.bar = Trips[n].exit.bar)
            => Trips[m].exit.at[1] # Trips[n].exit.at[1]

(* A job that succeeded is not repeated before its interval is over, over   *)
(* restarts too, as long as the record was whole.                           *)
JobsSpaced ==
    [][(Whole(agentFile) /\ agentFile.body.jobs # 0 /\ agentFile'.body # NewAgent
            /\ agentFile'.body.jobs # agentFile.body.jobs)
         => agentFile'.body.jobs >= agentFile.body.jobs + MinGap]_vars

(* A ledger that is not read as ahead of its session holds every round trip *)
(* this process closed.                                                     *)
LedgerKeepsUp ==
    (session # None /\ pc # "off" /\ agent.synced = Len(session.trades))
        => \A n \in DOMAIN RoundTrips(session) :
              LET p == RoundTrips(session)[n]
              IN p.exit.at[1] = crashes => \E k \in DOMAIN Trips : Trips[k] = p

=============================================================================
