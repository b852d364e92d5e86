----------------------------- MODULE PaperTrack -----------------------------
(***************************************************************************)
(* The daily paper trading track (paper_track/): the engine that steps      *)
(* through the ticks of a session, the store that keeps its checkpoints,    *)
(* reports and manifest, and the runner that drives one day per invocation  *)
(* and resumes the account from the latest checkpoint.  A process may die   *)
(* between any two writes to the disk.                                      *)
(*                                                                          *)
(* Time.  A session has the ticks 0 .. NBars + 1: tick 0 is the pre-open    *)
(* tick, the bar of slot t is complete at tick t, and tick NBars + 1 is the *)
(* tick after the close.  Ticks before FlattenTick are TRADING, ticks from  *)
(* FlattenTick to NBars (15:30, still inside market_phase OPEN) are         *)
(* FLATTENING.  A bar is named by the instant at which it is complete, so   *)
(* its timestamp, the start of its window, is one instant earlier.          *)
(***************************************************************************)
EXTENDS Naturals, Sequences, FiniteSets

CONSTANTS NDays,        \* number of trading days
          NBars,        \* bars of a session
          FlattenTick,  \* the first tick of the flatten window
          Feed,         \* "complete", or "gappy": bars may be late or missing
          MaxCrashes    \* bound on the deaths of a process

ASSUME TrackAssumption ==
    /\ NDays \in Nat \ {0}
    /\ NBars \in Nat
    /\ FlattenTick \in 2 .. NBars - 1
    /\ Feed \in {"complete", "gappy"}
    /\ MaxCrashes \in Nat

VARIABLES pc,        \* "off", "tick", "write" or "hash"
          run,       \* the day the process was started for
          tick,      \* the next tick of the session
          eng,       \* the memory of the engine
          todo,      \* the files the engine still writes at this tick
          ckpt,      \* the checkpoint of each day
          report,    \* the report of each day
          manifest,  \* the manifest of the runs
          crashes    \* deaths so far

disk == <<ckpt, report, manifest>>
vars == <<pc, run, tick, eng, todo, ckpt, report, manifest, crashes>>
-----------------------------------------------------------------------------
Days == 1 .. NDays
Span == NBars + 2
At(d, t) == (d - 1) * Span + t
Bars == {At(d, t) : d \in Days, t \in 1 .. NBars}
DayOf(i) == (i \div Span) + 1
SlotOf(i) == i % Span

(* The verdict of the session policy at a tick.                             *)
Gate(t) ==
    IF t = 0 THEN "SKIP"
    ELSE IF t < FlattenTick THEN "TRADING"
    ELSE IF t <= NBars THEN "FLATTENING" ELSE "CLOSING"

AllowsFlatten(t) == Gate(t) \in {"FLATTENING", "CLOSING"}

(* A file and the sha256 sidecar beside it: each holds nothing, or the      *)
(* payload it was last written from.                                        *)
NoFile == [body |-> <<>>, sha |-> <<>>]
Exists(f) == f.body # <<>>
Readable(f) == Exists(f) => f.sha = f.body

(* An engine that has restored no checkpoint.  "open" is the instant the    *)
(* open position was filled at, or 0.                                       *)
NewEngine ==
    [day |-> 0, last |-> 0, open |-> 0, fills |-> <<>>, eod |-> "NONE",
     final |-> {}]

ReportOf(e) == [fills |-> e.fills, open |-> e.open, eod |-> e.eod]
-----------------------------------------------------------------------------
(* The clock shows the tick; the first step of another day rolls the        *)
(* session over.                                                            *)
Now == At(run, tick)
Rolls == eng.day \notin {0, run}
Rolled ==
    IF eng.day = run THEN eng
    ELSE [eng EXCEPT !.day = run, !.eod = IF Rolls THEN "NONE" ELSE @]

Bought(e, b) ==
    [e EXCEPT !.open = Now,
              !.fills = Append(@, [side |-> "BUY", bar |-> b, at |-> Now])]
Sold(e, b) ==
    [e EXCEPT !.open = 0,
              !.fills = Append(@, [side |-> "SELL", bar |-> b, at |-> Now])]
Flattened(e, b) == [Sold(e, b) EXCEPT !.eod = "FLATTENED"]

(* The stop rule looks at a bar only when the position was filled before    *)
(* the bar's window started.                                                *)
StopFires(e, b, low) == low /\ e.open < b - 1

\* Mutant: the bar consumed last is a candidate again.
CandidatesAgain == {b \in Bars : DayOf(b) = run /\ b <= Now /\ b >= eng.last}

(* The bars the engine may consume at this tick: completed, of today, and   *)
(* later than everything consumed before.                                   *)
Candidates == {b \in Bars : DayOf(b) = run /\ b <= Now /\ b > eng.last}

(* The next bar of a fetch: the oldest one delivered.                       *)
Served(b) == Feed = "complete" => \A c \in Candidates : b <= c
NothingServed == Feed = "complete" => Candidates = {}

\* Mutant: entries are allowed until the close.
EnteredInWindow(e, b, signal) ==
    IF e.open = 0 /\ signal = "BUY" /\ tick <= NBars THEN Bought(e, b) ELSE e

(* The engine after a bar: entry, then exit or stop, then the flatten.      *)
Entered(e, b, signal) ==
    IF e.open = 0 /\ signal = "BUY" /\ Gate(tick) = "TRADING"
    THEN Bought(e, b) ELSE e
Protected(e, b, signal, low) ==
    IF e.open # 0 /\ (signal = "SELL" \/ StopFires(e, b, low))
    THEN Sold(e, b) ELSE e
\* Mutant: the flatten waits for the close.
ClosedAfterHours(e, b) ==
    IF e.open # 0 /\ Gate(tick) = "CLOSING" THEN Flattened(e, b) ELSE e
Closed(e, b) ==
    IF e.open # 0 /\ AllowsFlatten(tick) THEN Flattened(e, b) ELSE e

Processed(e, b, signal, low) ==
    [Closed(Protected(Entered(e, b, signal), b, signal, low), b)
        EXCEPT !.last = b]

ReportWrites(e) == IF e.day \in e.final THEN <<>> ELSE <<"report", "run">>

(* What _maybe_finalize writes at the close.                                *)
FinalWrites(e) ==
    IF tick < NBars THEN <<>>
    ELSE (IF e.eod = "NONE" /\ e.open = 0 THEN <<"close">> ELSE <<>>)
         \o ReportWrites(e)
-----------------------------------------------------------------------------
Checkpointed == {d \in Days : Exists(ckpt[d])}
Begun == {d \in Days : Exists(ckpt[d]) \/ Exists(report[d])}
Latest == CHOOSE d \in Checkpointed : \A c \in Checkpointed : c <= d

Off == pc' = "off" /\ run' = 0 /\ tick' = 0 /\ eng' = NewEngine /\ todo' = <<>>

\* Mutant: a run that does not resume, as the other commands start one.
StartFresh(d) ==
    /\ pc = "off"
    /\ \A c \in Begun : c <= d
    /\ pc' = "tick" /\ run' = d /\ tick' = 0 /\ todo' = <<>>
    /\ eng' = NewEngine
    /\ UNCHANGED <<disk, crashes>>

(* The live-daily command for day d, on an account whose days are run in    *)
(* calendar order: refused when the day has a report or the latest          *)
(* checkpoint does not verify.                                              *)
Start(d) ==
    /\ pc = "off"
    /\ \A c \in Begun : c <= d
    /\ ~Exists(report[d])
    /\ Checkpointed # {} => Readable(ckpt[Latest])
    /\ pc' = "tick" /\ run' = d /\ tick' = 0 /\ todo' = <<>>
    /\ eng' = IF Checkpointed = {} THEN NewEngine ELSE ckpt[Latest].body[1]
    /\ UNCHANGED <<disk, crashes>>

Stepping == pc = "tick" /\ tick <= NBars + 1
Advance == pc' = "tick" /\ tick' = tick + 1 /\ todo' = <<>>
Writing(files) == pc' = "write" /\ todo' = files /\ UNCHANGED tick

(* The date rolls with a position open: TrackPolicyViolation ends the run.  *)
RefuseRoll ==
    /\ Stepping
    /\ Rolls /\ eng.open # 0
    /\ Off
    /\ UNCHANGED <<disk, crashes>>

MayStep == Stepping /\ ~(Rolls /\ eng.open # 0)

(* No fetch at all: before the open, or after the close when flat.          *)
Skip ==
    /\ MayStep
    /\ Gate(tick) = "SKIP" \/ (Gate(tick) = "CLOSING" /\ eng.open = 0)
    /\ eng' = Rolled
    /\ Advance
    /\ UNCHANGED <<run, disk, crashes>>

Fetches ==
    /\ MayStep
    /\ Gate(tick) # "SKIP"
    /\ Gate(tick) = "CLOSING" => eng.open # 0

Process ==
    /\ Fetches
    /\ \E b \in Candidates, signal \in {"BUY", "SELL", "HOLD"}, low \in BOOLEAN :
         /\ Served(b)
         /\ eng' = Processed(Rolled, b, signal, low)
    /\ Writing(<<"ckpt">> \o FinalWrites(eng'))
    /\ UNCHANGED <<run, disk, crashes>>

Idle ==
    /\ Fetches
    /\ NothingServed
    /\ ~(eng.open # 0 /\ AllowsFlatten(tick))
    /\ eng' = Rolled
    /\ Advance
    /\ UNCHANGED <<run, disk, crashes>>

(* No new bar in the flatten window: exit at the last close of the history. *)
IdleFlatten ==
    /\ Fetches
    /\ NothingServed
    /\ eng.open # 0 /\ AllowsFlatten(tick)
    /\ eng' = Flattened(Rolled, eng.last)
    /\ Writing(<<"ckpt">>)
    /\ UNCHANGED <<run, disk, crashes>>

\* Mutant: a session ends without its report.
EndSessionSilent ==
    /\ pc = "tick" /\ tick = NBars + 2
    /\ Off
    /\ UNCHANGED <<disk, crashes>>

(* The session's last call: the report, unless the day has one.             *)
EndSession ==
    /\ pc = "tick" /\ tick = NBars + 2
    /\ IF ReportWrites(eng) = <<>> THEN Off
       ELSE Writing(ReportWrites(eng)) /\ UNCHANGED <<run, eng>>
    /\ UNCHANGED <<disk, crashes>>
-----------------------------------------------------------------------------
(* write_atomic: the payload replaces the file, then the sidecar is written. *)
WriteCheckpoint ==
    /\ pc = "write" /\ Head(todo) \in {"ckpt", "close"}
    /\ eng' = IF Head(todo) = "close" THEN [eng EXCEPT !.eod = "FLAT"] ELSE eng
    /\ ckpt' = [ckpt EXCEPT ![eng.day].body = <<eng'>>]
    /\ pc' = "hash"
    /\ UNCHANGED <<run, tick, todo, report, manifest, crashes>>

WriteReport ==
    /\ pc = "write" /\ Head(todo) = "report"
    /\ report' = [report EXCEPT ![eng.day].body = <<ReportOf(eng)>>]
    /\ pc' = "hash"
    /\ UNCHANGED <<run, tick, eng, todo, ckpt, manifest, crashes>>

(* update_run reads the manifest first; a manifest that does not verify     *)
(* raises out of the run.                                                   *)
WriteRun ==
    /\ pc = "write" /\ Head(todo) = "run"
    /\ IF Readable(manifest)
       THEN /\ manifest' = [manifest EXCEPT !.body = <<[day |-> eng.day, status |-> eng.eod]>>]
            /\ pc' = "hash"
            /\ UNCHANGED <<run, tick, eng, todo>>
       ELSE Off /\ UNCHANGED manifest
    /\ UNCHANGED <<ckpt, report, crashes>>

Hashed(f) == [f EXCEPT !.sha = f.body]

(* The sidecar; after the last file of the tick the clock moves on.         *)
Hash ==
    /\ pc = "hash"
    /\ LET file == Head(todo) IN
       /\ ckpt' = IF file \in {"ckpt", "close"}
                  THEN [ckpt EXCEPT ![eng.day] = Hashed(@)] ELSE ckpt
       /\ report' = IF file = "report"
                    THEN [report EXCEPT ![eng.day] = Hashed(@)] ELSE report
       /\ manifest' = IF file = "run" THEN Hashed(manifest) ELSE manifest
       /\ eng' = IF file = "report"
                 THEN [eng EXCEPT !.final = @ \cup {eng.day}] ELSE eng
    /\ todo' = Tail(todo)
    /\ IF Tail(todo) # <<>> THEN pc' = "write" /\ UNCHANGED tick
       ELSE pc' = "tick" /\ tick' = IF tick = NBars + 2 THEN tick ELSE tick + 1
    /\ UNCHANGED <<run, crashes>>

(* The process dies, or an error of the feed ends the run.  Everything the  *)
(* engine did since the last write was only in its memory.                  *)
Crash ==
    /\ pc # "off"
    /\ crashes < MaxCrashes
    /\ crashes' = crashes + 1
    /\ Off
    /\ UNCHANGED disk
-----------------------------------------------------------------------------
Init ==
    /\ pc = "off" /\ run = 0 /\ tick = 0 /\ eng = NewEngine /\ todo = <<>>
    /\ ckpt = [d \in Days |-> NoFile]
    /\ report = [d \in Days |-> NoFile]
    /\ manifest = NoFile
    /\ crashes = 0

Step == \/ RefuseRoll \/ Skip \/ Process \/ Idle \/ IdleFlatten \/ EndSession
        \/ WriteCheckpoint \/ WriteReport \/ WriteRun \/ Hash

Next == (\E d \in Days : Start(d)) \/ Step \/ Crash

Spec == Init /\ [][Next]_vars
FairSpec == Spec /\ WF_vars(Step) /\ \A d \in Days : SF_vars(Start(d))
-----------------------------------------------------------------------------
(* TypeOK: every file holds what the engine writes there, whatever was      *)
(* interrupted (engine.py state_payload, store.py write_atomic).            *)
Sides == {"BUY", "SELL"}
Statuses == {"NONE", "FLAT", "FLATTENED"}
Instants == 0 .. NDays * Span - 1
Fill == [side : Sides, bar : Bars, at : Instants]
Engine == [day : 0 .. NDays, last : {0} \cup Bars, open : Instants,
           fills : Seq(Fill), eod : Statuses, final : SUBSET Days]
Report == [fills : Seq(Fill), open : Instants, eod : Statuses]
File(payload) == [body : Seq(payload), sha : Seq(payload)]

TypeOK ==
    /\ pc \in {"off", "tick", "write", "hash"}
    /\ run \in 0 .. NDays
    /\ pc # "off" => run \in Days
    /\ tick \in 0 .. NBars + 2
    /\ eng \in Engine
    /\ todo \in Seq({"ckpt", "close", "report", "run"})
    /\ pc \in {"write", "hash"} => todo # <<>> /\ eng.day \in Days
    /\ ckpt \in [Days -> File(Engine)]
    /\ report \in [Days -> File(Report)]
    /\ manifest \in File([day : Days, status : Statuses])
    /\ crashes \in 0 .. MaxCrashes

(* The account a restart would find on the disk.                            *)
Saved == IF Checkpointed = {} THEN NewEngine ELSE ckpt[Latest].body[1]

Account ==
    [day |-> Saved.day, last |-> Saved.last, open |-> Saved.open # 0,
     fills |-> [i \in DOMAIN Saved.fills |->
                  [side |-> Saved.fills[i].side, bar |-> Saved.fills[i].bar]],
     eod |-> Saved.eod]

Ledger == INSTANCE DurableLedger WITH ledger <- Account

(* Durable: over all the days, deaths and restarts, the account on the disk *)
(* advances as one uninterrupted run would: no bar twice, no trade lost or  *)
(* repeated, no position carried into the next day (runbook: "a restart at  *)
(* any point resumes deterministically"; engine.py load, step, _checkpoint).*)
Durable == Ledger!LedgerSpec

(* ReportMatchesLedger: the report of a day shows the trades of the account *)
(* as that day left it, also when it was written by a restarted process or  *)
(* when later days went on trading (report.py build_report, INV-15).        *)
ReportMatchesLedger ==
    \A d \in Days : Exists(report[d]) =>
        LET upto == {c \in Checkpointed : c <= d} IN
        report[d].body[1].fills =
            IF upto = {} THEN <<>>
            ELSE ckpt[CHOOSE c \in upto : \A b \in upto : b <= c].body[1].fills

(* ReportedFlat: a day with a report was left flat, whatever bars came late *)
(* or never and whenever the process died (INV-5, engine.py                 *)
(* _idle_or_flatten).                                                       *)
ReportedFlat ==
    \A d \in Days : Exists(report[d]) => report[d].body[1].open = 0

(* EntriesBeforeFlatten: every entry happened before the flatten window,    *)
(* and every trade on a completed bar of the day of the trade: no restart   *)
(* and no backlog of late bars trades on a bar of another day or of the     *)
(* future (policy.py gate, bars.py _bar_reason).                            *)
EntriesBeforeFlatten ==
    \A i \in DOMAIN Saved.fills :
        LET f == Saved.fills[i] IN
        /\ f.side = "BUY" => SlotOf(f.at) < FlattenTick
        /\ f.bar <= f.at /\ DayOf(f.bar) = DayOf(f.at)

(* DayEnds: every day gets its report, unless a later day was begun first   *)
(* or a checkpoint was torn (runner.py run_sessions).                       *)
DayEnds ==
    \A d \in Days :
        <>(\/ Exists(report[d])
           \/ \E c \in Begun : c > d \/ ~Readable(ckpt[c]))
=============================================================================
