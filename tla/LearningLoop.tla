---------------------------- MODULE LearningLoop ----------------------------
(***************************************************************************)
(* The learning loop (learning/loop.py, driven by                           *)
(* scripts/run_learning_loop.py), the operator's registry commands          *)
(* (scripts/manage_model_versions.py), the promotion gate, and the two      *)
(* files they share without a lock: the registry's log and the experience   *)
(* store.  A process is one run of either script; it reads the files when   *)
(* it starts and then works from memory.                                    *)
(*                                                                          *)
(* The outcome of a comparison is left open but for one thing: a strategy   *)
(* does not fall short of itself.  Each batch of days gives one experience  *)
(* for each strategy that is champion over it.                              *)
(***************************************************************************)
EXTENDS ModelRegistry

CONSTANTS Proc,       \* runs of the scripts
          Strategies, \* strategies, each with its parameters
          Baseline,   \* the strategy every registry starts from
          NameOf,     \* the name of each strategy
          Built,      \* what the factory of a name builds, for the known names
          Candidates, \* the candidates of a cycle, in their order
          Plain,      \* the strategies whose parameters JSON can express
          Batches,    \* the batches of days
          MaxVersions, \* bound on the versions in the registry
          MaxRuns,    \* bounds on the runs of the loop and of the command
          MaxCrashes  \* bound on the deaths of a process

ASSUME LoopAssumption ==
    /\ Baseline \in Strategies /\ Candidates \in Seq(Strategies)
    /\ NameOf[Baseline] \in DOMAIN Built /\ Built[NameOf[Baseline]] = Baseline
    /\ {Batches, MaxVersions, MaxCrashes} \subseteq Nat
    /\ MaxRuns \in [{"cycle", "command"} -> Nat]

VARIABLES record,  \* the registry's log: the registry it loads as
          store,   \* the experience store's log (its records) and metadata
          proc,    \* the processes
          runs,    \* runs so far, of either kind
          crashes, \* deaths so far
          clipped, \* a death left the log's last line without its end
          shared,  \* history: two processes were at work at the same time
          cut,     \* history: a death cut a flush of the store short
          behind,  \* history: the processes that another one's line has
                   \* overtaken since they read the log
          raced    \* history: such a process appended a line all the same

vars == <<record, store, proc, runs, crashes, clipped, shared, cut, behind, raced>>
log == <<record, clipped, behind, raced>>
-----------------------------------------------------------------------------
Off == [pc |-> "off", reg |-> Empty, line |-> <<>>, mem |-> <<>>, batch |-> 1,
        champion |-> Baseline, good |-> {}, left |-> <<>>]

Init ==
    /\ record = Empty
    /\ store = [exists |-> FALSE, records |-> <<>>, reads |-> TRUE, meta |-> FALSE]
    /\ proc = [p \in Proc |-> Off]
    /\ runs = [kind \in {"cycle", "command"} |-> 0] /\ crashes = 0
    /\ clipped = FALSE /\ behind = {} /\ raced = FALSE
    /\ shared = FALSE /\ cut = FALSE

Becomes(p, q) == proc' = [proc EXCEPT ![p] = q]

(* _apply: memory changes first, and the line is still to be written.       *)
Applies(p, q, line) ==
    /\ line.act \in {"start", "promote"} => Len(q.reg.chain) < MaxVersions
    /\ Becomes(p, [q EXCEPT !.reg = Applied(@, line), !.line = <<line>>])

(* _persist: the line is appended to whatever the log holds by then.        *)
\* Mutant: an append that is repeated after it had already been written.
AppendedTwice(line) == Applied(Applied(record, Logged(line)), Logged(line))
Appended(line) == Applied(record, Logged(line))

(* The line of one process overtakes every other that is at work.           *)
Overtakes(p) ==
    /\ raced' = (raced \/ p \in behind)
    /\ behind' = behind \cup {r \in Proc \ {p} : proc[r].pc # "off"}

Persist(p) ==
    LET q == proc[p]
    IN /\ q.pc \in {"cycle", "gate", "command"} /\ q.line # <<>>
       /\ record' = IF clipped THEN Corrupt ELSE Appended(q.line[1])
       /\ Becomes(p, IF q.pc = "command" THEN Off ELSE [q EXCEPT !.line = <<>>])
       /\ Overtakes(p)
       /\ UNCHANGED <<store, runs, crashes, clipped, shared, cut>>

(* The champion the registry's active version stands for: what the factory  *)
(* of its name builds, whatever its parameters.                             *)
Resolved(reg, otherwise) ==
    IF Started(reg) /\ NameOf[ActiveVersion(reg).strategy] \in DOMAIN Built
    THEN Built[NameOf[ActiveVersion(reg).strategy]] ELSE otherwise
-----------------------------------------------------------------------------
(* A script starts: the store loads unless its log is unreadable or has no  *)
(* metadata, and the registry unless its log is corrupt.                    *)
StoreLoads == store.exists => store.reads /\ store.meta

Begins(p, q) ==
    /\ proc[p].pc = "off" /\ record.ok
    /\ runs[q.pc] < MaxRuns[q.pc] /\ runs' = [runs EXCEPT ![q.pc] = @ + 1]
    /\ shared' = (shared \/ \E other \in Proc \ {p} : proc[other].pc # "off")
    /\ Becomes(p, [q EXCEPT !.reg = record]) /\ behind' = behind \ {p}
    /\ UNCHANGED <<record, store, crashes, clipped, cut, raced>>

BeginLoop(p) ==
    StoreLoads /\ Begins(p, [Off EXCEPT !.pc = "cycle", !.mem = store.records,
                                        !.champion = Resolved(record, Baseline)])
BeginCommand(p) == Begins(p, [Off EXCEPT !.pc = "command"])

(* The loop's first act in an empty registry.                               *)
StartBaseline(p) ==
    /\ proc[p].pc = "cycle" /\ ~Started(proc[p].reg)
    /\ Applies(p, proc[p], StartLine(Baseline))
    /\ UNCHANGED <<log, store, runs, crashes, shared, cut>>

(* run_cycle, up to the verdicts: the candidates that pass the gate, then   *)
(* the capture of the champion's experiences, merged if they are new.       *)
Compared == {Candidates[n] : n \in DOMAIN Candidates}
Passing(champion) ==
    {good \in SUBSET Compared : champion \in Compared => champion \in good} \cup {{}}
Experience(q) == <<q.batch, q.champion>>

Merged(q) == IF \E n \in DOMAIN q.mem : q.mem[n] = Experience(q)
             THEN q.mem ELSE Append(q.mem, Experience(q))

\* Mutant: the verdicts are acted on before the experiences are stored.
AfterMergeUnsaved(q) == "gate"
AfterMerge(q) == IF Merged(q) = q.mem THEN "gate" ELSE "truncate"

Cycle(p) ==
    LET q == proc[p]
    IN /\ q.pc = "cycle" /\ q.line = <<>> /\ Started(q.reg)
       /\ \E good \in Passing(q.champion) :
             Becomes(p, [q EXCEPT !.pc = AfterMerge(q), !.mem = Merged(q),
                                  !.good = good, !.left = Candidates])
       /\ UNCHANGED <<log, store, runs, crashes, shared, cut>>

(* _flush: the log is truncated, then written whole, then the metadata.     *)
Truncate(p) ==
    /\ proc[p].pc = "truncate" /\ Becomes(p, [proc[p] EXCEPT !.pc = "write"])
    /\ store' = [store EXCEPT !.exists = TRUE, !.records = <<>>, !.reads = TRUE]
    /\ UNCHANGED <<log, runs, crashes, shared, cut>>

WriteRecords(p) ==
    /\ proc[p].pc = "write" /\ Becomes(p, [proc[p] EXCEPT !.pc = "meta"])
    /\ store' = [store EXCEPT !.records = proc[p].mem, !.reads = TRUE]
    /\ UNCHANGED <<log, runs, crashes, shared, cut>>

WriteMeta(p) ==
    /\ proc[p].pc = "meta" /\ Becomes(p, [proc[p] EXCEPT !.pc = "gate"])
    /\ store' = [store EXCEPT !.meta = TRUE]
    /\ UNCHANGED <<log, runs, crashes, shared, cut>>

(* The verdict of a candidate is looked up by its name: of the candidates   *)
(* that share it, the last one's comparison is the one kept.                *)
ComparedAs(c) ==
    Candidates[CHOOSE n \in DOMAIN Candidates :
                  /\ NameOf[Candidates[n]] = NameOf[c]
                  /\ \A m \in n + 1 .. Len(Candidates) :
                        NameOf[Candidates[m]] # NameOf[c]]
Promoted(q, c) == ComparedAs(c) \in q.good
Due(q) == {n \in DOMAIN q.left : Promoted(q, q.left[n])}

(* The evidence of a promotion: who was promoted, over which experience,    *)
(* and (a history field) whether it had passed the gate itself.             *)
EarnedLine(q, c) ==
    PromoteLine(q.reg, c, {[over |-> Experience(q), earned |-> c \in q.good]},
                IF c \in Plain THEN "plain" ELSE "rich")

(* The next candidate that is promoted; the champion of the comparison and  *)
(* the verdicts stay the same, whoever is promoted before.                  *)
Gate(p) ==
    LET q == proc[p]
    IN /\ q.pc = "gate" /\ q.line = <<>>
       /\ \E n \in Due(q) :
             /\ \A m \in Due(q) : n <= m
             /\ Applies(p, [q EXCEPT !.left = SubSeq(@, n + 1, Len(@))],
                        EarnedLine(q, q.left[n]))
       /\ UNCHANGED <<log, store, runs, crashes, shared, cut>>

(* The next batch, with the champion the registry now stands for, or the    *)
(* end of the run.                                                          *)
NextCycle(p) ==
    LET q == proc[p]
    IN /\ q.pc = "gate" /\ q.line = <<>> /\ Due(q) = {}
       /\ Becomes(p, IF q.batch = Batches THEN Off
                     ELSE [q EXCEPT !.pc = "cycle", !.batch = @ + 1, !.good = {},
                                    !.champion = Resolved(q.reg, @)])
       /\ UNCHANGED <<log, store, runs, crashes, shared, cut>>
-----------------------------------------------------------------------------
(* An operator's command: a baseline, a promotion on the strength of a      *)
(* report, which names its strategy freely, a rollback, or a refusal.       *)
CommandLines(reg) ==
    IF ~Started(reg) THEN {StartLine(s) : s \in Strategies}
    ELSE {PromoteLine(reg, s, {}, "plain") : s \in Strategies}
            \cup (IF CanRollBack(reg) THEN {RollbackLine(reg)} ELSE {})
            \cup {RollbackToLine(id) : id \in Targets(reg)}

Command(p) ==
    /\ proc[p].pc = "command" /\ proc[p].line = <<>>
    /\ \/ \E line \in CommandLines(proc[p].reg) : Applies(p, proc[p], line)
       \/ Becomes(p, Off)
    /\ UNCHANGED <<log, store, runs, crashes, shared, cut>>

(* What a death leaves of the line that was being appended: nothing, a part *)
(* of it, which no load accepts, or all of it but the newline, so that the  *)
(* next line will be a part of this one.                                    *)
Clips(p, line) ==
    \/ UNCHANGED log
    \/ /\ record' = Corrupt \/ (~clipped /\ record' = Appended(line))
       /\ clipped' = TRUE /\ Overtakes(p)

(* A process dies, or an error ends it.  What it had written of the store   *)
(* is some of the records, the last of them perhaps not to its end, or      *)
(* metadata that does not parse.                                            *)
Crash(p) ==
    /\ proc[p].pc # "off" /\ crashes < MaxCrashes
    /\ crashes' = crashes + 1 /\ Becomes(p, Off)
    /\ cut' = (cut \/ proc[p].pc \in {"write", "meta"})
    /\ \/ /\ proc[p].pc = "write"
          /\ \E n \in 0 .. Len(proc[p].mem), r \in BOOLEAN :
                store' = [store EXCEPT !.records = SubSeq(proc[p].mem, 1, n),
                                       !.reads = r]
       \/ proc[p].pc = "meta" /\ store' = [store EXCEPT !.meta = FALSE]
       \/ proc[p].pc # "write" /\ UNCHANGED store
    /\ IF proc[p].line = <<>> THEN UNCHANGED log ELSE Clips(p, proc[p].line[1])
    /\ UNCHANGED <<runs, shared>>

Next ==
    \E p \in Proc :
       \/ BeginLoop(p) \/ BeginCommand(p) \/ StartBaseline(p) \/ Cycle(p)
       \/ Truncate(p) \/ WriteRecords(p) \/ WriteMeta(p) \/ Gate(p) \/ NextCycle(p)
       \/ Command(p) \/ Persist(p) \/ Crash(p)

Spec == Init /\ [][Next]_vars
-----------------------------------------------------------------------------
(* The shape of the state, and at most one active version in every registry *)
(* in memory and in the log: the one the active position stands at.         *)
RegistryOK(reg) ==
    /\ reg.active \in 0 .. Len(reg.chain) /\ Len(reg.status) = Len(reg.chain)
    /\ Started(reg) =>
           {n \in DOMAIN reg.status : reg.status[n] = "ACTIVE"} = {reg.active}
TypeOK ==
    /\ RegistryOK(record) /\ \A p \in Proc : RegistryOK(proc[p].reg)
    /\ {clipped, shared, cut, raced, store.reads, store.meta} \subseteq BOOLEAN
    /\ behind \subseteq Proc
    /\ store.records \in Seq((1 .. Batches) \X Strategies)
    /\ crashes \in 0 .. MaxCrashes
    /\ \A kind \in DOMAIN MaxRuns : runs[kind] \in 0 .. MaxRuns[kind]

(* "Fully deterministic given the log" (registry.py:8).  The log loads      *)
(* unless a process appended a line after another's line had overtaken it,  *)
(* or a death clipped a line; until then the memory of every process that   *)
(* was not overtaken is what the log loads as, or will with the line that   *)
(* is still to be written, but for parameters that JSON turns into text.    *)
LogWith(line) == IF line = <<>> THEN record ELSE Applied(record, Logged(line[1]))
MemoryIsLog ==
    /\ record.ok \/ raced \/ clipped
    /\ ~raced /\ record.ok => \A p \in Proc \ behind :
           proc[p].pc # "off" => AsLogged(proc[p].reg) = LogWith(proc[p].line)

(* The title goes only to a new version or back to one appointed before the *)
(* one that loses it, in the order of the log, whatever was promoted and    *)
(* rolled back in between.  That may be a version rolled back before, which *)
(* "back to the last previous champion" (registry.py:185) is not.  Nothing  *)
(* is said of a log that no longer loads or was written past a process.     *)
Title == INSTANCE Championship WITH
    title <- IF raced \/ ~record.ok THEN [line |-> <<>>, champion |-> 1]
             ELSE IF ~Started(record) THEN [line |-> <<>>, champion |-> 0]
             ELSE [line |-> [n \in DOMAIN record.chain |-> record.chain[n].id],
                   champion |-> ActiveVersion(record).id]
TitlePassesOn == Title!TitleSpec

(* The experiences a promotion rests on are in the store, unless a flush    *)
(* was cut short or a second process overwrote them.                        *)
EvidenceStored ==
    (~shared /\ ~cut /\ \A p \in Proc : proc[p].pc # "write") =>
        \A n \in DOMAIN record.chain : \A e \in record.chain[n].evidence :
            \E k \in DOMAIN store.records : store.records[k] = e.over

(* PROGRESS.md:699: "Promotion requires the challenger to beat the champion *)
(* out-of-sample": the loop promotes only a candidate that passed the gate. *)
PromotedOnItsOwn ==
    \A n \in DOMAIN record.chain : \A e \in record.chain[n].evidence : e.earned
=============================================================================
