------------------------------ MODULE FreshOos ------------------------------
(***************************************************************************)
(* Collection of fresh out-of-sample days (fresh_oos/) and their single-use *)
(* validation (fresh_oos_validation/).  A resident scheduler and manual     *)
(* collect commands, all of them collectors with a manifest of their own in *)
(* memory, share the store of days, the manifest file and a lock file;      *)
(* validation processes read the manifest and the store without the lock.   *)
(* Any process may die between two of its writes.                           *)
(*                                                                          *)
(* There is no clock: a lock may be found stale (15 minutes) at any time,   *)
(* its holder dead, or alive in a long pass, or another one by then.        *)
(***************************************************************************)
EXTENDS Naturals, FiniteSets

CONSTANTS Scheduler,    \* the resident scheduler
          Manuals,      \* commands: processes that run collect --once, each one once
          Validators,   \* processes that run the validation
          NDays,        \* days after the boundary, all of them over
          Hashes,       \* the contents the provider may serve for a day
          Established,  \* days with a verified single-day dataset
          MinDays,      \* coverage a validation needs
          Retries,      \* retry_attempts of the scheduler
          MaxFailures,  \* max_consecutive_failures of the scheduler
          MaxDeaths,    \* bound on the processes that die
          Nothing, NoOne, Dead

ASSUME OosAssumption ==
    /\ NDays \in Nat \ {0} /\ MinDays \in Nat /\ MaxDeaths \in Nat
    /\ Established \subseteq 1 .. NDays
    /\ Hashes # {} /\ Nothing \notin Hashes
    /\ Retries \in Nat \ {0} /\ MaxFailures \in Nat \ {0}
    /\ Scheduler \notin Manuals
    /\ {NoOne, Dead} \cap ({Scheduler} \cup Manuals) = {} /\ NoOne # Dead

Days == 1 .. NDays
Collectors == {Scheduler} \cup Manuals
Artifacts == 1 .. 3       \* data.csv, metadata.json, sha256.txt
OldHash == CHOOSE h \in Hashes : TRUE

VARIABLES files,     \* the artifacts of each day in the store
          manifest,  \* the manifest file: an entry per day
          lock,      \* the lock file: who created it, Dead if that one is gone
          pc, day, mem, worst, got, art,   \* of each collector
          tries, fails,                    \* of the scheduler
          vpc, pool,                       \* of each validator
          consumed,  \* the consumption record
          deaths,
          robbed     \* history: a take-over removed the lock file of a live process

collectors == <<pc, day, mem, worst, got, art>>
scheduler == <<tries, fails>>
validation == <<vpc, pool, consumed>>
vars == <<files, manifest, lock, collectors, scheduler, validation, deaths, robbed>>
-----------------------------------------------------------------------------
(* The store.                                                               *)
Absent == [a \in Artifacts |-> Nothing]
Present(d) == files[d] # Absent
Whole(d) == files[d][1] # Nothing /\ \A a \in Artifacts : files[d][a] = files[d][1]

(* What the pool holds of a day: the stored bars, else the dataset.         *)
Content ==
    [d \in Days |-> IF Whole(d) THEN files[d][1]
                    ELSE IF d \in Established THEN OldHash ELSE Nothing]

(* Entries of a manifest: an accepted entry is the hash of the day; the     *)
(* entry of an error, which nobody tells from a missing one, is Nothing.    *)
Accepted(entry) == entry \in Hashes

Empty == [d \in Days |-> Nothing]

(* record_date: an error never replaces an accepted entry.                  *)
Recorded(old, new) == IF Accepted(old) /\ ~Accepted(new) THEN old ELSE new

(* The outcome of a pass is the worst of its days.                          *)
Severity == [ok |-> 0, incomplete |-> 1, transient |-> 2, invalid |-> 3]
Worst(a, b) == IF Severity[a] < Severity[b] THEN b ELSE a

Set(f, p, v) == f' = [f EXCEPT ![p] = v]
-----------------------------------------------------------------------------
(* A collector is built outside the lock: it loads the manifest of now.     *)
Construct(p) ==
    /\ pc[p] = "down"
    /\ Set(pc, p, "idle") /\ Set(mem, p, manifest)
    /\ UNCHANGED <<files, manifest, lock, day, worst, got, art, scheduler>>
    /\ UNCHANGED <<validation, deaths, robbed>>

\* Mutant: a failing pass forgets the ones before it.
FailuresForgotten(outcome) == IF outcome = "ok" THEN 0 ELSE 1

(* Consecutive failures; a skipped pass is none.                            *)
Failures(outcome) ==
    IF outcome = "ok" THEN 0 ELSE IF outcome = "locked" THEN fails ELSE fails + 1

Stalls(n) == n >= MaxFailures

(* What follows a pass with this outcome, in the scheduler's loop or at the *)
(* end of a command.                                                        *)
PassOver(p, outcome) ==
    IF p # Scheduler
    THEN Set(pc, p, "over") /\ Set(mem, p, Empty) /\ UNCHANGED scheduler
    ELSE /\ UNCHANGED mem
         /\ IF outcome = "transient" /\ tries > 1
            THEN Set(pc, p, "idle") /\ tries' = tries - 1 /\ UNCHANGED fails
            ELSE /\ tries' = Retries
                 /\ fails' = Failures(outcome)
                 /\ Set(pc, p, IF Stalls(fails') THEN "stalled" ELSE "idle")

Locks(p) ==
    /\ lock' = p
    /\ Set(pc, p, "write")
    /\ UNCHANGED <<day, worst, mem, scheduler>>

Untouched == UNCHANGED <<files, manifest, got, art, validation, deaths, robbed>>

\* Mutant: the lock file is created without O_EXCL.
AcquireAnyway(p) ==
    /\ pc[p] = "idle"
    /\ Locks(p)
    /\ Untouched

(* The exclusive creation of the lock file, which is empty at first.        *)
Acquire(p) ==
    /\ pc[p] = "idle"
    /\ IF lock = NoOne THEN Locks(p)
       ELSE Set(pc, p, "contend") /\ UNCHANGED <<lock, day, worst, mem, scheduler>>
    /\ Untouched

(* The age and owner are written into the created file.                     *)
Write(p) ==
    /\ pc[p] = "write"
    /\ Set(pc, p, "examine")
    /\ UNCHANGED <<lock, day, worst, mem, scheduler>>
    /\ Untouched

(* A lock file that exists is examined: old, whoever holds it, gone by now, *)
(* or not written yet, it is stale and will be taken over ...               *)
FindStale(p) ==
    /\ pc[p] = "contend"
    /\ Set(pc, p, "break")
    /\ UNCHANGED <<lock, day, worst, mem, scheduler>>
    /\ Untouched

(* ... or it can be read and is recent: the pass is skipped.                *)
Readable == lock # NoOne /\ \A q \in Collectors : lock = q => pc[q] # "write"

Busy(p) ==
    /\ pc[p] = "contend"
    /\ Readable
    /\ PassOver(p, "locked")
    /\ UNCHANGED <<lock, day, worst>>
    /\ Untouched

(* The take-over removes whatever lock file is there by then ...            *)
Break(p) ==
    /\ pc[p] = "break"
    /\ lock' = NoOne
    /\ robbed' = (robbed \/ lock \in Collectors)
    /\ Set(pc, p, "create")
    /\ UNCHANGED <<day, worst, mem, scheduler>>
    /\ UNCHANGED <<files, manifest, got, art, validation, deaths>>

(* ... and creates it once more.                                            *)
Create(p) ==
    /\ pc[p] = "create"
    /\ IF lock = NoOne THEN Locks(p)
       ELSE PassOver(p, "locked") /\ UNCHANGED <<lock, day, worst>>
    /\ Untouched
-----------------------------------------------------------------------------
(* A day is done: its entry is recorded and the next day examined.  Only    *)
(* the scheduler acts on the outcome of its pass.                           *)
Done(p, entry, status) ==
    /\ mem' = [mem EXCEPT ![p][day[p]] = Recorded(@, entry)]
    /\ Set(worst, p, IF p = Scheduler THEN Worst(worst[p], status) ELSE "ok")
    /\ IF day[p] < NDays
       THEN Set(day, p, day[p] + 1) /\ Set(pc, p, "examine")
       ELSE Set(pc, p, "save") /\ UNCHANGED day

Elsewhere == UNCHANGED <<manifest, lock, scheduler, validation, deaths, robbed>>

(* _process_day: artifacts that are incomplete or disagree are an error, a  *)
(* day that the pool has is verified, any other is acquired.                *)
Examine(p) ==
    /\ pc[p] = "examine"
    /\ IF Present(day[p]) /\ ~Whole(day[p])
       THEN Done(p, Nothing, "invalid")
       ELSE /\ Set(pc, p, IF Content[day[p]] # Nothing THEN "verify" ELSE "fetch")
            /\ UNCHANGED <<day, mem, worst>>
    /\ UNCHANGED <<files, got, art>>
    /\ Elsewhere

\* Mutant: a day that drifted is replaced by what the provider serves now.
VerifyRefresh(p) ==
    /\ pc[p] = "verify"
    /\ \E h \in Hashes :
         /\ Done(p, h, "ok")
         /\ files' = [files EXCEPT ![day[p]] = [a \in Artifacts |-> h]]
    /\ UNCHANGED <<got, art>>
    /\ Elsewhere

(* _resolve_present: the day is fetched again; only equal bars confirm it.  *)
Verify(p) ==
    /\ pc[p] = "verify"
    /\ \/ Done(p, Content[day[p]], "ok")
       \/ \E status \in {"transient", "invalid"} : Done(p, Nothing, status)
    /\ UNCHANGED <<files, got, art>>
    /\ Elsewhere

(* _acquire_new: an error, no bars ("ok", nothing accepted), bars that do   *)
(* not validate, or bars to be stored where nothing is stored.              *)
Fetch(p) ==
    /\ pc[p] = "fetch"
    /\ \/ /\ \E status \in {"ok", "incomplete", "transient", "invalid"} :
               Done(p, Nothing, status)
          /\ UNCHANGED <<got, art>>
       \/ \E h \in Hashes :
          IF Present(day[p]) THEN Done(p, Nothing, "invalid") /\ UNCHANGED <<got, art>>
          ELSE /\ Set(got, p, h) /\ Set(art, p, 1)
               /\ Set(pc, p, "replace")
               /\ UNCHANGED <<day, mem, worst>>
    /\ UNCHANGED files
    /\ Elsewhere

\* Mutant: a day is accepted when its data.csv is in place.
ReplaceEagerly(p) ==
    /\ pc[p] = "replace"
    /\ files' = [files EXCEPT ![day[p]][1] = got[p]]
    /\ Done(p, got[p], "ok")
    /\ UNCHANGED <<got, art>>
    /\ Elsewhere

(* write_day: the scratch files replace the artifacts one after the other.  *)
Replace(p) ==
    /\ pc[p] = "replace"
    /\ files' = [files EXCEPT ![day[p]][art[p]] = got[p]]
    /\ IF art[p] < 3
       THEN Set(art, p, art[p] + 1) /\ UNCHANGED <<pc, day, mem, worst>>
       ELSE Done(p, got[p], "ok") /\ Set(art, p, 1)
    /\ Set(got, p, IF art[p] < 3 THEN got[p] ELSE OldHash)
    /\ Elsewhere

(* The manifest of the process replaces the file, then the lock is removed. *)
Save(p) ==
    /\ pc[p] = "save"
    /\ manifest' = mem[p]
    /\ lock' = NoOne
    /\ PassOver(p, worst[p])
    /\ Set(day, p, 1) /\ Set(worst, p, "ok")
    /\ UNCHANGED <<files, got, art, validation, deaths, robbed>>

(* A collector dies, killed or by an error nobody handles; only the error   *)
(* lets it remove the lock file, whoever's it is.                           *)
Releasing == {"write", "examine", "verify", "fetch", "replace", "save"}

CollectorDies(p) ==
    /\ pc[p] \notin {"down", "stalled", "over"}
    /\ deaths < MaxDeaths
    /\ deaths' = deaths + 1
    /\ Set(pc, p, IF p = Scheduler THEN "down" ELSE "over")
    /\ Set(mem, p, Empty)
    /\ Set(day, p, 1) /\ Set(worst, p, "ok")
    /\ Set(got, p, OldHash) /\ Set(art, p, 1)
    /\ IF p = Scheduler
       THEN tries' = Retries /\ fails' = 0
       ELSE UNCHANGED scheduler
    /\ LET left == IF lock = p THEN Dead ELSE lock IN
       lock' \in {left} \cup (IF pc[p] \in Releasing THEN {NoOne} ELSE {})
    /\ UNCHANGED <<files, manifest, validation, robbed>>
-----------------------------------------------------------------------------
(* run_controlled_validation: nothing starts once the pool is consumed.     *)
Refuse(v) == Set(vpc, v, "idle") /\ Set(pool, v, <<>>)
Collection == UNCHANGED <<files, manifest, lock, collectors, scheduler, robbed>>

Invoke(v) ==
    /\ vpc[v] = "idle"
    /\ consumed = Nothing
    /\ Set(vpc, v, "load")
    /\ UNCHANGED <<pool, consumed, deaths>>
    /\ Collection

(* load_pool reads the manifest once ...                                    *)
LoadManifest(v) ==
    /\ vpc[v] = "load"
    /\ LET accepted == {d \in Days : Accepted(manifest[d])} IN
       IF accepted = {} THEN Refuse(v)
       ELSE /\ Set(vpc, v, "verify")
            /\ Set(pool, v, [d \in accepted |-> manifest[d]])
    /\ UNCHANGED <<consumed, deaths>>
    /\ Collection

(* ... and then the files of every accepted day: data.csv, or the dataset,  *)
(* must be there, and whatever artifact lies beside it must agree.          *)
Verified(d) ==
    \/ /\ files[d][1] # Nothing
       /\ \A a \in Artifacts : files[d][a] \in {Nothing, files[d][1]}
    \/ files[d][1] = Nothing /\ d \in Established

Bars(d) == IF files[d][1] # Nothing THEN files[d][1] ELSE OldHash

Load(v) ==
    /\ vpc[v] = "verify"
    /\ LET D == DOMAIN pool[v] IN
       IF (\A d \in D : Verified(d)) /\ Cardinality(D) >= MinDays
       THEN Set(vpc, v, "evaluate") /\ Set(pool, v, [d \in D |-> Bars(d)])
       ELSE Refuse(v)
    /\ UNCHANGED <<consumed, deaths>>
    /\ Collection

(* The replay may fail, or trade too little.                                *)
Evaluate(v) ==
    /\ vpc[v] = "evaluate"
    /\ Refuse(v) \/ (Set(vpc, v, "record") /\ UNCHANGED pool)
    /\ UNCHANGED <<consumed, deaths>>
    /\ Collection

(* write_consumption: refused if there is a record by now, ...              *)
CheckRecord(v) ==
    /\ vpc[v] = "record"
    /\ IF consumed # Nothing THEN Refuse(v)
       ELSE Set(vpc, v, "consume") /\ UNCHANGED pool
    /\ UNCHANGED <<consumed, deaths>>
    /\ Collection

(* ... then the record is put in place, and the results after it.           *)
Consume(v) ==
    /\ vpc[v] = "consume"
    /\ consumed' = pool[v]
    /\ Set(vpc, v, "results")
    /\ UNCHANGED <<pool, deaths>>
    /\ Collection

WriteResults(v) ==
    /\ vpc[v] = "results"
    /\ Refuse(v)
    /\ UNCHANGED <<consumed, deaths>>
    /\ Collection

ValidatorDies(v) ==
    /\ vpc[v] # "idle"
    /\ deaths < MaxDeaths
    /\ deaths' = deaths + 1
    /\ Refuse(v)
    /\ UNCHANGED consumed
    /\ Collection
-----------------------------------------------------------------------------
Init ==
    /\ files = [d \in Days |-> Absent]
    /\ manifest = Empty
    /\ lock = NoOne
    /\ pc = [p \in Collectors |-> "down"]
    /\ day = [p \in Collectors |-> 1]
    /\ mem = [p \in Collectors |-> Empty]
    /\ worst = [p \in Collectors |-> "ok"]
    /\ got = [p \in Collectors |-> OldHash]
    /\ art = [p \in Collectors |-> 1]
    /\ tries = Retries /\ fails = 0
    /\ vpc = [v \in Validators |-> "idle"]
    /\ pool = [v \in Validators |-> <<>>]
    /\ consumed = Nothing
    /\ deaths = 0
    /\ robbed = FALSE

Collect(p) ==
    \/ Construct(p) \/ Acquire(p) \/ Write(p) \/ FindStale(p) \/ Break(p)
    \/ Create(p) \/ Busy(p) \/ Examine(p) \/ Verify(p) \/ Fetch(p) \/ Replace(p) \/ Save(p)

Validate(v) ==
    \/ Invoke(v) \/ LoadManifest(v) \/ Load(v) \/ Evaluate(v)
    \/ CheckRecord(v) \/ Consume(v) \/ WriteResults(v)

Next == \/ \E p \in Collectors : Collect(p) \/ CollectorDies(p)
        \/ \E v \in Validators : Validate(v) \/ ValidatorDies(v)

Spec == Init /\ [][Next]_vars

(* The scheduler is a loop that is started again if it dies, and a command  *)
(* that was started runs.                                                   *)
FairSpec == /\ Spec
            /\ WF_vars(Collect(Scheduler))
            /\ \A p \in Manuals : WF_vars(pc[p] # "down" /\ Collect(p))
-----------------------------------------------------------------------------
Holders == {p \in Collectors :
              pc[p] \in {"examine", "verify", "fetch", "replace", "save"}}

(* TypeOK: entries, artifacts and counters stay what the code writes; a     *)
(* scheduler with too many failures has stalled (scheduler.py run).         *)
Entry == Hashes \cup {Nothing}
Loads == UNION {[D -> Hashes] : D \in SUBSET Days}
TypeOK ==
    /\ files \in [Days -> [Artifacts -> Hashes \cup {Nothing}]]
    /\ manifest \in [Days -> Entry]
    /\ lock \in Collectors \cup {NoOne, Dead}
    /\ pc \in [Collectors -> {"down", "idle", "contend", "write", "break", "create",
                "examine", "verify", "fetch", "replace", "save", "stalled", "over"}]
    /\ day \in [Collectors -> Days]
    /\ mem \in [Collectors -> [Days -> Entry]]
    /\ worst \in [Collectors -> DOMAIN Severity]
    /\ got \in [Collectors -> Hashes]
    /\ art \in [Collectors -> Artifacts]
    /\ tries \in 1 .. Retries
    /\ fails \in 0 .. MaxFailures
    /\ pc[Scheduler] = "stalled" <=> fails = MaxFailures
    /\ vpc \in [Validators -> {"idle", "load", "verify", "evaluate", "record",
                 "consume", "results"}]
    /\ pool \in [Validators -> Loads]
    /\ deaths \in 0 .. MaxDeaths
    /\ robbed \in BOOLEAN

(* OnePass: two passes work on the store at a time only if some take-over   *)
(* removed the lock file of a live process; deaths, empty lock files and    *)
(* releases of a lock another one holds never cause it otherwise.           *)
(* lock.py:1 promises more, "preventing overlapping collector runs".        *)
OnePass == Cardinality(Holders) > 1 => robbed

(* AcceptedIsStored: as long as no live process lost its lock, whatever a   *)
(* manifest, on disk or in the memory of any collector or validator, calls  *)
(* accepted is in the pool, whole, with that hash; in particular no         *)
(* half-written day is ever accepted (store.py find, collector.py           *)
(* _acquire_new).                                                           *)
InPool ==
    \A d \in Days :
      /\ Accepted(manifest[d]) => Content[d] = manifest[d]
      /\ \A p \in Collectors : Accepted(mem[p][d]) => Content[d] = mem[p][d]
      /\ \A v \in Validators : d \in DOMAIN pool[v] => Content[d] = pool[v][d]
AcceptedIsStored == ~robbed => InPool

(* SingleUse: the pool is what SingleUsePool promises: it is used once,     *)
(* whatever collectors do to each other, and, as long as no live process    *)
(* lost its lock, its days never change and it is used for whole days it    *)
(* held (store.py "never overwrites an existing day", consume.py "exactly   *)
(* once").                                                                  *)
Pool == INSTANCE SingleUsePool
          WITH content <- Content, used <- consumed, disturbed <- robbed
SingleUse == Pool!PoolSpec

(* KeepsWorkingOrStalls: a scheduler that is neither locked out nor         *)
(* successful again and again stalls: failing passes do not go on in        *)
(* silence (scheduler.py "instead of endless silent retrying").             *)
LockedOut(p) == Busy(p) \/ (Create(p) /\ lock # NoOne)
Succeeds(p) == Save(p) /\ worst[p] = "ok"

KeepsWorkingOrStalls ==
    \/ []<><<LockedOut(Scheduler) \/ Succeeds(Scheduler)>>_vars
    \/ <>(pc[Scheduler] = "stalled")
=============================================================================
