-------------------------- MODULE FreshOos_proofs --------------------------
(***************************************************************************)
(* Theorems about FreshOos for any commands, days, contents, failures,      *)
(* deaths and take-overs of the lock.  Two passes overlap only if some      *)
(* take-over removed the lock file of a live process; until then whatever   *)
(* any manifest calls accepted is in the pool.  A single validation uses    *)
(* the pool once in any case; two of them, between the check and the write  *)
(* of the consumption record, could use it twice: hence OneValidation.      *)
(***************************************************************************)
EXTENDS FreshOos, FiniteSetTheorems, TLAPS

Holding == {"examine", "verify", "fetch", "replace", "save"}

(* Whoever holds or creates the lock owns the lock file.                    *)
Locked == \A p \in Collectors : pc[p] \in Holding \cup {"write"} => lock = p

(* Files are written only for days that the pool does not have, in order.   *)
Storing ==
    /\ \A d \in Days : Present(d) => d \notin Established
    /\ \A p \in Collectors : pc[p] \in {"fetch", "replace"} => day[p] \notin Established
    /\ \A p \in Collectors : pc[p] = "replace" =>
         \A a \in Artifacts : files[day[p]][a] = IF a < art[p] THEN got[p] ELSE Nothing

(* What a validation loaded is a set of days large enough to be used.       *)
Loaded ==
    \A v \in Validators :
      vpc[v] \in {"evaluate", "record", "consume"} => Cardinality(DOMAIN pool[v]) >= MinDays

(* As long as no live process lost its lock.                                *)
Safe == Locked /\ Storing /\ InPool /\ Loaded
IInv == TypeOK /\ (~robbed => Safe)

Unused == \A v \in Validators : vpc[v] = "consume" => consumed = Nothing
-----------------------------------------------------------------------------
(* The end of a pass and of a day.                                          *)
Places == {"down", "idle", "contend", "write", "break", "create", "stalled", "over"} \cup Holding
Rests == {"down", "idle", "stalled", "over"}
Outcomes == {"ok", "incomplete", "transient", "invalid"}

LEMMA Severities == DOMAIN Severity = Outcomes
  BY DEF Severity, Outcomes

LEMMA WorstOf == ASSUME NEW a \in Outcomes, NEW b \in Outcomes PROVE Worst(a, b) \in Outcomes
  BY DEF Worst

LEMMA EmptyEntries == Empty \in [Days -> Entry] /\ \A d \in Days : ~Accepted(Empty[d])
  BY OosAssumption DEF Empty, Entry, Accepted

LEMMA Contents ==
  ASSUME TypeOK, NEW d \in Days
  PROVE  Content[d] \in Entry /\ OldHash \in Hashes
<1>1. OldHash \in Hashes
  BY OosAssumption DEF OldHash
<1> QED BY <1>1 DEF Content, Entry, TypeOK, Artifacts

(* What PassOver leaves of p, at x.                                         *)
PassedTo(p, x) ==
    /\ x \in Rests
    /\ pc' = [pc EXCEPT ![p] = x]
    /\ mem' \in [Collectors -> [Days -> Entry]]
    /\ \A q \in Collectors : mem'[q] = mem[q] \/ mem'[q] = Empty
    /\ tries' \in 1 .. Retries /\ fails' \in 0 .. MaxFailures
    /\ IF p = Scheduler THEN x = "stalled" <=> fails' = MaxFailures
       ELSE x # "stalled" /\ fails' = fails

LEMMA PassEnds ==
  ASSUME TypeOK, NEW p \in Collectors, pc[p] # "stalled",
         NEW outcome \in Outcomes \cup {"locked"}, PassOver(p, outcome)
  PROVE  \E x : PassedTo(p, x)
<1>1. /\ mem \in [Collectors -> [Days -> Entry]] /\ tries \in 1 .. Retries
      /\ fails \in 0 .. MaxFailures
      /\ pc[Scheduler] = "stalled" <=> fails = MaxFailures
      /\ Retries \in Nat \ {0} /\ MaxFailures \in Nat \ {0}
  BY OosAssumption DEF TypeOK
<1>2. CASE p # Scheduler
  <2>1. pc' = [pc EXCEPT ![p] = "over"] /\ mem' = [mem EXCEPT ![p] = Empty]
        /\ UNCHANGED <<tries, fails>>
    BY <1>2 DEF PassOver, Set, scheduler
  <2>2. /\ mem' \in [Collectors -> [Days -> Entry]]
        /\ \A q \in Collectors : mem'[q] = mem[q] \/ mem'[q] = Empty
    BY <1>1, <2>1, EmptyEntries
  <2> QED BY <1>1, <1>2, <2>1, <2>2 DEF PassedTo, Rests
<1>3. CASE p = Scheduler
  <2>1. mem' = mem /\ fails # MaxFailures
    BY <1>1, <1>3 DEF PassOver
  <2>2. CASE outcome = "transient" /\ tries > 1
    <3>1. pc' = [pc EXCEPT ![p] = "idle"] /\ tries' = tries - 1 /\ UNCHANGED fails
      BY <1>3, <2>2 DEF PassOver, Set
    <3>2. tries' \in 1 .. Retries
      BY <1>1, <2>2, <3>1
    <3>3. PassedTo(p, "idle")
      BY <1>1, <1>3, <2>1, <3>1, <3>2 DEF PassedTo, Rests
    <3> QED BY <3>3
  <2>3. CASE ~(outcome = "transient" /\ tries > 1)
    <3> DEFINE x == IF Stalls(fails') THEN "stalled" ELSE "idle"
    <3>1. /\ pc' = [pc EXCEPT ![p] = x] /\ tries' = Retries /\ fails' = Failures(outcome)
      BY <1>3, <2>3 DEF PassOver, Set
    <3>2. fails' \in 0 .. MaxFailures
      BY <1>1, <2>1, <3>1 DEF Failures
    <3>3. x = "stalled" <=> fails' = MaxFailures
      BY <1>1, <3>2 DEF Stalls
    <3>4. x \in Rests
      BY DEF Rests
    <3> HIDE DEF x
    <3>5. tries' \in 1 .. Retries
      BY <1>1, <3>1
    <3>6. PassedTo(p, x)
      BY <1>1, <1>3, <2>1, <3>1, <3>2, <3>3, <3>4, <3>5 DEF PassedTo
    <3> QED BY <3>6
  <2> QED BY <2>2, <2>3
<1> QED BY <1>2, <1>3

(* What Done leaves of p, at x, when its day has this entry.                *)
DoneTo(p, entry, x) ==
    /\ x \in {"examine", "save"}
    /\ pc' = [pc EXCEPT ![p] = x]
    /\ day' \in [Collectors -> Days] /\ worst' \in [Collectors -> Outcomes]
    /\ mem' \in [Collectors -> [Days -> Entry]]
    /\ \A q \in Collectors : q # p => day'[q] = day[q] /\ mem'[q] = mem[q]
    /\ \A d \in Days : mem'[p][d] = mem[p][d] \/ (d = day[p] /\ mem'[p][d] = entry)

LEMMA DayDone ==
  ASSUME TypeOK, NEW p \in Collectors, NEW entry \in Entry, NEW status \in Outcomes,
         Done(p, entry, status)
  PROVE  \E x : DoneTo(p, entry, x)
<1>1. /\ mem \in [Collectors -> [Days -> Entry]] /\ day \in [Collectors -> Days]
      /\ worst \in [Collectors -> Outcomes] /\ NDays \in Nat \ {0}
  BY Severities, OosAssumption DEF TypeOK
<1> DEFINE x == IF day[p] < NDays THEN "examine" ELSE "save"
           r == Recorded(mem[p][day[p]], entry)
           n == [mem[p] EXCEPT ![day[p]] = r]
<1>2. pc' = [pc EXCEPT ![p] = x] /\ x \in {"examine", "save"}
  BY DEF Done, Set
<1>3. day' \in [Collectors -> Days] /\ \A q \in Collectors : q # p => day'[q] = day[q]
  <2>1. CASE day[p] < NDays
    <3>1. day' = [day EXCEPT ![p] = day[p] + 1] /\ day[p] + 1 \in Days
      BY <1>1, <2>1 DEF Done, Set, Days
    <3> QED BY <1>1, <3>1
  <2>2. CASE ~(day[p] < NDays)
    BY <1>1, <2>2 DEF Done
  <2> QED BY <2>1, <2>2
<1>4. worst' \in [Collectors -> Outcomes]
  <2>1. Worst(worst[p], status) \in Outcomes /\ "ok" \in Outcomes
    BY <1>1, WorstOf DEF Outcomes
  <2> QED BY <1>1, <2>1 DEF Done, Set
<1>5. r \in Entry /\ (r = mem[p][day[p]] \/ r = entry)
  BY <1>1 DEF Recorded
<1>6. mem' = [mem EXCEPT ![p] = n]
  BY <1>1 DEF Done
<1>7. n \in [Days -> Entry] /\ \A d \in Days : n[d] = mem[p][d] \/ (d = day[p] /\ n[d] = entry)
  BY <1>1, <1>5
<1> HIDE DEF n, x, r
<1>8. /\ mem' \in [Collectors -> [Days -> Entry]]
      /\ \A q \in Collectors : q # p => mem'[q] = mem[q]
      /\ mem'[p] = n
  BY <1>1, <1>6, <1>7
<1>9. DoneTo(p, entry, x)
  <2>1. ASSUME NEW d \in Days
        PROVE  mem'[p][d] = mem[p][d] \/ (d = day[p] /\ mem'[p][d] = entry)
    <3>1. mem'[p][d] = n[d]
      BY <1>8
    <3>2. n[d] = mem[p][d] \/ (d = day[p] /\ n[d] = entry)
      BY <1>7
    <3> QED BY <3>1, <3>2
  <2>2. \A q \in Collectors : q # p => day'[q] = day[q] /\ mem'[q] = mem[q]
    BY <1>3, <1>8
  <2>3. mem' \in [Collectors -> [Days -> Entry]] /\ day' \in [Collectors -> Days]
    BY <1>3, <1>8
  <2> QED BY <1>2, <1>4, <2>1, <2>2, <2>3 DEF DoneTo
<1> QED BY <1>9
-----------------------------------------------------------------------------
(* The types, whatever happens to the lock.                                 *)
LEMMA TypeMoves ==
  ASSUME TypeOK, NEW p \in Collectors, NEW x \in Places \ {"stalled"}, pc[p] # "stalled",
         pc' = [pc EXCEPT ![p] = x],
         files' \in [Days -> [Artifacts -> Hashes \cup {Nothing}]],
         lock' \in Collectors \cup {NoOne, Dead}, robbed' \in BOOLEAN,
         day' \in [Collectors -> Days], mem' \in [Collectors -> [Days -> Entry]],
         worst' \in [Collectors -> Outcomes],
         got' \in [Collectors -> Hashes], art' \in [Collectors -> Artifacts],
         UNCHANGED <<manifest, scheduler, validation, deaths>>
  PROVE  TypeOK'
<1>1. UNCHANGED <<manifest, tries, fails, vpc, pool, consumed, deaths>>
  BY DEF scheduler, validation
<1>2. /\ pc' \in [Collectors -> {"down", "idle", "contend", "write", "break", "create",
                "examine", "verify", "fetch", "replace", "save", "stalled", "over"}]
      /\ (pc'[Scheduler] = "stalled" <=> pc[Scheduler] = "stalled")
  BY DEF TypeOK, Places, Holding, Collectors
<1>3. worst' \in [Collectors -> DOMAIN Severity]
  BY Severities
<1> QED BY <1>1, <1>2, <1>3 DEF TypeOK

LEMMA TypePasses ==
  ASSUME TypeOK, NEW p \in Collectors, NEW x, pc[p] # "stalled", PassedTo(p, x),
         manifest' \in [Days -> Entry], lock' \in Collectors \cup {NoOne, Dead},
         day' \in [Collectors -> Days], worst' \in [Collectors -> Outcomes],
         UNCHANGED <<files, got, art, validation, deaths, robbed>>
  PROVE  TypeOK'
<1>1. UNCHANGED <<files, got, art, vpc, pool, consumed, deaths, robbed>>
  BY DEF validation
<1>2. /\ x \in Rests /\ pc' = [pc EXCEPT ![p] = x]
      /\ mem' \in [Collectors -> [Days -> Entry]]
      /\ tries' \in 1 .. Retries /\ fails' \in 0 .. MaxFailures
  BY DEF PassedTo
<1>3. pc' \in [Collectors -> {"down", "idle", "contend", "write", "break", "create",
                "examine", "verify", "fetch", "replace", "save", "stalled", "over"}]
  BY <1>2 DEF TypeOK, Rests
<1>4. pc'[Scheduler] = "stalled" <=> fails' = MaxFailures
  BY <1>2 DEF TypeOK, PassedTo, Collectors
<1>5. worst' \in [Collectors -> DOMAIN Severity]
  BY Severities
<1> QED BY <1>1, <1>2, <1>3, <1>4, <1>5 DEF TypeOK

LEMMA TypeDays ==
  ASSUME TypeOK, NEW p \in Collectors, pc[p] # "stalled", NEW entry \in Entry,
         NEW status \in Outcomes, Done(p, entry, status),
         files' \in [Days -> [Artifacts -> Hashes \cup {Nothing}]],
         got' \in [Collectors -> Hashes], art' \in [Collectors -> Artifacts], Elsewhere
  PROVE  TypeOK'
<1>1. UNCHANGED <<manifest, lock, robbed, scheduler, validation, deaths>>
  BY DEF Elsewhere
<1>2. PICK x : DoneTo(p, entry, x)
  BY DayDone
<1> QED BY <1>1, <1>2, TypeMoves DEF DoneTo, TypeOK, Places, Holding

LEMMA LockTypes ==
  ASSUME NEW p \in Collectors, TypeOK,
         Acquire(p) \/ Write(p) \/ FindStale(p) \/ Busy(p) \/ Break(p) \/ Create(p)
  PROVE  TypeOK'
<1>1. CASE /\ pc[p] # "stalled" /\ UNCHANGED <<day, worst, mem, scheduler>>
           /\ UNCHANGED <<files, manifest, got, art, validation, deaths>>
           /\ lock' \in Collectors \cup {NoOne, Dead} /\ robbed' \in BOOLEAN
           /\ \E x \in Places \ {"stalled"} : pc' = [pc EXCEPT ![p] = x]
  BY <1>1, TypeMoves, Severities DEF TypeOK
<1>2. CASE /\ pc[p] # "stalled" /\ PassOver(p, "locked") /\ UNCHANGED <<lock, day, worst>>
           /\ Untouched
  <2>1. PICK x : PassedTo(p, x)
    BY <1>2, PassEnds
  <2> QED BY <1>2, <2>1, TypePasses, Severities DEF TypeOK, Untouched
<1> DEFINE Goes(x) == x \in Places \ {"stalled"} /\ pc' = [pc EXCEPT ![p] = x]
<1>3. CASE Acquire(p)
  BY <1>1, <1>3 DEF Acquire, Locks, Set, Untouched, TypeOK, Places
<1>4. CASE Write(p)
  BY <1>1, <1>4 DEF Write, Set, Untouched, TypeOK, Places, Holding
<1>5. CASE FindStale(p)
  BY <1>1, <1>5 DEF FindStale, Set, Untouched, TypeOK, Places
<1>6. CASE Busy(p)
  BY <1>2, <1>6 DEF Busy
<1>7. CASE Break(p)
  BY <1>1, <1>7 DEF Break, Set, TypeOK, Places
<1>8. CASE Create(p)
  <2>1. CASE lock = NoOne
    BY <1>1, <1>8, <2>1 DEF Create, Locks, Set, Untouched, TypeOK, Places
  <2>2. CASE lock # NoOne
    BY <1>2, <1>8, <2>2 DEF Create
  <2> QED BY <2>1, <2>2
<1> QED BY <1>3, <1>4, <1>5, <1>6, <1>7, <1>8

LEMMA DayTypes ==
  ASSUME NEW p \in Collectors, TypeOK, Examine(p) \/ Verify(p) \/ Fetch(p) \/ Replace(p)
  PROVE  TypeOK'
<1>1. /\ Elsewhere /\ pc[p] # "stalled" /\ day[p] \in Days /\ Nothing \in Entry
      /\ {"ok", "incomplete", "transient", "invalid"} \subseteq Outcomes
      /\ Content[day[p]] \in Entry /\ OldHash \in Hashes
  BY Contents DEF Examine, Verify, Fetch, Replace, TypeOK, Entry, Outcomes
<1>2. ASSUME NEW x \in Places \ {"stalled"}, pc' = [pc EXCEPT ![p] = x],
             UNCHANGED <<day, mem, worst>>,
             files' \in [Days -> [Artifacts -> Hashes \cup {Nothing}]],
             got' \in [Collectors -> Hashes], art' \in [Collectors -> Artifacts]
      PROVE  TypeOK'
  BY <1>1, <1>2, TypeMoves, Severities DEF TypeOK, Elsewhere
<1>3. CASE Examine(p)
  <2>1. CASE Done(p, Nothing, "invalid")
    BY <1>1, <1>3, <2>1, TypeDays DEF Examine, TypeOK
  <2>2. CASE ~(Present(day[p]) /\ ~Whole(day[p]))
    BY <1>2, <1>3, <2>2 DEF Examine, Set, TypeOK, Places, Holding
  <2> QED BY <1>3, <2>1, <2>2 DEF Examine
<1>4. CASE Verify(p)
  BY <1>1, <1>4, TypeDays DEF Verify, TypeOK
<1>5. CASE Fetch(p)
  <2>1. files' \in [Days -> [Artifacts -> Hashes \cup {Nothing}]]
    BY <1>5 DEF Fetch, TypeOK
  <2>2. CASE /\ UNCHANGED <<got, art>>
             /\ \E status \in {"ok", "incomplete", "transient", "invalid"} : Done(p, Nothing, status)
    <3>1. got' \in [Collectors -> Hashes] /\ art' \in [Collectors -> Artifacts]
      BY <2>2 DEF TypeOK
    <3>2. PICK status \in Outcomes : Done(p, Nothing, status)
      BY <1>1, <2>2
    <3> QED BY <1>1, <2>1, <3>1, <3>2, TypeDays
  <2>3. ASSUME NEW h \in Hashes, got' = [got EXCEPT ![p] = h], art' = [art EXCEPT ![p] = 1],
               pc' = [pc EXCEPT ![p] = "replace"], UNCHANGED <<day, mem, worst>>
        PROVE  TypeOK'
    <3>1. got' \in [Collectors -> Hashes] /\ art' \in [Collectors -> Artifacts]
      BY <2>3 DEF TypeOK, Artifacts
    <3>2. "replace" \in Places \ {"stalled"}
      BY DEF Places, Holding
    <3> QED BY <1>2, <2>1, <2>3, <3>1, <3>2
  <2> QED BY <1>5, <2>2, <2>3 DEF Fetch, Set
<1>6. CASE Replace(p)
  <2>1. /\ files' = [files EXCEPT ![day[p]][art[p]] = got[p]]
        /\ got' = [got EXCEPT ![p] = IF art[p] < 3 THEN got[p] ELSE OldHash]
    BY <1>6 DEF Replace, Set
  <2>2. got[p] \in Hashes /\ art[p] \in Artifacts /\ got' \in [Collectors -> Hashes]
    BY <1>1, <2>1 DEF TypeOK
  <2>3. files' \in [Days -> [Artifacts -> Hashes \cup {Nothing}]]
    <3> DEFINE f == [files[day[p]] EXCEPT ![art[p]] = got[p]]
    <3>1. f \in [Artifacts -> Hashes \cup {Nothing}] /\ files' = [files EXCEPT ![day[p]] = f]
      BY <1>1, <2>1, <2>2 DEF TypeOK
    <3> HIDE DEF f
    <3> QED BY <1>1, <3>1 DEF TypeOK
  <2>4. CASE art[p] < 3
    <3>1. art' = [art EXCEPT ![p] = art[p] + 1] /\ UNCHANGED <<pc, day, mem, worst>>
      BY <1>6, <2>4 DEF Replace, Set
    <3>2. art' \in [Collectors -> Artifacts] /\ pc[p] \in Places \ {"stalled"} /\ pc' = [pc EXCEPT ![p] = pc[p]]
      BY <1>1, <2>2, <2>4, <3>1 DEF TypeOK, Artifacts, Places, Holding
    <3> QED BY <1>2, <2>2, <2>3, <3>1, <3>2
  <2>5. CASE ~(art[p] < 3)
    <3>1. Done(p, got[p], "ok") /\ art' = [art EXCEPT ![p] = 1]
      BY <1>6, <2>5 DEF Replace, Set
    <3>2. art' \in [Collectors -> Artifacts] /\ got[p] \in Entry
      BY <2>2, <3>1 DEF TypeOK, Artifacts, Entry
    <3> QED BY <1>1, <2>2, <2>3, <3>1, <3>2, TypeDays
  <2> QED BY <2>4, <2>5
<1> QED BY <1>3, <1>4, <1>5, <1>6

LEMMA EndTypes ==
  ASSUME NEW p \in Collectors, TypeOK, Construct(p) \/ Save(p) \/ CollectorDies(p)
  PROVE  TypeOK'
<1>1. CASE Construct(p)
  <2>1. mem' \in [Collectors -> [Days -> Entry]] /\ pc' = [pc EXCEPT ![p] = "idle"]
    BY <1>1 DEF Construct, Set, TypeOK
  <2> QED BY <1>1, <2>1, TypeMoves, Severities DEF Construct, TypeOK, Places
<1>2. CASE Save(p)
  <2>1. /\ pc[p] = "save" /\ manifest' = mem[p] /\ lock' = NoOne /\ PassOver(p, worst[p])
        /\ day' = [day EXCEPT ![p] = 1] /\ worst' = [worst EXCEPT ![p] = "ok"]
        /\ UNCHANGED <<files, got, art, validation, deaths, robbed>>
    BY <1>2 DEF Save, Set
  <2>2. worst[p] \in Outcomes
    BY Severities DEF TypeOK
  <2>3. PICK x : PassedTo(p, x)
    BY <2>1, <2>2, PassEnds
  <2>4. day' \in [Collectors -> Days] /\ worst' \in [Collectors -> Outcomes]
    BY <2>1, Severities, OosAssumption DEF TypeOK, Days, Outcomes
  <2> QED BY <2>1, <2>3, <2>4, TypePasses DEF TypeOK
<1>3. CASE CollectorDies(p)
  <2> DEFINE x == IF p = Scheduler THEN "down" ELSE "over"
  <2>1. /\ pc[p] # "stalled" /\ deaths < MaxDeaths /\ deaths' = deaths + 1
        /\ pc' = [pc EXCEPT ![p] = x] /\ mem' = [mem EXCEPT ![p] = Empty]
        /\ day' = [day EXCEPT ![p] = 1] /\ worst' = [worst EXCEPT ![p] = "ok"]
        /\ got' = [got EXCEPT ![p] = OldHash] /\ art' = [art EXCEPT ![p] = 1]
        /\ UNCHANGED <<files, manifest, validation, robbed>>
    BY <1>3 DEF CollectorDies, Set
  <2>2. IF p = Scheduler THEN tries' = Retries /\ fails' = 0 ELSE UNCHANGED <<tries, fails>>
    BY <1>3 DEF CollectorDies, scheduler
  <2>3. OldHash \in Hashes /\ 1 \in Days /\ MaxDeaths \in Nat /\ MaxFailures \in Nat \ {0}
        /\ Retries \in Nat \ {0}
    BY OosAssumption DEF Days, OldHash
  <2>4. /\ day' \in [Collectors -> Days] /\ worst' \in [Collectors -> Outcomes]
        /\ got' \in [Collectors -> Hashes] /\ art' \in [Collectors -> Artifacts]
        /\ mem' \in [Collectors -> [Days -> Entry]]
    BY <2>1, <2>3, EmptyEntries, Severities DEF TypeOK, Outcomes, Artifacts
  <2>5. lock' \in Collectors \cup {NoOne, Dead} /\ deaths' \in 0 .. MaxDeaths
    BY <1>3, <2>1, <2>3 DEF CollectorDies, TypeOK
  <2>6. /\ pc' \in [Collectors -> {"down", "idle", "contend", "write", "break", "create",
                "examine", "verify", "fetch", "replace", "save", "stalled", "over"}]
        /\ pc'[Scheduler] = "stalled" <=> fails' = MaxFailures
        /\ tries' \in 1 .. Retries /\ fails' \in 0 .. MaxFailures
    BY <2>1, <2>2, <2>3 DEF TypeOK, Collectors
  <2>7. UNCHANGED <<files, manifest, vpc, pool, robbed>>
    BY <2>1 DEF validation
  <2> QED BY <2>4, <2>5, <2>6, <2>7, Severities DEF TypeOK
<1> QED BY <1>1, <1>2, <1>3

(* The days a validation may come to hold.                                  *)
LEMMA NoDays == <<>> \in Loads /\ DOMAIN <<>> = {}
<1> DEFINE f == <<>>
<1>1. DOMAIN f = {}
  OBVIOUS
<1>2. f = [d \in {} |-> 1]
  OBVIOUS
<1>3. f \in [{} -> Hashes]
  BY <1>2
<1> QED BY <1>1, <1>3 DEF Loads

LEMMA ListedDays == [d \in {e \in Days : Accepted(manifest[e])} |-> manifest[d]] \in Loads
<1> DEFINE A == {e \in Days : Accepted(manifest[e])}
           P == [d \in A |-> manifest[d]]
<1>1. P \in [A -> Hashes] /\ A \in SUBSET Days
  BY DEF Accepted
<1> QED BY <1>1 DEF Loads

LEMMA ReadDays ==
  ASSUME TypeOK, NEW v \in Validators PROVE [d \in DOMAIN pool[v] |-> Bars(d)] \in Loads
<1> DEFINE D == DOMAIN pool[v]
           P == [d \in D |-> Bars(d)]
<1>1. D \in SUBSET Days
  BY DEF TypeOK, Loads
<1>2. \A d \in D : Bars(d) \in Hashes
  BY <1>1, Contents DEF TypeOK, Bars, Artifacts
<1>3. P \in [D -> Hashes]
  BY <1>2
<1> QED BY <1>1, <1>3 DEF Loads

LEMMA ValidationTypes ==
  ASSUME NEW v \in Validators, TypeOK, Validate(v) \/ ValidatorDies(v)
  PROVE  TypeOK'
<1>1. UNCHANGED <<files, manifest, lock, robbed, pc, day, mem, worst, got, art, tries, fails>>
  BY DEF Validate, Invoke, LoadManifest, Load, Evaluate, CheckRecord, Consume, WriteResults,
         ValidatorDies, Collection, collectors, scheduler
<1>2. deaths' \in 0 .. MaxDeaths
  BY OosAssumption DEF Validate, Invoke, LoadManifest, Load, Evaluate, CheckRecord, Consume,
         WriteResults, ValidatorDies, TypeOK
<1>3. vpc' \in [Validators -> {"idle", "load", "verify", "evaluate", "record",
                 "consume", "results"}]
  BY DEF Validate, Invoke, LoadManifest, Load, Evaluate, CheckRecord, Consume, WriteResults,
         ValidatorDies, Refuse, Set, TypeOK
<1>4. \E P \in Loads : pool' = [pool EXCEPT ![v] = P] \/ pool' = pool
  BY NoDays, ListedDays, ReadDays DEF Validate, Invoke, LoadManifest, Load, Evaluate,
         CheckRecord, Consume, WriteResults, ValidatorDies, Refuse, Set
<1>5. pool' \in [Validators -> Loads]
  BY <1>4 DEF TypeOK
<1> QED BY <1>1, <1>2, <1>3, <1>5 DEF TypeOK

LEMMA InitTypes == Init => TypeOK
<1> SUFFICES ASSUME Init PROVE TypeOK
  OBVIOUS
<1>1. OldHash \in Hashes /\ 1 \in Days /\ Empty \in [Days -> Entry]
  BY OosAssumption, EmptyEntries DEF OldHash, Days
<1>2. files \in [Days -> [Artifacts -> Hashes \cup {Nothing}]]
  BY DEF Init, Absent
<1>3. pc[Scheduler] = "stalled" <=> fails = MaxFailures
  BY OosAssumption DEF Init, Collectors
<1>4. tries \in 1 .. Retries /\ fails \in 0 .. MaxFailures /\ deaths \in 0 .. MaxDeaths
  BY OosAssumption DEF Init
<1>5. /\ worst \in [Collectors -> DOMAIN Severity] /\ art \in [Collectors -> Artifacts]
      /\ pool \in [Validators -> Loads]
  BY NoDays, Severities DEF Init, Outcomes, Artifacts
<1> QED BY <1>1, <1>2, <1>3, <1>4, <1>5 DEF Init, TypeOK

LEMMA StepTypes == TypeOK /\ [Next]_vars => TypeOK'
<1> SUFFICES ASSUME TypeOK, [Next]_vars PROVE TypeOK'
  OBVIOUS
<1>1. CASE UNCHANGED vars
  BY <1>1 DEF vars, collectors, scheduler, validation, TypeOK
<1> QED BY <1>1, LockTypes, DayTypes, EndTypes, ValidationTypes DEF Next, Collect

(* The store, the manifests in memory and in the file, the lock, the        *)
(* scheduler's counters and what the validations loaded stay what fresh_oos/ *)
(* writes, for any number of commands and validations.                      *)
THEOREM Typing == Spec => []TypeOK
BY InitTypes, StepTypes, PTL DEF Spec
-----------------------------------------------------------------------------
(* What is left alone.                                                      *)
LEMMA LockMoves ==
  ASSUME TypeOK, Locked, NEW p \in Collectors, NEW x,
         x \in Holding \cup {"write"} => pc[p] \in Holding \cup {"write"},
         pc' = [pc EXCEPT ![p] = x], lock' = lock
  PROVE  Locked'
<1>1. /\ pc'[p] = x /\ \A q \in Collectors : q # p => pc'[q] = pc[q]
  BY DEF TypeOK
<1> QED BY <1>1 DEF Locked

LEMMA SameContent ==
  ASSUME files' = files
  PROVE  Content' = Content /\ \A d \in Days : Present(d)' <=> Present(d)
  BY DEF Content, Whole, Present

(* A step of p that writes no file and ends the day's work, if there was any. *)
LEMMA Quiet ==
  ASSUME TypeOK, Storing, InPool, NEW p \in Collectors,
         NEW x, x \notin {"fetch", "replace"}, pc' = [pc EXCEPT ![p] = x],
         \A q \in Collectors : q # p => day'[q] = day[q] /\ got'[q] = got[q] /\ art'[q] = art[q],
         \A q \in Collectors : mem'[q] = mem[q] \/ mem'[q] = Empty \/ mem'[q] = manifest,
         manifest' = manifest \/ manifest' = mem[p],
         UNCHANGED <<files, pool>>
  PROVE  Storing' /\ InPool'
<1>1. /\ pc'[p] = x /\ \A q \in Collectors : q # p => pc'[q] = pc[q]
  BY DEF TypeOK
<1>2. Content' = Content /\ \A d \in Days : Present(d)' <=> Present(d)
  BY SameContent
<1>3. Storing'
  BY <1>1, <1>2 DEF Storing
<1>4. \A d \in Days : Accepted(manifest[d]) => Content[d] = manifest[d]
  BY DEF InPool
<1>5. \A d \in Days, q \in Collectors : Accepted(mem[q][d]) => Content[d] = mem[q][d]
  BY DEF InPool
<1>6. \A d \in Days : Accepted(manifest'[d]) => Content[d] = manifest'[d]
  BY <1>4, <1>5
<1>7. \A d \in Days, q \in Collectors : Accepted(mem'[q][d]) => Content[d] = mem'[q][d]
  BY <1>4, <1>5, EmptyEntries
<1> QED BY <1>2, <1>3, <1>6, <1>7 DEF InPool, Accepted

(* A day done without a file written.                                       *)
LEMMA DayKept ==
  ASSUME TypeOK, Storing, InPool, NEW p \in Collectors, NEW entry, NEW x,
         DoneTo(p, entry, x), Accepted(entry) => entry = Content[day[p]],
         UNCHANGED <<files, manifest, got, art, pool>>
  PROVE  Storing' /\ InPool'
<1>1. /\ pc'[p] = x /\ x \notin {"fetch", "replace"}
      /\ \A q \in Collectors : q # p => pc'[q] = pc[q] /\ day'[q] = day[q] /\ mem'[q] = mem[q]
      /\ \A d \in Days : mem'[p][d] = mem[p][d] \/ (d = day[p] /\ mem'[p][d] = entry)
  BY DEF TypeOK, DoneTo
<1>2. Content' = Content /\ \A d \in Days : Present(d)' <=> Present(d)
  BY SameContent
<1>3. Storing'
  BY <1>1, <1>2 DEF Storing
<1>4. \A d \in Days, q \in Collectors : Accepted(mem'[q][d]) => Content[d] = mem'[q][d]
  BY <1>1 DEF InPool
<1> QED BY <1>2, <1>3, <1>4 DEF InPool, Accepted
-----------------------------------------------------------------------------
(* The lock.                                                                *)
LEMMA UntouchedLoads == Loaded /\ UNCHANGED validation => Loaded'
  BY DEF Loaded, validation

LEMMA ConstructKeeps == ASSUME NEW p \in Collectors, TypeOK, Safe, Construct(p) PROVE Safe'
<1>1. /\ pc[p] = "down" /\ pc' = [pc EXCEPT ![p] = "idle"] /\ mem' = [mem EXCEPT ![p] = manifest]
      /\ UNCHANGED <<files, manifest, lock, day, worst, got, art, validation>>
  BY DEF Construct, Set
<1>2. \A q \in Collectors : mem'[q] = mem[q] \/ mem'[q] = Empty \/ mem'[q] = manifest
  BY <1>1 DEF TypeOK
<1>3. Locked'
  BY <1>1, LockMoves DEF Safe, Holding
<1>4. Storing' /\ InPool'
  BY <1>1, <1>2, Quiet DEF Safe, validation
<1> QED BY <1>1, <1>3, <1>4, UntouchedLoads DEF Safe

(* A step that only moves p, and perhaps the lock.                          *)
LEMMA OnlyLock ==
  ASSUME TypeOK, Safe, NEW p \in Collectors, NEW x, x \notin {"fetch", "replace"},
         pc' = [pc EXCEPT ![p] = x], UNCHANGED <<day, mem>>,
         UNCHANGED <<files, manifest, got, art, validation>>, Locked'
  PROVE  Safe'
<1>1. Storing' /\ InPool'
  BY Quiet DEF Safe, validation
<1> QED BY <1>1, UntouchedLoads DEF Safe

LEMMA OnlyPass ==
  ASSUME TypeOK, Safe, NEW p \in Collectors, pc[p] # "stalled", PassOver(p, "locked"),
         UNCHANGED <<lock, day, worst>>, Untouched
  PROVE  Safe'
<1>1. UNCHANGED <<files, manifest, lock, day, got, art, validation>>
  BY DEF Untouched
<1>2. PICK x : PassedTo(p, x)
  BY PassEnds
<1>3. /\ x \in Rests /\ pc' = [pc EXCEPT ![p] = x]
      /\ \A q \in Collectors : mem'[q] = mem[q] \/ mem'[q] = Empty
  BY <1>2 DEF PassedTo
<1>4. Locked'
  BY <1>1, <1>3, LockMoves DEF Safe, Holding, Rests
<1>5. Storing' /\ InPool'
  BY <1>1, <1>3, Quiet DEF Safe, validation, Rests
<1> QED BY <1>1, <1>4, <1>5, UntouchedLoads DEF Safe

(* Where there is no lock file of a live process, nobody holds the lock.    *)
LEMMA Unowned ==
  ASSUME Locked, lock \notin Collectors
  PROVE  \A q \in Collectors : pc[q] \notin Holding \cup {"write"}
  BY DEF Locked

LEMMA LockTaken ==
  ASSUME TypeOK, Safe, NEW p \in Collectors, lock = NoOne, Locks(p), Untouched
  PROVE  Safe'
<1>1. pc' = [pc EXCEPT ![p] = "write"] /\ lock' = p /\ UNCHANGED <<day, worst, mem, scheduler>>
  BY DEF Locks, Set
<1>2. /\ pc'[p] = "write" /\ \A q \in Collectors : q # p => pc'[q] = pc[q]
  BY <1>1 DEF TypeOK
<1>3. \A q \in Collectors : q # p => pc[q] \notin Holding \cup {"write"}
  BY Unowned, OosAssumption DEF Safe, Collectors
<1>4. Locked'
  BY <1>1, <1>2, <1>3 DEF Locked
<1> QED BY <1>1, <1>4, OnlyLock DEF Untouched

LEMMA AcquireKeeps == ASSUME NEW p \in Collectors, TypeOK, Safe, Acquire(p) PROVE Safe'
<1>1. CASE lock = NoOne
  BY <1>1, LockTaken DEF Acquire
<1>2. CASE lock # NoOne
  <2>1. /\ pc' = [pc EXCEPT ![p] = "contend"] /\ UNCHANGED <<lock, day, worst, mem, scheduler>>
        /\ Untouched
    BY <1>2 DEF Acquire, Set
  <2>2. Locked'
    BY <2>1, LockMoves DEF Safe, Holding
  <2> QED BY <2>1, <2>2, OnlyLock DEF Untouched
<1> QED BY <1>1, <1>2

LEMMA WriteKeeps == ASSUME NEW p \in Collectors, TypeOK, Safe, Write(p) PROVE Safe'
<1>1. /\ pc[p] = "write" /\ pc' = [pc EXCEPT ![p] = "examine"]
      /\ UNCHANGED <<lock, day, worst, mem, scheduler>> /\ Untouched
  BY DEF Write, Set
<1>2. Locked'
  BY <1>1, LockMoves DEF Safe, Holding
<1> QED BY <1>1, <1>2, OnlyLock DEF Untouched

LEMMA FindStaleKeeps == ASSUME NEW p \in Collectors, TypeOK, Safe, FindStale(p) PROVE Safe'
<1>1. /\ pc' = [pc EXCEPT ![p] = "break"]
      /\ UNCHANGED <<lock, day, worst, mem, scheduler>> /\ Untouched
  BY DEF FindStale, Set
<1>2. Locked'
  BY <1>1, LockMoves DEF Safe, Holding
<1> QED BY <1>1, <1>2, OnlyLock DEF Untouched

(* A take-over that robs nobody removes a lock file that nobody relies on.  *)
LEMMA BreakKeeps == ASSUME NEW p \in Collectors, TypeOK, Safe, Break(p), ~robbed' PROVE Safe'
<1>1. /\ lock \notin Collectors /\ pc' = [pc EXCEPT ![p] = "create"]
      /\ UNCHANGED <<day, worst, mem, scheduler>>
      /\ UNCHANGED <<files, manifest, got, art, validation, deaths>>
  BY DEF Break, Set
<1>2. /\ pc'[p] = "create" /\ \A q \in Collectors : q # p => pc'[q] = pc[q]
  BY <1>1 DEF TypeOK
<1>3. Locked'
  BY <1>1, <1>2, Unowned DEF Safe, Locked, Holding
<1> QED BY <1>1, <1>3, OnlyLock

LEMMA CreateKeeps == ASSUME NEW p \in Collectors, TypeOK, Safe, Create(p) PROVE Safe'
<1>1. pc[p] = "create" /\ Untouched
  BY DEF Create
<1>2. CASE lock = NoOne
  BY <1>1, <1>2, LockTaken DEF Create
<1>3. CASE lock # NoOne
  BY <1>1, <1>3, OnlyPass DEF Create
<1> QED BY <1>2, <1>3

LEMMA BusyKeeps == ASSUME NEW p \in Collectors, TypeOK, Safe, Busy(p) PROVE Safe'
  BY OnlyPass DEF Busy
-----------------------------------------------------------------------------
(* The days of a pass.                                                      *)
LEMMA DayEnds ==
  ASSUME TypeOK, Safe, NEW p \in Collectors, pc[p] \in Holding,
         NEW entry \in Entry, NEW status \in Outcomes, Done(p, entry, status),
         Accepted(entry) => entry = Content[day[p]],
         UNCHANGED <<files, got, art>>, Elsewhere
  PROVE  Safe'
<1>1. UNCHANGED <<files, manifest, lock, got, art, validation>>
  BY DEF Elsewhere
<1>2. PICK x : DoneTo(p, entry, x)
  BY DayDone DEF Safe
<1>3. x \in {"examine", "save"} /\ pc' = [pc EXCEPT ![p] = x]
  BY <1>2 DEF DoneTo
<1>5. Locked'
  BY <1>1, <1>3, LockMoves DEF Safe, Holding
<1>6. Storing' /\ InPool'
  BY <1>1, <1>2, DayKept DEF Safe, validation
<1> QED BY <1>1, <1>5, <1>6, UntouchedLoads DEF Safe

LEMMA ExamineKeeps == ASSUME NEW p \in Collectors, TypeOK, Safe, Examine(p) PROVE Safe'
<1>1. pc[p] = "examine" /\ UNCHANGED <<files, got, art>> /\ Elsewhere
  BY DEF Examine
<1>2. CASE Done(p, Nothing, "invalid")
  <2>1. Nothing \in Entry /\ ~Accepted(Nothing) /\ "invalid" \in Outcomes
    BY OosAssumption DEF Entry, Accepted, Outcomes
  <2> QED BY <1>1, <1>2, <2>1, DayEnds DEF Holding
<1>3. CASE /\ pc' = [pc EXCEPT ![p] = IF Content[day[p]] # Nothing THEN "verify" ELSE "fetch"]
           /\ UNCHANGED <<day, mem, worst>>
  <2>1. UNCHANGED <<day, worst, mem, scheduler, lock>> /\ Untouched
    BY <1>1, <1>3 DEF Elsewhere, Untouched
  <2>2. CASE Content[day[p]] # Nothing
    <3>1. pc' = [pc EXCEPT ![p] = "verify"]
      BY <1>3, <2>2
    <3>2. Locked'
      BY <1>1, <2>1, <3>1, LockMoves DEF Safe, Holding
    <3> QED BY <1>1, <2>1, <3>1, <3>2, OnlyLock DEF Untouched
  <2>3. CASE Content[day[p]] = Nothing
    <3>1. pc' = [pc EXCEPT ![p] = "fetch"]
      BY <1>3, <2>3
    <3>2. Locked'
      BY <1>1, <2>1, <3>1, LockMoves DEF Safe, Holding
    <3>3. day[p] \in Days /\ day[p] \notin Established
      <4>1. day[p] \in Days /\ OldHash # Nothing
        BY OosAssumption, Contents DEF TypeOK, Safe
      <4> QED BY <2>3, <4>1 DEF Content, Whole
    <3>4. /\ pc'[p] = "fetch" /\ \A q \in Collectors : q # p => pc'[q] = pc[q]
      BY <3>1 DEF TypeOK, Safe
    <3>5. Content' = Content /\ \A d \in Days : Present(d)' <=> Present(d)
      BY <1>1, SameContent
    <3>6. Storing'
      BY <1>1, <2>1, <3>3, <3>4, <3>5 DEF Safe, Storing
    <3>7. InPool'
      BY <2>1, <3>5 DEF Safe, InPool, Accepted, Untouched, validation
    <3>8. UNCHANGED validation
      BY <2>1 DEF Untouched
    <3> QED BY <3>2, <3>6, <3>7, <3>8, UntouchedLoads DEF Safe
  <2> QED BY <2>2, <2>3
<1> QED BY <1>2, <1>3 DEF Examine, Set

LEMMA VerifyKeeps == ASSUME NEW p \in Collectors, TypeOK, Safe, Verify(p) PROVE Safe'
<1>1. pc[p] = "verify" /\ UNCHANGED <<files, got, art>> /\ Elsewhere
  BY DEF Verify
<1>2. CASE Done(p, Content[day[p]], "ok")
  <2>1. Content[day[p]] \in Entry /\ "ok" \in Outcomes
    BY Contents DEF TypeOK, Safe, Outcomes
  <2> QED BY <1>1, <1>2, <2>1, DayEnds DEF Holding
<1>3. CASE \E status \in {"transient", "invalid"} : Done(p, Nothing, status)
  <2>1. PICK status \in Outcomes : Done(p, Nothing, status)
    BY <1>3 DEF Outcomes
  <2>2. Nothing \in Entry /\ ~Accepted(Nothing)
    BY OosAssumption DEF Entry, Accepted
  <2> QED BY <1>1, <2>1, <2>2, DayEnds DEF Holding
<1> QED BY <1>2, <1>3 DEF Verify

LEMMA FetchKeeps == ASSUME NEW p \in Collectors, TypeOK, Safe, Fetch(p) PROVE Safe'
<1>1. pc[p] = "fetch" /\ files' = files /\ Elsewhere
  BY DEF Fetch
<1>2. CASE (\E status \in Outcomes : Done(p, Nothing, status)) /\ UNCHANGED <<got, art>>
  <2>1. PICK status \in Outcomes : Done(p, Nothing, status)
    BY <1>2
  <2>2. Nothing \in Entry /\ ~Accepted(Nothing)
    BY OosAssumption DEF Entry, Accepted
  <2> QED BY <1>1, <1>2, <2>1, <2>2, DayEnds DEF Holding
<1>3. ASSUME NEW h \in Hashes, ~Present(day[p]),
             got' = [got EXCEPT ![p] = h], art' = [art EXCEPT ![p] = 1],
             pc' = [pc EXCEPT ![p] = "replace"], UNCHANGED <<day, mem, worst>>
      PROVE  Safe'
  <2>1. UNCHANGED <<manifest, lock, scheduler, validation, deaths>>
    BY <1>1 DEF Elsewhere
  <2>2. /\ pc'[p] = "replace" /\ got'[p] = h /\ art'[p] = 1 /\ day[p] \in Days
        /\ \A q \in Collectors : q # p => pc'[q] = pc[q] /\ got'[q] = got[q] /\ art'[q] = art[q]
    BY <1>3 DEF TypeOK, Safe
  <2>3. Content' = Content /\ \A d \in Days : Present(d)' <=> Present(d)
    BY <1>1, SameContent
  <2>4. \A a \in Artifacts : files'[day'[p]][a] = IF a < art'[p] THEN got'[p] ELSE Nothing
    BY <1>1, <1>3, <2>2 DEF Present, Absent, Artifacts
  <2>5. Storing'
    BY <1>1, <1>3, <2>2, <2>3, <2>4 DEF Safe, Storing
  <2>6. InPool'
    BY <1>3, <2>1, <2>3 DEF Safe, InPool, Accepted, validation
  <2>7. Locked'
    BY <1>1, <1>3, <2>1, LockMoves DEF Safe, Holding
  <2> QED BY <2>1, <2>5, <2>6, <2>7, UntouchedLoads DEF Safe
<1>4. ASSUME NEW h \in Hashes, Present(day[p]), Done(p, Nothing, "invalid"), UNCHANGED <<got, art>>
      PROVE  Safe'
  <2>1. "invalid" \in Outcomes
    BY DEF Outcomes
  <2> QED BY <1>2, <1>4, <2>1
<1> QED BY <1>2, <1>3, <1>4 DEF Fetch, Outcomes, Set

(* An artifact put in place; the third makes the day whole.                 *)
LEMMA ReplaceKeeps == ASSUME NEW p \in Collectors, TypeOK, Safe, Replace(p) PROVE Safe'
<1> DEFINE d == day[p]
<1>1. /\ pc[p] = "replace" /\ files' = [files EXCEPT ![d][art[p]] = got[p]]
      /\ got' = [got EXCEPT ![p] = IF art[p] < 3 THEN got[p] ELSE OldHash]
      /\ UNCHANGED <<manifest, lock, scheduler, validation, deaths>>
  BY DEF Replace, Elsewhere, Set
<1>2. /\ d \in Days /\ d \notin Established /\ art[p] \in 1 .. 3
      /\ got[p] \in Hashes /\ got[p] # Nothing /\ OldHash \in Hashes
      /\ \A a \in 1 .. 3 : files[d][a] = IF a < art[p] THEN got[p] ELSE Nothing
  BY <1>1, OosAssumption, Contents DEF TypeOK, Safe, Storing, Artifacts
<1>3. /\ files \in [Days -> [1 .. 3 -> Entry]] /\ pc \in [Collectors -> Places]
      /\ got \in [Collectors -> Hashes] /\ art \in [Collectors -> 1 .. 3]
      /\ mem \in [Collectors -> [Days -> Entry]] /\ worst \in [Collectors -> Outcomes]
      /\ day \in [Collectors -> Days]
  BY Severities DEF TypeOK, Safe, Artifacts, Entry, Places, Holding
<1>4. /\ files' \in [Days -> [1 .. 3 -> Entry]]
      /\ \A e \in Days : e # d => files'[e] = files[e]
      /\ \A a \in 1 .. 3 : files'[d][a] = IF a <= art[p] THEN got[p] ELSE Nothing
  <2> DEFINE f == [files[d] EXCEPT ![art[p]] = got[p]]
  <2>1. f \in [1 .. 3 -> Entry] /\ \A a \in 1 .. 3 : f[a] = IF a <= art[p] THEN got[p] ELSE Nothing
    BY <1>2, <1>3 DEF Entry
  <2>2. files' = [files EXCEPT ![d] = f]
    BY <1>1, <1>2, <1>3
  <2> HIDE DEF f
  <2> QED BY <1>2, <1>3, <2>1, <2>2
<1>5. got' \in [Collectors -> Hashes] /\ \A q \in Collectors : q # p => got'[q] = got[q]
  BY <1>1, <1>2, <1>3
<1>6. \A q \in Collectors : q # p => pc[q] \notin Holding
  BY <1>1 DEF Safe, Locked, Holding
<1>7. \A e \in Days : e # d => Content'[e] = Content[e] /\ (Present(e)' <=> Present(e))
  BY <1>4 DEF Content, Whole, Present
<1>8. Content[d] = Nothing
  <2>1. files[d][3] = Nothing
    BY <1>2
  <2>2. ~Whole(d)
    BY <2>1 DEF Whole, Artifacts
  <2> QED BY <1>2, <2>2 DEF Content
<1>9. \A e \in Days : Present(e)' => e \notin Established
  BY <1>2, <1>7 DEF Safe, Storing
<1>10. \A e \in Days, h \in Hashes : Content[e] = h => Content'[e] = h
  BY <1>7, <1>8, OosAssumption
<1>11. \A e \in Days :
         /\ Accepted(manifest'[e]) => Content'[e] = manifest'[e]
         /\ \A q \in Collectors : Accepted(mem[q][e]) => Content'[e] = mem[q][e]
         /\ \A v \in Validators : e \in DOMAIN pool'[v] => Content'[e] = pool'[v][e]
  <2>1. UNCHANGED <<manifest, pool>>
    BY <1>1 DEF validation
  <2>2. \A v \in Validators, e \in Days : e \in DOMAIN pool[v] => pool[v][e] \in Hashes
    BY DEF TypeOK, Safe, Loads
  <2> QED BY <1>10, <2>1, <2>2 DEF Safe, InPool, Accepted
<1>13. CASE art[p] < 3
  <2>1. art' = [art EXCEPT ![p] = art[p] + 1] /\ UNCHANGED <<pc, day, mem, worst>>
    BY <1>13 DEF Replace, Set
  <2>2. /\ art' \in [Collectors -> Artifacts] /\ art'[p] = art[p] + 1
        /\ got'[p] = got[p] /\ pc' = [pc EXCEPT ![p] = "replace"]
    BY <1>1, <1>2, <1>3, <1>13, <2>1 DEF Artifacts
  <2>3. \A a \in Artifacts : files'[day'[p]][a] = IF a < art'[p] THEN got'[p] ELSE Nothing
    BY <1>2, <1>4, <2>1, <2>2 DEF Artifacts
  <2>4. Storing'
    BY <1>2, <1>6, <1>9, <2>1, <2>3 DEF Safe, Storing, Holding
  <2>5. InPool'
    BY <1>11, <2>1 DEF InPool, Accepted
  <2>6. Locked'
    BY <1>1, <2>2, LockMoves DEF Safe, Holding
  <2> QED BY <1>1, <2>4, <2>5, <2>6, UntouchedLoads DEF Safe
<1>14. CASE ~(art[p] < 3)
  <2>1. Done(p, got[p], "ok") /\ art' = [art EXCEPT ![p] = 1]
    BY <1>14 DEF Replace, Set
  <2>2. got[p] \in Entry /\ "ok" \in Outcomes
    BY <1>2 DEF Entry, Outcomes
  <2>3. PICK x : DoneTo(p, got[p], x)
    BY <2>1, <2>2, DayDone DEF Safe
  <2>4. /\ x \in {"examine", "save"} /\ pc' = [pc EXCEPT ![p] = x]
        /\ day' \in [Collectors -> Days] /\ worst' \in [Collectors -> Outcomes]
        /\ mem' \in [Collectors -> [Days -> Entry]]
        /\ \A q \in Collectors : q # p => day'[q] = day[q] /\ mem'[q] = mem[q]
        /\ \A e \in Days : mem'[p][e] = mem[p][e] \/ (e = d /\ mem'[p][e] = got[p])
    BY <2>3 DEF DoneTo
  <2>5. /\ pc'[p] = x /\ \A q \in Collectors : q # p => pc'[q] = pc[q]
    BY <1>3, <2>4
  <2>6. art' \in [Collectors -> Artifacts] /\ \A q \in Collectors : q # p => art'[q] = art[q]
    BY <1>3, <2>1 DEF Artifacts
  <2>7. \A q \in Collectors : pc'[q] \notin {"fetch", "replace"}
    BY <1>6, <2>4, <2>5 DEF Holding
  <2>8. Storing'
    BY <1>9, <2>7 DEF Storing
  <2>9. Content'[d] = got[p]
    BY <1>2, <1>4, <1>14 DEF Content, Whole, Artifacts
  <2>10. \A e \in Days, q \in Collectors : Accepted(mem'[q][e]) => Content'[e] = mem'[q][e]
    BY <1>11, <2>4, <2>9
  <2>11. InPool'
    BY <1>11, <2>10 DEF InPool, Accepted
  <2>12. Locked'
    BY <1>1, <2>4, LockMoves DEF Safe, Holding
  <2> QED BY <1>1, <2>8, <2>11, <2>12, UntouchedLoads DEF Safe
<1> QED BY <1>13, <1>14

LEMMA SaveKeeps == ASSUME NEW p \in Collectors, TypeOK, Safe, Save(p) PROVE Safe'
<1>1. /\ pc[p] = "save" /\ manifest' = mem[p] /\ lock' = NoOne /\ PassOver(p, worst[p])
      /\ day' = [day EXCEPT ![p] = 1]
      /\ UNCHANGED <<files, got, art, validation>>
  BY DEF Save, Set
<1>2. worst[p] \in Outcomes
  BY Severities DEF TypeOK
<1>3. PICK x : PassedTo(p, x)
  BY <1>1, <1>2, PassEnds
<1>4. /\ x \in Rests /\ pc' = [pc EXCEPT ![p] = x]
      /\ \A q \in Collectors : mem'[q] = mem[q] \/ mem'[q] = Empty
  BY <1>3 DEF PassedTo
<1>5. \A q \in Collectors : q # p => day'[q] = day[q]
  BY <1>1 DEF TypeOK
<1>6. /\ pc'[p] = x /\ \A q \in Collectors : q # p => pc'[q] = pc[q]
  BY <1>4 DEF TypeOK
<1>7. \A q \in Collectors : q # p => pc[q] \notin Holding \cup {"write"}
  BY <1>1 DEF Safe, Locked, Holding
<1>8. Locked'
  BY <1>4, <1>6, <1>7 DEF Locked, Holding, Rests
<1>9. Storing' /\ InPool'
  BY <1>1, <1>4, <1>5, Quiet DEF Safe, validation, Rests
<1> QED BY <1>1, <1>8, <1>9, UntouchedLoads DEF Safe

LEMMA CollectorDiesKeeps ==
  ASSUME NEW p \in Collectors, TypeOK, Safe, CollectorDies(p) PROVE Safe'
<1> DEFINE x == IF p = Scheduler THEN "down" ELSE "over"
<1>1. /\ pc' = [pc EXCEPT ![p] = x] /\ mem' = [mem EXCEPT ![p] = Empty]
      /\ day' = [day EXCEPT ![p] = 1]
      /\ got' = [got EXCEPT ![p] = OldHash] /\ art' = [art EXCEPT ![p] = 1]
      /\ UNCHANGED <<files, manifest, validation>>
  BY DEF CollectorDies, Set
<1>2. /\ lock' \in {IF lock = p THEN Dead ELSE lock, NoOne}
      /\ lock' = NoOne => lock = NoOne \/ pc[p] \in Holding \cup {"write"}
  BY OosAssumption DEF CollectorDies, Releasing, Holding, TypeOK, Collectors
<1>3. /\ pc'[p] = x /\ \A q \in Collectors : q # p => pc'[q] = pc[q]
  BY <1>1 DEF TypeOK
<1>4. \A q \in Collectors : q # p => day'[q] = day[q] /\ got'[q] = got[q] /\ art'[q] = art[q]
  BY <1>1 DEF TypeOK
<1>5. \A q \in Collectors : mem'[q] = mem[q] \/ mem'[q] = Empty
  BY <1>1 DEF TypeOK
<1>6. Locked'
  <2>1. CASE pc[p] \in Holding \cup {"write"}
    <3>1. \A q \in Collectors : q # p => pc[q] \notin Holding \cup {"write"}
      BY <2>1 DEF Safe, Locked
    <3> QED BY <1>3, <3>1 DEF Locked, Holding
  <2>2. CASE pc[p] \notin Holding \cup {"write"}
    <3>1. lock' = IF lock = p THEN Dead ELSE lock
      BY <1>2, <2>2, OosAssumption DEF Collectors
    <3> QED BY <1>3, <2>2, <3>1, OosAssumption DEF Safe, Locked, Holding, Collectors
  <2> QED BY <2>1, <2>2
<1>7. Storing' /\ InPool'
  <2>1. x \notin {"fetch", "replace"}
    OBVIOUS
  <2> HIDE DEF x
  <2> QED BY <1>1, <1>4, <1>5, <2>1, Quiet DEF Safe, validation
<1> QED BY <1>1, <1>6, <1>7, UntouchedLoads DEF Safe
-----------------------------------------------------------------------------
(* The validation.                                                          *)
Phases == {"idle", "load", "verify", "evaluate", "record", "consume", "results"}
Sized == {"evaluate", "record", "consume"}

(* A step of v that leaves it at x with the days P.                         *)
LEMMA ValidationMoves ==
  ASSUME TypeOK, Safe, NEW v \in Validators, NEW x \in Phases, NEW P \in Loads,
         vpc' = [vpc EXCEPT ![v] = x], pool' = [pool EXCEPT ![v] = P],
         \A d \in DOMAIN P : Content[d] = P[d],
         x \in Sized => Cardinality(DOMAIN P) >= MinDays,
         Collection
  PROVE  Safe'
<1>1. UNCHANGED <<files, manifest, lock, pc, day, mem, got, art>>
  BY DEF Collection, collectors
<1>2. /\ vpc'[v] = x /\ pool'[v] = P
      /\ \A w \in Validators : w # v => vpc'[w] = vpc[w] /\ pool'[w] = pool[w]
  BY DEF TypeOK, Safe, Phases
<1>4. Locked'
  BY <1>1 DEF Safe, Locked
<1>5. Content' = Content /\ \A d \in Days : Present(d)' <=> Present(d)
  BY <1>1, SameContent
<1>6. Storing'
  BY <1>1, <1>5 DEF Safe, Storing
<1>7. InPool'
  BY <1>1, <1>2, <1>5 DEF Safe, InPool, Accepted
<1>8. Loaded'
  BY <1>2 DEF Safe, Loaded, Sized
<1> QED BY <1>4, <1>6, <1>7, <1>8 DEF Safe

LEMMA RefuseKeeps ==
  ASSUME TypeOK, Safe, NEW v \in Validators, Refuse(v), Collection
  PROVE  Safe'
<1>1. vpc' = [vpc EXCEPT ![v] = "idle"] /\ pool' = [pool EXCEPT ![v] = <<>>]
  BY DEF Refuse, Set
<1> QED BY <1>1, NoDays, ValidationMoves DEF Phases, Sized

(* A step of v that keeps its days.                                         *)
LEMMA ValidationGoesOn ==
  ASSUME TypeOK, Safe, NEW v \in Validators, NEW x \in Phases, vpc' = [vpc EXCEPT ![v] = x],
         x \in Sized => vpc[v] \in Sized, pool' = pool, Collection
  PROVE  Safe'
<1>1. pool[v] \in Loads /\ pool' = [pool EXCEPT ![v] = pool[v]]
  BY DEF TypeOK, Safe
<1>2. \A d \in DOMAIN pool[v] : Content[d] = pool[v][d]
  BY <1>1 DEF Safe, InPool, Loads
<1>3. x \in Sized => Cardinality(DOMAIN pool[v]) >= MinDays
  BY DEF Safe, Loaded, Sized
<1> QED BY <1>1, <1>2, <1>3, ValidationMoves

LEMMA LoadManifestKeeps == ASSUME NEW v \in Validators, TypeOK, Safe, LoadManifest(v) PROVE Safe'
<1> DEFINE accepted == {d \in Days : Accepted(manifest[d])}
           P == [d \in accepted |-> manifest[d]]
<1>1. Collection
  BY DEF LoadManifest
<1>2. CASE Refuse(v)
  BY <1>1, <1>2, RefuseKeeps
<1>3. CASE vpc' = [vpc EXCEPT ![v] = "verify"] /\ pool' = [pool EXCEPT ![v] = P]
  <2>1. P \in Loads
    BY ListedDays
  <2>2. \A d \in DOMAIN P : Content[d] = P[d]
    BY DEF Safe, InPool
  <2> HIDE DEF P
  <2> QED BY <1>1, <1>3, <2>1, <2>2, ValidationMoves DEF Phases, Sized
<1> QED BY <1>2, <1>3 DEF LoadManifest, Set

(* What the files of an accepted day hold is what the manifest said.        *)
LEMMA LoadKeeps == ASSUME NEW v \in Validators, TypeOK, Safe, Load(v) PROVE Safe'
<1> DEFINE D == DOMAIN pool[v]
           P == [d \in D |-> Bars(d)]
<1>1. Collection
  BY DEF Load
<1>2. CASE Refuse(v)
  BY <1>1, <1>2, RefuseKeeps
<1>3. CASE /\ Cardinality(D) >= MinDays
           /\ vpc' = [vpc EXCEPT ![v] = "evaluate"] /\ pool' = [pool EXCEPT ![v] = P]
  <2>1. D \subseteq Days /\ \A d \in D : pool[v][d] \in Hashes
    BY DEF TypeOK, Safe, Loads
  <2>2. ASSUME NEW d \in D PROVE Bars(d) = Content[d] /\ Bars(d) \in Hashes
    <3>1. d \in Days /\ Content[d] \in Hashes
      BY <2>1 DEF Safe, InPool
    <3>2. CASE Whole(d)
      BY <3>1, <3>2 DEF Content, Whole, Bars
    <3>3. CASE ~Whole(d)
      <4>1. d \in Established
        BY <3>1, <3>3, OosAssumption DEF Content
      <4>2. files[d][1] = Nothing
        BY <3>1, <4>1 DEF Safe, Storing, Present, Absent, Artifacts
      <4> QED BY <3>1, <3>3, <4>1, <4>2 DEF Content, Bars
    <3> QED BY <3>2, <3>3
  <2>3. P \in Loads /\ DOMAIN P = D
    BY ReadDays
  <2>4. \A d \in DOMAIN P : Content[d] = P[d]
    BY <2>2
  <2> HIDE DEF P
  <2> QED BY <1>1, <1>3, <2>3, <2>4, ValidationMoves DEF Phases
<1> QED BY <1>2, <1>3 DEF Load, Set

LEMMA ValidateKeeps == ASSUME NEW v \in Validators, TypeOK, Safe, Validate(v) PROVE Safe'
<1>2. CASE Invoke(v)
  BY <1>2, ValidationGoesOn DEF Invoke, Set, Phases, Sized
<1>3. CASE Evaluate(v)
  BY <1>3, RefuseKeeps, ValidationGoesOn DEF Evaluate, Set, Phases, Sized
<1>4. CASE CheckRecord(v)
  BY <1>4, RefuseKeeps, ValidationGoesOn DEF CheckRecord, Set, Phases, Sized
<1>5. CASE Consume(v)
  BY <1>5, ValidationGoesOn DEF Consume, Set, Phases, Sized
<1>6. CASE WriteResults(v)
  BY <1>6, RefuseKeeps DEF WriteResults
<1> QED BY <1>2, <1>3, <1>4, <1>5, <1>6, LoadManifestKeeps, LoadKeeps DEF Validate

LEMMA ValidatorDiesKeeps == ASSUME NEW v \in Validators, TypeOK, Safe, ValidatorDies(v) PROVE Safe'
BY RefuseKeeps DEF ValidatorDies
-----------------------------------------------------------------------------
LEMMA InitKeeps == Init => IInv
<1> SUFFICES ASSUME Init PROVE IInv
  OBVIOUS
<1>1. Locked
  BY DEF Init, Locked, Holding
<1>2. Storing
  BY DEF Init, Storing, Present
<1>3. InPool
  BY EmptyEntries, NoDays DEF Init, InPool
<1>4. Loaded
  BY DEF Init, Loaded
<1> QED BY <1>1, <1>2, <1>3, <1>4, InitTypes DEF IInv, Safe

(* A lock file that was removed from a live process stays removed.          *)
LEMMA RobbedStays == ASSUME [Next]_vars, robbed PROVE robbed'
BY DEF Next, Collect, Construct, Acquire, Write, FindStale, Busy, Break, Create, Untouched,
  Examine, Verify, Fetch, Replace, Elsewhere, Save, CollectorDies, Validate, Invoke,
  LoadManifest, Load, Evaluate, CheckRecord, Consume, WriteResults, ValidatorDies, Collection, vars

LEMMA SafeStays == TypeOK /\ Safe /\ [Next]_vars /\ ~robbed' => Safe'
<1> SUFFICES ASSUME TypeOK, Safe, [Next]_vars, ~robbed' PROVE Safe'
  OBVIOUS
<1>1. ASSUME NEW p \in Collectors, Collect(p) PROVE Safe'
  <2>1. CASE Construct(p) \/ Acquire(p) \/ Write(p) \/ FindStale(p) \/ Break(p) \/ Create(p)
    BY <2>1, ConstructKeeps, AcquireKeeps, WriteKeeps, FindStaleKeeps, BreakKeeps, CreateKeeps
  <2>2. CASE Busy(p) \/ Examine(p) \/ Verify(p) \/ Fetch(p) \/ Replace(p) \/ Save(p)
    BY <2>2, BusyKeeps, ExamineKeeps, VerifyKeeps, FetchKeeps, ReplaceKeeps, SaveKeeps
  <2> QED BY <1>1, <2>1, <2>2 DEF Collect
<1>2. CASE UNCHANGED vars
  <2>1. UNCHANGED <<files, manifest, lock, pc, day, mem, got, art, vpc, pool>>
    BY <1>2 DEF vars, collectors, validation
  <2>2. Locked' /\ Loaded'
    BY <2>1 DEF Safe, Locked, Loaded
  <2>3. Content' = Content /\ \A d \in Days : Present(d)' <=> Present(d)
    BY <2>1, SameContent
  <2>4. Storing' /\ InPool'
    BY <2>1, <2>3 DEF Safe, Storing, InPool, Accepted
  <2> QED BY <2>2, <2>4 DEF Safe
<1> QED BY <1>1, <1>2, CollectorDiesKeeps, ValidateKeeps, ValidatorDiesKeeps DEF Next

LEMMA Invariance == Spec => []IInv
<1>1. IInv /\ [Next]_vars => IInv'
  BY StepTypes, SafeStays, RobbedStays DEF IInv
<1> QED BY <1>1, InitKeeps, PTL DEF Spec
-----------------------------------------------------------------------------
(* Two passes work on the store at a time only after a take-over removed    *)
(* the lock file of a live process, for any number of commands beside the   *)
(* scheduler, any deaths, empty and stale lock files (lock.py:1).           *)
THEOREM Exclusion == Spec => []OnePass
<1>1. IInv => OnePass
  <2> SUFFICES ASSUME IInv, ~robbed PROVE ~(Cardinality(Holders) > 1)
    BY DEF OnePass
  <2>1. Holders \subseteq {lock}
    BY DEF Holders, IInv, Safe, Locked, Holding
  <2>2. IsFiniteSet({lock}) /\ Cardinality({lock}) = 1
    BY FS_Singleton
  <2>3. Cardinality(Holders) <= 1 /\ Cardinality(Holders) \in Nat
    BY <2>1, <2>2, FS_Subset, FS_CardinalityType
  <2> QED BY <2>3
<1> QED BY <1>1, Invariance, PTL

(* Until a live process loses its lock, what a manifest calls accepted, in  *)
(* the file, in the memory of a collector built before the last passes, or  *)
(* loaded by a validation, is in the pool with that hash (collector.py      *)
(* _acquire_new, store.py write_day).                                       *)
THEOREM Stored == Spec => []AcceptedIsStored
<1>1. IInv => AcceptedIsStored
  BY DEF IInv, Safe, AcceptedIsStored
<1> QED BY <1>1, Invariance, PTL
-----------------------------------------------------------------------------
(* With one validation, the pool is what SingleUsePool promises.            *)
LEMMA ContentMoves ==
  ASSUME TypeOK, Safe, [Next]_vars
  PROVE  Content' = Content \/ \E d \in Days, h \in Hashes : Content[d] = Nothing /\ Content' = [Content EXCEPT ![d] = h]
<1>1. CASE files' = files
  BY <1>1, SameContent
<1>2. CASE files' # files
  <2>1. PICK p \in Collectors : Replace(p)
    BY <1>2 DEF Next, Collect, Validate, vars, Construct, Acquire, Write, FindStale, Break,
             Create, Busy, Untouched, Examine, Verify, Fetch, Save, CollectorDies, Collection,
             Invoke, LoadManifest, Load, Evaluate, CheckRecord, Consume, WriteResults, ValidatorDies
  <2> DEFINE d == day[p]
  <2>2. /\ pc[p] = "replace" /\ files' = [files EXCEPT ![d][art[p]] = got[p]]
    BY <2>1 DEF Replace
  <2>3. /\ d \in Days /\ d \notin Established /\ art[p] \in 1 .. 3
        /\ got[p] \in Hashes /\ got[p] # Nothing
        /\ \A a \in 1 .. 3 : files[d][a] = IF a < art[p] THEN got[p] ELSE Nothing
        /\ files \in [Days -> [1 .. 3 -> Entry]]
    BY <2>2, OosAssumption DEF TypeOK, Safe, Storing, Artifacts, Entry
  <2>4. /\ \A e \in Days : e # d => files'[e] = files[e]
        /\ files'[d] = [files[d] EXCEPT ![art[p]] = got[p]]
    BY <2>2, <2>3
  <2>5. \A a \in 1 .. 3 : files'[d][a] = IF a <= art[p] THEN got[p] ELSE Nothing
    BY <2>3, <2>4
  <2>6. \A e \in Days : e # d => Content'[e] = Content[e]
    BY <2>4 DEF Content, Whole
  <2>7. Content[d] = Nothing
    <3>1. files[d][3] = Nothing
      BY <2>3
    <3> QED BY <2>3, <3>1 DEF Content, Whole, Artifacts
  <2>8. Content = [e \in Days |-> Content[e]] /\ Content' = [e \in Days |-> Content'[e]]
    BY DEF Content
  <2>9. CASE art[p] = 3
    <3>1. Content'[d] = got[p]
      BY <2>3, <2>5, <2>9 DEF Content, Whole, Artifacts
    <3>2. Content' = [Content EXCEPT ![d] = got[p]]
      BY <2>6, <2>8, <3>1
    <3> QED BY <2>3, <2>7, <3>2
  <2>10. CASE art[p] # 3
    <3>1. files'[d][3] = Nothing /\ files'[d][1] = got[p]
      BY <2>3, <2>5, <2>10
    <3>2. Content'[d] = Nothing
      BY <2>3, <3>1 DEF Content, Whole, Artifacts
    <3>3. Content' = Content
      BY <2>6, <2>7, <2>8, <3>2
    <3> QED BY <3>3
  <2> QED BY <2>9, <2>10
<1> QED BY <1>1, <1>2

OneValidation == \A v, w \in Validators : v = w

LEMMA UnusedKeeps ==
  ASSUME OneValidation, TypeOK, Unused, [Next]_vars PROVE Unused'
<1>1. CASE UNCHANGED <<vpc, consumed>>
  BY <1>1 DEF Unused
<1>2. ASSUME NEW v \in Validators, Validate(v) \/ ValidatorDies(v) PROVE Unused'
  <2>1. \A w \in Validators : w = v
    BY DEF OneValidation
  <2>2. vpc \in [Validators -> Phases]
    BY DEF TypeOK, Safe, Phases
  <2>3. CASE consumed' = consumed
    <3>1. vpc'[v] = "consume" => consumed = Nothing
      BY <1>2, <2>2, <2>3 DEF Validate, Invoke, LoadManifest, Load, Evaluate, CheckRecord,
               Consume, WriteResults, ValidatorDies, Refuse, Set, Unused
    <3> QED BY <2>1, <2>3, <3>1 DEF Unused
  <2>4. CASE consumed' # consumed
    <3>1. vpc' = [vpc EXCEPT ![v] = "results"]
      BY <1>2, <2>4 DEF Validate, Invoke, LoadManifest, Load, Evaluate, CheckRecord,
               Consume, WriteResults, ValidatorDies, Set
    <3> QED BY <2>1, <2>2, <3>1 DEF Unused
  <2> QED BY <2>3, <2>4
<1>3. ASSUME NEW p \in Collectors, Collect(p) \/ CollectorDies(p) PROVE UNCHANGED <<vpc, consumed>>
  BY <1>3 DEF Collect, Construct, Acquire, Write, FindStale, Break, Create, Busy, Untouched,
       Examine, Verify, Fetch, Replace, Save, CollectorDies, Elsewhere, validation
<1> QED BY <1>1, <1>2, <1>3 DEF Next, vars, validation

(* The pool is used by Consume alone, when nothing used it before.          *)
LEMMA Uses ==
  ASSUME Unused, [Next]_vars, consumed' # consumed
  PROVE  \E v \in Validators : Consume(v) /\ consumed = Nothing
<1>1. PICK v \in Validators : Consume(v)
  BY DEF Next, Collect, Construct, Acquire, Write, FindStale, Break, Create, Busy,
     Untouched, Examine, Verify, Fetch, Replace, Save, CollectorDies, Elsewhere, validation,
     Validate, Invoke, LoadManifest, Load, Evaluate, CheckRecord, WriteResults, ValidatorDies,
     vars
<1> QED BY <1>1 DEF Consume, Unused

LEMMA ContentOnce ==
  ASSUME IInv, Unused, [Next]_vars
  PROVE  [Pool!PoolNext]_<<Content, consumed, robbed>>
<1>1. CASE robbed'
  BY <1>1, Uses DEF Pool!PoolNext, Pool!Disturb
<1>2. CASE ~robbed'
  <2>1. TypeOK /\ Safe /\ robbed' = robbed
    BY <1>2, RobbedStays, StepTypes DEF IInv, TypeOK
  <2>2. CASE consumed' = consumed
    BY <2>1, <2>2, ContentMoves DEF Pool!PoolNext, Pool!Store
  <2>3. CASE consumed' # consumed
    <3>1. PICK v \in Validators : Consume(v) /\ consumed = Nothing
      BY <2>3, Uses
    <3> DEFINE D == DOMAIN pool[v]
    <3>2. /\ vpc[v] = "consume" /\ consumed' = pool[v] /\ files' = files
      BY <3>1 DEF Consume, Collection
    <3>3. Cardinality(D) >= MinDays
      BY <2>1, <3>2 DEF Safe, Loaded
    <3>4. PICK E \in SUBSET Days : pool[v] \in [E -> Hashes]
      BY <2>1 DEF TypeOK, Loads
    <3>5. \A d \in D : Content[d] = pool[v][d] /\ Content[d] # Nothing
      BY <2>1, <3>4, OosAssumption DEF Safe, InPool
    <3>6. pool[v] = [d \in D |-> Content[d]] /\ D \in SUBSET Days
      BY <3>4, <3>5
    <3>7. Content' = Content
      BY <3>2, SameContent
    <3>8. Pool!Use(D)
      <4>1. consumed' = [d \in D |-> Content[d]]
        BY <3>2, <3>6
      <4>2. \A d \in D : Content[d] # Nothing
        BY <3>5
      <4> HIDE DEF D
      <4> QED BY <3>1, <3>3, <3>7, <4>1, <4>2 DEF Pool!Use, Pool!Cardinality, Cardinality
    <3> QED BY <2>1, <3>6, <3>8 DEF Pool!PoolNext
  <2> QED BY <2>2, <2>3
<1> QED BY <1>1, <1>2

(* A single validation, run again and again and dying anywhere, uses the    *)
(* pool once; until a live process loses its lock, a day of the pool never  *)
(* changes once it is there and the pool is used for days it held in full   *)
(* (store.py "never overwrites an existing day", consume.py "exactly once"). *)
THEOREM Used == OneValidation => (Spec => SingleUse)
<1> SUFFICES ASSUME OneValidation PROVE Spec => SingleUse
  OBVIOUS
<1>1. Init => Pool!PoolInit /\ Unused
  <2> SUFFICES ASSUME Init PROVE Pool!PoolInit /\ Unused
    OBVIOUS
  <2>1. \A d \in Days : ~Whole(d)
    BY DEF Init, Absent, Whole, Artifacts
  <2> QED BY <2>1 DEF Init, Pool!PoolInit, Content, Unused
<1>2. IInv /\ Unused /\ [Next]_vars => Unused'
  BY UnusedKeeps DEF IInv
<1>3. IInv /\ Unused /\ [Next]_vars => [Pool!PoolNext]_<<Content, consumed, robbed>>
  BY ContentOnce
<1> QED BY <1>1, <1>2, <1>3, Invariance, PTL DEF Spec, SingleUse, Pool!PoolSpec
=============================================================================
