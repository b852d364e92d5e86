------------------------ MODULE LearningLoop_proofs ------------------------
(***************************************************************************)
(* Theorems about LearningLoop for any strategies, candidates, runs, deaths *)
(* and processes: as long as no process appends a line after another's has  *)
(* overtaken it, and no death leaves a part of a line, memory is what the   *)
(* log says with the line that is still to be written, and the title passes *)
(* on as Championship promises; a single process at a time also has the     *)
(* experience behind every promotion in the store.  The registry is         *)
(* numbered by position, which makes the next number new and the target of  *)
(* a rollback unique.                                                       *)
(***************************************************************************)
EXTENDS LearningLoop, SequenceTheorems, TLAPS

Champions == Strategies \cup {Built[n] : n \in DOMAIN Built}
Experiences == Nat \X Champions
Evidences == SUBSET [over : Experiences, earned : BOOLEAN]
Params == {"plain", "rich", "text"}
Version == [id : Nat, strategy : Strategies, evidence : Evidences, params : Params]
Registry == [chain : Seq(Version), status : Seq({"ACTIVE", "RETIRED", "ROLLED_BACK"}),
             active : Nat, ok : BOOLEAN]
Stages == {"off", "cycle", "truncate", "write", "meta", "gate", "command"}
Shaped(q) ==
    q \in [pc : Stages, reg : Registry, line : {q.line}, mem : {q.mem}, batch : Nat,
           champion : Champions, good : SUBSET Strategies, left : Seq(Strategies)]

(* A registry whose version at n is number n - 1, and one of whose versions *)
(* is active as soon as there is any.                                       *)
Numbered(reg) ==
    /\ reg \in Registry /\ reg.ok /\ reg.active <= Len(reg.chain)
    /\ \A n \in 1 .. Len(reg.chain) : reg.chain[n].id = n - 1
    /\ Started(reg) => reg.active >= 1

(* A version with this evidence is appended and becomes the active one.     *)
Grows(reg, new, evidence) ==
    /\ Numbered(new) /\ new.active = Len(reg.chain) + 1
    /\ \E v \in Version : /\ v.id = Len(reg.chain) /\ v.evidence = evidence
                          /\ new.chain = Append(reg.chain, v)

(* The chain stays and an earlier version becomes the active one.           *)
Returns(reg, new) ==
    Numbered(new) /\ new.chain = reg.chain /\ new.active < reg.active /\ Started(reg)

Working(p) == proc[p].pc # "off"
Flushing == {"truncate", "write", "meta"}
Past == Flushing \cup {"gate"}

(* What the log rec becomes by the line that is still to be written.        *)
Awaited(rec, line, new) ==
    /\ new = Applied(rec, Logged(line))
    /\ (\E evidence : Grows(rec, new, evidence)) \/ Returns(rec, new)

(* A process that nobody has overtaken.                                     *)
Fresh(q, rec) ==
    /\ Shaped(q) /\ Numbered(q.reg)
    /\ q.pc \in Past => Started(q.reg)
    /\ q.pc \in Flushing => q.line = <<>>
    /\ \/ q.line = <<>> /\ AsLogged(q.reg) = rec
       \/ \E line : q.line = <<line>> /\ Awaited(rec, line, AsLogged(q.reg))

Current ==
    /\ Numbered(record) /\ AsLogged(record) = record
    /\ \A p \in Proc : Working(p) /\ p \notin behind => Fresh(proc[p], record)

Holds(records, x) == \E k \in 1 .. Len(records) : records[k] = x
Supports(chain, records) ==
    \A n \in 1 .. Len(chain) : \A e \in chain[n].evidence : Holds(records, e.over)

(* Every promotion, in memory already or in the log, rests on an experience *)
(* in the store or, while the store is rewritten, in the memory it is       *)
(* rewritten from.                                                          *)
Rests(q, records) ==
    /\ q.pc # "off" => q.mem \in Seq(Experiences)
    /\ q.pc \in {"cycle", "meta", "gate"} => q.mem = records
    /\ q.pc \in {"cycle", "meta", "gate", "command"} => Supports(q.reg.chain, records)
    /\ q.pc \in {"truncate", "write"} => Supports(q.reg.chain, q.mem)
    /\ q.pc \in Past => Holds(q.mem, Experience(q))
Files == [exists : BOOLEAN, records : Seq(Experiences), reads : BOOLEAN, meta : BOOLEAN]
Backed ==
    /\ store \in Files
    /\ (\A p \in Proc : proc[p].pc # "write") => Supports(record.chain, store.records)
    /\ \A p \in Proc : Rests(proc[p], store.records)

Single(p) == \A r \in Proc : r # p => proc[r].pc = "off"

IInv == /\ proc = [p \in Proc |-> proc[p]]
        /\ {shared, cut, clipped, raced} \subseteq BOOLEAN /\ behind \subseteq Proc
        /\ record.ok \/ raced \/ clipped
        /\ ~shared => ~raced /\ behind = {} /\ \A p \in Proc : Working(p) => Single(p)
        /\ ~raced => record.ok \/ record = Corrupt
        /\ ~raced /\ record.ok => Current
        /\ ~shared /\ ~cut /\ record.ok => Backed
-----------------------------------------------------------------------------
(* The registry.                                                            *)
LEMMA NextNumber ==
  ASSUME NEW reg, Numbered(reg), Started(reg) PROVE NextId(reg) = Len(reg.chain)
<1> DEFINE L == Len(reg.chain)
           P(n) == (\A m \in Ids(reg) : m < n) /\ (n = 1 \/ n - 1 \in Ids(reg))
<1>1. reg.chain \in Seq(Version) /\ L \in Nat \ {0}
  BY DEF Numbered, Registry, Started
<1>2. Ids(reg) = 0 .. L - 1
  <2>1. Ids(reg) = {n - 1 : n \in 1 .. L}
    BY <1>1 DEF Ids, Numbered
  <2>2. \A i \in 0 .. L - 1 : i + 1 \in 1 .. L /\ (i + 1) - 1 = i
    BY <1>1
  <2>3. \A n \in 1 .. L : n - 1 \in 0 .. L - 1
    BY <1>1
  <2> QED BY <2>1, <2>2, <2>3
<1>3. L \in 1 .. L + 1 /\ P(L)
  BY <1>1, <1>2
<1>4. ASSUME NEW n \in 1 .. L + 1, P(n) PROVE n = L
  <2>1. L - 1 < n
    BY <1>1, <1>2, <1>4
  <2>2. n = 1 \/ n - 1 <= L - 1
    BY <1>1, <1>2, <1>4
  <2> QED BY <1>1, <2>1, <2>2
<1>5. NextId(reg) = CHOOSE n \in 1 .. L + 1 : P(n)
  BY DEF NextId
<1> HIDE DEF L, P
<1>6. (CHOOSE n \in 1 .. L + 1 : P(n)) = L
  BY <1>3, <1>4
<1> QED BY <1>5, <1>6 DEF L

Marks == {"ACTIVE", "RETIRED", "ROLLED_BACK"}

LEMMA Marked ==
  ASSUME NEW s \in Seq(Marks), NEW n, NEW x \in Marks PROVE [s EXCEPT ![n] = x] \in Seq(Marks)
<1>1. s \in [1 .. Len(s) -> Marks] /\ Len(s) \in Nat
  OBVIOUS
<1>2. [s EXCEPT ![n] = x] \in [1 .. Len(s) -> Marks]
  BY <1>1
<1> QED BY <1>1, <1>2, SeqDef

LEMMA Choosing ==
  ASSUME NEW reg, Numbered(reg), NEW line, line.id = Len(reg.chain), line.strategy \in Strategies,
         line.evidence \in Evidences, line.params \in Params, NEW status \in Seq(Marks)
  PROVE  Grows(reg, Chosen(reg, line, status), line.evidence)
<1> DEFINE v == [id |-> line.id, strategy |-> line.strategy, evidence |-> line.evidence,
                 params |-> line.params]
           chain == Append(reg.chain, v)
           marks == Append(status, "ACTIVE")
           new == Chosen(reg, line, status)
           L == Len(reg.chain)
<1>1. reg \in Registry /\ reg.chain \in Seq(Version) /\ L \in Nat /\ reg.ok
  BY DEF Numbered, Registry
<1>2. v \in Version /\ v.id = L /\ v.evidence = line.evidence
  BY <1>1 DEF Version
<1>3. new = [reg EXCEPT !.chain = chain, !.status = marks, !.active = L + 1]
  BY DEF Chosen
<1>4. chain \in Seq(Version) /\ Len(chain) = L + 1 /\ chain[L + 1] = v
      /\ \A n \in 1 .. L : chain[n] = reg.chain[n]
  BY <1>1, <1>2
<1>5. marks \in Seq(Marks)
  BY DEF Marks
<1> HIDE DEF chain, marks, new
<1>6. /\ new \in Registry /\ new.chain = chain /\ new.active = L + 1 /\ new.ok
  <2> DEFINE one == [reg EXCEPT !.chain = chain]
             two == [one EXCEPT !.status = marks]
  <2>1. one \in Registry /\ one.chain = chain /\ one.ok
    BY <1>1, <1>4 DEF Registry
  <2>2. new = [two EXCEPT !.active = L + 1]
    BY <1>3
  <2> HIDE DEF one
  <2>3. two \in Registry /\ two.chain = chain /\ two.ok
    BY <1>5, <2>1 DEF Registry, Marks
  <2>4. L + 1 \in Nat
    BY <1>1
  <2> HIDE DEF two, L
  <2> QED BY <2>2, <2>3, <2>4 DEF Registry
<1> HIDE DEF v
<1>7. ASSUME NEW n \in 1 .. Len(chain) PROVE chain[n].id = n - 1
  <2>1. n \in 1 .. L \/ n = L + 1
    BY <1>1, <1>4
  <2> QED BY <1>1, <1>2, <1>4, <2>1 DEF Numbered
<1>8. Numbered(new)
  BY <1>1, <1>4, <1>6, <1>7 DEF Numbered
<1>9. new.chain = Append(reg.chain, v)
  BY <1>6 DEF chain
<1>10. Grows(reg, new, line.evidence)
  BY <1>2, <1>6, <1>8, <1>9 DEF Grows
<1> QED BY <1>10 DEF new

LEMMA Moving ==
  ASSUME NEW reg, Numbered(reg), NEW n \in 1 .. Len(reg.chain), n < reg.active
  PROVE  Returns(reg, MovedTo(reg, n))
<1> DEFINE retired == [reg.status EXCEPT ![reg.active] = "ROLLED_BACK"]
           marks == [retired EXCEPT ![n] = "ACTIVE"]
           new == MovedTo(reg, n)
<1>1. reg \in Registry /\ reg.status \in Seq(Marks) /\ reg.active \in Nat /\ reg.ok
      /\ reg.chain \in Seq(Version)
  BY DEF Numbered, Registry, Marks
<1>2. retired \in Seq(Marks)
  BY <1>1, Marked DEF Marks
<1> HIDE DEF retired
<1>3. marks \in Seq(Marks)
  BY <1>2, Marked DEF Marks
<1>4. new = [reg EXCEPT !.status = marks, !.active = n]
  BY <1>1 DEF MovedTo, retired, Registry
<1> HIDE DEF marks
<1>5. new \in Registry /\ new.chain = reg.chain /\ new.active = n /\ new.ok
  <2> DEFINE one == [reg EXCEPT !.status = marks]
  <2>1. one \in Registry /\ one.chain = reg.chain /\ one.ok
    BY <1>1, <1>3 DEF Registry, Marks
  <2>2. new = [one EXCEPT !.active = n]
    BY <1>4
  <2> HIDE DEF one, new
  <2> QED BY <2>1, <2>2 DEF Registry
<1> HIDE DEF new
<1>6. Returns(reg, new)
  BY <1>1, <1>5 DEF Returns, Numbered, Started
<1> QED BY <1>6 DEF new

LEMMA NumberedRegistry ==
  ASSUME NEW reg, Numbered(reg)
  PROVE  /\ reg.chain \in Seq(Version) /\ reg.status \in Seq(Marks) /\ reg.ok
         /\ Len(reg.chain) \in Nat /\ reg.active \in 0 .. Len(reg.chain)
         /\ Started(reg) <=> Len(reg.chain) # 0
         /\ Ids(reg) = {n - 1 : n \in 1 .. Len(reg.chain)}
<1>1. /\ reg.chain \in Seq(Version) /\ reg.status \in Seq(Marks) /\ reg.ok
      /\ reg.active \in Nat /\ reg.active <= Len(reg.chain)
  BY DEF Numbered, Registry, Marks
<1>2. Len(reg.chain) \in Nat /\ DOMAIN reg.chain = 1 .. Len(reg.chain)
      /\ (Len(reg.chain) = 0 <=> reg.chain = <<>>)
  BY <1>1
<1>3. Ids(reg) = {n - 1 : n \in 1 .. Len(reg.chain)}
  BY <1>2 DEF Ids, Numbered
<1> QED BY <1>1, <1>2, <1>3 DEF Started

LEMMA StartGrows ==
  ASSUME NEW reg, Numbered(reg), ~Started(reg), NEW s \in Strategies
  PROVE  /\ Applied(reg, StartLine(s)) = Chosen(reg, StartLine(s), reg.status)
         /\ Grows(reg, Applied(reg, StartLine(s)), {})
<1> DEFINE line == StartLine(s)
<1>1. /\ line.act = "start" /\ line.id = 0 /\ line.strategy = s /\ line.evidence = {}
      /\ line.params \in Params /\ line.evidence \in Evidences
  BY DEF StartLine, Line, Params, Evidences
<1> HIDE DEF line
<1>2. Len(reg.chain) = 0 /\ Ids(reg) = {} /\ reg.ok /\ reg.status \in Seq(Marks)
  <2>1. Len(reg.chain) = 0 /\ Ids(reg) = {n - 1 : n \in 1 .. Len(reg.chain)}
    BY NumberedRegistry
  <2>2. \A i \in Ids(reg) : FALSE
    BY <2>1
  <2> QED BY <2>1, <2>2, NumberedRegistry
<1>3. Applied(reg, line) = Chosen(reg, line, reg.status)
  BY <1>1, <1>2 DEF Applied
<1>4. Grows(reg, Chosen(reg, line, reg.status), line.evidence)
  BY <1>1, <1>2, Choosing
<1> QED BY <1>1, <1>3, <1>4 DEF line

LEMMA PromoteGrows ==
  ASSUME NEW reg, Numbered(reg), Started(reg), NEW s \in Strategies,
         NEW evidence \in Evidences, NEW params \in Params
  PROVE  LET line == PromoteLine(reg, s, evidence, params)
         IN /\ Applied(reg, line)
                = Chosen(reg, line, [reg.status EXCEPT ![reg.active] = "RETIRED"])
            /\ Grows(reg, Applied(reg, line), evidence)
<1> DEFINE line == PromoteLine(reg, s, evidence, params)
           status == [reg.status EXCEPT ![reg.active] = "RETIRED"]
<1>1. /\ line.act = "promote" /\ line.id = Len(reg.chain) /\ line.strategy = s
      /\ line.evidence = evidence /\ line.params = params
  BY NextNumber DEF PromoteLine, Line
<1> HIDE DEF line
<1>2. line.id \notin Ids(reg)
  BY <1>1, NumberedRegistry
<1>3. status \in Seq(Marks)
  BY NumberedRegistry, Marked DEF Marks
<1>4. Applied(reg, line) = Chosen(reg, line, status)
  BY <1>1, <1>2, NumberedRegistry DEF Applied
<1> HIDE DEF status
<1>5. Grows(reg, Chosen(reg, line, status), line.evidence)
  BY <1>1, <1>3, Choosing
<1> QED BY <1>1, <1>4, <1>5 DEF line, status

LEMMA RollbackReturns ==
  ASSUME NEW reg, Numbered(reg), CanRollBack(reg)
  PROVE  /\ Applied(reg, RollbackLine(reg)) = MovedTo(reg, reg.active - 1)
         /\ Returns(reg, Applied(reg, RollbackLine(reg)))
<1>1. reg.active - 1 \in 1 .. Len(reg.chain) /\ reg.active - 1 < reg.active
  BY NumberedRegistry DEF CanRollBack
<1>2. Applied(reg, RollbackLine(reg)) = MovedTo(reg, reg.active - 1)
  BY NumberedRegistry DEF Applied, RollbackLine
<1> QED BY <1>1, <1>2, Moving

LEMMA RollbackToReturns ==
  ASSUME NEW reg, Numbered(reg), NEW id \in Targets(reg)
  PROVE  /\ id \in Nat /\ Applied(reg, RollbackToLine(id)) = MovedTo(reg, id + 1)
         /\ Returns(reg, Applied(reg, RollbackToLine(id)))
<1>1. PICK n \in 1 .. reg.active - 1 : id = reg.chain[n].id
  BY DEF Targets
<1>2. n \in 1 .. Len(reg.chain) /\ n < reg.active /\ id = n - 1
  BY <1>1, NumberedRegistry DEF Numbered
<1>3. DOMAIN reg.chain = 1 .. Len(reg.chain)
  BY NumberedRegistry
<1>4. \A m \in DOMAIN reg.chain : reg.chain[m].id = id <=> m = n
  BY <1>2, <1>3, NumberedRegistry DEF Numbered
<1>5. IndexOf(reg, id) = n
  BY <1>2, <1>3, <1>4 DEF IndexOf
<1>6. id \in Ids(reg)
  BY <1>2, <1>3, <1>4 DEF Ids
<1>7. Applied(reg, RollbackToLine(id)) = MovedTo(reg, n)
  BY <1>5, <1>6, NumberedRegistry DEF Applied, RollbackToLine
<1>8. n = id + 1 /\ id \in Nat
  BY <1>2, NumberedRegistry
<1> QED BY <1>2, <1>7, <1>8, Moving

-----------------------------------------------------------------------------
(* What the log keeps of a registry: all but the parameters that are no     *)
(* JSON, and so its lines do to it what they did in memory.                 *)
LEMMA VersionInText ==
  ASSUME NEW v \in Version
  PROVE  /\ InText(v) \in Version /\ InText(v).id = v.id /\ InText(v).strategy = v.strategy
         /\ InText(v).evidence = v.evidence /\ InText(v).params = AsText(v.params)
         /\ InText(InText(v)) = InText(v)
BY DEF Version, Params, InText, AsText

LEMMA RegistryInText ==
  ASSUME NEW reg, Numbered(reg)
  PROVE  LET new == AsLogged(reg)
         IN /\ Numbered(new) /\ AsLogged(new) = new
            /\ new.active = reg.active /\ new.status = reg.status
            /\ Len(new.chain) = Len(reg.chain) /\ (Started(new) <=> Started(reg))
            /\ \A n \in 1 .. Len(reg.chain) : new.chain[n] = InText(reg.chain[n])
<1> DEFINE L == Len(reg.chain)
           chain == [n \in DOMAIN reg.chain |-> InText(reg.chain[n])]
           new == AsLogged(reg)
<1>1. /\ reg \in Registry /\ reg.chain \in Seq(Version) /\ L \in Nat
      /\ DOMAIN reg.chain = 1 .. L /\ \A n \in 1 .. L : reg.chain[n] \in Version
  BY NumberedRegistry DEF Numbered
<1>2. chain \in [1 .. L -> Version]
  BY <1>1, VersionInText
<1>3. /\ chain \in Seq(Version) /\ Len(chain) = L /\ DOMAIN chain = 1 .. L
      /\ \A n \in 1 .. L : chain[n] = InText(reg.chain[n])
  BY <1>1, <1>2, SeqDef
<1>4. new = [reg EXCEPT !.chain = chain]
  BY DEF AsLogged
<1> HIDE DEF chain
<1>5. /\ new \in Registry /\ new.chain = chain /\ new.active = reg.active
      /\ new.status = reg.status /\ new.ok = reg.ok
  BY <1>1, <1>3, <1>4 DEF Registry
<1> HIDE DEF new
<1>6. Started(new) <=> Started(reg)
  BY <1>1, <1>3, <1>5 DEF Started
<1>7. \A n \in 1 .. L : new.chain[n].id = n - 1
  BY <1>1, <1>3, <1>5, VersionInText DEF Numbered
<1>8. Numbered(new)
  BY <1>1, <1>3, <1>5, <1>6, <1>7 DEF Numbered
<1>9. AsLogged(new) = new
  <2>1. [n \in DOMAIN new.chain |-> InText(new.chain[n])] = [n \in 1 .. L |-> chain[n]]
    BY <1>1, <1>3, <1>5, VersionInText
  <2>2. [n \in 1 .. L |-> chain[n]] = chain
    BY <1>3
  <2>3. AsLogged(new) = [new EXCEPT !.chain = chain]
    BY <2>1, <2>2 DEF AsLogged
  <2> QED BY <1>5, <2>3 DEF Registry
<1> QED BY <1>3, <1>5, <1>6, <1>8, <1>9 DEF new

LEMMA ChosenInText ==
  ASSUME NEW reg, Numbered(reg), NEW id \in Nat, NEW s \in Strategies,
         NEW evidence \in Evidences, NEW params \in Params, NEW act, NEW status \in Seq(Marks)
  PROVE  LET line == Line(act, id, s, evidence, params)
         IN AsLogged(Chosen(reg, line, status)) = Chosen(AsLogged(reg), InText(line), status)
<1> DEFINE line == Line(act, id, s, evidence, params)
           v == [id |-> id, strategy |-> s, evidence |-> evidence, params |-> params]
           L == Len(reg.chain)
           marks == Append(status, "ACTIVE")
           text == [n \in DOMAIN reg.chain |-> InText(reg.chain[n])]
           long == Append(reg.chain, v)
           a == [n \in DOMAIN long |-> InText(long[n])]
           b == Append(text, InText(v))
           one == Chosen(reg, line, status)
           old == AsLogged(reg)
<1>1. /\ reg \in Registry /\ reg.chain \in Seq(Version) /\ L \in Nat
      /\ DOMAIN reg.chain = 1 .. L /\ \A n \in 1 .. L : reg.chain[n] \in Version
  BY NumberedRegistry DEF Numbered
<1>2. v \in Version
  BY DEF Version
<1>3. InText(v) = [id |-> id, strategy |-> s, evidence |-> evidence, params |-> AsText(params)]
  BY DEF InText
<1>4. text \in Seq(Version) /\ Len(text) = L /\ \A n \in 1 .. L : text[n] = InText(reg.chain[n])
  <2>1. text \in [1 .. L -> Version]
    BY <1>1, VersionInText
  <2> QED BY <1>1, <2>1, SeqDef
<1> HIDE DEF text
<1>5. /\ long \in Seq(Version) /\ Len(long) = L + 1 /\ long[L + 1] = v
      /\ DOMAIN long = 1 .. L + 1
      /\ \A n \in 1 .. L : long[n] = reg.chain[n]
  BY <1>1, <1>2
<1>6. InText(v) \in Version
  BY <1>2, VersionInText
<1> HIDE DEF v
<1>7. /\ b \in Seq(Version) /\ Len(b) = L + 1 /\ b[L + 1] = InText(v)
      /\ \A n \in 1 .. L : b[n] = text[n]
  BY <1>4, <1>6, <1>1
<1> HIDE DEF long, b
<1>8. a \in Seq(Version) /\ Len(a) = L + 1 /\ \A n \in 1 .. L + 1 : a[n] = InText(long[n])
  <2>1. \A n \in 1 .. L + 1 : long[n] \in Version
    BY <1>5
  <2>2. a \in [1 .. L + 1 -> Version]
    BY <1>5, <2>1, VersionInText
  <2> QED BY <1>1, <1>5, <2>2, SeqDef
<1>9. a = b
  <2> HIDE DEF a
  <2>1. ASSUME NEW n \in 1 .. L + 1 PROVE a[n] = b[n]
    <3>1. n \in 1 .. L \/ n = L + 1
      BY <1>1
    <3> QED BY <1>4, <1>5, <1>7, <1>8, <3>1
  <2> QED BY <1>7, <1>8, <2>1, SeqEqual
<1>10. one = [[[reg EXCEPT !.chain = long] EXCEPT !.status = marks] EXCEPT !.active = L + 1]
  BY DEF Chosen, Line, long, v
<1>11. old = [reg EXCEPT !.chain = text]
  BY DEF AsLogged, text
<1>12. old.chain = text /\ Len(old.chain) = L
  BY <1>1, <1>4, <1>11 DEF Registry
<1>13. Chosen(old, InText(line), status)
         = [[[old EXCEPT !.chain = b] EXCEPT !.status = marks] EXCEPT !.active = L + 1]
  <2> HIDE DEF old
  <2>1. InText(line) = [act |-> act, id |-> id, strategy |-> s, evidence |-> evidence,
                        params |-> AsText(params)]
    BY DEF InText, Line
  <2>2. [id |-> InText(line).id, strategy |-> InText(line).strategy,
         evidence |-> InText(line).evidence, params |-> InText(line).params] = InText(v)
    BY <1>3, <2>1
  <2>3. Append(old.chain, InText(v)) = b
    BY <1>12 DEF b
  <2> HIDE DEF line
  <2> QED BY <1>12, <2>2, <2>3 DEF Chosen
<1> HIDE DEF marks
<1>14. one.chain = long
  BY <1>1, <1>10 DEF Registry
<1>15. AsLogged(one) = [one EXCEPT !.chain = a]
  BY <1>14 DEF AsLogged
<1> HIDE DEF one, old, a
<1>16. AsLogged(one) = Chosen(old, InText(line), status)
  <2> HIDE DEF line
  <2> QED BY <1>1, <1>9, <1>10, <1>11, <1>13, <1>15 DEF Registry
<1> QED BY <1>16 DEF one, old

LEMMA MovedInText ==
  ASSUME NEW reg, Numbered(reg), NEW n
  PROVE  AsLogged(MovedTo(reg, n)) = MovedTo(AsLogged(reg), n)
<1> DEFINE text == [k \in DOMAIN reg.chain |-> InText(reg.chain[k])]
           marks == [[reg.status EXCEPT ![reg.active] = "ROLLED_BACK"] EXCEPT ![n] = "ACTIVE"]
           old == AsLogged(reg)
           one == MovedTo(reg, n)
<1>1. reg \in Registry
  BY DEF Numbered
<1>2. old = [reg EXCEPT !.chain = text]
  BY DEF AsLogged
<1>3. one = [[reg EXCEPT !.status = marks] EXCEPT !.active = n]
  BY <1>1 DEF MovedTo, Registry
<1> HIDE DEF text, marks
<1>4. old.status = reg.status /\ old.active = reg.active
  BY <1>1, <1>2 DEF Registry
<1>5. MovedTo(old, n) = [[old EXCEPT !.status = marks] EXCEPT !.active = n]
  <2>1. old \in [chain : {text}, status : {reg.status}, active : {reg.active}, ok : {reg.ok}]
    BY <1>1, <1>2 DEF Registry
  <2> HIDE DEF old
  <2> QED BY <1>4, <2>1 DEF MovedTo, marks
<1>6. one.chain = reg.chain
  BY <1>1, <1>3 DEF Registry
<1>7. AsLogged(one) = [one EXCEPT !.chain = text]
  BY <1>6 DEF AsLogged, text
<1> HIDE DEF old, one
<1>8. AsLogged(one) = MovedTo(old, n)
  BY <1>1, <1>2, <1>3, <1>5, <1>7 DEF Registry
<1> QED BY <1>8 DEF old, one

(* The lines a process writes, with the evidence of the version they add.   *)
Writes(reg, line, evidence) ==
    \/ ~Started(reg) /\ evidence = {} /\ \E s \in Strategies : line = StartLine(s)
    \/ Started(reg) /\ \E s \in Strategies, params \in Params :
                          line = PromoteLine(reg, s, evidence, params)
    \/ CanRollBack(reg) /\ evidence = {} /\ line = RollbackLine(reg)
    \/ evidence = {} /\ \E id \in Targets(reg) : line = RollbackToLine(id)

LEMMA Written ==
  ASSUME NEW reg, Numbered(reg), NEW evidence \in Evidences, NEW line,
         Writes(reg, line, evidence)
  PROVE  /\ Grows(reg, Applied(reg, line), evidence) \/ Returns(reg, Applied(reg, line))
         /\ Awaited(AsLogged(reg), line, AsLogged(Applied(reg, line)))
<1> DEFINE old == AsLogged(reg)
           new == Applied(reg, line)
<1>1. /\ Numbered(old) /\ old.active = reg.active /\ old.status = reg.status
      /\ Len(old.chain) = Len(reg.chain) /\ (Started(old) <=> Started(reg))
      /\ \A n \in 1 .. Len(reg.chain) : old.chain[n] = InText(reg.chain[n])
  BY RegistryInText
<1>2. CASE ~Started(reg) /\ evidence = {} /\ \E s \in Strategies : line = StartLine(s)
  <2>1. PICK s \in Strategies : line = StartLine(s)
    BY <1>2
  <2>2. Logged(line) = line /\ InText(line) = line
    BY <2>1 DEF StartLine, Line, Logged, InText, AsText
  <2>3. /\ new = Chosen(reg, line, reg.status) /\ Grows(reg, new, {})
        /\ Applied(old, line) = Chosen(old, line, old.status) /\ Grows(old, Applied(old, line), {})
    BY <1>1, <1>2, <2>1, StartGrows
  <2>4. AsLogged(new) = Chosen(old, InText(line), reg.status)
    <3>1. reg.status \in Seq(Marks) /\ {} \in Evidences /\ "plain" \in Params
      BY NumberedRegistry DEF Evidences, Params
    <3>2. AsLogged(Chosen(reg, line, reg.status)) = Chosen(old, InText(line), reg.status)
      BY <2>1, <3>1, ChosenInText DEF StartLine
    <3> QED BY <2>3, <3>2
  <2> HIDE DEF old, new
  <2>5. AsLogged(new) = Applied(old, Logged(line))
    BY <1>1, <2>2, <2>3, <2>4
  <2> QED BY <1>2, <2>2, <2>3, <2>5 DEF Awaited, old, new
<1>3. CASE Started(reg) /\ \E s \in Strategies, params \in Params :
                              line = PromoteLine(reg, s, evidence, params)
  <2>1. PICK s \in Strategies, params \in Params : line = PromoteLine(reg, s, evidence, params)
    BY <1>3
  <2>2. NextId(reg) = Len(reg.chain) /\ NextId(old) = Len(reg.chain)
    BY <1>1, <1>3, NextNumber
  <2>3. AsText(params) \in Params
    BY DEF AsText, Params
  <2>4. Logged(line) = InText(line) /\ InText(line) = PromoteLine(old, s, evidence, AsText(params))
    BY <2>1, <2>2 DEF PromoteLine, Line, Logged, InText
  <2> DEFINE status == [reg.status EXCEPT ![reg.active] = "RETIRED"]
  <2>5. new = Chosen(reg, line, status) /\ Grows(reg, new, evidence)
    BY <1>3, <2>1, PromoteGrows
  <2>6. /\ Applied(old, InText(line)) = Chosen(old, InText(line), status)
        /\ Grows(old, Applied(old, InText(line)), evidence)
    <3> DEFINE text == PromoteLine(old, s, evidence, AsText(params))
    <3>1. /\ Applied(old, text) = Chosen(old, text, [old.status EXCEPT ![old.active] = "RETIRED"])
          /\ Grows(old, Applied(old, text), evidence)
      BY <1>1, <1>3, <2>3, PromoteGrows
    <3> HIDE DEF old
    <3> QED BY <1>1, <2>4, <3>1
  <2>7. status \in Seq(Marks) /\ Len(reg.chain) \in Nat
    BY NumberedRegistry, Marked DEF Marks
  <2> HIDE DEF status
  <2>8. AsLogged(Chosen(reg, line, status)) = Chosen(old, InText(line), status)
    BY <2>1, <2>2, <2>7, ChosenInText DEF PromoteLine
  <2> HIDE DEF old, new
  <2>9. AsLogged(new) = Applied(old, Logged(line))
    BY <2>4, <2>5, <2>6, <2>8
  <2> QED BY <2>4, <2>5, <2>6, <2>9 DEF Awaited, old, new
<1>4. CASE CanRollBack(reg) /\ evidence = {} /\ line = RollbackLine(reg)
  <2>1. Logged(line) = line
    BY <1>4 DEF RollbackLine, Logged
  <2>2. CanRollBack(old)
    BY <1>1, <1>4 DEF CanRollBack
  <2>3. RollbackLine(old) = line
    <3>1. reg.active \in 1 .. Len(reg.chain) /\ reg.chain[reg.active] \in Version
      BY <1>4, NumberedRegistry DEF CanRollBack
    <3>2. ActiveVersion(old).id = ActiveVersion(reg).id
      BY <1>1, <3>1, VersionInText DEF ActiveVersion
    <3> QED BY <1>4, <3>2 DEF RollbackLine
  <2>4. /\ new = MovedTo(reg, reg.active - 1) /\ Returns(reg, new)
        /\ Applied(old, line) = MovedTo(old, old.active - 1) /\ Returns(old, Applied(old, line))
    BY <1>1, <1>4, <2>2, <2>3, RollbackReturns
  <2>5. AsLogged(MovedTo(reg, reg.active - 1)) = MovedTo(old, reg.active - 1)
    BY MovedInText
  <2> HIDE DEF old, new
  <2>6. AsLogged(new) = Applied(old, Logged(line))
    BY <1>1, <2>1, <2>4, <2>5
  <2> QED BY <2>1, <2>4, <2>6 DEF Awaited, old, new
<1>5. CASE evidence = {} /\ \E id \in Targets(reg) : line = RollbackToLine(id)
  <2>1. PICK id \in Targets(reg) : line = RollbackToLine(id)
    BY <1>5
  <2>2. Logged(line) = line
    BY <2>1 DEF RollbackToLine, Logged
  <2>3. id \in Targets(old)
    <3>1. PICK n \in 1 .. reg.active - 1 : id = reg.chain[n].id
      BY DEF Targets
    <3>2. n \in 1 .. Len(reg.chain) /\ reg.chain[n] \in Version /\ n \in 1 .. old.active - 1
      BY <1>1, <3>1, NumberedRegistry
    <3>3. old.chain[n].id = id
      BY <1>1, <3>1, <3>2, VersionInText
    <3> QED BY <3>2, <3>3 DEF Targets
  <2>4. /\ new = MovedTo(reg, id + 1) /\ Returns(reg, new)
        /\ Applied(old, line) = MovedTo(old, id + 1) /\ Returns(old, Applied(old, line))
    BY <1>1, <2>1, <2>3, RollbackToReturns
  <2>5. AsLogged(MovedTo(reg, id + 1)) = MovedTo(old, id + 1)
    BY MovedInText
  <2> HIDE DEF old, new
  <2>6. AsLogged(new) = Applied(old, Logged(line))
    BY <2>2, <2>4, <2>5
  <2> QED BY <2>2, <2>4, <2>6 DEF Awaited, old, new
<1> QED BY <1>2, <1>3, <1>4, <1>5 DEF Writes
-----------------------------------------------------------------------------
(* What the experiences support.                                            *)
LEMMA SupportGrows ==
  ASSUME NEW reg, Numbered(reg), NEW new, NEW evidence, Grows(reg, new, evidence),
         NEW records, Supports(reg.chain, records), \A e \in evidence : Holds(records, e.over)
  PROVE  Supports(new.chain, records)
<1>1. PICK v \in Version : v.evidence = evidence /\ new.chain = Append(reg.chain, v)
  BY DEF Grows
<1>2. reg.chain \in Seq(Version) /\ Len(reg.chain) \in Nat
  BY NumberedRegistry
<1>3. ASSUME NEW n \in 1 .. Len(new.chain), NEW e \in new.chain[n].evidence
      PROVE  Holds(records, e.over)
  <2>1. n \in 1 .. Len(reg.chain) \/ n = Len(reg.chain) + 1
    BY <1>1, <1>2
  <2>2. CASE n \in 1 .. Len(reg.chain)
    <3>1. new.chain[n] = reg.chain[n]
      BY <1>1, <1>2, <2>2
    <3> QED BY <1>3, <2>2, <3>1 DEF Supports
  <2>3. CASE n = Len(reg.chain) + 1
    <3>1. new.chain[n] = v
      BY <1>1, <1>2, <2>3
    <3> QED BY <1>1, <1>3, <3>1
  <2> QED BY <2>1, <2>2, <2>3
<1> QED BY <1>3 DEF Supports

LEMMA HoldsMore ==
  ASSUME NEW records \in Seq(Experiences), NEW x \in Experiences
  PROVE  /\ Append(records, x) \in Seq(Experiences) /\ Append(records, x) # records
         /\ Holds(Append(records, x), x)
         /\ \A y : Holds(records, y) => Holds(Append(records, x), y)
<1> DEFINE more == Append(records, x)
<1>1. /\ more \in Seq(Experiences) /\ Len(more) = Len(records) + 1 /\ Len(records) \in Nat
      /\ \A k \in 1 .. Len(records) : more[k] = records[k]
      /\ more[Len(records) + 1] = x
  OBVIOUS
<1> HIDE DEF more
<1>2. more # records
  BY <1>1
<1>3. Holds(more, x) /\ \A y : Holds(records, y) => Holds(more, y)
  BY <1>1 DEF Holds
<1> QED BY <1>1, <1>2, <1>3 DEF more

LEMMA SupportWritten ==
  ASSUME NEW reg, Numbered(reg), NEW new, NEW evidence, NEW records,
         Grows(reg, new, evidence) \/ Returns(reg, new),
         Supports(reg.chain, records), \A e \in evidence : Holds(records, e.over)
  PROVE  Supports(new.chain, records)
<1>1. CASE Grows(reg, new, evidence)
  BY <1>1, SupportGrows
<1>2. CASE Returns(reg, new)
  BY <1>2 DEF Returns
<1> QED BY <1>1, <1>2

LEMMA SupportInText ==
  ASSUME NEW reg, Numbered(reg), NEW records, Supports(reg.chain, records)
  PROVE  Supports(AsLogged(reg).chain, records)
<1> DEFINE new == AsLogged(reg)
<1>1. /\ Len(new.chain) = Len(reg.chain)
      /\ \A n \in 1 .. Len(reg.chain) : new.chain[n] = InText(reg.chain[n])
  BY RegistryInText
<1> HIDE DEF new
<1>2. \A n \in 1 .. Len(reg.chain) : reg.chain[n] \in Version
  BY NumberedRegistry
<1>3. \A n \in 1 .. Len(reg.chain) : new.chain[n].evidence = reg.chain[n].evidence
  BY <1>1, <1>2, VersionInText
<1> QED BY <1>1, <1>3 DEF Supports, new

(* The same of a registry that is in memory, or of its text in the log.     *)
LEMMA SupportOfText ==
  ASSUME NEW reg, Numbered(reg), NEW records, Supports(AsLogged(reg).chain, records)
  PROVE  Supports(reg.chain, records)
<1> DEFINE new == AsLogged(reg)
<1>1. /\ Len(new.chain) = Len(reg.chain)
      /\ \A n \in 1 .. Len(reg.chain) : new.chain[n] = InText(reg.chain[n])
  BY RegistryInText
<1> HIDE DEF new
<1>2. \A n \in 1 .. Len(reg.chain) : reg.chain[n] \in Version
  BY NumberedRegistry
<1>3. \A n \in 1 .. Len(reg.chain) : new.chain[n].evidence = reg.chain[n].evidence
  BY <1>1, <1>2, VersionInText
<1> QED BY <1>1, <1>3 DEF Supports, new
-----------------------------------------------------------------------------
(* What a step does.                                                        *)
Registers ==
    \/ record' = record
    \/ \E evidence : Grows(record, record', evidence)
    \/ Returns(record, record')

Kept == IInv' /\ (~raced' /\ record'.ok => ~raced /\ record.ok /\ Registers)

LEMMA Becoming ==
  ASSUME proc = [r \in Proc |-> proc[r]], NEW p \in Proc, NEW q, Becomes(p, q)
  PROVE  /\ proc' = [r \in Proc |-> proc'[r]] /\ proc'[p] = q
         /\ \A r \in Proc : r # p => proc'[r] = proc[r]
BY DEF Becomes

LEMMA Loads == Corrupt.ok = FALSE /\ Corrupt.chain = <<>> /\ Len(Corrupt.chain) = 0
  BY DEF Corrupt, Empty

(* A process works by itself: the log stays, and whoever is not overtaken   *)
(* still has it.                                                            *)
LEMMA Works ==
  ASSUME IInv, NEW p \in Proc, Working(p), NEW q, Becomes(p, q), UNCHANGED log,
         shared' = shared, cut' \in BOOLEAN, cut => cut',
         Numbered(record) /\ AsLogged(record) = record /\ Fresh(proc[p], record)
            => q.pc = "off" \/ Fresh(q, record),
         (Backed /\ ~cut' /\ Single(p) /\ Fresh(proc[p], record)
             /\ Numbered(record) /\ AsLogged(record) = record) =>
            /\ store' \in Files /\ Rests(q, store'.records)
            /\ q.pc # "write" => Supports(record.chain, store'.records)
  PROVE  Kept
<1>1. /\ proc' = [r \in Proc |-> proc'[r]] /\ proc'[p] = q
      /\ \A r \in Proc : r # p => proc'[r] = proc[r]
  BY Becoming DEF IInv
<1>2. record' = record /\ clipped' = clipped /\ behind' = behind /\ raced' = raced
  BY DEF log
<1>3. ASSUME ~shared PROVE \A r \in Proc : Working(r)' => Single(r)'
  BY <1>1, <1>3 DEF IInv, Working, Single
<1>4. ASSUME ~raced, record.ok PROVE Current'
  <2>1. Current
    BY <1>4 DEF IInv
  <2>2. ASSUME NEW r \in Proc, Working(r)', r \notin behind PROVE Fresh(proc'[r], record)
    BY <1>1, <2>1, <2>2 DEF Current, Working
  <2> QED BY <1>2, <2>1, <2>2 DEF Current
<1>5. ASSUME ~shared, ~cut', record.ok PROVE Backed'
  <2>1. /\ Backed /\ Single(p) /\ Fresh(proc[p], record)
        /\ Numbered(record) /\ AsLogged(record) = record
    BY <1>5 DEF IInv, Current
  <2>2. store' \in Files /\ Rests(q, store'.records)
        /\ (q.pc # "write" => Supports(record.chain, store'.records))
    BY <1>5, <2>1
  <2>3. ASSUME NEW r \in Proc PROVE Rests(proc'[r], store'.records)
    BY <1>1, <2>1, <2>2 DEF Single, Rests, Past, Flushing
  <2> QED BY <1>1, <1>2, <2>2, <2>3 DEF Backed
<1>6. Registers
  BY <1>2 DEF Registers
<1> QED BY <1>1, <1>2, <1>3, <1>4, <1>5, <1>6 DEF Kept, IInv

(* A line of its own comes to the log, or a part of it: it overtakes every  *)
(* other process, and leaves the log as the memory of this one has it.      *)
LEMMA Appends ==
  ASSUME IInv, NEW p \in Proc, Working(p), proc[p].line # <<>>, NEW q, Becomes(p, q),
         Overtakes(p), shared' = shared, cut' \in BOOLEAN, cut => cut',
         clipped' \in BOOLEAN, clipped => clipped',
         \/ record' = Corrupt /\ clipped'
         \/ ~clipped /\ record' = Appended(proc[p].line[1]),
         q.pc = "off" \/ q = [proc[p] EXCEPT !.line = <<>>],
         proc[p].pc \notin Flushing => store' = store
  PROVE  Kept
<1> DEFINE o == proc[p]
           new == AsLogged(o.reg)
<1>1. /\ proc' = [r \in Proc |-> proc'[r]] /\ proc'[p] = q
      /\ \A r \in Proc : r # p => proc'[r] = proc[r]
  BY Becoming DEF IInv
<1>2. /\ raced' = (raced \/ p \in behind) /\ raced' \in BOOLEAN /\ behind' \subseteq Proc
      /\ \A r \in Proc : r # p /\ Working(r) => r \in behind'
  BY DEF Overtakes, IInv, Working
<1>3. ASSUME ~shared PROVE ~raced' /\ behind' = {} /\ \A r \in Proc : Working(r)' => Single(r)'
  <2>1. ~raced /\ behind = {} /\ Single(p)
    BY <1>3 DEF IInv
  <2> QED BY <1>1, <1>2, <2>1 DEF Overtakes, Single, Working
<1>4. CASE record' = Corrupt /\ clipped'
  BY <1>1, <1>2, <1>3, <1>4, Loads DEF Kept, IInv
<1>5. CASE raced'
  BY <1>1, <1>2, <1>3, <1>5 DEF Kept, IInv
<1>6. CASE ~raced' /\ ~clipped /\ record' = Appended(o.line[1])
  <2>1. ~raced /\ p \notin behind /\ record.ok
    BY <1>2, <1>6 DEF IInv
  <2>2. Numbered(record) /\ Fresh(o, record)
    BY <2>1 DEF IInv, Current
  <2>3. PICK line : o.line = <<line>> /\ Awaited(record, line, new)
    BY <2>2 DEF Fresh
  <2>4. record' = new /\ Registers
    BY <1>6, <2>3 DEF Awaited, Appended, Registers
  <2>5. Numbered(o.reg) /\ Numbered(new) /\ AsLogged(new) = new /\ new.ok /\ Shaped(o)
    BY <2>2, RegistryInText DEF Fresh, Numbered
  <2>6. ASSUME NEW r \in Proc, Working(r)', r \notin behind' PROVE Fresh(proc'[r], record')
    <3>1. r = p
      BY <1>1, <1>2, <2>6 DEF Working
    <3>2. q = [o EXCEPT !.line = <<>>]
      BY <1>1, <2>6, <3>1 DEF Working
    <3>3. /\ Shaped(q) /\ q.line = <<>> /\ q.reg = o.reg /\ q.pc = o.pc
      BY <2>5, <3>2 DEF Shaped
    <3>4. Fresh(q, new)
      BY <2>2, <3>3 DEF Fresh
    <3> QED BY <1>1, <2>4, <3>1, <3>4
  <2>7. Current'
    BY <2>4, <2>5, <2>6 DEF Current
  <2>8. ASSUME ~shared, ~cut' PROVE Backed'
    <3>1. Backed /\ Single(p)
      BY <2>1, <2>8 DEF IInv
    <3>2. o.pc \notin Flushing /\ o.pc \in {"cycle", "gate", "command"}
      BY <2>2 DEF Fresh, Shaped, Stages, Flushing, Working
    <3>3. store' = store /\ Supports(o.reg.chain, store.records) /\ Rests(o, store.records)
      BY <3>1, <3>2 DEF Backed, Rests
    <3>4. Supports(record'.chain, store.records)
      BY <2>4, <2>5, <3>3, SupportInText
    <3>5. Rests(q, store.records)
      <4>1. CASE q.pc = "off"
        BY <4>1 DEF Rests, Past, Flushing
      <4>2. CASE q = [o EXCEPT !.line = <<>>]
        <5>1. /\ q.reg = o.reg /\ q.pc = o.pc /\ q.mem = o.mem
              /\ q.batch = o.batch /\ q.champion = o.champion
          BY <2>5, <4>2 DEF Shaped
        <5> QED BY <3>3, <5>1 DEF Rests, Experience
      <4> QED BY <4>1, <4>2
    <3>6. ASSUME NEW r \in Proc PROVE Rests(proc'[r], store.records)
      BY <1>1, <3>1, <3>5 DEF Single, Rests, Past, Flushing
    <3> QED BY <3>1, <3>3, <3>4, <3>6 DEF Backed
  <2> HIDE DEF new
  <2> QED BY <1>1, <1>2, <1>3, <1>6, <2>1, <2>4, <2>5, <2>7, <2>8 DEF Kept, IInv
<1> QED BY <1>4, <1>5, <1>6
-----------------------------------------------------------------------------
(* The steps.                                                               *)
LEMMA OffShaped ==
  Shaped(Off) /\ Off.pc = "off" /\ Off.line = <<>> /\ Off.mem = <<>> /\ Off.reg = Empty
<1>1. /\ Off.pc \in Stages /\ Off.batch \in Nat
      /\ Off.champion \in Champions /\ Off.good \in SUBSET Strategies
      /\ Off.left \in Seq(Strategies) /\ Off.pc = "off" /\ Off.reg = Empty
      /\ Off.line = <<>> /\ Off.mem = <<>>
  BY LoopAssumption DEF Off, Stages, Champions
<1>2. Empty \in Registry
  BY DEF Empty, Registry
<1>3. Off.reg \in Registry
  BY <1>2 DEF Off
<1> QED BY <1>1, <1>3 DEF Off, Shaped

LEMMA Begun ==
  ASSUME IInv, NEW p \in Proc, NEW q, Begins(p, q), Shaped(q), q.line = <<>>,
         q.pc \in {"cycle", "command"}, q.pc = "cycle" => q.mem = store.records,
         q.pc = "command" => q.mem = <<>>
  PROVE  Kept
<1> DEFINE begun == [q EXCEPT !.reg = record]
<1>1. /\ proc[p].pc = "off" /\ record.ok /\ Becomes(p, begun) /\ behind' = behind \ {p}
      /\ UNCHANGED <<record, store, clipped, cut, raced>>
      /\ shared' = (shared \/ \E other \in Proc \ {p} : proc[other].pc # "off")
  BY DEF Begins
<1> HIDE DEF begun
<1>2. /\ proc' = [r \in Proc |-> proc'[r]] /\ proc'[p] = begun
      /\ \A r \in Proc : r # p => proc'[r] = proc[r]
  BY <1>1, Becoming DEF IInv
<1>3. shared' \in BOOLEAN /\ (~shared' => ~shared /\ Single(p) /\ Single(p)')
  BY <1>1, <1>2 DEF IInv, Single
<1>4. ASSUME ~shared' PROVE ~raced' /\ behind' = {} /\ \A r \in Proc : Working(r)' => Single(r)'
  BY <1>1, <1>3, <1>4 DEF IInv, Single, Working
<1>5. ASSUME record \in Registry
      PROVE  /\ Shaped(begun) /\ begun.reg = record /\ begun.pc = q.pc /\ begun.line = <<>>
             /\ begun.mem = q.mem
  BY <1>5 DEF begun, Shaped
<1>6. ASSUME ~raced PROVE Current'
  <2>1. Current
    BY <1>1, <1>6 DEF IInv
  <2>2. Fresh(begun, record)
    BY <1>5, <2>1 DEF Current, Fresh, Past, Flushing, Numbered
  <2>3. ASSUME NEW r \in Proc, Working(r)', r \notin behind' PROVE Fresh(proc'[r], record)
    BY <1>1, <1>2, <2>1, <2>2, <2>3 DEF Current, Working
  <2> QED BY <1>1, <2>1, <2>3 DEF Current
<1>7. ASSUME ~shared', ~cut PROVE Backed'
  <2>1. Backed /\ Numbered(record) /\ Single(p)
    BY <1>1, <1>3, <1>7 DEF IInv, Current
  <2>2. store.records \in Seq(Experiences) /\ Supports(record.chain, store.records)
    BY <1>1, <2>1 DEF Backed, Files, Single
  <2>3. /\ begun.reg = record /\ begun.pc = q.pc /\ begun.mem = q.mem
    BY <1>5, <2>1 DEF Numbered
  <2>4. <<>> \in Seq(Experiences)
    OBVIOUS
  <2>5. Rests(begun, store.records)
    BY <2>2, <2>3, <2>4 DEF Rests, Past, Flushing
  <2>6. \A r \in Proc : Rests(proc'[r], store.records)
    BY <1>2, <2>1, <2>5 DEF Backed
  <2> QED BY <1>1, <2>1, <2>2, <2>6 DEF Backed
<1> QED BY <1>1, <1>2, <1>3, <1>4, <1>6, <1>7 DEF Kept, IInv, Registers

LEMMA BeginKeeps ==
  ASSUME IInv, NEW p \in Proc, BeginLoop(p) \/ BeginCommand(p) PROVE Kept
<1>1. CASE BeginCommand(p)
  <2> DEFINE q == [Off EXCEPT !.pc = "command"]
  <2>1. Shaped(q) /\ q.pc = "command" /\ q.line = <<>> /\ q.mem = <<>>
    BY OffShaped DEF Shaped, Stages
  <2>2. Begins(p, q)
    BY <1>1 DEF BeginCommand
  <2> HIDE DEF q
  <2> QED BY <2>1, <2>2, Begun
<1>2. CASE BeginLoop(p)
  <2> DEFINE c == Resolved(record, Baseline)
             q == [Off EXCEPT !.pc = "cycle", !.mem = store.records, !.champion = c]
  <2>1. c \in Champions
    BY LoopAssumption DEF Resolved, Champions
  <2>2. Begins(p, q)
    BY <1>2 DEF BeginLoop
  <2> HIDE DEF c
  <2>3. Shaped(q) /\ q.pc = "cycle" /\ q.line = <<>> /\ q.mem = store.records
    BY <2>1, OffShaped DEF Shaped, Stages
  <2> HIDE DEF q
  <2> QED BY <2>2, <2>3, Begun
<1> QED BY <1>1, <1>2

(* A line is applied in memory and is still to be written.                  *)
LEMMA AppliesKeeps ==
  ASSUME IInv, NEW p \in Proc, NEW q, NEW line, NEW evidence \in Evidences, Applies(p, q, line),
         proc[p].pc \in {"cycle", "gate", "command"},
         UNCHANGED <<log, store, shared, cut>>,
         Fresh(proc[p], record) /\ Numbered(record) =>
            /\ Shaped(q) /\ q.pc = proc[p].pc /\ q.reg = proc[p].reg /\ q.mem = proc[p].mem
            /\ q.batch = proc[p].batch /\ q.champion = proc[p].champion
            /\ proc[p].line = <<>> /\ Writes(q.reg, line, evidence),
         Fresh(proc[p], record) /\ Backed =>
            \A e \in evidence : Holds(store.records, e.over)
  PROVE  Kept
<1> DEFINE o == proc[p]
           new == Applied(q.reg, line)
           r == [q EXCEPT !.reg = new, !.line = <<line>>]
<1>1. Becomes(p, r) /\ Working(p) /\ cut' \in BOOLEAN /\ (cut => cut')
  BY DEF Applies, Working, IInv
<1>2. ASSUME Numbered(record), AsLogged(record) = record, Fresh(o, record)
      PROVE  /\ Fresh(r, record) /\ r.mem = o.mem /\ r.reg = new /\ r.pc = o.pc
             /\ r.batch = o.batch /\ r.champion = o.champion
             /\ Grows(o.reg, new, evidence) \/ Returns(o.reg, new)
  <2>1. /\ Shaped(q) /\ q.pc = o.pc /\ q.reg = o.reg /\ q.mem = o.mem /\ o.line = <<>>
        /\ q.batch = o.batch /\ q.champion = o.champion
        /\ Writes(o.reg, line, evidence) /\ Numbered(o.reg) /\ AsLogged(o.reg) = record
    <3>1. /\ Shaped(q) /\ q.pc = o.pc /\ q.reg = o.reg /\ q.mem = o.mem /\ o.line = <<>>
          /\ q.batch = o.batch /\ q.champion = o.champion /\ Writes(q.reg, line, evidence)
      BY <1>2
    <3>2. \A any : <<any>> # <<>>
      OBVIOUS
    <3>3. Numbered(o.reg) /\ AsLogged(o.reg) = record
      BY <1>2, <3>1, <3>2 DEF Fresh
    <3> QED BY <3>1, <3>3
  <2>2. /\ Grows(o.reg, new, evidence) \/ Returns(o.reg, new)
        /\ Awaited(record, line, AsLogged(new))
    BY <2>1, Written
  <2>3. Numbered(new) /\ new \in Registry
    BY <2>2 DEF Grows, Returns, Numbered
  <2>4. Started(new)
    <3>1. CASE Grows(o.reg, new, evidence)
      <4>1. Len(o.reg.chain) \in Nat /\ new.active = Len(o.reg.chain) + 1
        BY <2>1, <3>1, NumberedRegistry DEF Grows
      <4> QED BY <2>3, <4>1, NumberedRegistry
    <3>2. CASE Returns(o.reg, new)
      BY <3>2 DEF Returns, Started
    <3> QED BY <2>2, <3>1, <3>2
  <2> HIDE DEF new
  <2>5. /\ Shaped(r) /\ r.reg = new /\ r.line = <<line>> /\ r.pc = o.pc /\ r.mem = o.mem
        /\ r.batch = o.batch /\ r.champion = o.champion
    BY <2>1, <2>3 DEF Shaped
  <2> HIDE DEF r
  <2>6. Fresh(r, record)
    BY <2>2, <2>3, <2>4, <2>5 DEF Fresh, Flushing
  <2> QED BY <2>2, <2>5, <2>6
<1>3. ASSUME Backed, Numbered(record), AsLogged(record) = record, Fresh(o, record), Single(p)
      PROVE  /\ store' \in Files /\ Rests(r, store'.records)
             /\ Supports(record.chain, store'.records)
  <2>1. store' = store /\ store \in Files /\ Rests(o, store.records)
    BY <1>3 DEF Backed
  <2>2. Supports(o.reg.chain, store.records) /\ Numbered(o.reg)
    BY <1>3, <2>1 DEF Rests, Fresh
  <2>3. Supports(new.chain, store.records)
    <3> HIDE DEF new
    <3> QED BY <1>2, <1>3, <2>2, SupportWritten
  <2>4. /\ r.mem = o.mem /\ r.reg = new /\ r.pc = o.pc
        /\ r.batch = o.batch /\ r.champion = o.champion
    BY <1>2, <1>3
  <2> HIDE DEF new, r
  <2>5. Rests(r, store.records)
    BY <2>1, <2>3, <2>4 DEF Rests, Experience, Past, Flushing
  <2>6. Supports(record.chain, store.records)
    BY <1>3 DEF Backed, Single
  <2> QED BY <2>1, <2>5, <2>6
<1> HIDE DEF r, new
<1>4. shared' = shared /\ UNCHANGED log
  OBVIOUS
<1>5. Numbered(record) /\ AsLogged(record) = record /\ Fresh(o, record)
         => r.pc = "off" \/ Fresh(r, record)
  BY <1>2
<1>6. (Backed /\ ~cut' /\ Single(p) /\ Fresh(o, record)
         /\ Numbered(record) /\ AsLogged(record) = record) =>
         /\ store' \in Files /\ Rests(r, store'.records)
         /\ r.pc # "write" => Supports(record.chain, store'.records)
  BY <1>3
<1>7. UNCHANGED log /\ shared' = shared
  OBVIOUS
<1> HIDE DEF o
<1> QED BY <1>1, <1>5, <1>6, <1>7, Works DEF o

LEMMA StartBaselineKeeps == ASSUME IInv, NEW p \in Proc, StartBaseline(p) PROVE Kept
<1> DEFINE o == proc[p]
           line == StartLine(Baseline)
<1>1. /\ o.pc = "cycle" /\ ~Started(o.reg) /\ Applies(p, o, line)
      /\ UNCHANGED <<log, store, shared, cut>>
  BY DEF StartBaseline
<1>2. {} \in Evidences /\ Writes(o.reg, line, {})
  BY <1>1, LoopAssumption DEF Writes, Evidences
<1>3. ASSUME Fresh(o, record), Numbered(record) PROVE Shaped(o) /\ o.line = <<>>
  <2>1. ASSUME NEW l, Awaited(record, l, AsLogged(o.reg)) PROVE FALSE
    <3>1. Started(AsLogged(o.reg))
      <4>1. CASE Returns(record, AsLogged(o.reg))
        BY <4>1 DEF Returns, Started
      <4>2. CASE \E evidence : Grows(record, AsLogged(o.reg), evidence)
        <5>1. /\ Numbered(AsLogged(o.reg))
              /\ AsLogged(o.reg).active = Len(record.chain) + 1 /\ Len(record.chain) \in Nat
          BY <1>3, <4>2, NumberedRegistry DEF Grows
        <5> QED BY <5>1, NumberedRegistry
      <4> QED BY <2>1, <4>1, <4>2 DEF Awaited
    <3>2. Numbered(o.reg)
      BY <1>3 DEF Fresh
    <3> QED BY <1>1, <3>1, <3>2, RegistryInText
  <2> QED BY <1>3, <2>1 DEF Fresh
<1> HIDE DEF line
<1> QED BY <1>1, <1>2, <1>3, AppliesKeeps

(* A step of the cycle that changes neither registry nor log.               *)
LEMMA CycleKeeps == ASSUME IInv, NEW p \in Proc, Cycle(p) PROVE Kept
<1> DEFINE o == proc[p]
           m == Merged(o)
<1>1. /\ o.pc = "cycle" /\ o.line = <<>> /\ Started(o.reg) /\ Working(p)
      /\ store' = store /\ UNCHANGED log /\ shared' = shared
      /\ cut' \in BOOLEAN /\ (cut => cut') /\ cut' = cut
  BY DEF Cycle, Working, IInv
<1>2. PICK good \in Passing(o.champion) :
         Becomes(p, [o EXCEPT !.pc = AfterMerge(o), !.mem = m, !.good = good, !.left = Candidates])
  BY DEF Cycle
<1>3. AfterMerge(o) \in {"gate", "truncate"} /\ (AfterMerge(o) = "gate" => m = o.mem)
  BY DEF AfterMerge
<1>4. good \in SUBSET Strategies /\ Candidates \in Seq(Strategies)
  BY LoopAssumption DEF Passing, Compared
<1> DEFINE q == [o EXCEPT !.pc = AfterMerge(o), !.mem = m, !.good = good, !.left = Candidates]
<1> HIDE DEF m
<1>5. ASSUME Shaped(o)
      PROVE  /\ Shaped(q) /\ q.pc = AfterMerge(o) /\ q.reg = o.reg /\ q.mem = m /\ q.line = <<>>
             /\ q.batch = o.batch /\ q.champion = o.champion
  BY <1>1, <1>3, <1>4, <1>5 DEF Shaped, Stages
<1>6. Becomes(p, q)
  BY <1>2
<1> HIDE DEF q
<1>7. ASSUME Fresh(o, record) PROVE Fresh(q, record)
  <2>1. Shaped(o) /\ Numbered(o.reg) /\ \A l : <<l>> # <<>>
    BY <1>7 DEF Fresh
  <2>2. AsLogged(o.reg) = record
    BY <1>1, <1>7, <2>1 DEF Fresh
  <2> QED BY <1>1, <1>5, <2>1, <2>2 DEF Fresh
<1>8. ASSUME Backed, Single(p), Fresh(o, record)
      PROVE  /\ store' \in Files /\ Rests(q, store'.records)
             /\ Supports(record.chain, store'.records)
  <2>1. /\ store \in Files /\ Rests(o, store.records) /\ Shaped(o)
        /\ Supports(record.chain, store.records)
    BY <1>1, <1>8 DEF Backed, Fresh, Single
  <2>2. o.mem \in Seq(Experiences) /\ Experience(o) \in Experiences
    BY <1>1, <2>1 DEF Rests, Shaped, Experience, Experiences
  <2>3. /\ m \in Seq(Experiences) /\ Holds(m, Experience(o))
        /\ \A y : Holds(o.mem, y) => Holds(m, y)
    <3>1. CASE \E n \in DOMAIN o.mem : o.mem[n] = Experience(o)
      <4>1. m = o.mem
        BY <3>1 DEF Merged, m
      <4>2. DOMAIN o.mem = 1 .. Len(o.mem)
        BY <2>2
      <4> HIDE DEF o
      <4> QED BY <2>2, <3>1, <4>1, <4>2 DEF Holds
    <3>2. CASE ~\E n \in DOMAIN o.mem : o.mem[n] = Experience(o)
      <4>1. m = Append(o.mem, Experience(o))
        BY <3>2 DEF Merged, m
      <4> HIDE DEF o
      <4> QED BY <2>2, <4>1, HoldsMore
    <3> QED BY <3>1, <3>2
  <2>4. o.mem = store.records /\ Supports(o.reg.chain, store.records)
    BY <1>1, <2>1 DEF Rests
  <2>5. Supports(o.reg.chain, m)
    BY <2>3, <2>4 DEF Supports
  <2>6. Holds(q.mem, Experience(q))
    BY <1>5, <2>1, <2>3 DEF Experience
  <2>7. Rests(q, store.records)
    BY <1>3, <1>5, <2>1, <2>3, <2>4, <2>5, <2>6 DEF Rests, Past, Flushing
  <2> QED BY <1>1, <2>1, <2>7
<1> HIDE DEF o
<1> QED BY <1>1, <1>6, <1>7, <1>8, Works DEF o

(* A step of the flush.                                                     *)
LEMMA Flushes ==
  ASSUME IInv, NEW p \in Proc, NEW stage \in {"write", "meta", "gate"},
         Becomes(p, [proc[p] EXCEPT !.pc = stage]), proc[p].pc \in Flushing,
         UNCHANGED log, shared' = shared, cut' = cut,
         Backed /\ Shaped(proc[p]) => store' \in Files,
         Backed /\ Shaped(proc[p]) /\ stage # "write" =>
            store'.records = proc[p].mem /\ Supports(proc[p].reg.chain, proc[p].mem),
         Backed /\ stage = "write" => Supports(proc[p].reg.chain, proc[p].mem)
  PROVE  Kept
<1> DEFINE o == proc[p]
           q == [o EXCEPT !.pc = stage]
<1>1. Working(p) /\ cut' \in BOOLEAN /\ (cut => cut') /\ Becomes(p, q)
  BY DEF Flushing, Working, IInv
<1>2. ASSUME Shaped(o)
      PROVE  /\ Shaped(q) /\ q.pc = stage /\ q.reg = o.reg /\ q.mem = o.mem /\ q.line = o.line
             /\ q.batch = o.batch /\ q.champion = o.champion
  BY <1>2 DEF Shaped, Stages
<1> HIDE DEF q
<1>3. ASSUME Fresh(o, record)
      PROVE  /\ Fresh(q, record) /\ Shaped(o) /\ Numbered(o.reg) /\ AsLogged(o.reg) = record
  <2>1. Shaped(o) /\ Numbered(o.reg) /\ o.line = <<>> /\ Started(o.reg) /\ \A l : <<l>> # <<>>
    BY <1>3 DEF Fresh, Past
  <2>2. AsLogged(o.reg) = record
    BY <1>3, <2>1 DEF Fresh
  <2> QED BY <1>2, <2>1, <2>2 DEF Fresh
<1>4. ASSUME Backed, Single(p), Fresh(o, record)
      PROVE  /\ store' \in Files /\ Rests(q, store'.records)
             /\ q.pc # "write" => Supports(record.chain, store'.records)
  <2>1. /\ store' \in Files /\ Rests(o, store.records) /\ Shaped(o)
        /\ Supports(o.reg.chain, o.mem)
        /\ stage # "write" => store'.records = o.mem
    BY <1>3, <1>4 DEF Backed
  <2>2. o.mem \in Seq(Experiences) /\ Holds(o.mem, Experience(o))
    BY <2>1, <1>1 DEF Rests, Past, Working
  <2>3. Supports(record.chain, o.mem)
    BY <1>3, <1>4, <2>1, SupportInText
  <2>4. Rests(q, store'.records)
    BY <1>2, <2>1, <2>2 DEF Rests, Past, Flushing, Experience
  <2> QED BY <1>2, <2>1, <2>3, <2>4
<1> HIDE DEF o
<1> QED BY <1>1, <1>3, <1>4, Works DEF o

LEMMA TruncateKeeps == ASSUME IInv, NEW p \in Proc, Truncate(p) PROVE Kept
<1>1. /\ proc[p].pc = "truncate" /\ Becomes(p, [proc[p] EXCEPT !.pc = "write"])
      /\ UNCHANGED log /\ shared' = shared /\ cut' = cut
  BY DEF Truncate
<1>2. ASSUME Backed PROVE store' \in Files
  <2>1. <<>> \in Seq(Experiences)
    OBVIOUS
  <2>2. store \in Files
    BY <1>2 DEF Backed
  <2> QED BY <2>1, <2>2 DEF Truncate, Files
<1>3. Backed => Supports(proc[p].reg.chain, proc[p].mem)
  BY <1>1 DEF Backed, Rests
<1> QED BY <1>1, <1>2, <1>3, Flushes DEF Flushing

LEMMA WriteRecordsKeeps == ASSUME IInv, NEW p \in Proc, WriteRecords(p) PROVE Kept
<1>1. /\ proc[p].pc = "write" /\ Becomes(p, [proc[p] EXCEPT !.pc = "meta"])
      /\ UNCHANGED log /\ shared' = shared /\ cut' = cut
  BY DEF WriteRecords
<1>2. ASSUME Backed
      PROVE  store' \in Files /\ store'.records = proc[p].mem
             /\ Supports(proc[p].reg.chain, proc[p].mem)
  <2>1. store \in Files /\ Rests(proc[p], store.records)
    BY <1>2 DEF Backed
  <2>2. proc[p].mem \in Seq(Experiences) /\ Supports(proc[p].reg.chain, proc[p].mem)
    BY <1>1, <2>1 DEF Rests
  <2> QED BY <2>1, <2>2 DEF WriteRecords, Files
<1> QED BY <1>1, <1>2, Flushes DEF Flushing

LEMMA WriteMetaKeeps == ASSUME IInv, NEW p \in Proc, WriteMeta(p) PROVE Kept
<1>1. /\ proc[p].pc = "meta" /\ Becomes(p, [proc[p] EXCEPT !.pc = "gate"])
      /\ UNCHANGED log /\ shared' = shared /\ cut' = cut
  BY DEF WriteMeta
<1>2. ASSUME Backed
      PROVE  store' \in Files /\ store'.records = proc[p].mem
             /\ Supports(proc[p].reg.chain, proc[p].mem)
  <2>1. store \in Files /\ Rests(proc[p], store.records)
    BY <1>2 DEF Backed
  <2>2. proc[p].mem = store.records /\ Supports(proc[p].reg.chain, proc[p].mem)
    BY <1>1, <2>1 DEF Rests
  <2> QED BY <2>1, <2>2 DEF WriteMeta, Files
<1> QED BY <1>1, <1>2, Flushes DEF Flushing

(* A verdict acted on, on the strength of the experience just stored.       *)
LEMMA GateKeeps == ASSUME IInv, NEW p \in Proc, Gate(p) PROVE Kept
<1> DEFINE o == proc[p]
<1>1. /\ o.pc = "gate" /\ o.line = <<>> /\ UNCHANGED <<log, store, shared, cut>>
  BY DEF Gate
<1>2. PICK n \in Due(o) : Applies(p, [o EXCEPT !.left = SubSeq(o.left, n + 1, Len(o.left))],
                                  EarnedLine(o, o.left[n]))
  BY DEF Gate
<1> DEFINE left == SubSeq(o.left, n + 1, Len(o.left))
           q == [o EXCEPT !.left = left]
           e == [over |-> Experience(o), earned |-> o.left[n] \in o.good]
           evidence == {e} \cap [over : Experiences, earned : BOOLEAN]
           line == EarnedLine(o, o.left[n])
<1>3. evidence \in Evidences
  BY DEF Evidences
<1>4. ASSUME Fresh(o, record)
      PROVE  /\ Shaped(q) /\ q.pc = o.pc /\ q.reg = o.reg /\ q.mem = o.mem
             /\ q.batch = o.batch /\ q.champion = o.champion
             /\ o.line = <<>> /\ Writes(q.reg, line, evidence)
  <2>1. Shaped(o) /\ Started(o.reg)
    BY <1>1, <1>4 DEF Fresh, Past
  <2>2. n \in 1 .. Len(o.left) /\ o.left \in Seq(Strategies)
    BY <2>1 DEF Due, Shaped
  <2>3. o.left[n] \in Strategies /\ left \in Seq(Strategies)
    BY <2>2
  <2> HIDE DEF left
  <2>4. /\ Shaped(q) /\ q.pc = o.pc /\ q.reg = o.reg /\ q.mem = o.mem
        /\ q.batch = o.batch /\ q.champion = o.champion
    BY <2>1, <2>3 DEF Shaped
  <2>5. Experience(o) \in Experiences
    BY <2>1 DEF Shaped, Experience, Experiences
  <2>6. e \in [over : Experiences, earned : BOOLEAN]
    BY <2>5
  <2> HIDE DEF e
  <2>7. evidence = {e}
    BY <2>6
  <2>8. line = PromoteLine(o.reg, o.left[n], {e}, IF o.left[n] \in Plain THEN "plain" ELSE "rich")
    BY DEF EarnedLine, e
  <2>9. (IF o.left[n] \in Plain THEN "plain" ELSE "rich") \in Params
    BY DEF Params
  <2> HIDE DEF line, evidence, q
  <2> QED BY <1>1, <2>1, <2>3, <2>4, <2>7, <2>8, <2>9 DEF Writes
<1>5. Backed => \A x \in evidence : Holds(store.records, x.over)
  BY <1>1 DEF Backed, Rests, Past
<1>6. Applies(p, q, line)
  BY <1>2
<1> HIDE DEF q, line, evidence
<1> QED BY <1>1, <1>3, <1>4, <1>5, <1>6, AppliesKeeps

LEMMA NextCycleKeeps == ASSUME IInv, NEW p \in Proc, NextCycle(p) PROVE Kept
<1> DEFINE o == proc[p]
           c == Resolved(o.reg, o.champion)
           q == [o EXCEPT !.pc = "cycle", !.batch = @ + 1, !.good = {}, !.champion = c]
<1>1. /\ o.pc = "gate" /\ o.line = <<>> /\ Working(p) /\ UNCHANGED log /\ store' = store
      /\ shared' = shared /\ cut' \in BOOLEAN /\ (cut => cut')
  BY DEF NextCycle, Working, IInv
<1>2. Becomes(p, Off) \/ Becomes(p, q)
  BY DEF NextCycle
<1>3. Backed /\ Single(p) => store \in Files /\ Supports(record.chain, store.records)
  BY <1>1 DEF Backed, Single
<1>4. CASE Becomes(p, Off)
  <2>1. Rests(Off, store.records)
    BY OffShaped DEF Rests, Past, Flushing
  <2> HIDE DEF o
  <2> QED BY <1>1, <1>3, <1>4, <2>1, OffShaped, Works
<1>5. CASE Becomes(p, q)
  <2>1. ASSUME Shaped(o)
        PROVE  Shaped(q) /\ q.pc = "cycle" /\ q.reg = o.reg /\ q.mem = o.mem /\ q.line = <<>>
    <3>1. c \in Champions
      BY <2>1 DEF Resolved, Champions, Shaped
    <3> HIDE DEF c
    <3> DEFINE a == [o EXCEPT !.pc = "cycle"]
               b == [a EXCEPT !.batch = o.batch + 1]
    <3>2. Shaped(a) /\ a.pc = "cycle" /\ a.reg = o.reg /\ a.mem = o.mem /\ a.line = <<>>
      BY <1>1, <2>1 DEF Shaped, Stages
    <3>3. o.batch + 1 \in Nat
      BY <2>1 DEF Shaped
    <3>4. q = [[b EXCEPT !.good = {}] EXCEPT !.champion = c]
      BY <2>1 DEF Shaped
    <3> HIDE DEF a, q
    <3>5. Shaped(b) /\ b.pc = "cycle" /\ b.reg = o.reg /\ b.mem = o.mem /\ b.line = <<>>
      BY <3>2, <3>3 DEF Shaped
    <3> HIDE DEF b
    <3> QED BY <3>1, <3>4, <3>5 DEF Shaped
  <2> HIDE DEF q
  <2>2. ASSUME Fresh(o, record) PROVE Fresh(q, record) /\ Shaped(o)
    <3>1. Shaped(o) /\ Numbered(o.reg) /\ \A l : <<l>> # <<>>
      BY <2>2 DEF Fresh
    <3>2. AsLogged(o.reg) = record
      BY <1>1, <2>2, <3>1 DEF Fresh
    <3> QED BY <2>1, <3>1, <3>2 DEF Fresh, Past, Flushing
  <2>3. ASSUME Backed, Fresh(o, record) PROVE Rests(q, store.records)
    <3>1. Rests(o, store.records)
      BY <2>3 DEF Backed
    <3> QED BY <1>1, <2>1, <2>2, <2>3, <3>1 DEF Rests, Past, Flushing
  <2> HIDE DEF o
  <2> QED BY <1>1, <1>3, <1>5, <2>2, <2>3, Works DEF o
<1> QED BY <1>2, <1>4, <1>5

LEMMA CommandKeeps == ASSUME IInv, NEW p \in Proc, Command(p) PROVE Kept
<1> DEFINE o == proc[p]
<1>1. /\ o.pc = "command" /\ o.line = <<>> /\ Working(p)
      /\ UNCHANGED <<log, store, shared, cut>> /\ cut' \in BOOLEAN /\ (cut => cut')
  BY DEF Command, Working, IInv
<1>2. CASE Becomes(p, Off)
  <2>1. Backed /\ Single(p) => store \in Files /\ Supports(record.chain, store.records)
    BY <1>1 DEF Backed, Single
  <2>2. Rests(Off, store.records)
    BY OffShaped DEF Rests, Past, Flushing
  <2>3. UNCHANGED log /\ store' = store /\ shared' = shared
    BY <1>1
  <2> HIDE DEF o
  <2> QED BY <1>1, <1>2, <2>1, <2>2, <2>3, OffShaped, Works
<1>3. ASSUME NEW line \in CommandLines(o.reg), Applies(p, o, line) PROVE Kept
  <2>1. {} \in Evidences
    BY DEF Evidences
  <2>2. Writes(o.reg, line, {})
    BY <1>3 DEF CommandLines, Writes, Params
  <2>3. Fresh(o, record) => Shaped(o)
    BY DEF Fresh
  <2> QED BY <1>1, <1>3, <2>1, <2>2, <2>3, AppliesKeeps
<1> QED BY <1>1, <1>2, <1>3 DEF Command

LEMMA PersistKeeps == ASSUME IInv, NEW p \in Proc, Persist(p) PROVE Kept
<1> DEFINE q == IF proc[p].pc = "command" THEN Off ELSE [proc[p] EXCEPT !.line = <<>>]
<1>1. /\ proc[p].line # <<>> /\ Becomes(p, q) /\ Overtakes(p) /\ store' = store
      /\ record' = (IF clipped THEN Corrupt ELSE Appended(proc[p].line[1]))
      /\ clipped' = clipped /\ shared' = shared /\ cut' = cut
  BY DEF Persist
<1>2. q.pc = "off" \/ q = [proc[p] EXCEPT !.line = <<>>]
  BY OffShaped
<1>3. clipped \in BOOLEAN /\ cut \in BOOLEAN
  BY DEF IInv
<1> HIDE DEF q
<1>4. Working(p)
  BY DEF Persist, Working
<1> QED BY <1>1, <1>2, <1>3, <1>4, Appends

LEMMA CrashKeeps == ASSUME IInv, NEW p \in Proc, Crash(p) PROVE Kept
<1>1. /\ Working(p) /\ Becomes(p, Off) /\ shared' = shared
      /\ cut' = (cut \/ proc[p].pc \in {"write", "meta"})
      /\ proc[p].pc \notin {"write", "meta"} => store' = store
      /\ IF proc[p].line = <<>> THEN UNCHANGED log ELSE Clips(p, proc[p].line[1])
  BY DEF Crash, Working
<1>2. cut' \in BOOLEAN /\ (cut => cut') /\ clipped \in BOOLEAN
  BY <1>1 DEF IInv
<1>3. CASE UNCHANGED log
  <2>1. ASSUME Backed, ~cut', Single(p)
        PROVE  /\ store' \in Files /\ Rests(Off, store'.records)
               /\ Supports(record.chain, store'.records)
    <3>1. store' = store /\ store \in Files /\ Supports(record.chain, store.records)
      BY <1>1, <2>1 DEF Backed, Single
    <3> QED BY <3>1, OffShaped DEF Rests, Past, Flushing
  <2> QED BY <1>1, <1>2, <1>3, <2>1, OffShaped, Works
<1>4. CASE /\ proc[p].line # <<>> /\ clipped' = TRUE /\ Overtakes(p)
           /\ record' = Corrupt \/ (~clipped /\ record' = Appended(proc[p].line[1]))
  BY <1>1, <1>2, <1>4, OffShaped, Appends DEF Flushing
<1> QED BY <1>1, <1>3, <1>4 DEF Clips
-----------------------------------------------------------------------------
LEMMA InitKeeps == Init => IInv
<1> SUFFICES ASSUME Init PROVE IInv
  OBVIOUS
<1>1. /\ proc = [p \in Proc |-> Off] /\ record = Empty /\ shared = FALSE /\ cut = FALSE
      /\ clipped = FALSE /\ raced = FALSE /\ behind = {}
      /\ store = [exists |-> FALSE, records |-> <<>>, reads |-> TRUE, meta |-> FALSE]
  BY DEF Init
<1>2. /\ Empty \in Registry /\ Empty.ok /\ Empty.active = 0 /\ Empty.chain = <<>>
  BY DEF Empty, Registry
<1>3. Numbered(record)
  BY <1>1, <1>2 DEF Numbered, Started
<1>4. AsLogged(record) = record
  <2>1. [n \in DOMAIN Empty.chain |-> InText(Empty.chain[n])] = <<>>
    BY <1>2
  <2> QED BY <1>1, <2>1 DEF AsLogged, Empty
<1>5. Current /\ \A p \in Proc : proc[p] = Off /\ ~Working(p)
  BY <1>1, <1>3, <1>4, OffShaped DEF Current, Working
<1>6. <<>> \in Seq(Experiences) /\ store.records = <<>> /\ Len(record.chain) = 0
  BY <1>1, <1>2
<1>7. store \in Files
  BY <1>1, <1>6 DEF Files
<1>8. Backed
  BY <1>5, <1>6, <1>7, OffShaped DEF Backed, Rests, Past, Flushing, Supports
<1> QED BY <1>1, <1>2, <1>5, <1>8 DEF IInv

LEMMA StutterKeeps == ASSUME IInv, UNCHANGED vars PROVE Kept
<1>1. UNCHANGED <<record, store, proc, clipped, shared, cut, behind, raced>>
  BY DEF vars
<1> QED BY <1>1 DEF Kept, IInv, Current, Working, Single, Registers, Backed

LEMMA StepKeeps == ASSUME IInv, [Next]_vars PROVE Kept
  BY BeginKeeps, StartBaselineKeeps, CycleKeeps, TruncateKeeps, WriteRecordsKeeps,
     WriteMetaKeeps, GateKeeps, NextCycleKeeps, CommandKeeps, PersistKeeps, CrashKeeps,
     StutterKeeps DEF Next

LEMMA Invariance == Spec => []IInv
<1>1. Init => IInv
  BY InitKeeps
<1>2. IInv /\ [Next]_vars => IInv'
  BY StepKeeps DEF Kept
<1> QED BY <1>1, <1>2, PTL DEF Spec

(* The log loads until a process appends past another's line or a death     *)
(* clips one; until then the log, with the line a process that nobody       *)
(* overtook is still to write, is that process's memory in the log's text   *)
(* (registry.py "fully deterministic given the log", but memory changes     *)
(* before the append and json.dumps(default=str) has no sets or Decimals),  *)
(* for any candidates, commands, deaths and number of processes.            *)
THEOREM Memory == Spec => []MemoryIsLog
<1>1. IInv => MemoryIsLog
  <2> SUFFICES ASSUME IInv, ~raced, record.ok,
                      NEW p \in Proc \ behind, proc[p].pc # "off"
               PROVE  AsLogged(proc[p].reg) = LogWith(proc[p].line)
    BY DEF IInv, MemoryIsLog
  <2>1. Fresh(proc[p], record)
    BY DEF IInv, Current, Working
  <2>2. CASE proc[p].line = <<>> /\ AsLogged(proc[p].reg) = record
    BY <2>2 DEF LogWith
  <2>3. CASE \E line : proc[p].line = <<line>> /\ Awaited(record, line, AsLogged(proc[p].reg))
    BY <2>3 DEF LogWith, Awaited
  <2> QED BY <2>1, <2>2, <2>3 DEF Fresh
<1> QED BY <1>1, Invariance, PTL

(* Until two processes work at once, and until a death cuts a flush of the  *)
(* store short, every promotion's experience is in the store (loop.py       *)
(* run_cycle saves it before the gate acts on it).                          *)
THEOREM Evidence == Spec => []EvidenceStored
<1>1. IInv => EvidenceStored
  <2> SUFFICES ASSUME IInv, ~shared, ~cut, \A p \in Proc : proc[p].pc # "write",
                      NEW n \in DOMAIN record.chain, NEW e \in record.chain[n].evidence
               PROVE  \E k \in DOMAIN store.records : store.records[k] = e.over
    BY DEF EvidenceStored
  <2>1. record.ok
    <3>1. CASE record = Corrupt
      BY <3>1, Loads
    <3> QED BY <3>1 DEF IInv
  <2>2. Supports(record.chain, store.records) /\ store.records \in Seq(Experiences)
    BY <2>1 DEF IInv, Backed, Files
  <2>3. n \in 1 .. Len(record.chain)
    BY <2>1, NumberedRegistry DEF IInv, Current
  <2>4. Holds(store.records, e.over)
    BY <2>2, <2>3 DEF Supports
  <2> QED BY <2>2, <2>4 DEF Holds
<1> QED BY <1>1, Invariance, PTL
-----------------------------------------------------------------------------
(* The champion on record, in a registry numbered by position.              *)
Numbers(n) == [k \in 1 .. n |-> k - 1]
TitleOf(reg) ==
    [line |-> Numbers(Len(reg.chain)),
     champion |-> IF Started(reg) THEN reg.active - 1 ELSE 0]
TitleNow == IF raced \/ ~record.ok THEN [line |-> <<>>, champion |-> 1] ELSE TitleOf(record)

LEMMA NumbersAppend ==
  ASSUME NEW n \in Nat
  PROVE  /\ Numbers(n) \in Seq(Nat) /\ Len(Numbers(n)) = n
         /\ Numbers(n + 1) = Append(Numbers(n), n)
         /\ n = 0 <=> Numbers(n) = <<>>
<1>1. \A m \in Nat : Numbers(m) \in Seq(Nat) /\ Len(Numbers(m)) = m
  BY DEF Numbers
<1>2. Numbers(n + 1) = Append(Numbers(n), n)
  <2> DEFINE a == Numbers(n + 1)
             b == Append(Numbers(n), n)
  <2>1. a \in Seq(Nat) /\ b \in Seq(Nat) /\ Len(a) = n + 1 /\ Len(b) = n + 1
    BY <1>1
  <2>2. ASSUME NEW k \in 1 .. n + 1 PROVE a[k] = b[k]
    <3>1. a[k] = k - 1
      BY DEF Numbers
    <3>2. k \in 1 .. n \/ k = n + 1
      OBVIOUS
    <3>3. k \in 1 .. n => b[k] = Numbers(n)[k] /\ Numbers(n)[k] = k - 1
      BY <1>1 DEF Numbers
    <3>4. k = n + 1 => b[k] = n
      BY <1>1
    <3> HIDE DEF a, b
    <3>5. CASE k \in 1 .. n
      BY <3>1, <3>3, <3>5
    <3>6. CASE k = n + 1
      BY <3>1, <3>4, <3>6
    <3> QED BY <3>2, <3>5, <3>6
  <2> HIDE DEF a, b
  <2>3. a = b
    BY <2>1, <2>2, SeqEqual
  <2> QED BY <2>3 DEF a, b
<1>3. n = 0 <=> Numbers(n) = <<>>
  BY <1>1
<1> QED BY <1>1, <1>2, <1>3

LEMMA TitleRead ==
  ASSUME NEW reg, Numbered(reg)
  PROVE  TitleOf(reg) = IF ~Started(reg) THEN [line |-> <<>>, champion |-> 0]
                        ELSE [line |-> [n \in DOMAIN reg.chain |-> reg.chain[n].id],
                              champion |-> ActiveVersion(reg).id]
<1>1. CASE ~Started(reg)
  <2>1. Numbers(Len(reg.chain)) = <<>>
    BY <1>1, NumberedRegistry, NumbersAppend
  <2> QED BY <1>1, <2>1 DEF TitleOf
<1>2. CASE Started(reg)
  <2>1. DOMAIN reg.chain = 1 .. Len(reg.chain) /\ reg.active \in 1 .. Len(reg.chain)
    BY <1>2, NumberedRegistry DEF Numbered
  <2>2. [n \in DOMAIN reg.chain |-> reg.chain[n].id] = Numbers(Len(reg.chain))
    BY <2>1 DEF Numbered, Numbers
  <2>3. ActiveVersion(reg).id = reg.active - 1
    BY <2>1 DEF ActiveVersion, Numbered
  <2> QED BY <1>2, <2>2, <2>3 DEF TitleOf
<1> QED BY <1>1, <1>2

LEMMA Uncontested == ASSUME NEW reg, Numbered(reg) PROVE TitleOf(reg) # Title!Contested
<1>1. Len(reg.chain) \in Nat /\ (Started(reg) <=> Len(reg.chain) # 0)
  BY NumberedRegistry
<1>2. CASE Started(reg)
  <2>1. Numbers(Len(reg.chain)) # <<>>
    BY <1>1, <1>2, NumbersAppend
  <2> QED BY <2>1 DEF TitleOf, Title!Contested
<1>3. CASE ~Started(reg)
  BY <1>3 DEF TitleOf, Title!Contested
<1> QED BY <1>2, <1>3

(* A new version is appointed, and a rollback returns the title.            *)
LEMMA GrowthAppoints ==
  ASSUME NEW reg, Numbered(reg), NEW new, NEW evidence, Grows(reg, new, evidence)
  PROVE  Title!Appointed(TitleOf(reg), TitleOf(new))
<1> DEFINE L == Len(reg.chain)
           a == TitleOf(reg)
           b == TitleOf(new)
<1>1. L \in Nat /\ reg.chain \in Seq(Version)
  BY NumberedRegistry
<1>2. Len(new.chain) = L + 1 /\ new.active = L + 1 /\ Numbered(new)
  BY <1>1 DEF Grows
<1>3. Started(new)
  BY <1>1, <1>2, NumberedRegistry
<1>4. b.line = Numbers(L + 1) /\ b.champion = L /\ a.line = Numbers(L)
  BY <1>1, <1>2, <1>3 DEF TitleOf
<1>5. b.line = Append(a.line, b.champion) /\ Len(a.line) = L
  BY <1>1, <1>4, NumbersAppend
<1>6. \A n \in 1 .. Len(a.line) : a.line[n] # b.champion
  BY <1>1, <1>4, <1>5 DEF Numbers
<1>7. a # Title!Contested
  BY Uncontested
<1> HIDE DEF a, b
<1>8. Title!Appointed(a, b)
  BY <1>5, <1>6, <1>7 DEF Title!Appointed
<1> QED BY <1>8 DEF a, b

LEMMA RollbackReturnsTitle ==
  ASSUME NEW reg, Numbered(reg), NEW new, Returns(reg, new)
  PROVE  Title!Returned(TitleOf(reg), TitleOf(new))
<1> DEFINE L == Len(reg.chain)
           a == TitleOf(reg)
           b == TitleOf(new)
<1>1. /\ L \in Nat /\ new.chain = reg.chain /\ Started(reg) /\ Started(new)
      /\ reg.active \in 1 .. L /\ new.active \in 1 .. L /\ new.active < reg.active
  BY NumberedRegistry DEF Returns, Started, Numbered
<1>2. /\ a.line = Numbers(L) /\ b.line = Numbers(L)
      /\ a.champion = reg.active - 1 /\ b.champion = new.active - 1
  BY <1>1 DEF TitleOf
<1>3. Len(a.line) = L /\ \A n \in 1 .. L : a.line[n] = n - 1
  BY <1>1, <1>2, NumbersAppend DEF Numbers
<1>4. a # Title!Contested
  BY Uncontested
<1> HIDE DEF a, b
<1>5. \E m, n \in 1 .. Len(a.line) : m < n /\ b.champion = a.line[m] /\ a.champion = a.line[n]
  BY <1>1, <1>2, <1>3
<1>6. Title!Returned(a, b)
  BY <1>2, <1>4, <1>5 DEF Title!Returned
<1> QED BY <1>6 DEF a, b

(* The title on record passes as Championship promises, for any number of   *)
(* candidates, commands, deaths and processes, until the log is written     *)
(* past a process or no longer loads: to a version that was never champion, *)
(* or back to one appointed before (registry.py promote, rollback,          *)
(* rollback_to), which may have been rolled back itself.                    *)
THEOREM Succession == Spec => TitlePassesOn
<1> DEFINE now == IF raced \/ ~record.ok THEN [line |-> <<>>, champion |-> 1]
                  ELSE IF ~Started(record) THEN [line |-> <<>>, champion |-> 0]
                  ELSE [line |-> [n \in DOMAIN record.chain |-> record.chain[n].id],
                        champion |-> ActiveVersion(record).id]
<1>1. IInv => now = TitleNow
  BY TitleRead DEF IInv, Current, TitleNow
<1>2. Init => Title!Start
  BY DEF Init, Empty, Started, Title!Start, Title!Vacant
<1>3. IInv /\ [Next]_vars => [Title!Appoint \/ Title!Return \/ Title!Contest]_now
  <2> SUFFICES ASSUME IInv, [Next]_vars
               PROVE  [Title!Appoint \/ Title!Return \/ Title!Contest]_now
    OBVIOUS
  <2>1. IInv' /\ (~raced' /\ record'.ok => ~raced /\ record.ok /\ Registers)
    BY StepKeeps DEF Kept
  <2>2. now = TitleNow /\ now' = TitleNow'
    BY <1>1, <2>1, TitleRead DEF IInv, Current, TitleNow
  <2>3. CASE raced' \/ ~record'.ok
    BY <2>3 DEF Title!Contest, Title!Contested
  <2>4. CASE ~raced' /\ record'.ok
    <3>1. /\ Numbered(record) /\ Registers
          /\ TitleNow = TitleOf(record) /\ TitleNow' = TitleOf(record')
      BY <2>1, <2>4 DEF IInv, Current, TitleNow, TitleOf
    <3>2. \/ TitleNow' = TitleNow \/ Title!Appointed(TitleNow, TitleNow')
          \/ Title!Returned(TitleNow, TitleNow')
      BY <3>1, GrowthAppoints, RollbackReturnsTitle DEF Registers
    <3> HIDE DEF now
    <3>3. now' = now \/ Title!Appointed(now, now') \/ Title!Returned(now, now')
      BY <2>2, <3>2
    <3> QED BY <3>3 DEF now, Title!Appoint, Title!Return
  <2> QED BY <2>3, <2>4
<1> QED BY <1>2, <1>3, Invariance, PTL DEF Spec, TitlePassesOn, Title!TitleSpec
=============================================================================
