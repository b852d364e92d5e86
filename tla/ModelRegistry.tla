--------------------------- MODULE ModelRegistry ---------------------------
(***************************************************************************)
(* The version registry (promotion/registry.py): what a line of its log     *)
(* does to it, and which actions it accepts.  Loading a log is applying its *)
(* lines in order, so a log stands for one registry.  A registry is the     *)
(* chain of champions in the order they were chosen, the status of each and *)
(* the position of the active one; "ok" is false for a log that does not    *)
(* load.  A version has its number N (model_N), the strategy it names, the  *)
(* evidence it was promoted on, and its parameters: "plain" if JSON has     *)
(* them, "rich" if not (a frozenset, a Decimal), "text" where the log has   *)
(* turned rich ones into strings.                                           *)
(***************************************************************************)
EXTENDS Naturals, Sequences

Empty == [chain |-> <<>>, status |-> <<>>, active |-> 0, ok |-> TRUE]
Corrupt == [Empty EXCEPT !.ok = FALSE]

Started(reg) == reg.chain # <<>>
ActiveVersion(reg) == reg.chain[reg.active]
Ids(reg) == {reg.chain[n].id : n \in DOMAIN reg.chain}
IndexOf(reg, id) == CHOOSE n \in DOMAIN reg.chain : reg.chain[n].id = id

Line(act, id, s, evidence, params) ==
    [act |-> act, id |-> id, strategy |-> s, evidence |-> evidence, params |-> params]
StartLine(s) == Line("start", 0, s, {}, "plain")
(* The next number is one above the highest of the chain, and at least 1.   *)
NextId(reg) == CHOOSE n \in 1 .. Len(reg.chain) + 1 :
                  /\ \A m \in Ids(reg) : m < n
                  /\ n = 1 \/ n - 1 \in Ids(reg)
PromoteLine(reg, s, evidence, params) ==
    Line("promote", NextId(reg), s, evidence, params)
RollbackLine(reg) == [act |-> "rollback", id |-> ActiveVersion(reg).id]
RollbackToLine(id) == [act |-> "rollback_to", id |-> id]

(* rollback and rollback_to refuse anything but an earlier champion.        *)
CanRollBack(reg) == Len(reg.chain) >= 2 /\ reg.active >= 2
\* Mutant: any other champion of the chain will do.
TargetsAnywhere(reg) == Ids(reg) \ {ActiveVersion(reg).id}
Targets(reg) == {reg.chain[n].id : n \in 1 .. reg.active - 1}

(* _apply.  A new version is appended behind the whole chain, wherever the  *)
(* active one stands.                                                       *)
Chosen(reg, line, status) ==
    [reg EXCEPT !.chain = Append(@, [id |-> line.id, strategy |-> line.strategy,
                                     evidence |-> line.evidence,
                                     params |-> line.params]),
                !.status = Append(status, "ACTIVE"),
                !.active = Len(reg.chain) + 1]
MovedTo(reg, n) ==
    [reg EXCEPT !.status = [[@ EXCEPT ![reg.active] = "ROLLED_BACK"]
                               EXCEPT ![n] = "ACTIVE"],
                !.active = n]

Applied(reg, line) ==
    CASE ~reg.ok -> reg
      [] line.act = "start" ->
            IF line.id \in Ids(reg) THEN Corrupt ELSE Chosen(reg, line, reg.status)
      [] line.act = "promote" ->
            IF line.id \in Ids(reg) THEN Corrupt
            ELSE Chosen(reg, line, [reg.status EXCEPT ![reg.active] = "RETIRED"])
      [] line.act = "rollback" ->
            IF ActiveVersion(reg).id # line.id THEN Corrupt
            ELSE MovedTo(reg, reg.active - 1)
      [] line.act = "rollback_to" ->
            IF line.id \notin Ids(reg) THEN Corrupt
            ELSE MovedTo(reg, IndexOf(reg, line.id))

(* json.dumps(default=str): what the log has of a line, and of a registry.  *)
AsText(params) == IF params = "rich" THEN "text" ELSE params
InText(x) == [x EXCEPT !.params = AsText(@)]
Logged(line) == IF line.act = "promote" THEN InText(line) ELSE line
AsLogged(reg) ==
    [reg EXCEPT !.chain = [n \in DOMAIN reg.chain |-> InText(reg.chain[n])]]
=============================================================================
