---------------------------- MODULE OptionsPaper ----------------------------
(***************************************************************************)
(* The options paper simulation (paper_track/options_paper/): an engine     *)
(* that takes entry, exit and mark events from a caller and keeps one       *)
(* lifecycle record per entry event, and the store the caller saves every   *)
(* record it is handed to.  Events may be repeated, changed, late or out of *)
(* order.  The process may die between any two writes of a save; a new one  *)
(* restores what the store loads.                                           *)
(*                                                                          *)
(* The phases PAPER_ORDER_CREATED, PAPER_FILLED and EXIT_FILLED are passed  *)
(* through inside one call and are never kept.  Prices and the identities   *)
(* over them are left out, and so is the wording of what is appended to a   *)
(* record: "notes" counts the limitations and marks appended to a record    *)
(* whose phase stays what it is.                                            *)
(***************************************************************************)
EXTENDS Naturals, Sequences, FiniteSetsExt

CONSTANTS NEvents,    \* number of entry events; their ids sort by number
          Contracts,  \* the option contracts
          MaxNow,     \* the instants of the clock are 1 .. MaxNow
          Trading,    \* the instants the session gate calls TRADING
          Exiting,    \* the instants at which it allows exits
          MaxNotes,   \* bound on the notes on all records together
          MaxCrashes  \* bound on the deaths of the process

ASSUME OptionsAssumption ==
    /\ NEvents \in Nat /\ MaxNow \in Nat \ {0}
    /\ Trading \subseteq Exiting /\ Exiting \subseteq 1 .. MaxNow
    /\ MaxNotes \in Nat /\ MaxCrashes \in Nat

VARIABLES now,      \* the injected clock
          pc,       \* "idle", "saving", "off" or "refused"
          mem,      \* the engine's records by id
          order,    \* the events in the order of the engine's dictionary
          file,     \* the record files with their sidecars
          index,    \* the index file with its sidecar
          saving,   \* the record being saved, and the writes already done
          acked,    \* history: the record of each event as its last finished save left it
          cut,      \* history: the files whose sidecar a death kept from being
                    \* written, and that no save has finished since
          crashes   \* deaths so far

vars == <<now, pc, mem, order, file, index, saving, acked, cut, crashes>>
-----------------------------------------------------------------------------
Events == 1 .. NEvents
Instants == 1 .. MaxNow
(* A conflicting repetition of an event is recorded under an id of its own. *)
Ids == Events \X {"main", "dup"}
Main(e) == <<e, "main">>
Dup(e) == <<e, "dup">>

Phases == {"REJECTED", "POSITION_OPEN", "EXIT_REQUESTED", "POSITION_CLOSED",
           "RECONCILED"}
None == [phase |-> "none"]
Records ==
    [phase : Phases, contract : Contracts, ts : Instants,
     entry : Instants \cup {0}, exit : Instants \cup {0},
     notes : Nat]

IsOpen(r) == r.phase \in {"POSITION_OPEN", "EXIT_REQUESTED"}

Skeleton(c, ts) ==
    [phase |-> "REJECTED", contract |-> c, ts |-> ts, entry |-> 0, exit |-> 0,
     notes |-> 0]
Opened(c, ts) == [Skeleton(c, ts) EXCEPT !.phase = "POSITION_OPEN", !.entry = now]
Noted(r) == [r EXCEPT !.notes = @ + 1]
NotesOf(r) == IF r = None THEN 0 ELSE r.notes
MayNote == MapThenSumSet(LAMBDA i : NotesOf(mem[i]), Ids) < MaxNotes
Closed(r) == [r EXCEPT !.phase = "POSITION_CLOSED", !.exit = now]

(* A file holds what it was last written with, its sidecar the hash of what *)
(* the file held when the sidecar was written.                              *)
Absent == [body |-> None, sha |-> None]
NoIndex == [body |-> {}, sha |-> {}]
IndexFile == <<0, "index">>
Whole(f) == f.body = f.sha
-----------------------------------------------------------------------------
(* The store globs the record files for its index and loads what the index  *)
(* lists.  Ids come back sorted, and "record-e.dup.json" sorts before       *)
(* "record-e.json".                                                         *)
Globbed == {i \in Ids : file[i].body # None}
\* Mutant: the record of an event is loaded before its ".dup".
MainSortsBefore(i, j) == i[1] < j[1] \/ (i[1] = j[1] /\ i[2] = "main" /\ j[2] = "dup")
SortsBefore(i, j) == i[1] < j[1] \/ (i[1] = j[1] /\ i[2] = "dup" /\ j[2] = "main")

(* S in ascending order: there is one such sequence.                        *)
Ascending(S) ==
    {s \in [1 .. Cardinality(S) -> S] :
        /\ \A m, n \in DOMAIN s : m < n => s[m] < s[n]
        /\ \A e \in S : \E n \in DOMAIN s : s[n] = e}

LoadFails == ~Whole(index) \/ \E i \in index.body : ~Whole(file[i])

(* restore takes the records in the order of the index and refuses one      *)
(* whose event an earlier record with another id claims; a ".dup" claims    *)
(* nothing, because _record does not file it under its event.               *)
Claims(i, j) == i[1] = j[1] /\ i # j /\ i[2] # "dup"
RestoreRefuses == \E i, j \in index.body : SortsBefore(i, j) /\ Claims(i, j)

(* The engine files a record under its id, and under its event unless it is *)
(* a ".dup"; a repeated key keeps its place in the dictionary.              *)
Remembered(i, r) ==
    /\ mem' = [mem EXCEPT ![i] = r]
    /\ order' = IF i[2] = "dup" \/ mem[i] # None THEN order
                ELSE Append(order, i[1])

(* The caller saves the record it is handed, unless it is an old one.       *)
Return(i, r) ==
    /\ Remembered(i, r)
    /\ pc' = "saving" /\ saving' = [id |-> i, done |-> 0]
    /\ UNCHANGED <<now, file, index, acked, cut, crashes>>
-----------------------------------------------------------------------------
Init ==
    /\ now = 1 /\ pc = "idle" /\ order = <<>>
    /\ mem = [i \in Ids |-> None]
    /\ file = [i \in Ids |-> Absent] /\ index = NoIndex
    /\ saving = [id |-> <<>>, done |-> 0]
    /\ acked = [e \in Events |-> None] /\ cut = {} /\ crashes = 0

Tick ==
    /\ pc = "idle" /\ now < MaxNow /\ now' = now + 1
    /\ UNCHANGED <<pc, mem, order, file, index, saving, acked, cut, crashes>>

Equivalent(r, c, ts) == r.contract = c /\ r.ts = ts

(* submit_entry: an event seen before changes nothing or, when its payload  *)
(* differs, is recorded as a rejected ".dup" beside the original.           *)
Repeated(e, c, ts) ==
    /\ mem[Main(e)] # None
    /\ ~Equivalent(mem[Main(e)], c, ts)
    /\ Return(Dup(e), Skeleton(c, ts))

(* A new event is rejected outside trading, by the upstream gates or for    *)
(* lack of a price; otherwise it is filled at once, at the clock.           *)
\* Mutant: the call does not look the event up first.
FirstSeenAlways(e, c, ts) ==
    \/ Return(Main(e), Skeleton(c, ts))
    \/ ts \in Trading /\ Return(Main(e), Opened(c, ts))
FirstSeen(e, c, ts) ==
    /\ mem[Main(e)] = None
    /\ \/ Return(Main(e), Skeleton(c, ts))
       \/ ts \in Trading /\ Return(Main(e), Opened(c, ts))

SubmitEntry ==
    /\ pc = "idle"
    /\ \E e \in Events, c \in Contracts, ts \in 1 .. now :
           Repeated(e, c, ts) \/ FirstSeen(e, c, ts)

(* request_exit takes the first open record of the contract.                *)
OpenIn(e, c) == IsOpen(mem[Main(e)]) /\ mem[Main(e)].contract = c
Candidate(e, c) ==
    \E n \in DOMAIN order : /\ order[n] = e /\ OpenIn(e, c)
                           /\ \A k \in 1 .. n - 1 : ~OpenIn(order[k], c)

ExitIgnored(r, ts) == ts < r.entry \/ ts \notin Exiting

\* Mutant: a second request is advanced to EXIT_REQUESTED again and raises.
RequestFiledOnce(r) == r.phase = "POSITION_OPEN"
(* From POSITION_OPEN the request is filed; one that is already filed is    *)
(* tried again as it stands.                                                *)
RequestFiled(r) == IsOpen(r)

Requested(i, r, ts, price) ==
    \/ /\ ExitIgnored(r, ts) /\ MayNote
       /\ Return(i, Noted(r))
    \/ /\ ~ExitIgnored(r, ts) /\ RequestFiled(r) /\ price
       /\ Return(i, Closed(r))
    \/ /\ ~ExitIgnored(r, ts) /\ RequestFiled(r) /\ ~price
       /\ r.phase = "POSITION_OPEN"
       /\ Return(i, [r EXCEPT !.phase = "EXIT_REQUESTED"])
    \/ /\ ~ExitIgnored(r, ts) /\ RequestFiled(r) /\ ~price
       /\ r.phase = "EXIT_REQUESTED" /\ MayNote
       /\ Return(i, Noted(r))

RequestExit(c, ts, price) ==
    /\ pc = "idle"
    /\ \E e \in Events : /\ Candidate(e, c)
                         /\ Requested(Main(e), mem[Main(e)], ts, price)

Exit == \E c \in Contracts, ts \in 1 .. now, price \in BOOLEAN :
            RequestExit(c, ts, price)
(* The caller keeps asking with a quote of now.                             *)
ExitNow(c) == RequestExit(c, now, TRUE)

(* mark_market: the mark, or the reason why there is none, is appended.     *)
MarkMarket ==
    /\ pc = "idle"
    /\ \E e \in Events :
           /\ MayNote /\ IsOpen(mem[Main(e)])
           /\ Return(Main(e), Noted(mem[Main(e)]))

(* reconcile: the identities of a closed record hold by its construction;   *)
(* every other record, reconciled ones included, is noted to have failed.   *)
Reconcile ==
    /\ pc = "idle"
    /\ \E i \in Ids :
           \/ /\ mem[i].phase = "POSITION_CLOSED"
              /\ Return(i, [mem[i] EXCEPT !.phase = "RECONCILED"])
           \/ /\ mem[i] # None /\ mem[i].phase # "POSITION_CLOSED" /\ MayNote
              /\ Return(i, Noted(mem[i]))
-----------------------------------------------------------------------------
(* save_record: the file, its sidecar, the index, its sidecar.              *)
WriteBody(i) ==
    /\ saving.done = 0 /\ file' = [file EXCEPT ![i].body = mem[i]]
    /\ UNCHANGED <<index, cut>>
WriteSha(i) ==
    /\ saving.done = 1 /\ file' = [file EXCEPT ![i].sha = file[i].body]
    /\ cut' = cut \ {i} /\ UNCHANGED index
WriteIndex ==
    /\ saving.done = 2 /\ index' = [index EXCEPT !.body = Globbed]
    /\ UNCHANGED <<file, cut>>
(* The last write returns to the caller.                                    *)
Saved(i) ==
    /\ saving.done = 3 /\ index' = [index EXCEPT !.sha = index.body]
    /\ cut' = cut \ {IndexFile} /\ pc' = "idle" /\ saving' = [id |-> <<>>, done |-> 0]
    /\ acked' = IF i[2] = "dup" THEN acked ELSE [acked EXCEPT ![i[1]] = mem[i]]
    /\ UNCHANGED file

Write ==
    /\ pc = "saving"
    /\ \/ /\ WriteBody(saving.id) \/ WriteSha(saving.id) \/ WriteIndex
          /\ saving' = [saving EXCEPT !.done = @ + 1] /\ UNCHANGED <<pc, acked>>
       \/ Saved(saving.id)
    /\ UNCHANGED <<now, mem, order, crashes>>

(* The file a death would leave without its sidecar.                        *)
Unhashed ==
    {f \in Ids \cup {IndexFile} :
        (saving.done = 1 /\ f = saving.id) \/ (saving.done = 3 /\ f = IndexFile)}

Crash ==
    /\ pc \in {"idle", "saving"} /\ crashes < MaxCrashes
    /\ crashes' = crashes + 1 /\ pc' = "off"
    /\ mem' = [i \in Ids |-> None] /\ order' = <<>>
    /\ saving' = [id |-> <<>>, done |-> 0] /\ cut' = cut \cup Unhashed
    /\ UNCHANGED <<now, file, index, acked>>

\* Mutant: a record of the index whose hash is wrong is passed over.
RestartSkipping ==
    /\ pc = "off" /\ pc' = "idle"
    /\ mem' = [i \in Ids |->
                  IF i \in index.body /\ Whole(file[i]) THEN file[i].body ELSE None]
    /\ order' \in Ascending({e \in Events : mem'[Main(e)] # None})
    /\ UNCHANGED <<now, file, index, saving, acked, cut, crashes>>
(* A new engine restores what the store loads, or refuses to start.         *)
Restart ==
    /\ pc = "off"
    /\ \/ /\ LoadFails \/ RestoreRefuses
          /\ pc' = "refused" /\ UNCHANGED <<mem, order>>
       \/ /\ ~LoadFails /\ ~RestoreRefuses /\ pc' = "idle"
          /\ mem' = [i \in Ids |-> IF i \in index.body THEN file[i].body ELSE None]
          /\ order' \in Ascending({e \in Events : Main(e) \in index.body})
    /\ UNCHANGED <<now, file, index, saving, acked, cut, crashes>>

Next == \/ Tick \/ SubmitEntry \/ Exit \/ MarkMarket \/ Reconcile
        \/ Write \/ Crash \/ Restart

Spec == Init /\ [][Next]_vars

(* A save in progress goes on, and the caller goes on asking for an exit of *)
(* every open contract with a usable quote.                                 *)
FairSpec == Spec /\ SF_vars(Tick) /\ WF_vars(Write) /\ WF_vars(Restart)
                 /\ \A c \in Contracts : SF_vars(ExitNow(c))
-----------------------------------------------------------------------------
(* The shape of the state.                                                  *)
TypeOK ==
    /\ now \in Instants /\ pc \in {"idle", "saving", "off", "refused"}
    /\ mem \in [Ids -> Records \cup {None}]
    /\ order \in Seq(Events)
    /\ \A e \in Events : mem[Main(e)] # None <=> \E n \in DOMAIN order : order[n] = e
    /\ file \in [Ids -> [body : Records \cup {None}, sha : Records \cup {None}]]
    /\ index \in [body : SUBSET Ids, sha : SUBSET Ids]
    /\ saving \in [id : Ids \cup {<<>>}, done : 0 .. 3]
    /\ pc = "saving" => saving.id \in Ids
    /\ acked \in [Events -> Records \cup {None}]
    /\ cut \subseteq Ids \cup {IndexFile}
    /\ crashes \in 0 .. MaxCrashes

(* Restart recovery (docs/options_paper_simulation.md:88): a record whose   *)
(* save returned is in the engine again after any number of deaths, as it   *)
(* was saved or as the save a death interrupted had carried it on.  A       *)
(* repeated event that finds no record would be filled a second time.       *)
CarriesOn(a, r) ==
    /\ r # None /\ r.contract = a.contract /\ r.ts = a.ts
    /\ r.entry = a.entry /\ a.exit \in {0, r.exit} /\ r.notes >= a.notes
    /\ a.phase \in {"REJECTED", "RECONCILED"} => r.phase = a.phase
AckedKept ==
    pc = "idle" => \A e \in Events :
        acked[e] # None => CarriesOn(acked[e], mem[Main(e)])

(* The engine refuses to start only where a death struck between a file and *)
(* its sidecar, no save has finished that file since, and the index is that *)
(* file or lists it.  A death anywhere else of a save, a conflicting        *)
(* repetition on disk beside its original, or the first save of a record    *)
(* that was cut and is not listed yet never blocks a restart                *)
(* (docs/options_paper_simulation.md:88 "on load the engine restores prior  *)
(* records").                                                               *)
RefusesOnlyCut ==
    pc = "refused" => \E f \in cut : f = IndexFile \/ f \in index.body

(* The saved book: no event is filled twice, no saved fill changes, and a   *)
(* rejected or reconciled record is final, across restarts and repetitions. *)
StageOf == [none |-> "none", REJECTED |-> "rejected",
            POSITION_OPEN |-> "open", EXIT_REQUESTED |-> "open",
            POSITION_CLOSED |-> "closed", RECONCILED |-> "reconciled"]
Stage(r) == StageOf[r.phase]
View(r) == IF r = None THEN [stage |-> "none", entry |-> 0, exit |-> 0]
           ELSE [stage |-> Stage(r), entry |-> r.entry, exit |-> r.exit]
Book == INSTANCE PositionBook WITH
            Event <- Events, Instant <- Instants,
            book <- [e \in Events |-> View(acked[e])]
SavedBook == Book!Spec

(* An open position does not stay open while the caller keeps asking for    *)
(* its exit with a usable quote: a request once filed without data can be   *)
(* completed later.                                                         *)
ExitsComplete ==
    \A e \in Events : (pc = "idle" /\ mem[Main(e)] # None /\ IsOpen(mem[Main(e)]))
                          ~> (mem[Main(e)] = None \/ ~IsOpen(mem[Main(e)]))
=============================================================================
