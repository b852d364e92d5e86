------------------------ MODULE OptionsPaper_proofs ------------------------
(***************************************************************************)
(* Proofs about the options paper simulation, for any number of events,     *)
(* contracts, instants and deaths: what a save returned for is never lost,  *)
(* a restart is refused only over a file whose save a death cut, and the    *)
(* saved records implement the abstract book of positions.                  *)
(***************************************************************************)
EXTENDS OptionsPaper, FiniteSetTheorems, TLAPS

(* The fills a record of each phase has, none of them later than t.         *)
Shaped(r, t) ==
    /\ r.phase = "REJECTED" => r.entry = 0 /\ r.exit = 0
    /\ IsOpen(r) => r.entry \in 1 .. t /\ r.exit = 0
    /\ r.phase \in {"POSITION_CLOSED", "RECONCILED"} =>
           r.entry \in 1 .. t /\ r.exit \in r.entry .. t

Shapes ==
    /\ \A i \in Ids : Shaped(mem[i], now) /\ Shaped(file[i].body, now)
    /\ \A e \in Events : Shaped(acked[e], now)

(* What the index lists has been written.                                   *)
Listed == \A i \in index.body : file[i].body # None

(* What a save returned for is listed, and its file carries it on.          *)
OnDisk == \A e \in Events : acked[e] # None =>
              Main(e) \in index.body /\ CarriesOn(acked[e], file[Main(e)].body)

(* An engine that runs carries it on too.                                   *)
InMemory == pc \in {"idle", "saving"} =>
                \A e \in Events : acked[e] # None => CarriesOn(acked[e], mem[Main(e)])

(* What the writes already done of a save have put on disk.                 *)
Underway == pc = "saving" =>
                /\ mem[saving.id] # None
                /\ saving.done >= 1 => file[saving.id].body = mem[saving.id]
                /\ saving.done >= 3 => saving.id \in index.body

IInv == TypeOK /\ Shapes /\ Listed /\ OnDisk /\ InMemory /\ Underway
-----------------------------------------------------------------------------
(* The ids of the originals and of their duplicates.                        *)
LEMMA IdFacts ==
    /\ \A e \in Events : Main(e) \in Ids /\ Main(e)[1] = e /\ Main(e)[2] = "main"
    /\ \A e \in Events : Dup(e) \in Ids /\ Dup(e)[2] = "dup"
    /\ \A i \in Ids : i[1] \in Events /\ i[2] \in {"main", "dup"}
    /\ \A i \in Ids : i[2] # "dup" => i = Main(i[1])
BY DEF Ids, Main, Dup

(* The placeholder for no record is none.                                   *)
LEMMA NoneFacts ==
    /\ None.phase = "none" /\ None \notin Records
    /\ \A r \in Records : r.phase \in Phases
    /\ \A r : Shaped(None, r)
<1>1. None.phase = "none"
  BY DEF None
<1>2. \A r \in Records : r.phase \in Phases
  BY DEF Records
<1>3. None \notin Records
  BY <1>1, <1>2 DEF Phases
<1>4. \A t : Shaped(None, t)
  BY <1>1 DEF Shaped, IsOpen
<1> QED
  BY <1>1, <1>2, <1>3, <1>4

(* A note leaves everything but the notes as it was.                        *)
LEMMA NotedFacts ==
    ASSUME NEW r \in Records
    PROVE  /\ Noted(r) \in Records /\ Noted(r).phase = r.phase
           /\ Noted(r).contract = r.contract /\ Noted(r).ts = r.ts
           /\ Noted(r).entry = r.entry /\ Noted(r).exit = r.exit
           /\ Noted(r).notes = r.notes + 1
BY DEF Noted, Records

(* A change of phase leaves everything but the phase as it was.             *)
LEMMA PhaseFacts ==
    ASSUME NEW r \in Records, NEW p \in Phases
    PROVE  /\ [r EXCEPT !.phase = p] \in Records
           /\ [r EXCEPT !.phase = p].phase = p
           /\ [r EXCEPT !.phase = p].contract = r.contract
           /\ [r EXCEPT !.phase = p].ts = r.ts
           /\ [r EXCEPT !.phase = p].entry = r.entry
           /\ [r EXCEPT !.phase = p].exit = r.exit
           /\ [r EXCEPT !.phase = p].notes = r.notes
BY DEF Records

(* An exit fill is stamped by the clock and keeps the entry fill.           *)
LEMMA ClosedFacts ==
    ASSUME NEW r \in Records, now \in Instants
    PROVE  /\ Closed(r) \in Records /\ Closed(r).phase = "POSITION_CLOSED"
           /\ Closed(r).contract = r.contract /\ Closed(r).ts = r.ts
           /\ Closed(r).entry = r.entry /\ Closed(r).exit = now
           /\ Closed(r).notes = r.notes
BY DEF Closed, Records, Phases

(* A rejected record has no fill.                                           *)
LEMMA SkeletonFacts ==
    ASSUME NEW c \in Contracts, NEW ts \in Instants
    PROVE  /\ Skeleton(c, ts) \in Records
           /\ Skeleton(c, ts).phase = "REJECTED"
           /\ Skeleton(c, ts).entry = 0 /\ Skeleton(c, ts).exit = 0
BY DEF Skeleton, Records, Phases

(* An entry fill is stamped by the clock.                                   *)
LEMMA OpenedFacts ==
    ASSUME NEW c \in Contracts, NEW ts \in Instants, now \in Instants
    PROVE  /\ Opened(c, ts) \in Records
           /\ Opened(c, ts).phase = "POSITION_OPEN"
           /\ Opened(c, ts).entry = now /\ Opened(c, ts).exit = 0
BY DEF Opened, Skeleton, Records, Phases

(* A record that carries on another can be noted, and so can one that is    *)
(* carried from an open phase to a later one.                               *)
LEMMA CarriedNoted ==
    ASSUME NEW a \in Records, NEW r \in Records, CarriesOn(a, r)
    PROVE  CarriesOn(a, Noted(r))
<1>1. Noted(r) # None
  BY NotedFacts, NoneFacts
<1>2. a.notes \in Nat /\ r.notes \in Nat
  BY DEF Records
<1> QED
  BY NotedFacts, <1>1, <1>2 DEF CarriesOn

LEMMA CarriedPhase ==
    ASSUME NEW a \in Records, NEW r \in Records, CarriesOn(a, r),
           NEW p \in Phases, r.phase \notin {"REJECTED", "RECONCILED"}
    PROVE  CarriesOn(a, [r EXCEPT !.phase = p])
<1>1. [r EXCEPT !.phase = p] # None
  BY PhaseFacts, NoneFacts
<1>2. a.notes \in Nat /\ r.notes \in Nat
  BY DEF Records
<1> DEFINE q == [r EXCEPT !.phase = p]
<1>3. /\ q # None /\ q.contract = r.contract /\ q.ts = r.ts
      /\ q.entry = r.entry /\ q.exit = r.exit /\ q.notes = r.notes
  BY PhaseFacts, <1>1
<1> HIDE DEF q
<1>4. CarriesOn(a, q)
  BY <1>2, <1>3 DEF CarriesOn
<1> QED
  BY <1>4 DEF q

LEMMA CarriedClosed ==
    ASSUME NEW a \in Records, NEW r \in Records, CarriesOn(a, r),
           IsOpen(r), r.exit = 0, now \in Instants
    PROVE  CarriesOn(a, Closed(r))
<1>1. Closed(r) # None
  BY ClosedFacts, NoneFacts
<1>2. a.notes \in Nat /\ r.notes \in Nat
  BY DEF Records
<1>3. a.exit = 0 /\ a.phase \notin {"REJECTED", "RECONCILED"}
  BY DEF CarriesOn, IsOpen
<1> QED
  BY ClosedFacts, <1>1, <1>2, <1>3 DEF CarriesOn
-----------------------------------------------------------------------------
(* A call that hands its caller a well-shaped record, one that carries on   *)
(* what was saved of the event, keeps the invariant.                        *)
LEMMA Returned ==
    ASSUME IInv, pc = "idle", NEW i \in Ids, NEW r \in Records, Shaped(r, now),
           \A e \in Events : i = Main(e) /\ acked[e] # None => CarriesOn(acked[e], r),
           Return(i, r)
    PROVE  IInv'
<1> USE DEF Return, Remembered
<1>0. r # None
  BY NoneFacts
<1>1. mem' \in [Ids -> Records \cup {None}]
  BY DEF IInv, TypeOK
<1>2. order' \in Seq(Events)
  BY IdFacts DEF IInv, TypeOK
<1>3. \A e \in Events : mem'[Main(e)] # None <=> \E n \in DOMAIN order' : order'[n] = e
  <2> SUFFICES ASSUME NEW e \in Events
               PROVE  mem'[Main(e)] # None <=> \E n \in DOMAIN order' : order'[n] = e
    OBVIOUS
  <2>0. mem[Main(e)] # None <=> \E n \in DOMAIN order : order[n] = e
    BY DEF IInv, TypeOK
  <2>1. CASE i[2] = "dup" \/ mem[i] # None
    <3>1. order' = order
      BY <2>1
    <3>2. (mem'[Main(e)] # None) <=> (mem[Main(e)] # None)
      BY <2>1, <1>0, IdFacts DEF IInv, TypeOK
    <3> QED
      BY <3>1, <3>2, <2>0
  <2>2. CASE i[2] # "dup" /\ mem[i] = None
    <3>1. order' = Append(order, i[1]) /\ i[1] \in Events /\ order \in Seq(Events)
      BY <2>2, IdFacts DEF IInv, TypeOK
    <3>2. /\ DOMAIN order' = 1 .. Len(order) + 1 /\ Len(order) \in Nat
          /\ DOMAIN order = 1 .. Len(order)
          /\ order'[Len(order) + 1] = i[1]
          /\ \A n \in 1 .. Len(order) : order'[n] = order[n]
      BY <3>1
    <3>3. (\E n \in DOMAIN order' : order'[n] = e)
              <=> (e = i[1] \/ \E n \in DOMAIN order : order[n] = e)
      BY <3>2
    <3>4. (mem'[Main(e)] # None) <=> (e = i[1] \/ mem[Main(e)] # None)
      <4>1. i = Main(i[1])
        BY <2>2, IdFacts
      <4>2. CASE e = i[1]
        BY <4>1, <4>2, <1>0 DEF IInv, TypeOK
      <4>3. CASE e # i[1]
        <5>1. Main(e) # i
          BY <4>3, IdFacts
        <5> QED
          BY <4>3, <5>1, IdFacts DEF IInv, TypeOK
      <4> QED
        BY <4>2, <4>3
    <3> QED
      BY <2>0, <3>3, <3>4
  <2> QED
    BY <2>1, <2>2
<1>4. TypeOK'
  <2>1. saving' \in [id : Ids \cup {<<>>}, done : 0 .. 3] /\ saving'.id = i
    OBVIOUS
  <2> QED
    BY <1>1, <1>2, <1>3, <2>1 DEF IInv, TypeOK
<1>5. Shapes'
  BY DEF IInv, TypeOK, Shapes
<1>6. Listed' /\ OnDisk'
  BY DEF IInv, Listed, OnDisk
<1>7. InMemory'
  <2> SUFFICES ASSUME NEW e \in Events, acked[e] # None
               PROVE  CarriesOn(acked[e], mem'[Main(e)])
    BY DEF InMemory
  <2>1. CASE i = Main(e)
    BY <2>1 DEF IInv, TypeOK
  <2>2. CASE i # Main(e)
    BY <2>2, IdFacts DEF IInv, TypeOK, InMemory
  <2> QED
    BY <2>1, <2>2
<1>8. Underway'
  <2>1. saving'.id = i /\ saving'.done = 0 /\ mem'[i] = r
    BY DEF IInv, TypeOK
  <2> QED
    BY <2>1, <1>0 DEF Underway
<1> QED
  BY <1>4, <1>5, <1>6, <1>7, <1>8 DEF IInv

(* A note on a record the engine has keeps the invariant.                   *)
LEMMA ReturnedNoted ==
    ASSUME IInv, pc = "idle", NEW i \in Ids, mem[i] # None,
           Return(i, Noted(mem[i]))
    PROVE  IInv'
<1>1. mem[i] \in Records
  BY DEF IInv, TypeOK
<1>2. Noted(mem[i]) \in Records
  BY <1>1, NotedFacts
<1>3. Shaped(Noted(mem[i]), now)
  <2>1. Shaped(mem[i], now)
    BY DEF IInv, Shapes
  <2> QED
    BY <1>1, <2>1, NotedFacts DEF Shaped, IsOpen
<1>4. \A e \in Events : i = Main(e) /\ acked[e] # None =>
          CarriesOn(acked[e], Noted(mem[i]))
  BY <1>1, CarriedNoted DEF IInv, TypeOK, InMemory
<1> QED
  BY <1>2, <1>3, <1>4, Returned

(* So does a change of phase of an open or closed record.                   *)
LEMMA ReturnedPhase ==
    ASSUME IInv, pc = "idle", NEW i \in Ids, NEW p \in Phases,
           \/ mem[i].phase = "POSITION_OPEN" /\ p = "EXIT_REQUESTED"
           \/ mem[i].phase = "POSITION_CLOSED" /\ p = "RECONCILED",
           Return(i, [mem[i] EXCEPT !.phase = p])
    PROVE  IInv'
<1>1. mem[i] \in Records
  BY NoneFacts DEF IInv, TypeOK
<1> DEFINE q == [mem[i] EXCEPT !.phase = p]
<1>2. q \in Records /\ q.phase = p /\ q.entry = mem[i].entry /\ q.exit = mem[i].exit
  BY <1>1, PhaseFacts
<1>3. \A e \in Events : i = Main(e) /\ acked[e] # None => CarriesOn(acked[e], q)
  <2> SUFFICES ASSUME NEW e \in Events, i = Main(e), acked[e] # None
               PROVE  CarriesOn(acked[e], [mem[i] EXCEPT !.phase = p])
    OBVIOUS
  <2>1. acked[e] \in Records /\ CarriesOn(acked[e], mem[i])
    BY DEF IInv, TypeOK, InMemory
  <2>2. mem[i].phase \notin {"REJECTED", "RECONCILED"}
    OBVIOUS
  <2> QED
    BY <1>1, <2>1, <2>2, CarriedPhase
<1>4. Return(i, q)
  OBVIOUS
<1> HIDE DEF q
<1>5. Shaped(q, now)
  <2>1. Shaped(mem[i], now)
    BY DEF IInv, Shapes
  <2> QED
    BY <1>2, <2>1 DEF Shaped, IsOpen
<1> QED
  BY <1>2, <1>3, <1>4, <1>5, Returned
-----------------------------------------------------------------------------
(* A first record carries on nothing that was saved.                        *)
LEMMA ReturnedFirst ==
    ASSUME IInv, pc = "idle", NEW e \in Events, mem[Main(e)] = None,
           NEW r \in Records, Shaped(r, now), Return(Main(e), r)
    PROVE  IInv'
<1>1. Main(e) \in Ids
  BY IdFacts
<1>2. acked[e] = None
  BY DEF IInv, InMemory, CarriesOn
<1>3. \A d \in Events : Main(e) = Main(d) /\ acked[d] # None => CarriesOn(acked[d], r)
  BY <1>2, IdFacts
<1> QED
  BY <1>1, <1>3, Returned

(* The initial states satisfy the invariant.                                *)
LEMMA InitIInv == Init => IInv
<1> SUFFICES ASSUME Init PROVE IInv
  OBVIOUS
<1> USE DEF Init
<1>1. now \in Instants /\ crashes \in 0 .. MaxCrashes
  BY OptionsAssumption DEF Instants
<1>2. order \in Seq(Events)
  <2>1. <<>> \in Seq(Events)
    OBVIOUS
  <2> QED
    BY <2>1
<1>3. \A e \in Events : mem[Main(e)] # None <=> \E n \in DOMAIN order : order[n] = e
  BY IdFacts
<1>4. file \in [Ids -> [body : Records \cup {None}, sha : Records \cup {None}]]
  BY DEF Absent
<1>5. index \in [body : SUBSET Ids, sha : SUBSET Ids]
  BY DEF NoIndex
<1>6. saving \in [id : Ids \cup {<<>>}, done : 0 .. 3]
  OBVIOUS
<1>7. TypeOK
  BY <1>1, <1>2, <1>3, <1>4, <1>5, <1>6 DEF TypeOK
<1>8. Shapes
  BY NoneFacts DEF Shapes, Absent
<1>9. Listed /\ OnDisk /\ InMemory /\ Underway
  BY DEF Listed, OnDisk, InMemory, Underway, NoIndex
<1> QED
  BY <1>7, <1>8, <1>9 DEF IInv

(* Time that passes spoils no record.                                       *)
LEMMA TickIInv == ASSUME IInv, Tick PROVE IInv'
<1> USE DEF Tick
<1>1. now \in Nat /\ now' = now + 1 /\ now' \in Instants
  BY OptionsAssumption DEF IInv, TypeOK, Instants
<1>2. TypeOK'
  BY <1>1 DEF IInv, TypeOK
<1>3. \A r \in Records \cup {None} : Shaped(r, now) => Shaped(r, now')
  <2> SUFFICES ASSUME NEW r \in Records, Shaped(r, now) PROVE Shaped(r, now')
    BY NoneFacts
  <2>1. r.entry \in Nat /\ r.exit \in Nat
    BY DEF Records, Instants
  <2> QED
    BY <1>1, <2>1 DEF Shaped
<1>4. \A i \in Ids : file[i].body \in Records \cup {None}
  BY DEF IInv, TypeOK
<1>5. Shapes'
  BY <1>3, <1>4 DEF IInv, TypeOK, Shapes
<1>6. Listed' /\ OnDisk' /\ InMemory' /\ Underway'
  BY DEF IInv, Listed, OnDisk, InMemory, Underway
<1> QED
  BY <1>2, <1>5, <1>6 DEF IInv

LEMMA SubmitIInv == ASSUME IInv, SubmitEntry PROVE IInv'
<1>1. PICK e \in Events, c \in Contracts, ts \in 1 .. now :
          Repeated(e, c, ts) \/ FirstSeen(e, c, ts)
  BY DEF SubmitEntry
<1>2. pc = "idle" /\ now \in Instants /\ ts \in Instants
  BY OptionsAssumption DEF SubmitEntry, IInv, TypeOK, Instants
<1>3. Skeleton(c, ts) \in Records /\ Shaped(Skeleton(c, ts), now)
  BY <1>2, SkeletonFacts DEF Shaped, IsOpen
<1>4. CASE Repeated(e, c, ts)
  BY <1>2, <1>3, <1>4, IdFacts, Returned DEF Repeated
<1>5. CASE FirstSeen(e, c, ts)
  <2>1. CASE Return(Main(e), Skeleton(c, ts))
    BY <1>2, <1>3, <1>5, <2>1, ReturnedFirst DEF FirstSeen
  <2>2. CASE Return(Main(e), Opened(c, ts))
    <3>1. Opened(c, ts) \in Records /\ Shaped(Opened(c, ts), now)
      BY <1>2, OpenedFacts DEF Shaped, IsOpen, Instants
    <3> QED
      BY <1>2, <1>5, <2>2, <3>1, ReturnedFirst DEF FirstSeen
  <2> QED
    BY <1>5, <2>1, <2>2 DEF FirstSeen
<1> QED
  BY <1>1, <1>4, <1>5

LEMMA ExitIInv == ASSUME IInv, Exit PROVE IInv'
<1>1. PICK c \in Contracts, ts \in 1 .. now, price \in BOOLEAN :
          RequestExit(c, ts, price)
  BY DEF Exit
<1>2. PICK e \in Events : Candidate(e, c) /\ Requested(Main(e), mem[Main(e)], ts, price)
  BY <1>1 DEF RequestExit
<1> DEFINE i == Main(e)
<1>3. pc = "idle" /\ i \in Ids /\ IsOpen(mem[i]) /\ mem[i] # None
  BY <1>1, <1>2, IdFacts, NoneFacts DEF RequestExit, Candidate, OpenIn, IsOpen
<1>4. CASE Return(i, Noted(mem[i]))
  BY <1>3, <1>4, ReturnedNoted
<1>5. CASE Return(i, Closed(mem[i]))
  <2>1. mem[i] \in Records /\ now \in Instants
    BY <1>3 DEF IInv, TypeOK
  <2>2. Closed(mem[i]) \in Records
    BY <2>1, ClosedFacts
  <2>3. mem[i].entry \in 1 .. now /\ mem[i].exit = 0
    BY <1>3 DEF IInv, Shapes, Shaped
  <2>4. Shaped(Closed(mem[i]), now)
    BY <2>1, <2>3, ClosedFacts DEF Shaped, IsOpen, Instants
  <2>5. \A d \in Events : i = Main(d) /\ acked[d] # None =>
            CarriesOn(acked[d], Closed(mem[i]))
    BY <1>3, <2>1, <2>3, CarriedClosed DEF IInv, TypeOK, InMemory
  <2> QED
    BY <1>3, <1>5, <2>2, <2>4, <2>5, Returned
<1>6. CASE /\ mem[i].phase = "POSITION_OPEN"
           /\ Return(i, [mem[i] EXCEPT !.phase = "EXIT_REQUESTED"])
  <2>1. "EXIT_REQUESTED" \in Phases
    BY DEF Phases
  <2> QED
    BY <1>3, <1>6, <2>1, ReturnedPhase
<1> QED
  BY <1>2, <1>4, <1>5, <1>6 DEF Requested

LEMMA MarkIInv == ASSUME IInv, MarkMarket PROVE IInv'
<1>1. PICK e \in Events : IsOpen(mem[Main(e)]) /\ Return(Main(e), Noted(mem[Main(e)]))
  BY DEF MarkMarket
<1>2. mem[Main(e)] # None /\ Main(e) \in Ids
  BY <1>1, NoneFacts, IdFacts DEF IsOpen
<1> QED
  BY <1>1, <1>2, ReturnedNoted DEF MarkMarket

LEMMA ReconcileIInv == ASSUME IInv, Reconcile PROVE IInv'
<1>1. PICK i \in Ids :
          \/ /\ mem[i].phase = "POSITION_CLOSED"
             /\ Return(i, [mem[i] EXCEPT !.phase = "RECONCILED"])
          \/ mem[i] # None /\ Return(i, Noted(mem[i]))
  BY DEF Reconcile
<1>2. pc = "idle" /\ "RECONCILED" \in Phases
  BY DEF Reconcile, Phases
<1> QED
  BY <1>1, <1>2, ReturnedNoted, ReturnedPhase
-----------------------------------------------------------------------------
(* Each write of a save brings the disk nearer to the engine's record.      *)
LEMMA WriteIInv == ASSUME IInv, Write PROVE IInv'
<1> DEFINE i == saving.id
<1>0. pc = "saving" /\ i \in Ids /\ mem[i] \in Records /\ mem[i] # None
  BY DEF Write, IInv, TypeOK, Underway
<1>1. UNCHANGED <<now, mem, order, crashes>>
  BY DEF Write
<1>2. CASE /\ WriteBody(i) \/ WriteSha(i) \/ WriteIndex
           /\ saving' = [saving EXCEPT !.done = @ + 1] /\ UNCHANGED <<pc, acked>>
  <2>0. saving' \in [id : Ids \cup {<<>>}, done : 0 .. 3]
    BY <1>2 DEF IInv, TypeOK, WriteBody, WriteSha, WriteIndex
  <2>1. saving'.id = i /\ saving'.done = saving.done + 1
    BY <1>2 DEF IInv, TypeOK
  <2>2. CASE WriteBody(i)
    <3>1. file' \in [Ids -> [body : Records \cup {None}, sha : Records \cup {None}]]
      BY <1>0, <2>2 DEF WriteBody, IInv, TypeOK
    <3>2. file'[i].body = mem[i] /\ \A j \in Ids \ {i} : file'[j] = file[j]
      BY <1>0, <2>2 DEF WriteBody, IInv, TypeOK
    <3>3. index' = index /\ saving.done = 0
      BY <2>2 DEF WriteBody
    <3>9. cut' \subseteq Ids \cup {IndexFile}
      BY <2>2 DEF WriteBody, IInv, TypeOK
    <3>4. TypeOK'
      BY <1>0, <1>1, <1>2, <2>0, <2>1, <3>1, <3>3, <3>9 DEF IInv, TypeOK
    <3>5. Shapes'
      BY <1>1, <1>2, <3>2 DEF IInv, Shapes
    <3>6. Listed'
      BY <1>0, <3>2, <3>3 DEF IInv, TypeOK, Listed
    <3>7. OnDisk'
      <4> SUFFICES ASSUME NEW e \in Events, acked[e] # None
                   PROVE  /\ Main(e) \in index.body
                          /\ CarriesOn(acked[e], file'[Main(e)].body)
        BY <1>2, <3>3 DEF OnDisk
      <4>1. Main(e) \in index.body /\ CarriesOn(acked[e], file[Main(e)].body)
        BY DEF IInv, OnDisk
      <4>2. CarriesOn(acked[e], mem[Main(e)])
        BY <1>0 DEF IInv, InMemory
      <4> QED
        BY <3>2, <4>1, <4>2, IdFacts
    <3>8. InMemory' /\ Underway'
      BY <1>1, <1>2, <2>1, <3>2, <3>3 DEF IInv, InMemory, Underway
    <3> QED
      BY <3>4, <3>5, <3>6, <3>7, <3>8 DEF IInv
  <2>3. CASE WriteSha(i)
    <3>1. file' \in [Ids -> [body : Records \cup {None}, sha : Records \cup {None}]]
      BY <1>0, <2>3 DEF WriteSha, IInv, TypeOK
    <3>2. \A j \in Ids : file'[j].body = file[j].body
      BY <1>0, <2>3 DEF WriteSha, IInv, TypeOK
    <3>3. index' = index /\ saving.done = 1
      BY <2>3 DEF WriteSha
    <3>9. cut' \subseteq Ids \cup {IndexFile}
      BY <2>3 DEF WriteSha, IInv, TypeOK
    <3>4. TypeOK'
      BY <1>0, <1>1, <1>2, <2>0, <2>1, <3>1, <3>3, <3>9 DEF IInv, TypeOK
    <3>5. Shapes'
      BY <1>1, <1>2, <3>2 DEF IInv, Shapes
    <3>6. Listed' /\ OnDisk'
      BY <1>2, <3>2, <3>3, IdFacts DEF IInv, TypeOK, Listed, OnDisk
    <3>7. InMemory' /\ Underway'
      BY <1>0, <1>1, <1>2, <2>1, <3>2, <3>3 DEF IInv, InMemory, Underway
    <3> QED
      BY <3>4, <3>5, <3>6, <3>7 DEF IInv
  <2>4. CASE WriteIndex
    <3>1. index' \in [body : SUBSET Ids, sha : SUBSET Ids] /\ index'.body = Globbed
      BY <2>4 DEF WriteIndex, IInv, TypeOK, Globbed
    <3>2. file' = file /\ saving.done = 2
      BY <2>4 DEF WriteIndex
    <3>3. index.body \subseteq index'.body /\ i \in index'.body
      BY <1>0, <3>1, <3>2 DEF IInv, TypeOK, Listed, Underway, Globbed
    <3>9. cut' \subseteq Ids \cup {IndexFile}
      BY <2>4 DEF WriteIndex, IInv, TypeOK
    <3>4. TypeOK'
      BY <1>0, <1>1, <1>2, <2>0, <2>1, <3>1, <3>2, <3>9 DEF IInv, TypeOK
    <3>5. Shapes' /\ Listed' /\ OnDisk'
      BY <1>1, <1>2, <3>1, <3>2, <3>3 DEF IInv, Shapes, Listed, OnDisk, Globbed
    <3>6. InMemory' /\ Underway'
      BY <1>0, <1>1, <1>2, <2>1, <3>2, <3>3 DEF IInv, InMemory, Underway
    <3> QED
      BY <3>4, <3>5, <3>6 DEF IInv
  <2> QED
    BY <1>2, <2>2, <2>3, <2>4
<1>3. CASE Saved(i)
  <2> USE <1>3 DEF Saved
  <2>1. index' \in [body : SUBSET Ids, sha : SUBSET Ids] /\ index'.body = index.body
    BY DEF IInv, TypeOK
  <2>2. acked' \in [Events -> Records \cup {None}]
    BY <1>0, IdFacts DEF IInv, TypeOK
  <2>3. \A e \in Events :
            \/ acked'[e] = acked[e]
            \/ i = Main(e) /\ acked'[e] = mem[i]
    BY <1>0, IdFacts DEF IInv, TypeOK
  <2>4. saving' \in [id : Ids \cup {<<>>}, done : 0 .. 3]
    OBVIOUS
  <2>5. TypeOK'
    BY <1>1, <2>1, <2>2, <2>4 DEF IInv, TypeOK
  <2>6. Shapes'
    BY <1>0, <1>1, <2>3 DEF IInv, Shapes
  <2>7. file[i].body = mem[i] /\ i \in index.body
    BY <1>0 DEF IInv, Underway
  <2>8. CarriesOn(mem[i], mem[i])
    <3>1. mem[i].notes \in Nat
      BY <1>0 DEF Records
    <3> QED
      BY <1>0, <3>1 DEF CarriesOn
  <2>9. Listed'
    BY <2>1 DEF IInv, Listed
  <2>10. OnDisk' /\ InMemory'
    BY <1>0, <1>1, <2>1, <2>3, <2>7, <2>8 DEF IInv, OnDisk, InMemory
  <2> QED
    BY <2>5, <2>6, <2>9, <2>10 DEF IInv, Underway
<1> QED
  BY <1>2, <1>3 DEF Write

(* A death leaves the disk as it is.                                        *)
LEMMA CrashIInv == ASSUME IInv, Crash PROVE IInv'
<1> USE DEF Crash
<1>1. order' \in Seq(Events)
  <2>1. <<>> \in Seq(Events)
    OBVIOUS
  <2> QED
    BY <2>1
<1>2. \A e \in Events : mem'[Main(e)] # None <=> \E n \in DOMAIN order' : order'[n] = e
  BY IdFacts
<1>3. saving' \in [id : Ids \cup {<<>>}, done : 0 .. 3]
  OBVIOUS
<1>4. crashes' \in 0 .. MaxCrashes
  BY OptionsAssumption DEF IInv, TypeOK
<1>0. cut' \subseteq Ids \cup {IndexFile}
  BY DEF IInv, TypeOK, Unhashed
<1>5. TypeOK'
  BY <1>0, <1>1, <1>2, <1>3, <1>4 DEF IInv, TypeOK
<1>6. Shapes'
  BY NoneFacts DEF IInv, Shapes
<1>7. Listed' /\ OnDisk' /\ InMemory' /\ Underway'
  BY DEF IInv, Listed, OnDisk, InMemory, Underway
<1> QED
  BY <1>5, <1>6, <1>7 DEF IInv

(* The events of a set in ascending order are a sequence of them.           *)
LEMMA AscendingFacts ==
    ASSUME NEW S \in SUBSET Events, NEW s \in Ascending(S)
    PROVE  /\ s \in Seq(Events)
           /\ \A e \in Events : e \in S <=> \E n \in DOMAIN s : s[n] = e
<1>1. IsFiniteSet(S)
  <2>1. 1 \in Int /\ NEvents \in Int
    BY OptionsAssumption
  <2>2. IsFiniteSet(Events)
    BY <2>1, FS_Interval DEF Events
  <2> QED
    BY <2>2, FS_Subset
<1>2. Cardinality(S) \in Nat
  BY <1>1, FS_CardinalityType
<1>3. s \in [1 .. Cardinality(S) -> Events]
  BY DEF Ascending
<1>4. s \in Seq(Events)
  BY <1>2, <1>3
<1> QED
  BY <1>4 DEF Ascending

(* A new engine starts from the files the index lists.                      *)
LEMMA RestartIInv == ASSUME IInv, Restart PROVE IInv'
<1>1. pc = "off" /\ UNCHANGED <<now, file, index, saving, acked, cut, crashes>>
  BY DEF Restart
<1>2. CASE pc' = "refused" /\ UNCHANGED <<mem, order>>
  BY <1>1, <1>2 DEF IInv, TypeOK, Shapes, Listed, OnDisk, InMemory, Underway
<1>3. CASE /\ pc' = "idle"
           /\ mem' = [i \in Ids |-> IF i \in index.body THEN file[i].body ELSE None]
           /\ order' \in Ascending({e \in Events : Main(e) \in index.body})
  <2>1. mem' \in [Ids -> Records \cup {None}]
    BY <1>3 DEF IInv, TypeOK
  <2>2. /\ order' \in Seq(Events)
        /\ \A e \in Events :
               Main(e) \in index.body <=> \E n \in DOMAIN order' : order'[n] = e
    BY <1>3, AscendingFacts
  <2>3. \A e \in Events : mem'[Main(e)] # None <=> Main(e) \in index.body
    BY <1>3, IdFacts DEF IInv, Listed
  <2>4. TypeOK'
    BY <1>1, <1>3, <2>1, <2>2, <2>3 DEF IInv, TypeOK
  <2>5. Shapes'
    BY <1>1, <1>3, NoneFacts DEF IInv, Shapes
  <2>6. Listed' /\ OnDisk'
    BY <1>1 DEF IInv, Listed, OnDisk
  <2>7. InMemory'
    BY <1>1, <1>3, IdFacts DEF IInv, OnDisk, InMemory
  <2>8. Underway'
    BY <1>3 DEF Underway
  <2> QED
    BY <2>4, <2>5, <2>6, <2>7, <2>8 DEF IInv
<1> QED
  BY <1>2, <1>3 DEF Restart

LEMMA NextIInv == ASSUME IInv, [Next]_vars PROVE IInv'
<1>1. CASE UNCHANGED vars
  BY <1>1 DEF vars, IInv, TypeOK, Shapes, Listed, OnDisk, InMemory, Underway
<1> QED
  BY <1>1, TickIInv, SubmitIInv, ExitIInv, MarkIInv, ReconcileIInv, WriteIInv,
     CrashIInv, RestartIInv DEF Next
-----------------------------------------------------------------------------
LEMMA Invariance == Spec => []IInv
BY InitIInv, NextIInv, PTL DEF Spec

(* The state keeps its shape.                                               *)
THEOREM Typing == Spec => []TypeOK
BY Invariance, PTL DEF IInv

(* Restart recovery: a record whose save returned is in the engine again    *)
(* after any number of deaths, at any point of any save.                    *)
THEOREM Recovery == Spec => []AckedKept
<1>1. IInv => AckedKept
  BY DEF IInv, InMemory, AckedKept
<1> QED
  BY <1>1, Invariance, PTL

(* A file that does not match its sidecar is being saved, or a death cut    *)
(* its save.                                                                *)
Accounted ==
    /\ \A i \in Ids : ~Whole(file[i]) =>
           i \in cut \/ (pc = "saving" /\ saving.id = i /\ saving.done = 1)
    /\ ~Whole(index) => IndexFile \in cut \/ (pc = "saving" /\ saving.done = 3)

(* Nothing an index lists is refused by restore.                            *)
LEMMA NeverClaimed == TypeOK => ~RestoreRefuses
<1> SUFFICES ASSUME TypeOK, NEW i \in index.body, NEW j \in index.body,
                    SortsBefore(i, j), Claims(i, j)
             PROVE  FALSE
  BY DEF RestoreRefuses
<1>1. i \in Ids /\ j \in Ids
  BY DEF TypeOK
<1>2. /\ i = <<i[1], i[2]>> /\ i[1] \in Nat /\ i[2] \in {"main", "dup"}
      /\ j = <<j[1], j[2]>> /\ j[2] \in {"main", "dup"}
  BY <1>1 DEF Ids, Events
<1> QED
  BY <1>2 DEF SortsBefore, Claims

LEMMA AccountedStep ==
    ASSUME TypeOK, Accounted, RefusesOnlyCut, [Next]_vars
    PROVE  Accounted' /\ RefusesOnlyCut'
<1>0. \A i \in Ids : i # IndexFile
  BY DEF Ids, IndexFile, Events
<1>1. CASE Restart
  <2>1. /\ pc = "off" /\ pc' # "saving"
        /\ UNCHANGED <<file, index, saving, cut>>
    BY <1>1 DEF Restart
  <2>2. Accounted'
    BY <2>1 DEF Accounted, Whole
  <2>3. LoadFails => \E f \in cut : f = IndexFile \/ f \in index.body
    BY <2>1 DEF LoadFails, Accounted, TypeOK
  <2> QED
    BY <1>1, <2>1, <2>2, <2>3, NeverClaimed DEF Restart, RefusesOnlyCut
<1>2. CASE UNCHANGED vars
  BY <1>2 DEF vars, Accounted, RefusesOnlyCut, Whole
<1>3. CASE Write
  <2> DEFINE i == saving.id
  <2>1. pc = "saving" /\ i \in Ids /\ pc' # "refused"
    BY <1>3 DEF Write, Saved, TypeOK
  <2>2. CASE WriteBody(i) /\ saving' = [saving EXCEPT !.done = @ + 1] /\ UNCHANGED pc
    <3>1. /\ saving'.id = i /\ saving'.done = 1 /\ saving.done = 0
          /\ UNCHANGED <<index, cut>>
          /\ \A j \in Ids : j # i => file'[j] = file[j]
      BY <2>2 DEF WriteBody, TypeOK
    <3> QED
      BY <2>1, <2>2, <3>1 DEF Accounted, RefusesOnlyCut, Whole
  <2>3. CASE WriteSha(i) /\ saving' = [saving EXCEPT !.done = @ + 1] /\ UNCHANGED pc
    <3>1. /\ saving.done = 1 /\ index' = index /\ cut' = cut \ {i}
          /\ file'[i].body = file'[i].sha
          /\ \A j \in Ids : j # i => file'[j] = file[j]
      BY <2>1, <2>3 DEF WriteSha, TypeOK
    <3> QED
      BY <1>0, <2>1, <2>3, <3>1 DEF Accounted, RefusesOnlyCut, Whole
  <2>4. CASE WriteIndex /\ saving' = [saving EXCEPT !.done = @ + 1] /\ UNCHANGED pc
    <3>1. /\ saving'.id = i /\ saving'.done = 3 /\ saving.done = 2
          /\ UNCHANGED <<file, cut>>
      BY <2>4 DEF WriteIndex, TypeOK
    <3> QED
      BY <2>1, <2>4, <3>1 DEF Accounted, RefusesOnlyCut, Whole
  <2>5. CASE Saved(i)
    <3>1. /\ saving.done = 3 /\ UNCHANGED file /\ cut' = cut \ {IndexFile}
          /\ index'.body = index'.sha /\ pc' = "idle"
      BY <2>5 DEF Saved, TypeOK
    <3> QED
      BY <1>0, <2>1, <3>1 DEF Accounted, RefusesOnlyCut, Whole
  <2> QED
    BY <1>3, <2>2, <2>3, <2>4, <2>5 DEF Write
<1>4. CASE Crash
  <2>1. /\ pc' = "off" /\ UNCHANGED <<file, index>> /\ cut' = cut \cup Unhashed
        /\ pc \in {"idle", "saving"}
    BY <1>4 DEF Crash
  <2>2. /\ \A i \in Ids : saving.id = i /\ saving.done = 1 => i \in cut'
        /\ saving.done = 3 => IndexFile \in cut'
    BY <2>1 DEF Unhashed
  <2> QED
    BY <2>1, <2>2 DEF Accounted, RefusesOnlyCut, Whole
<1>5. CASE Tick
  BY <1>5 DEF Tick, Accounted, RefusesOnlyCut, Whole
<1>6. CASE SubmitEntry \/ Exit \/ MarkMarket \/ Reconcile
  <2>1. /\ pc = "idle" /\ pc' = "saving" /\ saving'.done = 0
        /\ UNCHANGED <<file, index, cut>>
    <3>1. pc = "idle"
      BY <1>6 DEF SubmitEntry, Exit, RequestExit, MarkMarket, Reconcile
    <3>2. \E i \in Ids : \E r : Return(i, r)
      <4>1. ASSUME SubmitEntry PROVE \E i \in Ids : \E r : Return(i, r)
        BY <4>1, IdFacts DEF SubmitEntry, Repeated, FirstSeen
      <4>2. ASSUME Exit PROVE \E i \in Ids : \E r : Return(i, r)
        BY <4>2, IdFacts DEF Exit, RequestExit, Requested
      <4>3. ASSUME MarkMarket \/ Reconcile PROVE \E i \in Ids : \E r : Return(i, r)
        BY <4>3, IdFacts DEF MarkMarket, Reconcile
      <4> QED
        BY <1>6, <4>1, <4>2, <4>3
    <3> QED
      BY <3>1, <3>2 DEF Return
  <2> QED
    BY <2>1 DEF Accounted, RefusesOnlyCut, Whole
<1> QED
  BY <1>1, <1>2, <1>3, <1>4, <1>5, <1>6 DEF Next

(* An engine refuses to start only over a file of its index, or the index,  *)
(* whose save a death cut and none has finished since.                      *)
THEOREM Refusal == Spec => []RefusesOnlyCut
<1>1. Init => Accounted /\ RefusesOnlyCut
  BY DEF Init, Accounted, RefusesOnlyCut, Whole, Absent, NoIndex
<1> QED
  BY <1>1, AccountedStep, Typing, PTL DEF Spec
-----------------------------------------------------------------------------
(* What a well-shaped record shows is an entry of the abstract book.        *)
LEMMA ViewIsEntry ==
    ASSUME NEW r \in Records, now \in Instants, Shaped(r, now)
    PROVE  /\ Stage(r) \in {"rejected", "open", "closed", "reconciled"}
           /\ View(r) \in Book!Entries(Stage(r))
<1>1. r # None /\ r.phase \in Phases
  BY NoneFacts
<1>2. View(r) = [stage |-> Stage(r), entry |-> r.entry, exit |-> r.exit]
  BY <1>1 DEF View
<1>3. <<r.entry, r.exit>> \in Book!Fills(Stage(r))
      /\ Stage(r) \in {"rejected", "open", "closed", "reconciled"}
  <2>1. CASE r.phase = "REJECTED"
    BY <2>1 DEF Stage, StageOf, Shaped, Book!Fills
  <2>2. CASE r.phase \in {"POSITION_OPEN", "EXIT_REQUESTED"}
    <3>1. Stage(r) = "open"
      BY <2>2 DEF Stage, StageOf
    <3>2. r.entry \in Instants /\ r.exit = 0
      BY <2>2, OptionsAssumption DEF Shaped, IsOpen, Instants
    <3> QED
      BY <3>1, <3>2 DEF Book!Fills
  <2>3. CASE r.phase \in {"POSITION_CLOSED", "RECONCILED"}
    <3>1. Stage(r) \in {"closed", "reconciled"}
      BY <2>3 DEF Stage, StageOf
    <3>2. r.entry \in Instants /\ r.exit \in Instants /\ r.entry <= r.exit
      BY <2>3, OptionsAssumption DEF Shaped, Instants
    <3> QED
      BY <3>1, <3>2 DEF Book!Fills
  <2> QED
    BY <1>1, <2>1, <2>2, <2>3 DEF Phases
<1>4. View(r) = [stage |-> Stage(r), entry |-> <<r.entry, r.exit>>[1],
                 exit |-> <<r.entry, r.exit>>[2]]
  BY <1>2
<1> QED
  BY <1>3, <1>4 DEF Book!Entries

(* A record that carries on another shows the same, or a later stage.       *)
LEMMA CarriedView ==
    ASSUME NEW a \in Records, NEW r \in Records, CarriesOn(a, r),
           now \in Instants, Shaped(a, now), Shaped(r, now)
    PROVE  \/ View(a) = View(r)
           \/ /\ Stage(r) \in Book!Later[Stage(a)]
              /\ View(a).stage = Stage(a)
              /\ View(a).entry \in {0, View(r).entry}
              /\ View(a).exit \in {0, View(r).exit}
<1>1. /\ r # None /\ r.phase \in Phases
      /\ a # None /\ a.phase \in Phases
  BY NoneFacts
<1>2. /\ View(r) = [stage |-> Stage(r), entry |-> r.entry, exit |-> r.exit]
      /\ View(a) = [stage |-> Stage(a), entry |-> a.entry, exit |-> a.exit]
  BY <1>1 DEF View
<1>3. a.entry = r.entry /\ a.exit \in {0, r.exit}
  BY DEF CarriesOn
<1>4. \/ a.exit = r.exit /\ Stage(a) = Stage(r)
      \/ Stage(r) \in Book!Later[Stage(a)]
  <2>1. CASE a.phase \in {"REJECTED", "RECONCILED"}
    <3>1. r.phase = a.phase
      BY <2>1 DEF CarriesOn
    <3>2. a.exit = r.exit
      BY <1>3, <2>1, <3>1 DEF Shaped, Instants
    <3> QED
      BY <3>1, <3>2 DEF Stage
  <2>2. CASE IsOpen(a)
    <3>1. a.entry \in 1 .. now /\ a.exit = 0 /\ Stage(a) = "open"
      BY <2>2 DEF Shaped, Stage, StageOf, IsOpen
    <3>2. r.phase # "REJECTED"
      BY <1>3, <3>1 DEF Shaped
    <3>3. CASE IsOpen(r)
      BY <3>1, <3>3 DEF Shaped, Stage, StageOf, IsOpen
    <3>4. CASE r.phase \in {"POSITION_CLOSED", "RECONCILED"}
      <4>1. Stage(r) \in {"closed", "reconciled"}
        BY <3>4 DEF Stage, StageOf
      <4> QED
        BY <3>1, <4>1 DEF Book!Later
    <3> QED
      BY <1>1, <3>2, <3>3, <3>4 DEF Phases, IsOpen
  <2>3. CASE a.phase = "POSITION_CLOSED"
    <3>1. /\ a.entry \in 1 .. now /\ a.exit \in a.entry .. now /\ a.exit # 0
          /\ Stage(a) = "closed"
      BY <2>3 DEF Shaped, Stage, StageOf
    <3>2. r.exit = a.exit /\ r.exit # 0
      BY <1>3, <3>1
    <3>3. r.phase \in {"POSITION_CLOSED", "RECONCILED"}
      BY <1>1, <3>2 DEF Shaped, IsOpen, Phases
    <3>4. CASE r.phase = "POSITION_CLOSED"
      BY <2>3, <3>2, <3>4 DEF Stage
    <3>5. CASE r.phase = "RECONCILED"
      <4>1. Stage(r) = "reconciled"
        BY <3>5 DEF Stage, StageOf
      <4> QED
        BY <3>1, <4>1 DEF Book!Later
    <3> QED
      BY <3>3, <3>4, <3>5
  <2> QED
    BY <1>1, <2>1, <2>2, <2>3 DEF Phases, IsOpen
<1> QED
  BY <1>2, <1>3, <1>4

(* Only the last write of a save changes the saved book, and it records an  *)
(* entry or a stutter.                                                      *)
LEMMA BookStep ==
    ASSUME IInv, [Next]_vars
    PROVE  [Book!Next]_[e \in Events |-> View(acked[e])]
<1> DEFINE B == [e \in Events |-> View(acked[e])]
<1>1. CASE UNCHANGED acked
  BY <1>1
<1>2. CASE Write /\ ~UNCHANGED acked
  <2> DEFINE i == saving.id
             e == i[1]
             r == mem[i]
  <2>1. Saved(i) /\ i[2] # "dup" /\ acked' = [acked EXCEPT ![e] = r]
    BY <1>2 DEF Write, Saved
  <2>2. /\ pc = "saving" /\ i \in Ids /\ e \in Events /\ i = Main(e)
        /\ r \in Records /\ now \in Instants
    BY <1>2, <2>1, IdFacts DEF Write, IInv, TypeOK, Underway
  <2>3. Shaped(r, now) /\ Shaped(acked[e], now)
    BY <2>2 DEF IInv, Shapes
  <2>4. acked \in [Events -> Records \cup {None}]
    BY DEF IInv, TypeOK
  <2>5. acked[e] # None => CarriesOn(acked[e], r)
    BY <2>2 DEF IInv, InMemory
  <2> HIDE DEF e, r, i
  <2>6. B' = [B EXCEPT ![e] = View(r)]
    BY <2>1, <2>2, <2>4
  <2>7. B[e] = View(acked[e])
    BY <2>2
  <2>8. /\ Stage(r) \in {"rejected", "open", "closed", "reconciled"}
        /\ View(r) \in Book!Entries(Stage(r))
    BY <2>2, <2>3, ViewIsEntry
  <2>9. Stage(r) \in DOMAIN Book!Later
    BY <2>8 DEF Book!Later
  <2>10. CASE acked[e] = None
    <3>1. View(acked[e]) = [stage |-> "none", entry |-> 0, exit |-> 0]
      BY <2>10 DEF View
    <3>2. Stage(r) \in Book!Later["none"]
      BY <2>8 DEF Book!Later
    <3>3. Book!Record(e, Stage(r), View(r))
      BY <2>6, <2>7, <2>8, <3>1, <3>2 DEF Book!Record
    <3> QED
      BY <2>2, <2>8, <2>9, <3>3 DEF Book!Next
  <2>11. CASE acked[e] # None
    <3>1. acked[e] \in Records
      BY <2>2, <2>4, <2>11
    <3>2. CASE View(acked[e]) = View(r)
      BY <2>6, <2>7, <3>2
    <3>3. CASE /\ Stage(r) \in Book!Later[Stage(acked[e])]
               /\ View(acked[e]).stage = Stage(acked[e])
               /\ View(acked[e]).entry \in {0, View(r).entry}
               /\ View(acked[e]).exit \in {0, View(r).exit}
      <4>1. Book!Record(e, Stage(r), View(r))
        BY <2>6, <2>7, <2>8, <3>3 DEF Book!Record
      <4> QED
        BY <2>2, <2>8, <2>9, <4>1 DEF Book!Next
    <3> QED
      BY <2>2, <2>3, <2>5, <2>11, <3>1, <3>2, <3>3, CarriedView
  <2> QED
    BY <2>10, <2>11
<1>3. Write \/ UNCHANGED acked
  <2>1. CASE UNCHANGED vars
    BY <2>1 DEF vars
  <2>2. CASE SubmitEntry \/ Exit \/ MarkMarket \/ Reconcile
    BY <2>2 DEF SubmitEntry, Repeated, FirstSeen, Exit, RequestExit, Requested,
                MarkMarket, Reconcile, Return
  <2>3. CASE Tick \/ Crash \/ Restart
    BY <2>3 DEF Tick, Crash, Restart
  <2> QED
    BY <2>1, <2>2, <2>3 DEF Next
<1> QED
  BY <1>1, <1>2, <1>3

(* The saved records implement the abstract book: no event is filled twice  *)
(* and no saved fill changes, across repetitions, deaths and restarts.      *)
THEOREM Positions == Spec => SavedBook
<1>1. Init => Book!Init
  <2> SUFFICES ASSUME Init PROVE Book!Init
    OBVIOUS
  <2>1. \A e \in Events : View(acked[e]) = Book!Blank
    BY DEF Init, View, Book!Blank
  <2> QED
    BY <2>1 DEF Book!Init
<1> QED
  BY <1>1, BookStep, Invariance, PTL DEF Spec, SavedBook, Book!Spec
=============================================================================
