------------------------- MODULE PaperTrack_proofs -------------------------
(***************************************************************************)
(* Theorems about PaperTrack for any number of days, bars, deaths and for   *)
(* feeds with gaps: a reported day is flat and its report shows what the    *)
(* account holds on the disk, trades happen in time, and the account on the *)
(* disk implements the ledger of one run that is never interrupted.         *)
(***************************************************************************)
EXTENDS PaperTrack, SequenceTheorems, TLAPS

(* What the engine still has to write at a tick.                            *)
WithClose == {<<"ckpt", "close">>, <<"ckpt", "close", "report", "run">>,
              <<"close">>, <<"close", "report", "run">>}
WithReport == {<<"ckpt", "report", "run">>, <<"ckpt", "close", "report", "run">>,
               <<"close", "report", "run">>, <<"report", "run">>}
Agendas == WithClose \cup WithReport \cup {<<"ckpt">>, <<"run">>}

(* An open position was filled on its own day, before the flatten window.   *)
Early(e) ==
    e.open # 0 => /\ e.day \in Days /\ e.last \in Bars
                  /\ DayOf(e.last) = e.day /\ e.last < At(e.day, FlattenTick)

InTime(f) == /\ f.side = "BUY" => SlotOf(f.at) < FlattenTick
             /\ f.bar <= f.at /\ DayOf(f.bar) = DayOf(f.at)

Sound(e) == /\ Early(e)
            /\ e.day = 0 => e.eod = "NONE"
            /\ \A i \in DOMAIN e.fills : InTime(e.fills[i])

(* The engine e holds the account s, perhaps rolled over to a new day, or   *)
(* is one bar, or one flatten, ahead of it.                                 *)
Same(e, s) == /\ e.last = s.last /\ e.open = s.open /\ e.fills = s.fills
              /\ e.day = s.day /\ e.eod = s.eod

Mirrors(e, s, today) ==
    /\ e.last = s.last /\ e.open = s.open /\ e.fills = s.fills
    /\ \/ e.day = s.day /\ e.eod = s.eod
       \/ e.day = today /\ s.day # today /\ e.eod = "NONE" /\ e.open = 0

Traded(e, s, how, b) ==
    \E t \in Instants : e.fills = Append(s.fills, [side |-> how, bar |-> b, at |-> t])

EodAt(s, b) == IF DayOf(b) = s.day THEN s.eod ELSE "NONE"

Consumed(e, s, b) ==
    /\ b > s.last
    /\ s.open # 0 => DayOf(b) = s.day
    /\ e.day = DayOf(b) /\ e.last = b
    /\ \/ e.open = s.open /\ e.fills = s.fills /\ e.eod = EodAt(s, b)
       \/ s.open = 0 /\ e.open # 0 /\ Traded(e, s, "BUY", b) /\ e.eod = EodAt(s, b)
       \/ /\ s.open # 0 /\ e.open = 0 /\ Traded(e, s, "SELL", b)
          /\ e.eod \in {EodAt(s, b), "FLATTENED"}

Exited(e, s) ==
    /\ s.open # 0 /\ e.open = 0 /\ Traded(e, s, "SELL", s.last)
    /\ e.day = s.day /\ e.last = s.last /\ e.eod = "FLATTENED"

Ahead(e, s) == (\E b \in Bars : Consumed(e, s, b)) \/ Exited(e, s)

(* The process: where it is, and what that says of the engine.              *)
Paced ==
    /\ pc # "off" => \A d \in Begun : d <= run
    /\ pc \in {"off", "tick"} => todo = <<>>
    /\ pc = "tick" => /\ tick > 0 => eng.day = run
                      /\ eng.open # 0 => tick <= FlattenTick
    /\ pc \in {"write", "hash"} => /\ todo \in Agendas
                                   /\ eng.day = run
                                   /\ eng.open # 0 => tick < FlattenTick
    /\ todo \in WithReport \cup {<<"run">>} => tick >= NBars
    /\ todo \in WithClose /\ ~(Head(todo) = "close" /\ pc = "hash") =>
         eng.open = 0 /\ eng.eod = "NONE" /\ eng.last # 0

Unsaved == pc = "write" /\ Head(todo) = "ckpt"
JustSaved == \/ pc = "write" /\ Head(todo) = "close"
             \/ pc = "hash" /\ Head(todo) \in {"ckpt", "close"}

Remembered ==
    /\ Sound(eng)
    /\ pc = "tick" \/ (pc # "off" /\ Head(todo) \in {"report", "run"}) =>
         Mirrors(eng, Saved, run)
    /\ Unsaved => Ahead(eng, Saved)
    /\ JustSaved => Same(eng, Saved)

(* The disk.                                                                *)
Kept == /\ \A d \in Days : Exists(ckpt[d]) => Sound(ckpt[d].body[1])
        /\ Checkpointed # {} => \E m \in Checkpointed : \A c \in Checkpointed : c <= m

Shown(d) ==
    \/ /\ \A c \in Checkpointed : c > d
       /\ report[d].body[1].fills = <<>>
    \/ \E m \in Checkpointed :
         /\ m <= d /\ \A c \in Checkpointed : c <= d => c <= m
         /\ report[d].body[1].fills = ckpt[m].body[1].fills

Reported == \A d \in Days : Exists(report[d]) => Shown(d) /\ report[d].body[1].open = 0

(* No trade follows a report.                                               *)
Settled ==
    pc # "off" /\ Exists(report[run]) =>
      /\ pc = "tick" => tick > NBars /\ eng.open = 0
      /\ pc # "tick" => Head(todo) \in {"report", "run"}

IInv == TypeOK /\ Paced /\ Remembered /\ Kept /\ Reported /\ Settled
-----------------------------------------------------------------------------
(* The calendar: a tick of a day is an instant of that day and slot.        *)
LEMMA Division ==
  ASSUME NEW n \in Nat \ {0}, NEW q \in Nat, NEW r \in 0 .. n - 1
  PROVE  (q * n + r) \div n = q /\ (q * n + r) % n = r
  OBVIOUS

LEMMA Spread ==
  ASSUME NEW a \in Nat, NEW b \in Nat, NEW n \in Nat
  PROVE  (a + 1 + b) * n = a * n + n + b * n
  OBVIOUS

LEMMA Calendar ==
  ASSUME NEW d \in Days, NEW t \in 0 .. NBars + 1
  PROVE  /\ At(d, t) \in Instants /\ DayOf(At(d, t)) = d /\ SlotOf(At(d, t)) = t
         /\ t > 0 => At(d, t) > 0
         /\ \A u \in 0 .. NBars + 1 : t < u => At(d, t) < At(d, u)
<1>1. Span \in Nat \ {0} /\ d - 1 \in Nat /\ t \in 0 .. Span - 1 /\ NDays \in Nat
  BY TrackAssumption DEF Span, Days
<1>2. (d - 1) * Span \in Nat /\ NDays * Span \in Nat
  BY <1>1
<1>3. (d - 1) * Span + Span <= NDays * Span
  <2>1. NDays - d \in Nat /\ (NDays - d) * Span \in Nat
    BY <1>1 DEF Days
  <2>2. NDays * Span = (d - 1) * Span + Span + (NDays - d) * Span
    <3>1. NDays = (d - 1) + 1 + (NDays - d)
      BY <1>1 DEF Days
    <3>2. ((d - 1) + 1 + (NDays - d)) * Span = (d - 1) * Span + Span + (NDays - d) * Span
      <4> DEFINE a == d - 1
                 b == NDays - d
      <4>1. a \in Nat /\ b \in Nat /\ Span \in Nat
        BY <1>1, <2>1
      <4> HIDE DEF a, b
      <4>2. (a + 1 + b) * Span = a * Span + Span + b * Span
        BY <4>1, Spread
      <4> QED BY <4>2 DEF a, b
    <3> QED BY <3>1, <3>2
  <2> QED BY <1>2, <2>1, <2>2, <1>1
<1>4. DayOf(At(d, t)) = d /\ SlotOf(At(d, t)) = t
  BY <1>1, Division DEF DayOf, SlotOf, At, Days
<1> QED BY <1>1, <1>2, <1>3, <1>4 DEF At, Instants
-----------------------------------------------------------------------------
(* The files still to be written.                                           *)
Files == {"ckpt", "close", "report", "run"}

LEMMA Agenda ==
  ASSUME NEW a \in Agendas
  PROVE  /\ a \in Seq(Files) /\ a # <<>>
         /\ Head(a) \in Files
         /\ Tail(a) \in Agendas \cup {<<>>}
         /\ Tail(a) # <<>> => Head(Tail(a)) # "ckpt"
         /\ Tail(a) \in WithClose => a \in WithClose
         /\ Tail(a) \in WithReport \cup {<<"run">>} => a \in WithReport
         /\ Head(a) \in {"report", "run"} => a \in WithReport \cup {<<"run">>}
         /\ Head(a) = "close" => a \in WithClose
         /\ Head(a) # "ckpt" => Tail(a) \notin WithClose
         /\ Head(a) = "run" => Tail(a) = <<>>
         /\ Tail(a) # <<>> /\ Head(a) = "report" => Head(Tail(a)) = "run"
<1> USE DEF Files, Agendas, WithClose, WithReport
<1>1. CASE a = <<"ckpt", "close">>
  BY <1>1
<1>2. CASE a = <<"ckpt", "close", "report", "run">>
  BY <1>2
<1>3. CASE a = <<"close">>
  BY <1>3
<1>4. CASE a = <<"close", "report", "run">>
  BY <1>4
<1>5. CASE a = <<"ckpt", "report", "run">>
  BY <1>5
<1>6. CASE a = <<"report", "run">>
  BY <1>6
<1>7. CASE a = <<"ckpt">>
  BY <1>7
<1>8. CASE a = <<"run">>
  BY <1>8
<1> QED BY <1>1, <1>2, <1>3, <1>4, <1>5, <1>6, <1>7, <1>8

LEMMA Pairs ==
  ASSUME NEW x \in Files, NEW y \in Files
  PROVE  <<x>> \o <<y>> = <<x, y>>
<1> DEFINE s == <<x>> \o <<y>>
           t == <<x, y>>
<1>1. s \in Seq(Files) /\ t \in Seq(Files)
  OBVIOUS
<1>2. Len(s) = 2 /\ s[1] = x /\ s[2] = y
  OBVIOUS
<1>3. Len(t) = 2 /\ t[1] = x /\ t[2] = y
  OBVIOUS
<1> HIDE DEF s, t
<1>4. s = t
  BY <1>1, <1>2, <1>3, SeqEqual
<1> QED BY <1>4 DEF s, t

LEMMA Triples ==
  ASSUME NEW x \in Files, NEW y \in Files, NEW z \in Files
  PROVE  <<x>> \o <<y, z>> = <<x, y, z>>
<1> DEFINE s == <<x>> \o <<y, z>>
           t == <<x, y, z>>
<1>1. s \in Seq(Files) /\ t \in Seq(Files)
  OBVIOUS
<1>2. Len(s) = 3 /\ s[1] = x /\ s[2] = y /\ s[3] = z
  OBVIOUS
<1>3. Len(t) = 3 /\ t[1] = x /\ t[2] = y /\ t[3] = z
  OBVIOUS
<1> HIDE DEF s, t
<1>4. s = t
  BY <1>1, <1>2, <1>3, SeqEqual
<1> QED BY <1>4 DEF s, t

LEMMA Quadruples ==
  ASSUME NEW w \in Files, NEW x \in Files, NEW y \in Files, NEW z \in Files
  PROVE  <<w>> \o <<x, y, z>> = <<w, x, y, z>>
<1> DEFINE s == <<w>> \o <<x, y, z>>
           t == <<w, x, y, z>>
<1>1. s \in Seq(Files) /\ t \in Seq(Files)
  OBVIOUS
<1>2. Len(s) = 4 /\ s[1] = w /\ s[2] = x /\ s[3] = y /\ s[4] = z
  OBVIOUS
<1>3. Len(t) = 4 /\ t[1] = w /\ t[2] = x /\ t[3] = y /\ t[4] = z
  OBVIOUS
<1> HIDE DEF s, t
<1>4. s = t
  BY <1>1, <1>2, <1>3, SeqEqual
<1> QED BY <1>4 DEF s, t

(* What a bar adds to them.                                                 *)
LEMMA Endings ==
  ASSUME NEW e, NEW a, a = <<"ckpt">> \o FinalWrites(e)
  PROVE  /\ a \in Agendas /\ Head(a) = "ckpt"
         /\ a \in WithReport \cup {<<"run">>} => ~(tick < NBars)
         /\ a \in WithClose => e.eod = "NONE" /\ e.open = 0
<1>1. \/ FinalWrites(e) = <<>>
      \/ FinalWrites(e) = <<"close">> /\ e.eod = "NONE" /\ e.open = 0
      \/ FinalWrites(e) = <<"report", "run">> /\ ~(tick < NBars)
      \/ /\ FinalWrites(e) = <<"close", "report", "run">>
         /\ e.eod = "NONE" /\ e.open = 0 /\ ~(tick < NBars)
  <2>1. <<"close">> \o <<"report", "run">> = <<"close", "report", "run">>
    BY Triples DEF Files
  <2>2. <<"close">> \o <<>> = <<"close">> /\ <<>> \o <<>> = <<>>
        /\ <<>> \o <<"report", "run">> = <<"report", "run">>
    OBVIOUS
  <2> QED BY <2>1, <2>2 DEF FinalWrites, ReportWrites
<1>2. <<"ckpt">> \o <<>> = <<"ckpt">> /\ <<"ckpt">> \o <<"close">> = <<"ckpt", "close">>
  BY Pairs DEF Files
<1>3. <<"ckpt">> \o <<"report", "run">> = <<"ckpt", "report", "run">>
  BY Triples DEF Files
<1>4. <<"ckpt">> \o <<"close", "report", "run">> = <<"ckpt", "close", "report", "run">>
  BY Quadruples DEF Files
<1>5. \/ a = <<"ckpt">>
      \/ a = <<"ckpt", "close">> /\ e.eod = "NONE" /\ e.open = 0
      \/ a = <<"ckpt", "report", "run">> /\ ~(tick < NBars)
      \/ /\ a = <<"ckpt", "close", "report", "run">>
         /\ e.eod = "NONE" /\ e.open = 0 /\ ~(tick < NBars)
  BY <1>1, <1>2, <1>3, <1>4
<1> QED BY <1>5 DEF Agendas, WithClose, WithReport

(* Only the bodies of the files matter.                                     *)
LEMMA SameBodies ==
  ASSUME \A d \in Days : ckpt'[d].body = ckpt[d].body /\ report'[d].body = report[d].body
  PROVE  /\ Checkpointed' = Checkpointed /\ Begun' = Begun
         /\ Kept => Kept'
         /\ Reported => Reported'
<1>1. Checkpointed' = Checkpointed /\ Begun' = Begun
  BY DEF Checkpointed, Begun, Exists
<1>2. Kept => Kept'
  BY <1>1 DEF Kept, Exists, Sound, Early, InTime
<1>3. ASSUME NEW d \in Days, Shown(d) PROVE Shown(d)'
  BY <1>1, <1>3 DEF Shown, Checkpointed
<1>4. Reported => Reported'
  BY <1>3 DEF Reported, Exists
<1> QED BY <1>1, <1>2, <1>4

LEMMA SameSaved ==
  ASSUME \A d \in Days : ckpt'[d].body = ckpt[d].body, Kept
  PROVE  Saved' = Saved
<1>1. Checkpointed' = Checkpointed
  BY DEF Checkpointed, Exists
<1>2. CASE Checkpointed = {}
  BY <1>1, <1>2 DEF Saved
<1>3. CASE Checkpointed # {}
  <2>1. Latest \in Days
    BY <1>3 DEF Latest, Checkpointed, Kept
  <2>2. Latest' = Latest
    BY <1>1 DEF Latest
  <2> QED BY <1>1, <1>3, <2>1, <2>2 DEF Saved
<1> QED BY <1>2, <1>3

(* The latest checkpoint is the one of the largest day.                     *)
LEMMA Newest ==
  ASSUME NEW S \in SUBSET Days, NEW m \in S, \A c \in S : c <= m
  PROVE  (CHOOSE d \in S : \A c \in S : c <= d) = m
<1> DEFINE n == CHOOSE d \in S : \A c \in S : c <= d
<1>1. n \in S /\ \A c \in S : c <= n
  OBVIOUS
<1> HIDE DEF n
<1>2. n <= m /\ m <= n /\ n \in Nat /\ m \in Nat
  BY <1>1, TrackAssumption DEF Days
<1>3. n = m
  BY <1>2
<1> QED BY <1>3 DEF n
-----------------------------------------------------------------------------
(* The process starts, stops, and lets time pass.                           *)
LEMMA Brandnew == NewEngine \in Engine /\ Sound(NewEngine)
<1>1. 0 \in Instants
  <2>1. 1 \in Days /\ 0 \in 0 .. NBars + 1
    BY TrackAssumption DEF Days
  <2>2. At(1, 0) \in Instants
    BY <2>1, Calendar
  <2>3. NDays * Span - 1 \in Int
    BY TrackAssumption DEF Span
  <2> DEFINE last == NDays * Span - 1
             first == At(1, 0)
  <2>4. first \in 0 .. last
    BY <2>2 DEF Instants
  <2> HIDE DEF last, first
  <2>5. 0 \in 0 .. last
    BY <2>3, <2>4 DEF last
  <2> QED BY <2>5 DEF Instants, last
<1>2. NewEngine \in Engine
  BY <1>1, TrackAssumption DEF NewEngine, Engine, Statuses
<1>3. Sound(NewEngine)
  BY DEF NewEngine, Sound, Early
<1> QED BY <1>2, <1>3

LEMMA Stops ==
  ASSUME IInv, Off, TypeOK',
         \A d \in Days : ckpt'[d].body = ckpt[d].body /\ report'[d].body = report[d].body
  PROVE  IInv'
<1>1. Kept' /\ Reported'
  BY SameBodies DEF IInv
<1>2. pc' = "off" /\ eng' = NewEngine /\ todo' = <<>>
  BY DEF Off
<1>3. <<>> \notin WithReport \cup WithClose \cup {<<"run">>}
  BY DEF WithReport, WithClose
<1>4. Paced'
  BY <1>2, <1>3 DEF Paced
<1>5. Remembered'
  BY <1>2, Brandnew DEF Remembered, Unsaved, JustSaved, Sound, Early, InTime
<1>6. Settled'
  BY <1>2 DEF Settled
<1> QED BY <1>1, <1>4, <1>5, <1>6 DEF IInv

LEMMA StopTypes ==
  ASSUME TypeOK, Off, UNCHANGED <<ckpt, report, manifest>>, crashes' \in 0 .. MaxCrashes
  PROVE  TypeOK'
<1>1. /\ pc' \in {"off", "tick", "write", "hash"} /\ pc' = "off"
      /\ run' \in 0 .. NDays /\ tick' \in 0 .. NBars + 2
      /\ todo' \in Seq({"ckpt", "close", "report", "run"})
  BY TrackAssumption DEF Off
<1>2. eng' \in Engine
  BY Brandnew DEF Off
<1> QED BY <1>1, <1>2 DEF TypeOK

LEMMA RefuseRollKeeps == IInv /\ RefuseRoll => IInv'
<1> SUFFICES ASSUME IInv, RefuseRoll PROVE IInv'
  OBVIOUS
<1>1. TypeOK'
  BY StopTypes DEF IInv, RefuseRoll, disk, TypeOK
<1> QED BY <1>1, Stops DEF RefuseRoll, disk

LEMMA CrashKeeps == IInv /\ Crash => IInv'
<1> SUFFICES ASSUME IInv, Crash PROVE IInv'
  OBVIOUS
<1>1. crashes' \in 0 .. MaxCrashes
  BY TrackAssumption DEF IInv, Crash, TypeOK
<1>2. TypeOK'
  BY <1>1, StopTypes DEF IInv, Crash, disk
<1> QED BY <1>2, Stops DEF Crash, disk

LEMMA Restored ==
  ASSUME TypeOK, Kept
  PROVE  /\ Saved \in Engine /\ Sound(Saved)
         /\ Checkpointed # {} => /\ Latest \in Checkpointed /\ Saved = ckpt[Latest].body[1]
                                 /\ \A c \in Checkpointed : c <= Latest
<1>1. CASE Checkpointed = {}
  BY <1>1, Brandnew DEF Saved
<1>2. CASE Checkpointed # {}
  <2>1. Latest \in Checkpointed /\ \A c \in Checkpointed : c <= Latest
    BY <1>2 DEF Latest, Kept
  <2>2. ckpt[Latest].body \in Seq(Engine) /\ ckpt[Latest].body # <<>> /\ Latest \in Days
    BY <2>1 DEF TypeOK, File, Checkpointed, Exists
  <2>3. ckpt[Latest].body[1] \in Engine
    BY <2>2
  <2>4. Sound(ckpt[Latest].body[1])
    BY <2>2 DEF Kept, Exists
  <2> QED BY <1>2, <2>1, <2>3, <2>4 DEF Saved
<1> QED BY <1>1, <1>2

LEMMA StartKeeps == ASSUME NEW d \in Days, IInv, Start(d) PROVE IInv'
<1>1. eng' = Saved /\ UNCHANGED <<ckpt, report, manifest, crashes>>
  BY DEF Start, Saved, disk
<1>2. Saved \in Engine /\ Sound(Saved)
  BY Restored DEF IInv
<1>3. pc' = "tick" /\ run' = d /\ tick' = 0 /\ todo' = <<>>
  BY DEF Start
<1>4. TypeOK'
  <2>1. /\ pc' \in {"off", "tick", "write", "hash"} /\ pc' \notin {"write", "hash"}
        /\ run' \in 0 .. NDays /\ run' \in Days /\ tick' \in 0 .. NBars + 2
        /\ todo' \in Seq({"ckpt", "close", "report", "run"}) /\ eng' \in Engine
    BY <1>1, <1>2, <1>3, TrackAssumption DEF Days
  <2> QED BY <1>1, <2>1 DEF TypeOK, IInv
<1>5. Kept' /\ Reported' /\ Saved' = Saved /\ Begun' = Begun
  BY <1>1, SameBodies, SameSaved DEF IInv
<1>6. <<>> \notin WithReport \cup WithClose \cup {<<"run">>}
  BY DEF WithReport, WithClose
<1>7. Paced'
  <2>1. \A c \in Begun : c <= d
    BY DEF Start
  <2>2. tick' <= FlattenTick /\ ~(tick' > 0)
    BY <1>3, TrackAssumption
  <2> QED BY <1>3, <1>5, <1>6, <2>1, <2>2 DEF Paced
<1>8. Remembered'
  <2>1. Sound(eng')
    BY <1>1, <1>2
  <2>2. Mirrors(eng', Saved', run')
    BY <1>1, <1>5 DEF Mirrors
  <2> QED BY <1>3, <2>1, <2>2 DEF Remembered, Unsaved, JustSaved, Sound, Early, InTime
<1>9. Settled'
  BY <1>1, <1>3 DEF Settled, Start, Exists
<1> QED BY <1>4, <1>5, <1>7, <1>8, <1>9 DEF IInv

(* The engine at the tick, on its own day.                                  *)
LEMMA Rolling ==
  ASSUME IInv, MayStep
  PROVE  /\ Rolled \in Engine /\ Rolled.day = run /\ Sound(Rolled)
         /\ Rolled.open = eng.open /\ Rolled.last = eng.last /\ Rolled.fills = eng.fills
         /\ Mirrors(Rolled, Saved, run)
         /\ eng.open # 0 => eng.day = run
         /\ run \in Days /\ tick \in 0 .. NBars + 1 /\ todo = <<>> /\ pc = "tick"
<1>1. /\ eng \in Engine /\ run \in Days /\ tick \in 0 .. NBars + 1 /\ pc = "tick"
      /\ eng.open # 0 => eng.day \in {0, run}
  BY TrackAssumption DEF IInv, TypeOK, MayStep, Stepping, Rolls
<1>2. Sound(eng) /\ Mirrors(eng, Saved, run) /\ todo = <<>>
  BY <1>1 DEF IInv, Remembered, Paced
<1>3. eng.open # 0 => eng.day = run
  BY <1>1, <1>2, TrackAssumption DEF Sound, Early, Days
<1>4. /\ Rolled.day = run /\ Rolled.open = eng.open /\ Rolled.last = eng.last
      /\ Rolled.fills = eng.fills
      /\ Rolled.eod = IF eng.day \in {0, run} THEN eng.eod ELSE "NONE"
  BY <1>1 DEF Rolled, Rolls, Engine
<1>5. Rolled \in Engine
  <2>1. \A d \in 0 .. NDays : [eng EXCEPT !.day = d] \in Engine
    BY <1>1 DEF Engine
  <2>2. \A e \in Engine, x \in Statuses : [e EXCEPT !.eod = x] \in Engine
    BY DEF Engine
  <2>3. run \in 0 .. NDays /\ eng.eod \in Statuses /\ "NONE" \in Statuses
    BY <1>1, TrackAssumption DEF Days, Engine, Statuses
  <2> DEFINE x == IF Rolls THEN "NONE" ELSE eng.eod
             e == [eng EXCEPT !.day = run]
  <2>4. [e EXCEPT !.eod = x] \in Engine
    BY <2>1, <2>2, <2>3
  <2>5. [eng EXCEPT !.day = run, !.eod = x] = [e EXCEPT !.eod = x]
    BY <1>1 DEF Engine
  <2> QED BY <1>1, <2>4, <2>5 DEF Rolled
<1>6. Sound(Rolled)
  <2>1. Early(Rolled)
    BY <1>2, <1>3, <1>4 DEF Sound, Early
  <2>2. Rolled.day # 0
    BY <1>1, <1>4, TrackAssumption DEF Days
  <2> QED BY <1>2, <1>4, <2>1, <2>2 DEF Sound
<1>7. Mirrors(Rolled, Saved, run)
  <2>1. eng.day = 0 => eng.eod = "NONE"
    BY <1>2 DEF Sound
  <2> QED BY <1>2, <1>3, <1>4, <2>1 DEF Mirrors
<1> QED BY <1>1, <1>2, <1>3, <1>4, <1>5, <1>6, <1>7

(* A tick without a trade.                                                  *)
LEMMA Passes ==
  ASSUME IInv, MayStep, Advance, eng' = Rolled, eng.open # 0 => tick < FlattenTick,
         UNCHANGED <<run, disk, crashes>>
  PROVE  IInv'
<1>1. UNCHANGED <<run, ckpt, report, manifest, crashes>>
  BY DEF disk
<1>2. pc' = "tick" /\ tick' = tick + 1 /\ todo' = <<>>
  BY DEF Advance
<1> USE Rolling
<1>3. TypeOK'
  <2>1. /\ pc' \in {"off", "tick", "write", "hash"} /\ pc' \notin {"write", "hash"}
        /\ run' \in 0 .. NDays /\ run' \in Days /\ tick' \in 0 .. NBars + 2
        /\ todo' \in Seq({"ckpt", "close", "report", "run"}) /\ eng' \in Engine
    BY <1>1, <1>2, TrackAssumption DEF Days
  <2> QED BY <1>1, <2>1 DEF TypeOK, IInv
<1>4. Kept' /\ Reported' /\ Saved' = Saved /\ Begun' = Begun
  BY <1>1, SameBodies, SameSaved DEF IInv
<1>5. <<>> \notin WithReport \cup WithClose \cup {<<"run">>}
  BY DEF WithReport, WithClose
<1>6. Paced'
  <2>1. eng'.day = run /\ eng'.open = eng.open
    OBVIOUS
  <2>2. eng.open # 0 => tick' <= FlattenTick
    BY <1>2, TrackAssumption
  <2> QED BY <1>1, <1>2, <1>4, <1>5, <2>1, <2>2 DEF Paced, IInv
<1>7. Remembered'
  <2>1. Sound(eng') /\ Mirrors(eng', Saved', run')
    BY <1>1, <1>4
  <2> QED BY <1>2, <2>1 DEF Remembered, Unsaved, JustSaved, Sound, Early, InTime
<1>8. Settled'
  BY <1>1, <1>2, TrackAssumption DEF Settled, IInv, Exists, MayStep, Stepping
<1> QED BY <1>3, <1>4, <1>6, <1>7, <1>8 DEF IInv

LEMMA SkipKeeps == IInv /\ Skip => IInv'
<1> SUFFICES ASSUME IInv, Skip PROVE IInv'
  OBVIOUS
<1>1. eng.open # 0 => tick < FlattenTick
  BY TrackAssumption DEF Skip, Gate
<1> QED BY <1>1, Passes DEF Skip

LEMMA IdleKeeps == IInv /\ Idle => IInv'
<1> SUFFICES ASSUME IInv, Idle PROVE IInv'
  OBVIOUS
<1>1. eng.open # 0 => tick < FlattenTick
  <2>1. tick \in 0 .. NBars + 2
    BY DEF IInv, TypeOK
  <2> QED BY <2>1, TrackAssumption DEF Idle, Gate, AllowsFlatten
<1> QED BY <1>1, Passes DEF Idle, Fetches
-----------------------------------------------------------------------------
(* Trades.                                                                  *)
LEMMA Instant ==
  ASSUME run \in Days, tick \in 0 .. NBars + 1
  PROVE  /\ Now \in Instants /\ DayOf(Now) = run /\ SlotOf(Now) = tick
         /\ tick > 0 => Now > 0
         /\ tick < FlattenTick => Now < At(run, FlattenTick)
         /\ tick >= FlattenTick => At(run, FlattenTick) <= Now
<1>1. FlattenTick \in 0 .. NBars + 1 /\ tick \in Nat
  BY TrackAssumption
<1> QED BY <1>1, Calendar, TrackAssumption DEF Now, Instants

LEMMA Positive == \A b \in Bars : b \in Instants /\ b > 0
<1> SUFFICES ASSUME NEW d \in Days, NEW t \in 1 .. NBars
             PROVE  At(d, t) \in Instants /\ At(d, t) > 0
  BY DEF Bars
<1>1. t \in 0 .. NBars + 1
  BY TrackAssumption
<1> QED BY <1>1, Calendar

FillNow(how, b) == [side |-> how, bar |-> b, at |-> Now]

LEMMA TradeTypes ==
  ASSUME NEW e \in Engine, NEW b \in Bars, run \in Days, tick \in 0 .. NBars + 1
  PROVE  /\ Bought(e, b) \in Engine /\ Sold(e, b) \in Engine /\ Flattened(e, b) \in Engine
         /\ Bought(e, b).open = Now /\ Sold(e, b).open = 0 /\ Flattened(e, b).open = 0
         /\ Bought(e, b).fills = Append(e.fills, FillNow("BUY", b))
         /\ Sold(e, b).fills = Append(e.fills, FillNow("SELL", b))
         /\ Flattened(e, b).fills = Append(e.fills, FillNow("SELL", b))
         /\ Bought(e, b).eod = e.eod /\ Sold(e, b).eod = e.eod
         /\ Flattened(e, b).eod = "FLATTENED"
         /\ Bought(e, b).day = e.day /\ Sold(e, b).day = e.day /\ Flattened(e, b).day = e.day
         /\ Bought(e, b).last = e.last /\ Sold(e, b).last = e.last
         /\ Flattened(e, b).last = e.last
<1>1. Now \in Instants /\ 0 \in Instants
  BY Instant, Brandnew DEF Engine, NewEngine
<1>2. \A how \in Sides : FillNow(how, b) \in Fill
  BY <1>1 DEF FillNow, Fill
<1>3. \A how \in Sides : Append(e.fills, FillNow(how, b)) \in Seq(Fill)
  BY <1>2 DEF Engine
<1>4. \A x \in Engine, t \in Instants : [x EXCEPT !.open = t] \in Engine
  BY DEF Engine
<1>5. \A x \in Engine, f \in Seq(Fill) : [x EXCEPT !.fills = f] \in Engine
  BY DEF Engine
<1>6. \A x \in Engine : [x EXCEPT !.eod = "FLATTENED"] \in Engine
  BY DEF Engine, Statuses
<1>7. ASSUME NEW t \in Instants, NEW how \in Sides
      PROVE  /\ [e EXCEPT !.open = t, !.fills = Append(@, FillNow(how, b))] \in Engine
  <2>1. [e EXCEPT !.open = t] \in Engine
    BY <1>4
  <2> DEFINE f == Append(e.fills, FillNow(how, b))
             x == [e EXCEPT !.open = t]
  <2>2. [x EXCEPT !.fills = f] \in Engine
    BY <1>3, <1>5, <2>1
  <2>3. [e EXCEPT !.open = t, !.fills = f] = [x EXCEPT !.fills = f]
    BY DEF Engine
  <2> QED BY <2>2, <2>3
<1>8. Bought(e, b) \in Engine /\ Sold(e, b) \in Engine
  BY <1>1, <1>7 DEF Bought, Sold, FillNow, Sides
<1>9. Flattened(e, b) \in Engine
  BY <1>6, <1>8 DEF Flattened
<1>10. /\ Bought(e, b).open = Now /\ Sold(e, b).open = 0
       /\ Bought(e, b).fills = Append(e.fills, FillNow("BUY", b))
       /\ Sold(e, b).fills = Append(e.fills, FillNow("SELL", b))
  BY DEF Engine, Bought, Sold, FillNow
<1>11. /\ Bought(e, b).eod = e.eod /\ Sold(e, b).eod = e.eod
       /\ Bought(e, b).day = e.day /\ Sold(e, b).day = e.day
       /\ Bought(e, b).last = e.last /\ Sold(e, b).last = e.last
  BY DEF Engine, Bought, Sold
<1>12. /\ Flattened(e, b).open = Sold(e, b).open /\ Flattened(e, b).fills = Sold(e, b).fills
       /\ Flattened(e, b).eod = "FLATTENED" /\ Flattened(e, b).day = Sold(e, b).day
       /\ Flattened(e, b).last = Sold(e, b).last
  BY <1>8 DEF Engine, Flattened
<1> QED BY <1>8, <1>9, <1>10, <1>11, <1>12

(* A fill of now, on a bar of today, is in time.                            *)
LEMMA Timely ==
  ASSUME NEW e \in Engine, NEW b \in Bars, NEW how \in Sides,
         run \in Days, tick \in 0 .. NBars + 1, DayOf(b) = run, b <= Now,
         how = "BUY" => tick < FlattenTick,
         \A i \in DOMAIN e.fills : InTime(e.fills[i]),
         NEW f, f = Append(e.fills, FillNow(how, b))
  PROVE  \A i \in DOMAIN f : InTime(f[i])
<1>1. InTime(FillNow(how, b))
  BY Instant DEF InTime, FillNow
<1>2. e.fills \in Seq(Fill)
  BY DEF Engine
<1>3. /\ DOMAIN f = 1 .. Len(e.fills) + 1 /\ f[Len(e.fills) + 1] = FillNow(how, b)
      /\ \A i \in 1 .. Len(e.fills) : f[i] = e.fills[i]
  BY <1>2
<1> QED BY <1>1, <1>2, <1>3

(* A bar leaves the position, enters, exits, or flattens.                   *)
LEMMA Outcome ==
  ASSUME NEW r \in Engine, NEW b \in Bars, NEW signal, NEW low \in BOOLEAN,
         run \in Days, tick \in 0 .. NBars + 1, b <= Now, tick > 0,
         NEW e, e = Processed(r, b, signal, low)
  PROVE  \/ e = [r EXCEPT !.last = b] /\ (r.open # 0 => tick < FlattenTick)
         \/ r.open = 0 /\ tick < FlattenTick /\ e = [Bought(r, b) EXCEPT !.last = b]
         \/ r.open # 0 /\ e = [Sold(r, b) EXCEPT !.last = b]
         \/ r.open # 0 /\ e = [Flattened(r, b) EXCEPT !.last = b]
<1>1. /\ Now \in Nat /\ Now > 0 /\ b \in Nat
      /\ Gate(tick) = IF tick < FlattenTick THEN "TRADING"
                      ELSE IF tick <= NBars THEN "FLATTENING" ELSE "CLOSING"
  BY Instant, Positive, TrackAssumption DEF Gate, Instants
<1>2. Gate(tick) = "TRADING" <=> tick < FlattenTick
  BY <1>1
<1>3. AllowsFlatten(tick) <=> ~(tick < FlattenTick)
  BY <1>1 DEF AllowsFlatten
<1>4. CASE r.open = 0 /\ signal = "BUY" /\ tick < FlattenTick
  <2>1. Entered(r, b, signal) = Bought(r, b) /\ Bought(r, b).open = Now
    BY <1>2, <1>4, TradeTypes DEF Entered
  <2>2. Protected(Bought(r, b), b, signal, low) = Bought(r, b)
    BY <1>1, <1>4, <2>1 DEF Protected, StopFires
  <2>3. Closed(Bought(r, b), b) = Bought(r, b)
    BY <1>3, <1>4 DEF Closed
  <2> QED BY <1>4, <2>1, <2>2, <2>3 DEF Processed
<1>5. CASE r.open = 0 /\ ~(signal = "BUY" /\ tick < FlattenTick)
  <2>1. Entered(r, b, signal) = r
    BY <1>2, <1>5 DEF Entered
  <2>2. Protected(r, b, signal, low) = r /\ Closed(r, b) = r
    BY <1>5 DEF Protected, Closed
  <2> QED BY <1>5, <2>1, <2>2 DEF Processed
<1>6. CASE r.open # 0
  <2>1. Entered(r, b, signal) = r
    BY <1>6 DEF Entered
  <2>2. CASE signal = "SELL" \/ StopFires(r, b, low)
    <3>1. Protected(r, b, signal, low) = Sold(r, b)
      BY <1>6, <2>2 DEF Protected
    <3>2. Closed(Sold(r, b), b) = Sold(r, b)
      BY TradeTypes DEF Closed
    <3> QED BY <1>6, <2>1, <3>1, <3>2 DEF Processed
  <2>3. CASE ~(signal = "SELL" \/ StopFires(r, b, low))
    <3>1. Protected(r, b, signal, low) = r
      BY <2>3 DEF Protected
    <3>2. Closed(r, b) = IF tick < FlattenTick THEN r ELSE Flattened(r, b)
      BY <1>3, <1>6 DEF Closed
    <3> QED BY <1>6, <2>1, <3>1, <3>2 DEF Processed
  <2> QED BY <2>2, <2>3
<1> QED BY <1>4, <1>5, <1>6
-----------------------------------------------------------------------------
(* The engine after a bar or a flatten is one move ahead of the disk.       *)
LEMMA BarStep ==
  ASSUME IInv, Fetches, NEW b \in Candidates, NEW signal, NEW low \in BOOLEAN,
         NEW e, e = Processed(Rolled, b, signal, low)
  PROVE  /\ e \in Engine /\ e.day = run /\ e.last = b /\ Sound(e)
         /\ e.open # 0 => tick < FlattenTick
         /\ Consumed(e, Saved, b)
<1> DEFINE r == Rolled
<1>1. MayStep /\ tick > 0
  <2>1. tick \in Nat
    BY Rolling, TrackAssumption DEF Fetches
  <2> QED BY <2>1 DEF Fetches, Gate
<1>2. /\ r \in Engine /\ r.day = run /\ Sound(r) /\ Mirrors(r, Saved, run)
      /\ run \in Days /\ tick \in 0 .. NBars + 1
      /\ r.open # 0 => eng.day = run
      /\ r.last = eng.last
  BY <1>1, Rolling
<1>3. b \in Bars /\ DayOf(b) = run /\ b <= Now /\ b > r.last /\ b \in Nat /\ b > 0
  BY <1>2, Positive DEF Candidates, Instants
<1> HIDE DEF r
<1>4. e = Processed(r, b, signal, low)
  BY DEF r
<1>5. /\ Bought(r, b) \in Engine /\ Sold(r, b) \in Engine /\ Flattened(r, b) \in Engine
      /\ Now \in Instants /\ Now > 0
  BY <1>1, <1>2, <1>3, TradeTypes, Instant
<1>6. ASSUME NEW x \in Engine
      PROVE  LET y == [x EXCEPT !.last = b] IN
             /\ y \in Engine /\ y.last = b /\ y.day = x.day /\ y.open = x.open
             /\ y.fills = x.fills /\ y.eod = x.eod
  <2>1. {0} \cup Bars \subseteq {0} \cup Bars /\ b \in {0} \cup Bars
    BY <1>3
  <2> QED BY <2>1 DEF Engine
<1>7. /\ r.last = Saved.last /\ r.open = Saved.open /\ r.fills = Saved.fills
      /\ Saved.open # 0 => DayOf(b) = Saved.day
      /\ r.eod = EodAt(Saved, b)
  <2>1. r.last = Saved.last /\ r.open = Saved.open /\ r.fills = Saved.fills
    BY <1>2 DEF Mirrors
  <2>2. CASE r.day = Saved.day /\ r.eod = Saved.eod
    BY <1>2, <1>3, <2>1, <2>2 DEF EodAt
  <2>3. CASE r.day = run /\ Saved.day # run /\ r.eod = "NONE" /\ r.open = 0
    BY <1>3, <2>1, <2>3 DEF EodAt
  <2> QED BY <1>2, <2>1, <2>2, <2>3 DEF Mirrors
<1>8. \A i \in DOMAIN r.fills : InTime(r.fills[i])
  BY <1>2 DEF Sound
<1>9. ASSUME NEW x \in Engine, e = [x EXCEPT !.last = b], x.day = run,
             x.open # 0 => tick < FlattenTick,
             \A i \in DOMAIN x.fills : InTime(x.fills[i])
      PROVE  /\ e \in Engine /\ e.day = run /\ e.last = b /\ Sound(e)
             /\ e.open # 0 => tick < FlattenTick
  <2>1. /\ e \in Engine /\ e.day = run /\ e.last = b /\ e.open = x.open
        /\ e.fills = x.fills
    BY <1>6, <1>9
  <2>2. e.open # 0 => b < At(run, FlattenTick)
    <3>1. FlattenTick \in 0 .. NBars + 1
      BY TrackAssumption
    <3>2. At(run, FlattenTick) \in Nat /\ Now \in Nat
      BY <1>2, <1>5, <3>1, Calendar DEF Instants
    <3> QED BY <1>2, <1>3, <1>9, <2>1, <3>2, Instant
  <2>3. Early(e)
    BY <1>2, <1>3, <2>1, <2>2 DEF Early
  <2>4. e.day # 0
    BY <1>2, <2>1, TrackAssumption DEF Days
  <2> QED BY <1>9, <2>1, <2>3, <2>4 DEF Sound
<1>10. CASE e = [r EXCEPT !.last = b] /\ (r.open # 0 => tick < FlattenTick)
  <2>1. e.open = r.open /\ e.fills = r.fills /\ e.eod = r.eod
    BY <1>2, <1>6, <1>10
  <2>2. /\ e \in Engine /\ e.day = run /\ e.last = b /\ Sound(e)
        /\ e.open # 0 => tick < FlattenTick
    BY <1>2, <1>8, <1>9, <1>10
  <2> QED BY <1>3, <1>7, <2>1, <2>2 DEF Consumed
<1>11. CASE r.open = 0 /\ tick < FlattenTick /\ e = [Bought(r, b) EXCEPT !.last = b]
  <2> DEFINE x == Bought(r, b)
  <2>1. /\ x.open = Now /\ x.fills = Append(r.fills, FillNow("BUY", b))
        /\ x.day = run /\ x.eod = r.eod /\ x \in Engine
    BY <1>2, <1>3, TradeTypes
  <2>2. e.open = x.open /\ e.fills = x.fills /\ e.eod = x.eod
    BY <1>6, <1>11, <2>1
  <2>3. \A i \in DOMAIN x.fills : InTime(x.fills[i])
    BY <1>2, <1>3, <1>8, <1>11, <2>1, Timely DEF Sides
  <2> HIDE DEF x
  <2>4. /\ e \in Engine /\ e.day = run /\ e.last = b /\ Sound(e)
        /\ e.open # 0 => tick < FlattenTick
    BY <1>9, <1>11, <2>1, <2>3 DEF x
  <2>5. Traded(e, Saved, "BUY", b)
    BY <1>5, <1>7, <2>1, <2>2 DEF Traded, FillNow
  <2>6. e.open # 0 /\ e.eod = EodAt(Saved, b)
    BY <1>5, <1>7, <2>1, <2>2 DEF Instants
  <2> QED BY <1>3, <1>7, <1>11, <2>4, <2>5, <2>6 DEF Consumed
<1>12. CASE \E x \in {Sold(r, b), Flattened(r, b)} : r.open # 0 /\ e = [x EXCEPT !.last = b]
  <2> PICK x \in {Sold(r, b), Flattened(r, b)} : r.open # 0 /\ e = [x EXCEPT !.last = b]
    BY <1>12
  <2>1. /\ x.open = 0 /\ x.fills = Append(r.fills, FillNow("SELL", b))
        /\ x.day = run /\ x.eod \in {r.eod, "FLATTENED"} /\ x \in Engine
    BY <1>2, <1>3, TradeTypes
  <2>2. e.open = x.open /\ e.fills = x.fills /\ e.eod = x.eod
    BY <1>6, <2>1
  <2>3. \A i \in DOMAIN x.fills : InTime(x.fills[i])
    BY <1>2, <1>3, <1>8, <2>1, Timely DEF Sides
  <2>4. /\ e \in Engine /\ e.day = run /\ e.last = b /\ Sound(e)
        /\ e.open # 0 => tick < FlattenTick
    BY <1>9, <2>1, <2>3
  <2>5. Traded(e, Saved, "SELL", b)
    BY <1>5, <1>7, <2>1, <2>2 DEF Traded, FillNow
  <2> QED BY <1>3, <1>7, <2>1, <2>2, <2>4, <2>5 DEF Consumed
<1> QED BY <1>1, <1>2, <1>3, <1>4, <1>10, <1>11, <1>12, Outcome

(* A tick that leaves something to write.                                   *)
LEMMA Writes ==
  ASSUME IInv, Fetches, NEW a \in Agendas, Writing(a), Head(a) = "ckpt",
         UNCHANGED <<run, disk, crashes>>,
         eng' \in Engine, eng'.day = run, Sound(eng'),
         eng'.open # 0 => tick < FlattenTick,
         Ahead(eng', Saved),
         a \in WithReport \cup {<<"run">>} => tick >= NBars,
         a \in WithClose => eng'.open = 0 /\ eng'.eod = "NONE" /\ eng'.last # 0
  PROVE  IInv'
<1>1. UNCHANGED <<run, tick, ckpt, report, manifest, crashes>> /\ pc' = "write" /\ todo' = a
  BY DEF disk, Writing
<1>2. MayStep
  BY DEF Fetches
<1>3. /\ a \in Seq(Files) /\ a # <<>> /\ run \in Days /\ tick \in 0 .. NBars + 1 /\ pc = "tick"
      /\ eng.open # 0 => eng.day = run
  BY <1>2, Agenda, Rolling
<1>4. TypeOK'
  BY <1>1, <1>3 DEF TypeOK, IInv, Files
<1>5. Kept' /\ Reported' /\ Saved' = Saved /\ Begun' = Begun
  BY <1>1, SameBodies, SameSaved DEF IInv
<1>6. Paced'
  BY <1>1, <1>3, <1>5 DEF Paced, IInv
<1>7. Remembered'
  <2>1. Sound(eng') /\ Ahead(eng', Saved')
    BY <1>5
  <2> QED BY <1>1, <2>1 DEF Remembered, Unsaved, JustSaved, Sound, Early, InTime,
             Ahead, Consumed, Exited, Traded, EodAt
<1>8. Settled'
  <2>1. ~(tick > NBars /\ eng.open = 0)
    BY <1>3, TrackAssumption DEF Fetches, Gate
  <2> QED BY <1>1, <1>3, <2>1 DEF Settled, IInv, Exists
<1> QED BY <1>4, <1>5, <1>6, <1>7, <1>8 DEF IInv

LEMMA ProcessKeeps == IInv /\ Process => IInv'
<1> SUFFICES ASSUME IInv, Process PROVE IInv'
  OBVIOUS
<1>1. PICK b \in Candidates, signal \in {"BUY", "SELL", "HOLD"}, low \in BOOLEAN :
        eng' = Processed(Rolled, b, signal, low)
  BY DEF Process
<1>2. /\ Fetches /\ Writing(<<"ckpt">> \o FinalWrites(eng'))
      /\ UNCHANGED <<run, disk, crashes>>
  BY DEF Process
<1>3. /\ eng' \in Engine /\ eng'.day = run /\ eng'.last = b /\ Sound(eng')
      /\ eng'.open # 0 => tick < FlattenTick
      /\ Consumed(eng', Saved, b)
  BY <1>1, <1>2, BarStep
<1> DEFINE a == <<"ckpt">> \o FinalWrites(eng')
<1>4. /\ a \in Agendas /\ Head(a) = "ckpt"
      /\ a \in WithReport \cup {<<"run">>} => ~(tick < NBars)
      /\ a \in WithClose => eng'.eod = "NONE" /\ eng'.open = 0
  BY Endings
<1>5. tick \in Nat /\ b \in Bars /\ b # 0 /\ NBars \in Nat
  BY <1>2, Rolling, Positive, TrackAssumption DEF Candidates, Fetches
<1>6. Ahead(eng', Saved)
  BY <1>3, <1>5 DEF Ahead
<1>7. Writing(a)
  BY <1>2
<1> HIDE DEF a
<1> QED BY <1>2, <1>3, <1>4, <1>5, <1>6, <1>7, Writes

LEMMA IdleFlattenKeeps == IInv /\ IdleFlatten => IInv'
<1> SUFFICES ASSUME IInv, IdleFlatten PROVE IInv'
  OBVIOUS
<1>1. /\ Fetches /\ Writing(<<"ckpt">>) /\ UNCHANGED <<run, disk, crashes>>
      /\ eng.open # 0 /\ AllowsFlatten(tick) /\ eng' = Flattened(Rolled, eng.last)
  BY DEF IdleFlatten
<1>2. MayStep
  BY <1>1 DEF Fetches
<1> DEFINE r == Rolled
           b == eng.last
<1>3. /\ r \in Engine /\ r.day = run /\ Sound(r) /\ Mirrors(r, Saved, run)
      /\ run \in Days /\ tick \in 0 .. NBars + 1 /\ eng.day = run
      /\ r.last = b /\ r.open # 0
  BY <1>1, <1>2, Rolling
<1>4. b \in Bars /\ DayOf(b) = run /\ b < At(run, FlattenTick)
  BY <1>1, <1>3 DEF IInv, Remembered, Sound, Early
<1>5. tick >= FlattenTick
  BY <1>1, <1>3, TrackAssumption DEF AllowsFlatten, Gate
<1>6. b <= Now /\ Now \in Instants
  <2>1. FlattenTick \in 0 .. NBars + 1
    BY TrackAssumption
  <2>2. At(run, FlattenTick) \in Nat /\ Now \in Nat /\ b \in Nat
    BY <1>3, <1>4, <2>1, Calendar, Instant, Positive DEF Instants
  <2> QED BY <1>3, <1>4, <1>5, <2>2, Instant
<1>7. /\ eng' \in Engine /\ eng'.day = run /\ eng'.open = 0 /\ eng'.eod = "FLATTENED"
      /\ eng'.last = b /\ eng'.fills = Append(r.fills, FillNow("SELL", b))
  BY <1>1, <1>3, <1>4, TradeTypes
<1>8. Sound(eng')
  <2>1. \A i \in DOMAIN r.fills : InTime(r.fills[i])
    BY <1>3 DEF Sound
  <2>2. \A i \in DOMAIN eng'.fills : InTime(eng'.fills[i])
    BY <1>3, <1>4, <1>6, <1>7, <2>1, Timely DEF Sides
  <2>3. Early(eng') /\ eng'.day # 0
    BY <1>3, <1>7, TrackAssumption DEF Early, Days
  <2> QED BY <2>2, <2>3 DEF Sound
<1>9. Exited(eng', Saved)
  BY <1>3, <1>6, <1>7 DEF Exited, Mirrors, Traded, FillNow
<1> DEFINE a == <<"ckpt">>
<1>10. a \in Agendas /\ Head(a) = "ckpt" /\ a \notin WithReport \cup {<<"run">>} \cup WithClose
  BY DEF Agendas, WithReport, WithClose
<1>11. Ahead(eng', Saved)
  BY <1>9 DEF Ahead
<1> HIDE DEF r, b
<1>12. Writing(a)
  BY <1>1
<1> HIDE DEF a
<1> QED BY <1>1, <1>7, <1>8, <1>10, <1>11, <1>12, Writes
-----------------------------------------------------------------------------
(* The end of the session and the writes.                                   *)
LEMMA EndSessionKeeps == IInv /\ EndSession => IInv'
<1> SUFFICES ASSUME IInv, EndSession PROVE IInv'
  OBVIOUS
<1>1. /\ pc = "tick" /\ tick = NBars + 2 /\ run \in Days /\ tick > NBars
      /\ UNCHANGED <<ckpt, report, manifest, crashes>>
  BY TrackAssumption DEF EndSession, IInv, TypeOK, disk
<1>2. eng.day = run /\ eng.open = 0
  BY <1>1, TrackAssumption DEF IInv, Paced
<1>3. CASE Off
  <2>1. crashes' \in 0 .. MaxCrashes
    BY <1>1 DEF IInv, TypeOK
  <2> QED BY <1>1, <1>3, <2>1, StopTypes, Stops DEF IInv
<1>4. CASE Writing(<<"report", "run">>) /\ UNCHANGED <<run, eng>>
  <2> DEFINE a == <<"report", "run">>
  <2>1. a \in Agendas /\ Head(a) = "report" /\ a \notin WithClose
    BY DEF Agendas, WithReport, WithClose
  <2>2. a \in Seq(Files) /\ a # <<>>
    BY <2>1, Agenda
  <2>3. pc' = "write" /\ todo' = a /\ UNCHANGED <<run, tick, eng>>
    BY <1>4 DEF Writing
  <2> HIDE DEF a
  <2>4. TypeOK'
    BY <1>1, <1>2, <2>2, <2>3 DEF TypeOK, IInv, Files
  <2>5. Kept' /\ Reported' /\ Saved' = Saved /\ Begun' = Begun
    BY <1>1, SameBodies, SameSaved DEF IInv
  <2>6. Paced'
    BY <1>1, <1>2, <2>1, <2>3, <2>5, TrackAssumption DEF Paced, IInv
  <2>7. Remembered'
    <3>1. Sound(eng') /\ Mirrors(eng', Saved', run')
      BY <1>1, <2>3, <2>5 DEF IInv, Remembered
    <3> QED BY <2>1, <2>3, <3>1 DEF Remembered, Unsaved, JustSaved, Sound, Early, InTime
  <2>8. Settled'
    BY <2>1, <2>3 DEF Settled
  <2> QED BY <2>4, <2>5, <2>6, <2>7, <2>8 DEF IInv
<1>5. ReportWrites(eng) \in {<<>>, <<"report", "run">>}
  BY DEF ReportWrites
<1> QED BY <1>3, <1>4, <1>5 DEF EndSession

(* A file that is being written belongs to today.                           *)
LEMMA AtWork ==
  ASSUME IInv, pc \in {"write", "hash"}
  PROVE  /\ todo \in Agendas /\ eng.day = run /\ run \in Days /\ eng \in Engine
         /\ eng.open # 0 => tick < FlattenTick
         /\ \A d \in Begun : d <= run
         /\ Sound(eng) /\ eng.day # 0
  BY TrackAssumption DEF IInv, Paced, TypeOK, Remembered, Days

LEMMA WriteCheckpointKeeps == IInv /\ WriteCheckpoint => IInv'
<1> SUFFICES ASSUME IInv, WriteCheckpoint PROVE IInv'
  OBVIOUS
<1>1. /\ pc = "write" /\ Head(todo) \in {"ckpt", "close"} /\ pc' = "hash"
      /\ eng' = IF Head(todo) = "close" THEN [eng EXCEPT !.eod = "FLAT"] ELSE eng
      /\ ckpt' = [ckpt EXCEPT ![run].body = <<eng'>>]
      /\ UNCHANGED <<run, tick, todo, report, manifest, crashes>>
  BY AtWork DEF WriteCheckpoint
<1>2. /\ todo \in Agendas /\ eng.day = run /\ run \in Days /\ eng \in Engine
      /\ eng.open # 0 => tick < FlattenTick
      /\ \A d \in Begun : d <= run
      /\ Sound(eng) /\ eng.day # 0 /\ Head(todo) # "report" /\ Head(todo) # "run"
  BY <1>1, AtWork
<1>3. /\ eng' \in Engine /\ eng'.day = run /\ eng'.open = eng.open /\ eng'.last = eng.last
      /\ eng'.fills = eng.fills /\ Sound(eng')
  <2>1. /\ eng' \in Engine /\ eng'.day = run /\ eng'.open = eng.open /\ eng'.last = eng.last
        /\ eng'.fills = eng.fills
    BY <1>1, <1>2 DEF Engine, Statuses
  <2> QED BY <1>2, <2>1 DEF Sound, Early, InTime
<1>4. /\ ckpt' \in [Days -> File(Engine)] /\ ckpt'[run].body = <<eng'>>
      /\ \A d \in Days : d # run => ckpt'[d] = ckpt[d]
  <2>1. <<eng'>> \in Seq(Engine) /\ ckpt[run] \in File(Engine) /\ ckpt \in [Days -> File(Engine)]
    BY <1>2, <1>3 DEF IInv, TypeOK
  <2>2. [ckpt[run] EXCEPT !.body = <<eng'>>] \in File(Engine)
    BY <2>1 DEF File
  <2> QED BY <1>1, <1>2, <2>1, <2>2 DEF File
<1>5. Checkpointed' = Checkpointed \cup {run} /\ \A c \in Checkpointed : c <= run
  BY <1>2, <1>4 DEF Checkpointed, Exists, Begun
<1>6. Begun' = Begun \cup {run}
  BY <1>1, <1>2, <1>4 DEF Begun, Exists
<1>7. \A c \in Checkpointed' : c <= run
  BY <1>2, <1>5 DEF Days
<1>8. Saved' = eng'
  <2>1. Checkpointed' \in SUBSET Days /\ run \in Checkpointed'
    BY <1>2, <1>5 DEF Checkpointed
  <2>2. Latest' = run
    BY <1>7, <2>1, Newest DEF Latest
  <2> QED BY <1>4, <2>1, <2>2 DEF Saved
<1>9. TypeOK'
  BY <1>1, <1>2, <1>3, <1>4 DEF TypeOK, IInv
<1>10. Kept'
  <2>1. ASSUME NEW d \in Days, Exists(ckpt[d])' PROVE Sound(ckpt[d].body[1])'
    <3>1. CASE d = run
      BY <1>3, <1>4, <3>1 DEF Sound, Early, InTime
    <3>2. CASE d # run
      BY <1>4, <2>1, <3>2 DEF IInv, Kept, Exists, Sound, Early, InTime
    <3> QED BY <3>1, <3>2
  <2> QED BY <1>5, <1>7, <2>1 DEF Kept
<1>11. Reported'
  <2> SUFFICES ASSUME NEW d \in Days, Exists(report[d])
               PROVE  Shown(d)' /\ report[d].body[1].open = 0
    BY <1>1 DEF Reported, Exists
  <2>1. Shown(d) /\ report[d].body[1].open = 0
    BY DEF IInv, Reported
  <2>2. d # run
    BY <1>1, <1>2 DEF IInv, Settled
  <2>3. d < run
    BY <1>2, <2>2 DEF Begun, Days
  <2>4. Shown(d)'
    <3>1. CASE (\A c \in Checkpointed : c > d) /\ report[d].body[1].fills = <<>>
      BY <1>1, <1>5, <2>3, <3>1 DEF Shown
    <3>2. CASE \E m \in Checkpointed :
                 /\ m <= d /\ \A c \in Checkpointed : c <= d => c <= m
                 /\ report[d].body[1].fills = ckpt[m].body[1].fills
      <4> PICK m \in Checkpointed :
                 /\ m <= d /\ \A c \in Checkpointed : c <= d => c <= m
                 /\ report[d].body[1].fills = ckpt[m].body[1].fills
        BY <3>2
      <4>1. m \in Days /\ m # run /\ ~(run <= d) /\ d' = d
        BY <1>2, <2>3 DEF Checkpointed, Days
      <4>2. m \in Checkpointed' /\ \A c \in Checkpointed' : c <= d => c <= m
        BY <1>5, <4>1
      <4>3. report'[d].body[1].fills = ckpt'[m].body[1].fills
        BY <1>1, <1>4, <4>1
      <4> QED BY <4>2, <4>3 DEF Shown
    <3> QED BY <2>1, <3>1, <3>2 DEF Shown
  <2> QED BY <2>1, <2>4
<1>12. Paced'
  <2>1. Head(todo) # "close" => eng' = eng
    BY <1>1
  <2>2. Paced
    BY DEF IInv
  <2> QED BY <1>1, <1>2, <1>3, <1>6, <2>1, <2>2 DEF Paced, Days
<1>13. Remembered'
  <2>1. Same(eng', Saved')
    BY <1>8 DEF Same
  <2> QED BY <1>1, <1>2, <1>3, <2>1 DEF Remembered, Unsaved, JustSaved, Sound, Early, InTime
<1>14. Settled'
  BY <1>1, <1>2 DEF IInv, Settled, Exists
<1> QED BY <1>9, <1>10, <1>11, <1>12, <1>13, <1>14 DEF IInv

LEMMA WriteReportKeeps == IInv /\ WriteReport => IInv'
<1> SUFFICES ASSUME IInv, WriteReport PROVE IInv'
  OBVIOUS
<1>1. /\ pc = "write" /\ Head(todo) = "report" /\ pc' = "hash"
      /\ report' = [report EXCEPT ![run].body = <<ReportOf(eng)>>]
      /\ UNCHANGED <<run, tick, eng, todo, ckpt, manifest, crashes>>
  BY AtWork DEF WriteReport
<1>2. /\ todo \in Agendas /\ eng.day = run /\ run \in Days /\ eng \in Engine
      /\ eng.open # 0 => tick < FlattenTick
      /\ \A d \in Begun : d <= run
      /\ Sound(eng)
  BY <1>1, AtWork
<1>3. eng.open = 0
  <2>1. tick >= NBars
    BY <1>1, <1>2, Agenda DEF IInv, Paced
  <2> QED BY <1>2, <2>1, TrackAssumption DEF IInv, TypeOK
<1>4. Mirrors(eng, Saved, run)
  BY <1>1 DEF IInv, Remembered
<1>5. /\ ReportOf(eng) \in Report /\ ReportOf(eng).open = 0
      /\ ReportOf(eng).fills = Saved.fills
  BY <1>2, <1>3, <1>4 DEF ReportOf, Report, Engine, Mirrors
<1>6. /\ report' \in [Days -> File(Report)] /\ report'[run].body = <<ReportOf(eng)>>
      /\ \A d \in Days : d # run => report'[d] = report[d]
  <2>1. /\ <<ReportOf(eng)>> \in Seq(Report) /\ report[run] \in File(Report)
        /\ report \in [Days -> File(Report)]
    BY <1>2, <1>5 DEF IInv, TypeOK
  <2>2. [report[run] EXCEPT !.body = <<ReportOf(eng)>>] \in File(Report)
    BY <2>1 DEF File
  <2> QED BY <1>1, <1>2, <2>1, <2>2 DEF File
<1>7. TypeOK'
  BY <1>1, <1>2, <1>6 DEF TypeOK, IInv
<1>8. Checkpointed' = Checkpointed /\ Saved' = Saved /\ Kept'
  BY <1>1 DEF Checkpointed, Saved, Latest, Kept, IInv, Exists, Sound, Early, InTime
<1>9. Begun' \subseteq Begun \cup {run}
  BY <1>1, <1>6 DEF Begun, Exists
<1>10. Reported'
  <2> SUFFICES ASSUME NEW d \in Days, Exists(report[d])'
               PROVE  Shown(d)' /\ report'[d].body[1].open = 0
    BY DEF Reported
  <2>1. CASE d # run
    BY <1>1, <1>6, <1>8, <2>1 DEF IInv, Reported, Exists, Shown
  <2>2. CASE d = run
    <3>1. report'[d].body[1].open = 0 /\ report'[d].body[1].fills = Saved.fills
      BY <1>5, <1>6, <2>2
    <3>2. CASE Checkpointed = {}
      <4>1. Saved.fills = <<>>
        BY <3>2 DEF Saved, NewEngine
      <4> QED BY <1>8, <3>1, <3>2, <4>1 DEF Shown
    <3>3. CASE Checkpointed # {}
      <4>1. /\ Latest \in Checkpointed /\ Saved = ckpt[Latest].body[1]
            /\ \A c \in Checkpointed : c <= Latest
        BY <3>3, Restored DEF IInv
      <4>2. Latest <= d
        BY <1>2, <2>2, <4>1 DEF Checkpointed, Begun
      <4> QED BY <1>1, <1>8, <3>1, <4>1, <4>2 DEF Shown
    <3> QED BY <3>1, <3>2, <3>3
  <2> QED BY <2>1, <2>2
<1>11. Paced'
  <2>1. Paced
    BY DEF IInv
  <2> QED BY <1>1, <1>2, <1>9, <2>1 DEF Paced, Days
<1>12. Remembered'
  <2>1. Mirrors(eng', Saved', run')
    BY <1>1, <1>4, <1>8
  <2> QED BY <1>1, <1>2, <2>1 DEF Remembered, Unsaved, JustSaved, Sound, Early, InTime
<1>13. Settled'
  BY <1>1 DEF Settled
<1> QED BY <1>7, <1>8, <1>10, <1>11, <1>12, <1>13 DEF IInv

LEMMA WriteRunKeeps == IInv /\ WriteRun => IInv'
<1> SUFFICES ASSUME IInv, WriteRun PROVE IInv'
  OBVIOUS
<1>1. /\ pc = "write" /\ Head(todo) = "run" /\ UNCHANGED <<ckpt, report, crashes>>
  BY DEF WriteRun
<1>2. CASE Off /\ UNCHANGED manifest
  <2>1. crashes' \in 0 .. MaxCrashes
    BY <1>1 DEF IInv, TypeOK
  <2> QED BY <1>1, <1>2, <2>1, StopTypes, Stops DEF IInv
<1>3. CASE /\ manifest' = [manifest EXCEPT !.body = <<[day |-> eng.day, status |-> eng.eod]>>]
           /\ pc' = "hash" /\ UNCHANGED <<run, tick, eng, todo>>
  <2>1. /\ eng.day \in Days /\ eng.eod \in Statuses
    BY <1>1, AtWork DEF Engine
  <2>2. manifest' \in File([day : Days, status : Statuses])
    <3> DEFINE Row == [day : Days, status : Statuses]
               row == [day |-> eng.day, status |-> eng.eod]
    <3>1. row \in Row
      BY <2>1
    <3>2. manifest \in File(Row) /\ manifest' = [manifest EXCEPT !.body = <<row>>]
      BY <1>3 DEF IInv, TypeOK
    <3> HIDE DEF Row, row
    <3>3. <<row>> \in Seq(Row)
      BY <3>1
    <3>4. manifest' \in File(Row)
      <4> DEFINE b == <<row>>
      <4>1. b \in Seq(Row) /\ manifest' = [manifest EXCEPT !.body = b]
        BY <3>2, <3>3
      <4> HIDE DEF b
      <4> QED BY <3>2, <4>1 DEF File
    <3> QED BY <3>4 DEF Row
  <2>3. TypeOK'
    BY <1>1, <1>3, <2>2 DEF IInv, TypeOK
  <2>4. Kept' /\ Reported' /\ Saved' = Saved /\ Begun' = Begun
    BY <1>1, SameBodies, SameSaved DEF IInv
  <2>5. Paced'
    BY <1>1, <1>3, <2>4 DEF IInv, Paced
  <2>6. Remembered'
    <3>1. Sound(eng') /\ Mirrors(eng', Saved', run')
      BY <1>1, <1>3, <2>4 DEF IInv, Remembered
    <3> QED BY <1>1, <1>3, <3>1 DEF Remembered, Unsaved, JustSaved, Sound, Early, InTime
  <2>7. Settled'
    BY <1>1, <1>3 DEF Settled
  <2> QED BY <2>3, <2>4, <2>5, <2>6, <2>7 DEF IInv
<1> QED BY <1>2, <1>3 DEF WriteRun

LEMMA HashKeeps == IInv /\ Hash => IInv'
<1> SUFFICES ASSUME IInv, Hash PROVE IInv'
  OBVIOUS
<1>1. /\ pc = "hash" /\ todo' = Tail(todo) /\ UNCHANGED <<run, crashes>>
      /\ ckpt' = IF Head(todo) \in {"ckpt", "close"}
                 THEN [ckpt EXCEPT ![run] = Hashed(@)] ELSE ckpt
      /\ report' = IF Head(todo) = "report"
                   THEN [report EXCEPT ![run] = Hashed(@)] ELSE report
      /\ manifest' = IF Head(todo) = "run" THEN Hashed(manifest) ELSE manifest
      /\ eng' = IF Head(todo) = "report"
                THEN [eng EXCEPT !.final = @ \cup {run}] ELSE eng
      /\ IF todo' # <<>> THEN pc' = "write" /\ UNCHANGED tick
         ELSE pc' = "tick" /\ tick' = IF tick = NBars + 2 THEN tick ELSE tick + 1
  BY AtWork DEF Hash
<1>2. /\ todo \in Agendas /\ eng.day = run /\ run \in Days /\ eng \in Engine
      /\ eng.open # 0 => tick < FlattenTick
      /\ \A d \in Begun : d <= run
      /\ Sound(eng) /\ tick \in 0 .. NBars + 2
  BY <1>1, AtWork DEF IInv, TypeOK
<1>3. /\ eng' \in Engine /\ eng'.day = run /\ eng'.open = eng.open /\ eng'.last = eng.last
      /\ eng'.fills = eng.fills /\ eng'.eod = eng.eod
  BY <1>1, <1>2 DEF Engine
<1>4. Sound(eng')
  BY <1>2, <1>3 DEF Sound, Early, InTime
<1>5. \A d \in Days : ckpt'[d].body = ckpt[d].body /\ report'[d].body = report[d].body
  BY <1>1, <1>2 DEF IInv, TypeOK, File, Hashed
<1>6. /\ ckpt' \in [Days -> File(Engine)] /\ report' \in [Days -> File(Report)]
      /\ manifest' \in File([day : Days, status : Statuses])
  <2>1. ASSUME NEW P, NEW f \in File(P) PROVE Hashed(f) \in File(P)
    BY <2>1 DEF File, Hashed
  <2>2. /\ ckpt \in [Days -> File(Engine)] /\ report \in [Days -> File(Report)]
        /\ manifest \in File([day : Days, status : Statuses])
    BY DEF IInv, TypeOK
  <2>3. Hashed(ckpt[run]) \in File(Engine) /\ Hashed(report[run]) \in File(Report)
    BY <1>2, <2>1, <2>2
  <2>4. Hashed(manifest) \in File([day : Days, status : Statuses])
    BY <2>1, <2>2
  <2> QED BY <1>1, <2>2, <2>3, <2>4
<1>7. /\ todo' \in Agendas \cup {<<>>} /\ todo' \in Seq(Files)
      /\ todo' # <<>> => todo' \in Agendas /\ Head(todo') \in Files /\ Head(todo') # "ckpt"
      /\ Head(todo) \in Files
      /\ todo' \in WithClose => todo \in WithClose /\ Head(todo) = "ckpt"
      /\ todo' \in WithReport \cup {<<"run">>} => todo \in WithReport
      /\ Head(todo) \in {"report", "run"} => todo \in WithReport \cup {<<"run">>}
      /\ Head(todo) = "run" => todo' = <<>>
      /\ todo' # <<>> /\ Head(todo) = "report" => Head(todo') = "run"
      /\ todo' # <<>> /\ Head(todo') = "close" => todo' \in WithClose
  <2>1. Tail(todo) # <<>> => Tail(todo) \in Agendas
    BY <1>2, Agenda
  <2>2. <<>> \in Seq(Files)
    OBVIOUS
  <2> QED BY <1>1, <1>2, <2>1, <2>2, Agenda
<1>8. /\ tick' \in 0 .. NBars + 2
      /\ todo' # <<>> => pc' = "write" /\ tick' = tick
      /\ todo' = <<>> => pc' = "tick"
      /\ todo' = <<>> => tick' >= tick /\ tick' > 0 /\ (tick >= NBars => tick' > NBars)
                         /\ (tick < FlattenTick => tick' <= FlattenTick)
  BY <1>1, <1>2, TrackAssumption
<1>9. TypeOK'
  BY <1>1, <1>2, <1>3, <1>6, <1>7, <1>8 DEF TypeOK, IInv, Files
<1>10. Kept' /\ Reported' /\ Saved' = Saved /\ Begun' = Begun
  BY <1>5, SameBodies, SameSaved DEF IInv
<1>11. todo \in WithReport \cup {<<"run">>} => tick >= NBars
  BY DEF IInv, Paced
<1>12. Paced'
  <2>1. todo' \in WithClose => eng.open = 0 /\ eng.eod = "NONE" /\ eng.last # 0
    BY <1>1, <1>7 DEF IInv, Paced
  <2>2. <<>> \notin WithReport \cup WithClose \cup {<<"run">>}
    BY DEF WithReport, WithClose
  <2> QED BY <1>1, <1>2, <1>3, <1>7, <1>8, <1>10, <1>11, <2>1, <2>2 DEF Paced
<1>13. Remembered'
  <2>1. Mirrors(eng, Saved, run) /\ (Head(todo) = "ckpt" => Same(eng, Saved))
    BY <1>1, <1>7 DEF IInv, Remembered, JustSaved, Mirrors, Same, Files
  <2>2. Mirrors(eng', Saved', run') /\ (Head(todo) = "ckpt" => Same(eng', Saved'))
    BY <1>1, <1>3, <1>10, <2>1 DEF Mirrors, Same
  <2> QED BY <1>4, <1>7, <1>8, <2>2 DEF Remembered, Unsaved, JustSaved, Sound, Early, InTime
<1>14. Settled'
  <2>1. Exists(report[run])' => Head(todo) \in {"report", "run"}
    BY <1>1, <1>2, <1>5 DEF IInv, Settled, Exists
  <2>2. Head(todo) \in {"report", "run"} => eng.open = 0 /\ tick >= NBars
    BY <1>2, <1>7, <1>11, TrackAssumption
  <2> QED BY <1>1, <1>3, <1>7, <1>8, <2>1, <2>2 DEF Settled
<1> QED BY <1>9, <1>10, <1>12, <1>13, <1>14 DEF IInv
-----------------------------------------------------------------------------
(* The invariant, and what it says.                                         *)
LEMMA InitKeeps == Init => IInv
<1> SUFFICES ASSUME Init PROVE IInv
  OBVIOUS
<1>1. NewEngine \in Engine /\ Sound(NewEngine)
  BY Brandnew
<1>2. NoFile.body = <<>> /\ \A P : NoFile \in File(P)
  BY DEF NoFile, File
<1>3. TypeOK
  BY <1>1, <1>2, TrackAssumption DEF Init, TypeOK
<1>4. Checkpointed = {} /\ \A d \in Days : ~Exists(ckpt[d]) /\ ~Exists(report[d])
  BY <1>2 DEF Init, Checkpointed, Exists
<1>5. Kept /\ Reported
  BY <1>4 DEF Kept, Reported
<1>6. <<>> \notin WithReport \cup WithClose \cup {<<"run">>}
  BY DEF WithReport, WithClose
<1>7. Paced
  BY <1>6 DEF Init, Paced
<1>8. Remembered /\ Settled
  BY <1>1 DEF Init, Remembered, Settled, Unsaved, JustSaved
<1> QED BY <1>3, <1>5, <1>7, <1>8 DEF IInv

LEMMA StepKeeps == IInv /\ [Next]_vars => IInv'
<1> SUFFICES ASSUME IInv, [Next]_vars PROVE IInv'
  OBVIOUS
<1>1. CASE UNCHANGED vars
  <2>1. UNCHANGED <<pc, run, tick, eng, todo, ckpt, report, manifest, crashes>>
    BY <1>1 DEF vars
  <2>2. Kept' /\ Reported' /\ Saved' = Saved /\ Begun' = Begun
    BY <2>1, SameBodies, SameSaved DEF IInv
  <2>3. TypeOK'
    BY <2>1 DEF IInv, TypeOK
  <2>4. Paced' /\ Settled'
    BY <2>1, <2>2 DEF IInv, Paced, Settled, Exists
  <2>5. Remembered'
    BY <2>1, <2>2 DEF IInv, Remembered, Unsaved, JustSaved, Sound, Early, InTime,
                      Mirrors, Ahead, Consumed, Exited, Traded, EodAt, Same
  <2> QED BY <2>2, <2>3, <2>4, <2>5 DEF IInv
<1>2. CASE \E d \in Days : Start(d)
  BY <1>2, StartKeeps
<1>3. CASE Step
  BY <1>3, RefuseRollKeeps, SkipKeeps, ProcessKeeps, IdleKeeps, IdleFlattenKeeps,
     EndSessionKeeps, WriteCheckpointKeeps, WriteReportKeeps, WriteRunKeeps, HashKeeps
  DEF Step
<1>4. CASE Crash
  BY <1>4, CrashKeeps
<1> QED BY <1>1, <1>2, <1>3, <1>4 DEF Next

THEOREM Invariance == Spec => []IInv
<1> QED BY InitKeeps, StepKeeps, PTL DEF Spec

\* Process, engine and files keep their types through every death and restart.
THEOREM Typing == Spec => []TypeOK
<1>1. IInv => TypeOK
  BY DEF IInv
<1> QED BY <1>1, Invariance, PTL

\* A day with a report was left flat, whatever bars came late or never.
THEOREM Flatness == Spec => []ReportedFlat
<1>1. IInv => ReportedFlat
  BY DEF IInv, Reported, ReportedFlat
<1> QED BY <1>1, Invariance, PTL

\* A report shows the trades of the account as its day left it on the disk.
THEOREM Reporting == Spec => []ReportMatchesLedger
<1>1. IInv => ReportMatchesLedger
  <2> SUFFICES ASSUME IInv, NEW d \in Days, Exists(report[d]),
                      NEW upto, upto = {c \in Checkpointed : c <= d}
               PROVE  report[d].body[1].fills =
                        IF upto = {} THEN <<>>
                        ELSE ckpt[CHOOSE c \in upto : \A b \in upto : b <= c].body[1].fills
    BY DEF ReportMatchesLedger
  <2>1. Shown(d)
    BY DEF IInv, Reported
  <2>2. Checkpointed \in SUBSET Days
    BY DEF Checkpointed
  <2>3. CASE (\A c \in Checkpointed : c > d) /\ report[d].body[1].fills = <<>>
    <3>1. upto = {}
      <4>1. ASSUME NEW c \in Checkpointed PROVE ~(c <= d)
        <5>1. c \in Nat /\ d \in Nat /\ c > d
          BY <2>2, <2>3, TrackAssumption DEF Days
        <5> QED BY <5>1
      <4> QED BY <4>1
    <3> QED BY <2>3, <3>1
  <2>4. CASE \E m \in Checkpointed :
               /\ m <= d /\ \A c \in Checkpointed : c <= d => c <= m
               /\ report[d].body[1].fills = ckpt[m].body[1].fills
    <3> PICK m \in Checkpointed :
               /\ m <= d /\ \A c \in Checkpointed : c <= d => c <= m
               /\ report[d].body[1].fills = ckpt[m].body[1].fills
      BY <2>4
    <3>1. m \in upto /\ upto \in SUBSET Days /\ \A c \in upto : c <= m
      BY <2>2
    <3>2. (CHOOSE c \in upto : \A b \in upto : b <= c) = m
      BY <3>1, Newest
    <3> QED BY <3>1, <3>2
  <2> QED BY <2>1, <2>3, <2>4 DEF Shown
<1> QED BY <1>1, Invariance, PTL

\* No restart and no backlog of late bars enters in the flatten window, or
\* trades on a bar of another day or of the future.
THEOREM Timing == Spec => []EntriesBeforeFlatten
<1>1. IInv => EntriesBeforeFlatten
  BY Restored DEF IInv, EntriesBeforeFlatten, Sound, InTime
<1> QED BY <1>1, Invariance, PTL
-----------------------------------------------------------------------------
(* The account on the disk, as the ledger of one run sees it.               *)
Mark(f) == [side |-> f.side, bar |-> f.bar]
Marks(fills) == [i \in DOMAIN fills |-> Mark(fills[i])]

LEMMA Marking ==
  ASSUME NEW s \in Seq(Fill), NEW f \in Fill
  PROVE  Marks(Append(s, f)) = Append(Marks(s), Mark(f))
<1> DEFINE M == [side : Sides, bar : Bars]
<1>1. \A x \in Fill : Mark(x) \in M
  BY DEF Mark, Fill
<1>2. ASSUME NEW t \in Seq(Fill)
      PROVE  Marks(t) \in Seq(M) /\ Len(Marks(t)) = Len(t)
             /\ \A i \in 1 .. Len(t) : Marks(t)[i] = Mark(t[i])
  <2>1. \A i \in 1 .. Len(t) : t[i] \in Fill
    OBVIOUS
  <2>2. Marks(t) = [i \in 1 .. Len(t) |-> Mark(t[i])] /\ Len(t) \in Nat
    BY DEF Marks
  <2> HIDE DEF M
  <2> QED BY <1>1, <2>1, <2>2, IsASeq
<1> DEFINE a == Append(s, f)
<1>3. /\ a \in Seq(Fill) /\ Len(a) = Len(s) + 1 /\ a[Len(s) + 1] = f
      /\ \A i \in 1 .. Len(s) : a[i] = s[i]
  OBVIOUS
<1> DEFINE x == Marks(a)
           y == Append(Marks(s), Mark(f))
<1> HIDE DEF M, a
<1>4. x \in Seq(M) /\ Len(x) = Len(s) + 1 /\ Len(s) \in Nat
      /\ \A i \in 1 .. Len(s) + 1 : x[i] = Mark(a[i])
  BY <1>2, <1>3
<1>5. y \in Seq(M) /\ Len(y) = Len(s) + 1 /\ y[Len(s) + 1] = Mark(f)
      /\ \A i \in 1 .. Len(s) : y[i] = Mark(s[i])
  BY <1>1, <1>2
<1> HIDE DEF x, y
<1>6. \A i \in 1 .. Len(s) + 1 : x[i] = y[i]
  BY <1>3, <1>4, <1>5
<1>7. x = y
  BY <1>4, <1>5, <1>6, SeqEqual
<1> QED BY <1>7 DEF x, y, a

(* A move of the engine is a move of the ledger.                            *)
View(e) == [day |-> e.day, last |-> e.last, open |-> e.open # 0,
            fills |-> Marks(e.fills), eod |-> e.eod]

LEMMA Viewing == Account = View(Saved)
  BY DEF Account, View, Marks, Mark

LEMMA TradeMarks ==
  ASSUME NEW e \in Engine, NEW s \in Engine, NEW how \in Sides, NEW b \in Bars,
         Traded(e, s, how, b)
  PROVE  Marks(e.fills) = Append(Marks(s.fills), [side |-> how, bar |-> b])
<1> PICK t \in Instants : e.fills = Append(s.fills, [side |-> how, bar |-> b, at |-> t])
  BY DEF Traded
<1> DEFINE f == [side |-> how, bar |-> b, at |-> t]
<1>1. s.fills \in Seq(Fill) /\ f \in Fill /\ Mark(f) = [side |-> how, bar |-> b]
  BY DEF Engine, Fill, Mark
<1> HIDE DEF f
<1>2. e.fills = Append(s.fills, f)
  BY DEF f
<1> QED BY <1>1, <1>2, Marking

Row == [day : Nat, last : Nat, open : BOOLEAN,
        fills : Seq([side : Sides, bar : Bars]), eod : Statuses]

LEMMA SameRow ==
  ASSUME NEW r \in Row, NEW s \in Row, r.day = s.day, r.last = s.last,
         r.open <=> s.open, r.fills = s.fills, r.eod = s.eod
  PROVE  r = s
  BY DEF Row

LEMMA ViewRow ==
  ASSUME NEW e \in Engine
  PROVE  /\ View(e) \in Row
         /\ View(e).day = e.day /\ View(e).last = e.last /\ (View(e).open <=> e.open # 0)
         /\ View(e).fills = Marks(e.fills) /\ View(e).eod = e.eod
<1>1. \A i \in 1 .. Len(e.fills) : Mark(e.fills[i]) \in [side : Sides, bar : Bars]
  <2>1. e.fills \in Seq(Fill)
    BY DEF Engine
  <2>2. \A i \in 1 .. Len(e.fills) : e.fills[i] \in Fill
    BY <2>1
  <2>3. \A f \in Fill : Mark(f) \in [side : Sides, bar : Bars]
    BY DEF Fill, Mark
  <2> QED BY <2>2, <2>3
<1>2. Marks(e.fills) \in Seq([side : Sides, bar : Bars])
  <2>1. Marks(e.fills) = [i \in 1 .. Len(e.fills) |-> Mark(e.fills[i])] /\ Len(e.fills) \in Nat
    BY DEF Marks, Engine
  <2> QED BY <1>1, <2>1, IsASeq
<1>3. e.day \in Nat /\ e.last \in Nat /\ e.eod \in Statuses
  BY Positive, TrackAssumption DEF Engine, Instants
<1> QED BY <1>2, <1>3 DEF View, Row

Trades(m, l, how, b) ==
    /\ m \in Row /\ m.day = l.day /\ m.last = l.last /\ m.eod = l.eod
    /\ m.open <=> how = "BUY"
    /\ m.fills = Append(l.fills, [side |-> how, bar |-> b])

LEMMA RowMoves ==
  ASSUME NEW l \in Row, NEW b \in Bars
  PROVE  Trades(Ledger!Bought(l, b), l, "BUY", b) /\ Trades(Ledger!Sold(l, b), l, "SELL", b)
<1>1. ASSUME NEW how \in Sides
      PROVE  Append(l.fills, [side |-> how, bar |-> b]) \in Seq([side : Sides, bar : Bars])
  BY DEF Row
<1>2. ASSUME NEW o \in BOOLEAN, NEW f \in Seq([side : Sides, bar : Bars])
      PROVE  LET m == [l EXCEPT !.open = o, !.fills = f] IN
             /\ m \in Row /\ m.day = l.day /\ m.last = l.last /\ m.eod = l.eod
             /\ (m.open <=> o) /\ m.fills = f
  BY DEF Row
<1>3. "BUY" \in Sides /\ "SELL" \in Sides
  BY DEF Sides
<1> QED BY <1>1, <1>2, <1>3 DEF Ledger!Bought, Ledger!Sold, Trades

LEMMA RowEod ==
  ASSUME NEW l \in Row, NEW x \in Statuses, NEW m, m = [l EXCEPT !.eod = x]
  PROVE  /\ m \in Row /\ m.day = l.day /\ m.last = l.last /\ (m.open <=> l.open)
         /\ m.fills = l.fills /\ m.eod = x
  BY DEF Row

LEMMA RowReached ==
  ASSUME Account \in Row, NEW b \in Bars, NEW l, l = Ledger!Reached(b)
  PROVE  /\ l \in Row /\ l.day = DayOf(b) /\ l.last = b /\ (l.open <=> Account.open)
         /\ l.fills = Account.fills
         /\ l.eod = IF DayOf(b) = Account.day THEN Account.eod ELSE "NONE"
<1> DEFINE x == IF DayOf(b) = Account.day THEN Account.eod ELSE "NONE"
           d == DayOf(b)
<1>1. d \in Nat /\ b \in Nat /\ x \in Statuses
  <2>1. Span \in Nat \ {0} /\ b \in Nat
    BY Positive, TrackAssumption DEF Span, Instants
  <2> QED BY <2>1 DEF Row, Statuses, DayOf
<1>2. l = [Account EXCEPT !.last = b, !.day = d, !.eod = x]
  BY DEF Ledger!Reached
<1> HIDE DEF x, d
<1>3. /\ l \in Row /\ l.day = d /\ l.last = b /\ (l.open <=> Account.open)
      /\ l.fills = Account.fills /\ l.eod = x
  BY <1>1, <1>2 DEF Row
<1> QED BY <1>3 DEF x, d

LEMMA ConsumeStep ==
  ASSUME NEW e \in Engine, Saved \in Engine, NEW b \in Bars, Consumed(e, Saved, b),
         Account' = View(e)
  PROVE  Ledger!LedgerNext
<1> DEFINE s == Saved
           l == Ledger!Reached(b)
           a == View(e)
<1>1. /\ Account \in Row /\ Account.last = s.last /\ Account.day = s.day
      /\ (Account.open <=> s.open # 0) /\ Account.fills = Marks(s.fills) /\ Account.eod = s.eod
  BY Viewing, ViewRow
<1>2. /\ l \in Row /\ l.day = DayOf(b) /\ l.last = b /\ (l.open <=> s.open # 0)
      /\ l.fills = Marks(s.fills) /\ l.eod = EodAt(s, b)
  BY <1>1, RowReached DEF EodAt
<1>3. /\ a \in Row /\ a.day = DayOf(b) /\ a.last = b /\ (a.open <=> e.open # 0)
      /\ a.fills = Marks(e.fills) /\ a.eod = e.eod
  BY ViewRow DEF Consumed
<1>5. b > Account.last /\ (Account.open => DayOf(b) = Account.day)
  BY <1>1 DEF Consumed
<1> HIDE DEF l, a
<1>6. CASE e.open = s.open /\ e.fills = s.fills /\ e.eod = EodAt(s, b)
  <2>1. a = l
    BY <1>2, <1>3, <1>6, SameRow
  <2> QED BY <1>5, <2>1 DEF Ledger!LedgerNext, Ledger!Consume, l, a
<1>7. CASE s.open = 0 /\ e.open # 0 /\ Traded(e, s, "BUY", b) /\ e.eod = EodAt(s, b)
  <2>1. Marks(e.fills) = Append(Marks(s.fills), [side |-> "BUY", bar |-> b])
    BY <1>7, TradeMarks DEF Sides
  <2> DEFINE m == Ledger!Bought(l, b)
  <2>2. Trades(m, l, "BUY", b)
    BY <1>2, RowMoves
  <2> HIDE DEF m
  <2>3. /\ m \in Row /\ a.day = m.day /\ a.last = m.last /\ (a.open <=> m.open)
        /\ a.fills = m.fills /\ a.eod = m.eod
    BY <1>2, <1>3, <1>7, <2>1, <2>2 DEF Trades
  <2>4. a = m
    BY <1>3, <2>3, SameRow
  <2> QED BY <1>1, <1>5, <1>7, <2>4 DEF Ledger!LedgerNext, Ledger!Consume, l, a, m
<1>8. CASE /\ s.open # 0 /\ e.open = 0 /\ Traded(e, s, "SELL", b)
           /\ e.eod \in {EodAt(s, b), "FLATTENED"}
  <2>1. Marks(e.fills) = Append(Marks(s.fills), [side |-> "SELL", bar |-> b])
    BY <1>8, TradeMarks DEF Sides
  <2> DEFINE n == Ledger!Sold(l, b)
             m == [n EXCEPT !.eod = e.eod]
  <2>2. Trades(n, l, "SELL", b)
    BY <1>2, RowMoves
  <2>3. e.eod \in Statuses
    BY DEF Engine
  <2>4. /\ m \in Row /\ m.day = n.day /\ m.last = n.last /\ (m.open <=> n.open)
        /\ m.fills = n.fills /\ m.eod = e.eod
    BY <2>2, <2>3, RowEod DEF Trades
  <2> HIDE DEF n, m
  <2>5. a = m
    <3>1. /\ a.day = m.day /\ a.last = m.last /\ (a.open <=> m.open)
          /\ a.fills = m.fills /\ a.eod = m.eod
      BY <1>2, <1>3, <1>8, <2>1, <2>2, <2>4 DEF Trades
    <3> QED BY <1>3, <2>4, <3>1, SameRow
  <2>6. e.eod \in {l.eod, "FLATTENED"}
    BY <1>2, <1>8
  <2> QED BY <1>1, <1>5, <1>8, <2>5, <2>6 DEF Ledger!LedgerNext, Ledger!Consume, l, a, m, n
<1> QED BY <1>6, <1>7, <1>8 DEF Consumed

LEMMA ExitStep ==
  ASSUME NEW e \in Engine, Saved \in Engine, Sound(Saved), Exited(e, Saved),
         Account' = View(e)
  PROVE  Ledger!LedgerNext
<1> DEFINE s == Saved
           a == View(e)
           n == Ledger!Sold(Account, Account.last)
           m == [n EXCEPT !.eod = "FLATTENED"]
<1>1. /\ Account \in Row /\ Account.last = s.last /\ Account.day = s.day
      /\ (Account.open <=> s.open # 0) /\ Account.fills = Marks(s.fills)
  BY Viewing, ViewRow
<1>2. s.open # 0 /\ s.last \in Bars
  BY DEF Exited, Sound, Early
<1>3. /\ a \in Row /\ a.day = s.day /\ a.last = s.last /\ ~a.open
      /\ a.fills = Marks(e.fills) /\ a.eod = "FLATTENED"
  BY ViewRow DEF Exited
<1>4. Marks(e.fills) = Append(Marks(s.fills), [side |-> "SELL", bar |-> s.last])
  BY <1>2, TradeMarks DEF Sides, Exited
<1>5. /\ n \in Row /\ n.day = s.day /\ n.last = s.last /\ ~n.open
      /\ n.fills = Append(Marks(s.fills), [side |-> "SELL", bar |-> s.last])
  <2>1. Account \in Row /\ Account.last \in Bars
    BY <1>1, <1>2
  <2>2. Trades(n, Account, "SELL", Account.last)
    BY <2>1, RowMoves
  <2> HIDE DEF n
  <2> QED BY <1>1, <2>2 DEF Trades
<1>6. "FLATTENED" \in Statuses
  BY DEF Statuses
<1>7. /\ m \in Row /\ m.day = n.day /\ m.last = n.last /\ (m.open <=> n.open)
      /\ m.fills = n.fills /\ m.eod = "FLATTENED"
  BY <1>5, <1>6, RowEod
<1> HIDE DEF a, n, m
<1>8. a = m
  BY <1>3, <1>4, <1>5, <1>7, SameRow
<1> QED BY <1>1, <1>2, <1>8 DEF Ledger!LedgerNext, Ledger!Flatten, a, n, m

\* The account on the disk advances as one run that is never interrupted would
\* make it advance: no bar twice, no trade lost or repeated.
THEOREM Durability == Spec => Durable
<1>1. Init => Account = Ledger!Opened
  <2> SUFFICES ASSUME Init PROVE Account = Ledger!Opened
    OBVIOUS
  <2>1. Checkpointed = {}
    BY DEF Init, Checkpointed, Exists, NoFile
  <2>2. Saved = NewEngine
    BY <2>1 DEF Saved
  <2>3. Marks(<<>>) = <<>>
    BY DEF Marks
  <2> QED BY <2>2, <2>3, Viewing DEF View, NewEngine, Ledger!Opened
<1>2. ASSUME IInv, IInv', [Next]_vars PROVE [Ledger!LedgerNext]_Account
  <2>1. CASE WriteCheckpoint
    <3>1. /\ pc = "write" /\ pc' = "hash" /\ Head(todo') = Head(todo)
          /\ Head(todo) \in {"ckpt", "close"}
          /\ eng' = IF Head(todo) = "close" THEN [eng EXCEPT !.eod = "FLAT"] ELSE eng
      BY <2>1 DEF WriteCheckpoint
    <3>2. Same(eng', Saved')
      BY <1>2, <3>1 DEF IInv, Remembered, JustSaved
    <3>3. Account' = View(eng')
      <4>1. Account' = View(Saved)'
        BY Viewing DEF Account, View, Marks, Mark
      <4> QED BY <3>2, <4>1 DEF View, Same
    <3>4. Saved \in Engine /\ Sound(Saved) /\ eng \in Engine
      BY <1>2, Restored DEF IInv, TypeOK
    <3>5. CASE Head(todo) = "ckpt"
      <4>1. Ahead(eng, Saved) /\ eng' = eng
        BY <1>2, <3>1, <3>5 DEF IInv, Remembered, Unsaved
      <4> QED BY <3>3, <3>4, <4>1, ConsumeStep, ExitStep DEF Ahead
    <3>6. CASE Head(todo) = "close"
      <4>1. Same(eng, Saved)
        BY <1>2, <3>1, <3>6 DEF IInv, Remembered, JustSaved
      <4>2. eng.open = 0 /\ eng.eod = "NONE" /\ eng.last # 0
        BY <1>2, <3>1, <3>6, AtWork, Agenda DEF IInv, Paced
      <4> DEFINE a == View(eng')
                 m == [Account EXCEPT !.eod = "FLAT"]
      <4>3. /\ Account \in Row /\ Account.day = eng.day /\ Account.last = eng.last
            /\ ~Account.open /\ Account.fills = Marks(eng.fills) /\ Account.eod = "NONE"
        BY <3>4, <4>1, <4>2, Viewing, ViewRow DEF Same
      <4>4. /\ eng' \in Engine /\ eng'.day = eng.day /\ eng'.last = eng.last
            /\ eng'.open = 0 /\ eng'.fills = eng.fills /\ eng'.eod = "FLAT"
        BY <1>2, <3>1, <3>4, <3>6, <4>2 DEF Engine, IInv, TypeOK
      <4>5. /\ a \in Row /\ a.day = eng.day /\ a.last = eng.last /\ ~a.open
            /\ a.fills = Marks(eng.fills) /\ a.eod = "FLAT"
        BY <4>4, ViewRow
      <4>6. /\ m \in Row /\ m.day = Account.day /\ m.last = Account.last
            /\ (m.open <=> Account.open) /\ m.fills = Account.fills /\ m.eod = "FLAT"
        BY <4>3, RowEod DEF Statuses
      <4> HIDE DEF a, m
      <4>7. a = m
        BY <4>3, <4>5, <4>6, SameRow
      <4> QED BY <3>3, <4>2, <4>3, <4>7 DEF Ledger!LedgerNext, Ledger!Close, a, m
    <3> QED BY <3>1, <3>5, <3>6
  <2>2. CASE ~WriteCheckpoint
    <3>1. \A d \in Days : ckpt'[d].body = ckpt[d].body
      <4>1. CASE Hash
        BY <1>2, <4>1, AtWork DEF Hash, IInv, TypeOK, File, Hashed
      <4>2. CASE ~Hash
        <5>1. ckpt' = ckpt
          BY <1>2, <2>2, <4>2 DEF Next, vars, Step, Start, RefuseRoll, Skip, Process, Idle,
             IdleFlatten, EndSession, WriteReport, WriteRun, Crash, disk
        <5> QED BY <5>1
      <4> QED BY <4>1, <4>2
    <3>2. Saved' = Saved
      BY <1>2, <3>1, SameSaved DEF IInv
    <3>3. Account' = Account
      BY <3>2 DEF Account
    <3> QED BY <3>3
  <2> QED BY <2>1, <2>2
<1> QED BY <1>1, <1>2, Invariance, PTL DEF Spec, Durable, Ledger!LedgerSpec
=============================================================================
