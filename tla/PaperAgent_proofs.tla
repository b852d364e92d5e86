------------------------- MODULE PaperAgent_proofs -------------------------
(***************************************************************************)
(* Proofs about the continuous paper agent, for any calendar and any number *)
(* of deaths: the stop always knows the entry candle, the account on disk   *)
(* only goes on, the trade ledger has every round trip of its process and   *)
(* none twice, and jobs keep their interval across restarts.                *)
(***************************************************************************)
EXTENDS PaperAgent, FiniteSetTheorems, TLAPS

(* A history: its fills alternate, are numbered, and fall on distinct bars  *)
(* the session consumed; the entry candle is that of the open position.     *)
Sound(s) ==
    /\ \A n \in 1 .. Len(s.trades) : /\ s.trades[n].bar \in s.bars
                                     /\ s.trades[n].side = Durable!Side(n)
                                     /\ s.trades[n].at[2] = n
    /\ \A n \in 1 .. Len(s.trades) : \A m \in 1 .. n - 1 :
           s.trades[m].bar # s.trades[n].bar
    /\ s # None => s.entry = IF IsLong(s) THEN s.trades[Len(s.trades)].bar ELSE 0

Histories == Sound(session) /\ Sound(sessFile.body) /\ Sound(sessFile.sha)

(* Every round trip there is: in the ledger, in memory, in the snapshot.    *)
Rounds(s) == {RoundTrips(s)[n] : n \in DOMAIN RoundTrips(s)}
Listed == {Trips[n] : n \in DOMAIN Trips}
Made == Listed \cup Rounds(session) \cup Rounds(sessFile.body)

(* The exits of one process tell round trips apart, by time and by bar.     *)
Alike(p, q) ==
    /\ p.exit.at[1] = q.exit.at[1]
    /\ p.exit.at = q.exit.at \/ p.exit.bar = q.exit.bar
Unique == \A p, q \in Made : Alike(p, q) => p = q

(* What this process closed is in the history it has in memory.             *)
Current == \A p \in Made :
               /\ p.exit.at[1] <= crashes
               /\ p.exit.at[1] = crashes => p \in Rounds(session)

(* The ledger has nothing twice, and what it is read as ahead of.           *)
Once == \A m, n \in DOMAIN Trips : m # n => Trips[m] # Trips[n]
UpToDate == \A n \in DOMAIN RoundTrips(session) :
                2 * n <= agent.synced /\ RoundTrips(session)[n].exit.at[1] = crashes
                    => RoundTrips(session)[n] \in Listed

(* The snapshot and the session in memory go on from what is durable.       *)
Ahead ==
    /\ ~lost => /\ Durable!GoesOn(Account(sessFile.sha), Account(sessFile.body))
                /\ session # None =>
                       Durable!GoesOn(Account(sessFile.sha), Account(session))
                /\ session = None => RestoredSession = sessFile.sha
    /\ pc = "session.meta" => sessFile.body = session

(* The agent dates its jobs as its record does, or an interval later.       *)
Dated ==
    /\ pc # "off" /\ Whole(agentFile) /\ agentFile.body.jobs # 0 =>
           \/ agent.jobs = agentFile.body.jobs
           \/ agent.jobs >= agentFile.body.jobs + MinGap
    /\ pc = "record.meta" => agentFile.body.jobs = agent.jobs

(* Nothing is in memory while no process runs.                              *)
Stopped == pc = "off" => session = None /\ eligible = {}

IInv == /\ TypeOK /\ Histories /\ Unique /\ Current /\ Once /\ UpToDate
        /\ Ahead /\ Dated /\ Stopped
-----------------------------------------------------------------------------
(* Sequences over a set.                                                    *)
LEMMA SeqFacts ==
    ASSUME NEW S, NEW q \in Seq(S)
    PROVE  /\ Len(q) \in Nat /\ DOMAIN q = 1 .. Len(q)
           /\ \A n \in DOMAIN q : q[n] \in S
OBVIOUS

LEMMA SeqOf ==
    ASSUME NEW S, NEW n \in Nat, NEW q \in [1 .. n -> S]
    PROVE  q \in Seq(S)
OBVIOUS

(* The placeholder for no session, and a fresh one.                         *)
LEMMA BlankFacts ==
    /\ None \in Sessions /\ NewSession \in Sessions /\ NewSession # None
    /\ None.bars = {} /\ None.trades = <<>> /\ Len(None.trades) = 0
    /\ NewSession.bars = {} /\ NewSession.trades = <<>> /\ NewSession.entry = 0
<1>1. <<>> \in Seq(Fills) /\ Len(<<>>) = 0
  OBVIOUS
<1>2. NewSession.entry # None.entry
  BY AgentAssumption DEF None, NewSession
<1>3. NewSession \in Sessions
  BY <1>1 DEF NewSession, Sessions
<1>4. None \in Sessions
  BY <1>1 DEF None, Sessions
<1> QED
  BY <1>1, <1>2, <1>3, <1>4 DEF None, NewSession

LEMMA BlankSound == Sound(None) /\ Sound(NewSession)
<1>1. Len(<<>>) = 0 /\ 1 .. 0 = {}
  OBVIOUS
<1>2. ~IsLong(NewSession)
  BY <1>1, BlankFacts DEF IsLong
<1> QED
  BY <1>1, <1>2, BlankFacts DEF Sound

(* What the fields of a session are.                                        *)
LEMMA SessionFacts ==
    ASSUME NEW s \in Sessions
    PROVE  /\ s.bars \subseteq Bars /\ s.trades \in Seq(Fills)
           /\ Len(s.trades) \in Nat /\ DOMAIN s.trades = 1 .. Len(s.trades)
           /\ \A n \in 1 .. Len(s.trades) : s.trades[n] \in Fills
<1>1. s.bars \subseteq Bars /\ s.trades \in Seq(Fills)
  BY DEF Sessions
<1> QED
  BY <1>1

(* Half the fills of a history, rounded down, are exits.                    *)
LEMMA Halves ==
    ASSUME NEW L \in Nat, NEW n \in 1 .. L \div 2
    PROVE  /\ n \in Nat \ {0} /\ 2 * n <= L /\ 2 * n - 1 \in 1 .. L
           /\ 2 * n \in 1 .. L /\ n \in 1 .. (L + 1) \div 2
OBVIOUS

LEMMA LastHalf ==
    ASSUME NEW L \in Nat, NEW n \in 1 .. (L + 1) \div 2, n \notin 1 .. L \div 2
    PROVE  2 * n = L + 1
OBVIOUS

LEMMA Parity == ASSUME NEW L \in Nat PROVE (L % 2 = 1) <=> ((L + 1) % 2 # 1)
OBVIOUS

(* The round trips of a history, by number.                                 *)
Half(s) == Len(s.trades) \div 2

LEMMA HalfFacts ==
    ASSUME NEW s \in Sessions
    PROVE  \A n \in 1 .. Half(s) :
               /\ n \in Nat \ {0} /\ 2 * n <= Len(s.trades)
               /\ 2 * n - 1 \in 1 .. Len(s.trades) /\ 2 * n \in 1 .. Len(s.trades)
BY SessionFacts, Halves DEF Half

LEMMA RoundFacts ==
    ASSUME NEW s \in Sessions
    PROVE  /\ DOMAIN RoundTrips(s) = 1 .. Half(s)
           /\ \A n \in 1 .. Half(s) :
                  /\ RoundTrips(s)[n].entry = s.trades[2 * n - 1]
                  /\ RoundTrips(s)[n].exit = s.trades[2 * n]
                  /\ RoundTrips(s)[n] \in [entry : Fills, exit : Fills]
           /\ Rounds(s) = {RoundTrips(s)[n] : n \in 1 .. Half(s)}
<1>1. RoundTrips(s) = [n \in 1 .. Half(s) |->
                          [entry |-> s.trades[2 * n - 1], exit |-> s.trades[2 * n]]]
  BY DEF RoundTrips, Half
<1>2. DOMAIN RoundTrips(s) = 1 .. Half(s)
  BY <1>1
<1>3. ASSUME NEW n \in 1 .. Half(s)
      PROVE  /\ RoundTrips(s)[n].entry = s.trades[2 * n - 1]
             /\ RoundTrips(s)[n].exit = s.trades[2 * n]
             /\ RoundTrips(s)[n] \in [entry : Fills, exit : Fills]
  <2>1. s.trades[2 * n - 1] \in Fills /\ s.trades[2 * n] \in Fills
    BY HalfFacts, SessionFacts
  <2>2. RoundTrips(s)[n] = [entry |-> s.trades[2 * n - 1], exit |-> s.trades[2 * n]]
    BY <1>1
  <2> QED
    BY <2>1, <2>2
<1> QED
  BY <1>2, <1>3 DEF Rounds

(* A bar that is decided is consumed, and leaves the fills as they are or   *)
(* adds one on the bar, stamped by this process.                            *)
LEMMA ProcessedFacts ==
    ASSUME TypeOK, NEW s \in Sessions, Sound(s), s # None,
           NEW b \in Bars \ s.bars, NEW x \in Processed(s, b)
    PROVE  /\ x \in Sessions /\ x # None /\ x.bars = s.bars \cup {b}
           /\ \/ x.trades = s.trades /\ x.entry = s.entry
              \/ /\ x.trades = Append(s.trades, Trade(s, b))
                 /\ x.entry = (IF IsLong(s) THEN 0 ELSE b)
           /\ Trade(s, b) \in Fills
<1> DEFINE d == Decided(s, b)
<1>1. /\ d \in Sessions /\ d.bars = s.bars \cup {b}
      /\ d.trades = s.trades /\ d.entry = s.entry
  BY DEF Decided, Sessions
<1>2. Trade(s, b) \in Fills /\ Trade(d, b) = Trade(s, b)
  <2>1. crashes \in Nat /\ Len(s.trades) + 1 \in Nat
    BY AgentAssumption, SessionFacts DEF TypeOK
  <2>2. Stamp(s) \in Nat \X Nat /\ Stamp(d) = Stamp(s)
    BY <1>1, <2>1 DEF Stamp
  <2> QED
    BY <1>1, <2>2 DEF Trade, Fills, IsLong
<1>3. IsLong(d) <=> IsLong(s)
  BY <1>1 DEF IsLong
<1> HIDE DEF d
<1>4. CASE x = d
  <2>1. x # None
    BY <1>1, <1>4, BlankFacts
  <2> QED
    BY <1>1, <1>2, <1>4, <2>1
<1>5. CASE x = Traded(d, b)
  <2> DEFINE q == [d EXCEPT !.trades = Append(d.trades, Trade(d, b))]
             e == IF IsLong(d) THEN 0 ELSE b
  <2>1. Append(d.trades, Trade(d, b)) \in Seq(Fills)
    BY <1>1, <1>2, SessionFacts
  <2>2. /\ q \in Sessions /\ q.bars = d.bars
        /\ q.trades = Append(d.trades, Trade(d, b))
    BY <1>1, <2>1 DEF Sessions
  <2>3. x = [q EXCEPT !.entry = e]
    BY <1>5 DEF Traded
  <2>4. e \in Bars \cup {0, MaxNow + 1} /\ e = (IF IsLong(s) THEN 0 ELSE b)
    BY <1>3
  <2> HIDE DEF q, e
  <2>5. /\ x \in Sessions /\ x.bars = q.bars /\ x.trades = q.trades /\ x.entry = e
    BY <2>2, <2>3, <2>4 DEF Sessions
  <2>6. x # None
    BY <1>1, <2>2, <2>5, BlankFacts
  <2> QED
    BY <1>1, <1>2, <2>2, <2>4, <2>5, <2>6
<1> QED
  BY <1>4, <1>5 DEF Processed, d

(* The history stays sound.                                                 *)
LEMMA ProcessedSound ==
    ASSUME TypeOK, NEW s \in Sessions, Sound(s), s # None,
           NEW b \in Bars \ s.bars, NEW x \in Processed(s, b)
    PROVE  Sound(x)
<1> DEFINE L == Len(s.trades)
<1>0. L \in Nat /\ s.trades \in Seq(Fills)
  BY SessionFacts
<1>1. /\ x \in Sessions /\ x # None /\ x.bars = s.bars \cup {b}
      /\ Trade(s, b) \in Fills
  BY ProcessedFacts
<1>2. CASE x.trades = s.trades /\ x.entry = s.entry
  BY <1>1, <1>2 DEF Sound, IsLong
<1>3. CASE /\ x.trades = Append(s.trades, Trade(s, b))
           /\ x.entry = (IF IsLong(s) THEN 0 ELSE b)
  <2>1. /\ Len(x.trades) = L + 1
        /\ \A n \in 1 .. L : x.trades[n] = s.trades[n]
        /\ x.trades[L + 1] = Trade(s, b)
    BY <1>0, <1>1, <1>3
  <2>2. /\ Trade(s, b).bar = b /\ Trade(s, b).at[2] = L + 1
        /\ Trade(s, b).side = Durable!Side(L + 1)
    <3>1. IsLong(s) <=> (L + 1) % 2 # 1
      BY <1>0, Parity DEF IsLong
    <3> QED
      BY <3>1 DEF Trade, Stamp, Durable!Side
  <2>3. IsLong(x) <=> ~IsLong(s)
    BY <1>0, <2>1, Parity DEF IsLong
  <2> HIDE DEF L
  <2>4. \A n \in 1 .. L + 1 : /\ x.trades[n].bar \in x.bars
                              /\ x.trades[n].side = Durable!Side(n)
                              /\ x.trades[n].at[2] = n
    <3> SUFFICES ASSUME NEW n \in 1 .. L + 1
                 PROVE  /\ x.trades[n].bar \in x.bars
                        /\ x.trades[n].side = Durable!Side(n)
                        /\ x.trades[n].at[2] = n
      OBVIOUS
    <3>1. CASE n = L + 1
      BY <1>1, <2>1, <2>2, <3>1
    <3>2. CASE n \in 1 .. L
      BY <1>1, <2>1, <3>2 DEF Sound, L
    <3> QED
      BY <1>0, <3>1, <3>2
  <2>5. \A n \in 1 .. L + 1 : \A m \in 1 .. n - 1 : x.trades[m].bar # x.trades[n].bar
    <3> SUFFICES ASSUME NEW n \in 1 .. L + 1, NEW m \in 1 .. n - 1
                 PROVE  x.trades[m].bar # x.trades[n].bar
      OBVIOUS
    <3>1. CASE n = L + 1
      <4>1. m \in 1 .. L
        BY <1>0, <3>1
      <4>2. x.trades[m].bar \in s.bars
        BY <2>1, <4>1 DEF Sound, L
      <4> QED
        BY <2>1, <2>2, <3>1, <4>2
    <3>2. CASE n \in 1 .. L
      <4>1. m \in 1 .. L
        BY <1>0, <3>2
      <4> QED
        BY <2>1, <3>2, <4>1 DEF Sound, L
    <3> QED
      BY <1>0, <3>1, <3>2
  <2>6. x.entry = IF IsLong(x) THEN x.trades[L + 1].bar ELSE 0
    BY <1>3, <2>1, <2>2, <2>3
  <2> QED
    BY <2>1, <2>4, <2>5, <2>6 DEF Sound
<1> QED
  BY <1>2, <1>3, ProcessedFacts

(* Every round trip of the new history is one of the old, or it is closed   *)
(* by the new fill.                                                         *)
LEMMA ProcessedRounds ==
    ASSUME TypeOK, NEW s \in Sessions, Sound(s), s # None,
           NEW b \in Bars \ s.bars, NEW x \in Processed(s, b)
    PROVE  /\ Len(s.trades) <= Len(x.trades)
           /\ \A n \in 1 .. Half(s) : /\ n \in 1 .. Half(x)
                                      /\ RoundTrips(x)[n] = RoundTrips(s)[n]
           /\ \A n \in 1 .. Half(x) : n \notin 1 .. Half(s) =>
                  /\ 2 * n = Len(s.trades) + 1
                  /\ RoundTrips(x)[n].exit.bar = b
                  /\ RoundTrips(x)[n].exit.at = <<crashes, 2 * n>>
<1> DEFINE L == Len(s.trades)
<1>0. L \in Nat /\ s.trades \in Seq(Fills) /\ x \in Sessions
  BY SessionFacts, ProcessedFacts
<1>1. CASE x.trades = s.trades
  <2>1. Half(x) = Half(s) /\ RoundTrips(x) = RoundTrips(s)
    BY <1>1 DEF Half, RoundTrips
  <2> QED
    BY <1>0, <1>1, <2>1
<1>2. CASE x.trades = Append(s.trades, Trade(s, b))
  <2>1. /\ Len(x.trades) = L + 1
        /\ \A n \in 1 .. L : x.trades[n] = s.trades[n]
        /\ x.trades[L + 1] = Trade(s, b)
    BY <1>0, <1>2, ProcessedFacts
  <2>2. ASSUME NEW n \in 1 .. Half(s)
        PROVE  n \in 1 .. Half(x) /\ RoundTrips(x)[n] = RoundTrips(s)[n]
    <3>1. n \in 1 .. Half(x) /\ 2 * n - 1 \in 1 .. L /\ 2 * n \in 1 .. L
      BY <1>0, <2>1, Halves DEF Half
    <3>2. RoundTrips(x)[n] = [entry |-> x.trades[2 * n - 1], exit |-> x.trades[2 * n]]
      BY <3>1 DEF RoundTrips, Half
    <3>3. RoundTrips(s)[n] = [entry |-> s.trades[2 * n - 1], exit |-> s.trades[2 * n]]
      BY DEF RoundTrips, Half
    <3> QED
      BY <2>1, <3>1, <3>2, <3>3
  <2>3. ASSUME NEW n \in 1 .. Half(x), n \notin 1 .. Half(s)
        PROVE  /\ 2 * n = L + 1
               /\ RoundTrips(x)[n].exit.bar = b
               /\ RoundTrips(x)[n].exit.at = <<crashes, 2 * n>>
    <3>1. 2 * n = L + 1
      BY <1>0, <2>1, <2>3, LastHalf DEF Half
    <3>2. RoundTrips(x)[n].exit = Trade(s, b)
      BY <1>0, <2>1, <3>1, RoundFacts
    <3> QED
      BY <3>1, <3>2 DEF Trade, Stamp
  <2> HIDE DEF L
  <2>4. Len(s.trades) <= Len(x.trades)
    BY <1>0, <2>1 DEF L
  <2> QED
    BY <2>2, <2>3, <2>4 DEF L
<1> QED
  BY <1>1, <1>2, ProcessedFacts
-----------------------------------------------------------------------------
(* An account goes on from itself, and a sound history from an empty one.   *)
LEMMA GoesOnFacts ==
    ASSUME NEW s \in Sessions
    PROVE  /\ Durable!GoesOn(Account(s), Account(s))
           /\ Sound(s) => Durable!GoesOn(Durable!Empty, Account(s))
           /\ Account(s).bars = s.bars /\ Account(s).trades = s.trades
<1>1. Account(s).bars = s.bars /\ Account(s).trades = s.trades
  BY DEF Account
<1>2. s.bars \subseteq Bars /\ Len(s.trades) \in Nat
  BY SessionFacts
<1>3. Durable!Empty.bars = {} /\ Durable!Empty.trades = <<>> /\ Len(<<>>) = 0
  BY DEF Durable!Empty
<1>4. Durable!GoesOn(Account(s), Account(s))
  BY <1>1, <1>2 DEF Durable!GoesOn
<1>5. ASSUME Sound(s) PROVE Durable!GoesOn(Durable!Empty, Account(s))
  BY <1>1, <1>2, <1>3, <1>5 DEF Durable!GoesOn, Sound
<1> QED
  BY <1>1, <1>4, <1>5

(* A blank session has no round trip, and it is an empty account.           *)
LEMMA BlankRounds ==
    /\ Half(None) = 0 /\ Half(NewSession) = 0
    /\ Rounds(None) = {} /\ Rounds(NewSession) = {}
    /\ Account(NewSession) = Account(None)
<1>1. Len(<<>>) = 0 /\ 0 \div 2 = 0 /\ 1 .. 0 = {}
  OBVIOUS
<1>2. Half(None) = 0 /\ Half(NewSession) = 0
  BY <1>1, BlankFacts DEF Half
<1>3. Rounds(None) = {} /\ Rounds(NewSession) = {}
  BY <1>1, <1>2, BlankFacts, RoundFacts
<1> QED
  BY <1>2, <1>3, BlankFacts DEF Account

(* A bar decided after a durable account goes on from it.                   *)
LEMMA ProcessedGoesOn ==
    ASSUME TypeOK, NEW s \in Sessions, Sound(s), s # None,
           NEW b \in Bars \ s.bars, NEW x \in Processed(s, b),
           NEW z \in Sessions, Durable!GoesOn(Account(z), Account(s))
    PROVE  Durable!GoesOn(Account(z), Account(x))
<1>1. x \in Sessions /\ x.bars = s.bars \cup {b} /\ Sound(x)
  BY ProcessedFacts, ProcessedSound
<1>2. /\ Len(z.trades) \in Nat /\ Len(s.trades) \in Nat /\ Len(x.trades) \in Nat
      /\ x.bars \subseteq Bars
  BY <1>1, SessionFacts
<1>3. /\ z.bars \subseteq s.bars /\ Len(z.trades) <= Len(s.trades)
      /\ \A n \in 1 .. Len(z.trades) : s.trades[n] = z.trades[n]
      /\ \A n \in Len(z.trades) + 1 .. Len(s.trades) :
             s.trades[n].bar \in s.bars \ z.bars
  BY GoesOnFacts DEF Durable!GoesOn
<1>4. /\ Len(s.trades) <= Len(x.trades)
      /\ \A n \in 1 .. Len(s.trades) : x.trades[n] = s.trades[n]
      /\ \A n \in Len(s.trades) + 1 .. Len(x.trades) : x.trades[n].bar = b
  <2>1. CASE x.trades = s.trades
    BY <1>2, <2>1
  <2>2. CASE x.trades = Append(s.trades, Trade(s, b))
    <3>1. s.trades \in Seq(Fills) /\ Trade(s, b) \in Fills /\ Trade(s, b).bar = b
      BY SessionFacts, ProcessedFacts DEF Trade
    <3> QED
      BY <1>2, <2>2, <3>1
  <2> QED
    BY <2>1, <2>2, ProcessedFacts
<1>5. \A n \in Len(z.trades) + 1 .. Len(x.trades) :
          /\ x.trades[n].bar \in x.bars \ z.bars
          /\ x.trades[n].side = Durable!Side(n)
          /\ \A m \in 1 .. n - 1 : x.trades[m].bar # x.trades[n].bar
  <2> SUFFICES ASSUME NEW n \in Len(z.trades) + 1 .. Len(x.trades)
               PROVE  /\ x.trades[n].bar \in x.bars \ z.bars
                      /\ x.trades[n].side = Durable!Side(n)
                      /\ \A m \in 1 .. n - 1 : x.trades[m].bar # x.trades[n].bar
    OBVIOUS
  <2>1. n \in 1 .. Len(x.trades)
    BY <1>2
  <2>2. x.trades[n].bar \notin z.bars
    <3>1. CASE n \in 1 .. Len(s.trades)
      BY <1>2, <1>3, <1>4, <3>1
    <3>2. CASE n \in Len(s.trades) + 1 .. Len(x.trades)
      BY <1>2, <1>3, <1>4, <3>2
    <3> QED
      BY <1>2, <2>1, <3>1, <3>2
  <2> QED
    BY <1>1, <2>1, <2>2 DEF Sound
<1>6. \A n \in 1 .. Len(z.trades) : x.trades[n] = z.trades[n]
  BY <1>2, <1>3, <1>4
<1>7. /\ Account(z).bars = z.bars /\ Account(z).trades = z.trades
      /\ Account(x).bars = x.bars /\ Account(x).trades = x.trades
  BY <1>1, GoesOnFacts
<1>8. z.bars \subseteq x.bars /\ Len(z.trades) <= Len(x.trades)
  BY <1>1, <1>2, <1>3, <1>4
<1> QED
  BY <1>2, <1>5, <1>6, <1>7, <1>8 DEF Durable!GoesOn
-----------------------------------------------------------------------------
(* What the invariant says of the parts the steps change one by one.        *)
LEMMA Parts ==
    ASSUME IInv
    PROVE  /\ session \in Sessions /\ sessFile.body \in Sessions /\ sessFile.sha \in Sessions
           /\ agent \in Agents /\ agentFile.body \in Agents /\ agentFile.sha \in Agents
           /\ Trips \in Seq([entry : Fills, exit : Fills])
           /\ crashes \in Nat /\ MaxNow \in Nat /\ MinGap \in Nat
           /\ \A p \in Made : p \in [entry : Fills, exit : Fills] /\ p.exit.at[1] \in Nat
<1>1. /\ session \in Sessions /\ sessFile.body \in Sessions /\ sessFile.sha \in Sessions
      /\ agent \in Agents /\ agentFile.body \in Agents /\ agentFile.sha \in Agents
      /\ Trips \in Seq([entry : Fills, exit : Fills])
      /\ crashes \in Nat /\ MaxNow \in Nat /\ MinGap \in Nat
  BY AgentAssumption DEF IInv, TypeOK, Trips
<1>2. \A p \in Made : p \in [entry : Fills, exit : Fills]
  <2>1. \A p \in Listed : p \in [entry : Fills, exit : Fills]
    <3>1. \A n \in DOMAIN Trips : Trips[n] \in [entry : Fills, exit : Fills]
      BY <1>1, SeqFacts
    <3> QED
      BY <3>1 DEF Listed
  <2>2. ASSUME NEW s \in Sessions, NEW p \in Rounds(s)
        PROVE  p \in [entry : Fills, exit : Fills]
    BY RoundFacts
  <2> QED
    BY <1>1, <2>1, <2>2 DEF Made
<1>3. \A p \in [entry : Fills, exit : Fills] : p.exit.at[1] \in Nat
  BY DEF Fills
<1> QED
  BY <1>1, <1>2, <1>3

(* The session an agent that runs holds, restores or creates.               *)
LEMMA HeldFacts ==
    ASSUME IInv, NEW s \in {SessionAt, EnsuredSession}
    PROVE  /\ s \in Sessions /\ Sound(s)
           /\ Rounds(s) \subseteq Made
           /\ session # None => s = session
           /\ s # None /\ ~lost =>
                  Durable!GoesOn(Account(sessFile.sha), Account(s))
           /\ s = None /\ ~lost => RestoredSession = sessFile.sha
           /\ session = None => \A n \in 1 .. Half(s) :
                  RoundTrips(s)[n].exit.at[1] # crashes
           /\ session = None => Synced(RestoredSession) <= Len(s.trades)
<1>1. CASE session # None
  <2>1. s = session
    BY <1>1 DEF SessionAt, EnsuredSession
  <2> QED
    BY <1>1, <2>1, Parts DEF IInv, Histories, Ahead, Made
<1>2. CASE session = None /\ s = sessFile.body /\ Whole(sessFile)
  <2>1. s \in Sessions /\ Sound(s) /\ Rounds(s) \subseteq Made
    BY <1>2, Parts DEF IInv, Histories, Made
  <2>2. ~lost => Durable!GoesOn(Account(sessFile.sha), Account(s))
    BY <1>2 DEF IInv, Ahead
  <2>3. \A n \in 1 .. Half(s) : RoundTrips(s)[n].exit.at[1] # crashes
    BY <1>2, <2>1, RoundFacts, BlankRounds DEF IInv, Current
  <2>4. Synced(RestoredSession) <= Len(s.trades)
    BY <1>2, <2>1, BlankFacts, SessionFacts DEF Synced, RestoredSession
  <2>5. s = None => RestoredSession = sessFile.sha
    BY <1>2 DEF RestoredSession, Whole
  <2> QED
    BY <1>2, <2>1, <2>2, <2>3, <2>4, <2>5
<1>3. CASE session = None /\ s \in {None, NewSession} /\ RestoredSession = None
  <2>1. s \in Sessions /\ Sound(s) /\ Rounds(s) = {} /\ Half(s) = 0
    BY <1>3, BlankFacts, BlankSound, BlankRounds
  <2>2. ASSUME ~lost
        PROVE  /\ RestoredSession = sessFile.sha
               /\ Durable!GoesOn(Account(sessFile.sha), Account(s))
    <3>1. sessFile.sha = None
      BY <1>3, <2>2 DEF IInv, Ahead
    <3> QED
      BY <1>3, <3>1, BlankFacts, BlankRounds, GoesOnFacts
  <2>3. Synced(RestoredSession) <= Len(s.trades)
    BY <1>3, BlankFacts DEF Synced
  <2> QED
    BY <1>3, <2>1, <2>2, <2>3
<1> QED
  BY <1>1, <1>2, <1>3 DEF SessionAt, EnsuredSession, RestoredSession, Found

(* The agent of a cycle is dated and synced as the invariant asks.          *)
DatedAs(j) == Whole(agentFile) /\ agentFile.body.jobs # 0 =>
                  j = agentFile.body.jobs \/ j >= agentFile.body.jobs + MinGap

LEMMA StartedFacts ==
    ASSUME IInv, NEW a \in Agents, NEW t \in Nat,
           a = NewAgent \/ DatedAs(a.jobs)
    PROVE  /\ Started(a, t) \in Agents /\ DatedAs(Started(a, t).jobs)
           /\ Started(a, t).synced = Synced(RestoredSession)
<1> DEFINE r == RestoredAgent(a)
           q == [r EXCEPT !.state = AgentStateFor(t)]
           n == Synced(RestoredSession)
<1>1. r \in Agents /\ DatedAs(r.jobs)
  <2>1. NewAgent.jobs = 0
    BY DEF NewAgent
  <2> QED
    BY <2>1, Parts DEF RestoredAgent, DatedAs
<1>2. n \in Nat
  BY Parts, BlankFacts, SessionFacts DEF Synced, RestoredSession
<1>3. AgentStateFor(t) \in {"MARKET_OPEN", "MARKET_CLOSED"}
  BY DEF AgentStateFor
<1>4. Started(a, t) = [q EXCEPT !.synced = n]
  BY DEF Started
<1> HIDE DEF r, n
<1>5. q \in Agents /\ q.jobs = r.jobs
  BY <1>1, <1>3 DEF Agents
<1> HIDE DEF q
<1>6. /\ [q EXCEPT !.synced = n] \in Agents
      /\ [q EXCEPT !.synced = n].jobs = q.jobs
      /\ [q EXCEPT !.synced = n].synced = n
  BY <1>2, <1>5 DEF Agents
<1> QED
  BY <1>1, <1>4, <1>5, <1>6 DEF n

LEMMA AgentAtFacts ==
    ASSUME IInv, pc = "idle", NEW t \in Nat
    PROVE  /\ AgentAt(t) \in Agents /\ DatedAs(AgentAt(t).jobs)
           /\ session = None => AgentAt(t).synced = Synced(RestoredSession)
           /\ session # None => AgentAt(t).synced = agent.synced
<1>1. agent \in Agents /\ DatedAs(agent.jobs)
  BY Parts DEF IInv, Dated, DatedAs
<1>2. CASE session = None
  BY <1>1, <1>2, StartedFacts DEF AgentAt
<1>3. CASE session # None
  <2>1. AgentStateFor(t) \in {"MARKET_OPEN", "MARKET_CLOSED"}
    BY DEF AgentStateFor
  <2>2. AgentAt(t) = [agent EXCEPT !.state = AgentStateFor(t)]
    BY <1>3 DEF AgentAt
  <2>3. /\ AgentAt(t) \in Agents /\ AgentAt(t).jobs = agent.jobs
        /\ AgentAt(t).synced = agent.synced
    BY <1>1, <2>1, <2>2 DEF Agents
  <2> QED
    BY <1>1, <1>3, <2>3
<1> QED
  BY <1>2, <1>3

(* An agent that holds a session it had, restored or created, and nothing   *)
(* else new, keeps the invariant.                                           *)
LEMMA EnteredInv ==
    ASSUME IInv, session' \in {SessionAt, EnsuredSession},
           UNCHANGED <<sessFile, agentFile, ledger, crashes, lost, name>>,
           now' \in Nat, agent' \in Agents, DatedAs(agent'.jobs),
           session = None => agent'.synced = Synced(RestoredSession),
           session # None => agent'.synced = agent.synced,
           pc' \in {"idle", "poll", "session", "record"},
           pc' \in {"poll", "session"} => session' # None,
           eligible' \subseteq Bars \ session'.bars
    PROVE  IInv'
<1>1. /\ session' \in Sessions /\ Sound(session') /\ Rounds(session') \subseteq Made
      /\ session # None => session' = session
      /\ session' # None /\ ~lost =>
             Durable!GoesOn(Account(sessFile.sha), Account(session'))
      /\ session' = None /\ ~lost => RestoredSession = sessFile.sha
      /\ session = None => \A n \in 1 .. Half(session') :
             RoundTrips(session')[n].exit.at[1] # crashes
      /\ session = None => Synced(RestoredSession) <= Len(session'.trades)
  BY HeldFacts
<1>2. Trips' = Trips /\ Listed' = Listed
  BY DEF Trips, Listed
<1>3. TypeOK'
  <2>1. agent'.synced <= Len(session'.trades)
    BY <1>1 DEF IInv, TypeOK
  <2> QED
    BY <1>1, <2>1 DEF IInv, TypeOK
<1>4. Histories'
  BY <1>1 DEF IInv, Histories
<1>5. Made' = Listed \cup Rounds(session') \cup Rounds(sessFile.body)
  BY <1>2 DEF Made
<1>6. Made' \subseteq Made
  BY <1>1, <1>5 DEF Made
<1>7. Unique'
  BY <1>6 DEF IInv, Unique
<1>8. Current'
  <2> SUFFICES ASSUME NEW p \in Made'
               PROVE  /\ p.exit.at[1] <= crashes
                      /\ p.exit.at[1] = crashes => p \in Rounds(session')
    BY DEF Current
  <2>1. /\ p.exit.at[1] <= crashes
        /\ p.exit.at[1] = crashes => p \in Rounds(session)
    BY <1>6 DEF IInv, Current
  <2>2. Rounds(session) \subseteq Rounds(session')
    BY <1>1, BlankRounds
  <2> QED
    BY <2>1, <2>2
<1>9. Once'
  BY <1>2 DEF IInv, Once
<1>10. UpToDate'
  <2>1. CASE session # None
    BY <1>1, <1>2, <2>1 DEF IInv, UpToDate
  <2>2. CASE session = None
    BY <1>1, <2>2, RoundFacts DEF UpToDate
  <2> QED
    BY <2>1, <2>2
<1>11. Ahead'
  BY <1>1 DEF IInv, Ahead, RestoredSession, Found, Whole
<1>12. Dated' /\ Stopped'
  BY DEF Dated, DatedAs, Stopped, Whole
<1> QED
  BY <1>3, <1>4, <1>7, <1>8, <1>9, <1>10, <1>11, <1>12 DEF IInv

(* So does an agent that keeps its session, its dates and what it synced.   *)
LEMMA SameInv ==
    ASSUME IInv,
           UNCHANGED <<session, sessFile, agentFile, ledger, crashes, lost, name>>,
           now' \in Nat, agent' \in Agents, agent'.jobs = agent.jobs,
           agent'.synced = agent.synced, pc # "off",
           pc' \in {"idle", "session", "record"},
           pc' = "session" => session # None,
           eligible' \subseteq Bars \ session.bars
    PROVE  IInv'
<1>1. Trips' = Trips /\ Listed' = Listed /\ Made' = Made
  BY DEF Trips, Listed, Made
<1>2. TypeOK'
  BY DEF IInv, TypeOK
<1>3. Histories' /\ Unique' /\ Current' /\ Once' /\ UpToDate'
  BY <1>1 DEF IInv, Histories, Unique, Current, Once, UpToDate
<1>4. Ahead' /\ Dated' /\ Stopped'
  BY DEF IInv, Ahead, Dated, Stopped, RestoredSession, Found,
     Whole
<1> QED
  BY <1>2, <1>3, <1>4 DEF IInv

(* The end of a cycle only counts it.                                       *)
LEMMA EndsFacts ==
    ASSUME NEW a \in Agents, NEW s, Ends(a, s)
    PROVE  /\ agent' \in Agents /\ agent'.jobs = a.jobs /\ agent'.synced = a.synced
           /\ session' = s /\ eligible' = {} /\ pc' \in {"session", "record"}
           /\ pc' = "session" => s # None
<1>1. agent' = [a EXCEPT !.cycles = @ + 1]
  BY DEF Ends
<1>2. agent' \in Agents /\ agent'.jobs = a.jobs /\ agent'.synced = a.synced
  BY <1>1 DEF Agents
<1> QED
  BY <1>2 DEF Ends
-----------------------------------------------------------------------------
LEMMA InitInv == Init => IInv
<1> SUFFICES ASSUME Init PROVE IInv
  OBVIOUS
<1> USE DEF Init
<1>1. /\ NewAgent \in Agents /\ NewAgent.synced = 0 /\ NewAgent.jobs = 0
  BY AgentAssumption DEF NewAgent, Agents
<1>2. /\ Trips = <<>> /\ Listed = {}
      /\ ledger \in [trips : Seq([entry : Fills, exit : Fills]), reads : BOOLEAN]
  <2>1. <<>> \in Seq([entry : Fills, exit : Fills])
    OBVIOUS
  <2>2. Trips = <<>>
    BY DEF Trips
  <2> QED
    BY <2>1, <2>2 DEF Listed
<1>3. TypeOK
  <2>1. session.bars = {} /\ Len(session.trades) = 0 /\ session \in Sessions
    BY BlankFacts
  <2>2. sessFile \in [body : Sessions, sha : Sessions]
    BY BlankFacts DEF NoSession
  <2>3. agentFile \in [body : Agents, sha : Agents] /\ agent.synced = 0
    BY <1>1 DEF NoRecord
  <2>4. crashes \in 0 .. MaxCrashes /\ now \in Nat
    BY AgentAssumption
  <2>5. eligible \subseteq Bars \ session.bars
    OBVIOUS
  <2>6. agent \in Agents /\ agent.synced <= Len(session.trades)
    BY <1>1, <2>1
  <2>7. pc = "off" /\ lost \in BOOLEAN /\ name \in {"safe", "changed"}
    OBVIOUS
  <2> HIDE DEF Init
  <2> QED
    BY <1>2, <2>1, <2>2, <2>3, <2>4, <2>5, <2>6, <2>7 DEF TypeOK
<1>4. Histories
  BY BlankSound DEF Histories, NoSession
<1>5. Made = {}
  BY <1>2, BlankRounds DEF Made, NoSession
<1>6. Unique /\ Current /\ Once
  BY <1>2, <1>5 DEF Unique, Current, Once
<1>7. UpToDate
  BY BlankFacts, BlankRounds, RoundFacts DEF UpToDate
<1>8. Ahead /\ Dated /\ Stopped
  BY BlankFacts, GoesOnFacts DEF Ahead, Dated, Stopped, NoSession, RestoredSession, Whole
<1> QED
  BY <1>3, <1>4, <1>6, <1>7, <1>8 DEF IInv

LEMMA BootInv == ASSUME IInv, Boot PROVE IInv'
<1>1. session = None /\ session' = SessionAt
  BY DEF Boot, SessionAt, IInv, Stopped
<1>2. NewAgent \in Agents
  BY AgentAssumption DEF NewAgent, Agents
<1>3. /\ agent' \in Agents /\ DatedAs(agent'.jobs)
      /\ agent'.synced = Synced(RestoredSession)
  BY <1>2, StartedFacts DEF Boot, IInv, TypeOK
<1>4. eligible = {}
  BY DEF Boot, IInv, Stopped
<1> QED
  BY <1>1, <1>3, <1>4, EnteredInv DEF Boot, IInv, TypeOK

LEMMA CycleInv == ASSUME IInv, Cycle PROVE IInv'
<1> DEFINE s == EnsuredSession
<1>1. PICK t \in now + 1 .. MaxNow :
          /\ now' = t
          /\ \/ agent.state = "HALTED" /\ UNCHANGED <<pc, agent, session, eligible>>
             \/ OpenCycle(AgentAt(t), s, t)
             \/ ClosedCycle(AgentAt(t), SessionAt, t)
  BY DEF Cycle
<1>2. /\ pc = "idle" /\ t \in Nat /\ t \in 0 .. MaxNow
      /\ UNCHANGED <<sessFile, agentFile, ledger, crashes, lost, name>>
  BY AgentAssumption DEF Cycle, IInv, TypeOK
<1>3. s # None
  BY BlankFacts DEF EnsuredSession
<1>4. /\ AgentAt(t) \in Agents /\ DatedAs(AgentAt(t).jobs)
      /\ session = None => AgentAt(t).synced = Synced(RestoredSession)
      /\ session # None => AgentAt(t).synced = agent.synced
  BY <1>2, AgentAtFacts
<1> HIDE DEF s
<1>5. CASE UNCHANGED <<pc, agent, session, eligible>>
  BY <1>1, <1>2, <1>5, SameInv DEF IInv, TypeOK
<1>6. CASE OpenCycle(AgentAt(t), s, t)
  <2>1. CASE Ends(AgentAt(t), s)
    BY <1>1, <1>2, <1>3, <1>4, <2>1, EndsFacts, EnteredInv DEF s
  <2>2. CASE /\ pc' = "poll" /\ session' = s /\ agent' = AgentAt(t)
             /\ \E seen \in SUBSET {b \in Bars : b <= t} : eligible' = seen \ s.bars
    BY <1>1, <1>2, <1>3, <1>4, <2>2, EnteredInv DEF s
  <2> QED
    BY <1>6, <2>1, <2>2 DEF OpenCycle
<1>7. CASE ClosedCycle(AgentAt(t), SessionAt, t)
  <2>1. CASE Ends(AgentAt(t), SessionAt)
    BY <1>1, <1>2, <1>4, <2>1, EndsFacts, EnteredInv
  <2>2. CASE /\ JobDue(AgentAt(t), t)
             /\ Ends([AgentAt(t) EXCEPT !.jobs = t], SessionAt)
    <3> DEFINE a == AgentAt(t)
               q == [a EXCEPT !.jobs = t]
    <3>1. a \in Agents /\ DatedAs(a.jobs) /\ JobDue(a, t) /\ Ends(q, SessionAt)
      BY <1>4, <2>2
    <3>2. /\ session = None => a.synced = Synced(RestoredSession)
          /\ session # None => a.synced = agent.synced
      BY <1>4
    <3> HIDE DEF a
    <3>3. q \in Agents /\ q.jobs = t /\ q.synced = a.synced
      BY <1>2, <3>1 DEF Agents
    <3>4. DatedAs(t)
      <4>1. a.jobs \in Nat /\ agentFile.body.jobs \in Nat /\ MinGap \in Nat
        BY <3>1, Parts DEF Agents
      <4> QED
        BY <1>2, <3>1, <4>1 DEF DatedAs, JobDue
    <3> HIDE DEF q
    <3> QED
      BY <1>1, <1>2, <3>1, <3>2, <3>3, <3>4, EndsFacts, EnteredInv
  <2> QED
    BY <1>7, <2>1, <2>2 DEF ClosedCycle
<1> QED
  BY <1>1, <1>5, <1>6, <1>7

LEMMA OperatorInv == ASSUME IInv, Halt \/ Resume PROVE IInv'
<1>1. /\ UNCHANGED <<now, pc, session, eligible, sessFile, agentFile, ledger, crashes, lost, name>>
      /\ pc = "idle"
      /\ \E x \in {"HALTED", "INIT"} : agent' = [agent EXCEPT !.state = x]
  BY DEF Halt, Resume
<1>2. agent' \in Agents /\ agent'.jobs = agent.jobs /\ agent'.synced = agent.synced
  BY <1>1, Parts DEF Agents
<1> QED
  BY <1>1, <1>2, SameInv DEF IInv, TypeOK

LEMMA PollFailsInv == ASSUME IInv, PollFails PROVE IInv'
<1>1. /\ agent' \in Agents /\ agent'.jobs = agent.jobs /\ agent'.synced = agent.synced
      /\ session' = session /\ eligible' = {} /\ pc' \in {"session", "record"}
      /\ pc' = "session" => session # None
  BY Parts, EndsFacts DEF PollFails
<1> QED
  BY <1>1, SameInv DEF PollFails, IInv, TypeOK

(* A bar that is decided adds a fill that no other history of this process  *)
(* has, on a bar it has not traded on.                                      *)
LEMMA CandleInv == ASSUME IInv, Candle PROVE IInv'
<1>1. PICK b \in eligible : /\ session' \in Processed(session, b)
                            /\ eligible' = eligible \ {b}
  BY DEF Candle
<1>2. /\ pc = "poll" /\ session # None /\ b \in Bars \ session.bars
      /\ TypeOK /\ session \in Sessions /\ Sound(session)
      /\ UNCHANGED <<now, pc, agent, sessFile, agentFile, ledger, crashes, lost, name>>
  BY Parts DEF Candle, IInv, TypeOK, Histories
<1>3. /\ session' \in Sessions /\ session' # None /\ Sound(session')
      /\ session'.bars = session.bars \cup {b}
  BY <1>1, <1>2, ProcessedFacts, ProcessedSound
<1>4. /\ Len(session.trades) <= Len(session'.trades)
      /\ \A n \in 1 .. Half(session) : /\ n \in 1 .. Half(session')
                                       /\ RoundTrips(session')[n] = RoundTrips(session)[n]
      /\ \A n \in 1 .. Half(session') : n \notin 1 .. Half(session) =>
             /\ 2 * n = Len(session.trades) + 1
             /\ RoundTrips(session')[n].exit.bar = b
             /\ RoundTrips(session')[n].exit.at = <<crashes, 2 * n>>
  BY <1>1, <1>2, ProcessedRounds
<1>5. /\ Len(session.trades) \in Nat /\ Len(session'.trades) \in Nat
      /\ Trips' = Trips /\ Listed' = Listed
  BY <1>2, <1>3, SessionFacts DEF Trips, Listed
<1>6. TypeOK'
  <2>1. agent'.synced \in Nat /\ agent'.synced <= Len(session.trades)
    BY <1>2 DEF TypeOK, Agents
  <2>2. agent'.synced <= Len(session'.trades)
    BY <1>4, <1>5, <2>1
  <2> QED
    BY <1>1, <1>2, <1>3, <2>2 DEF TypeOK
<1>7. Histories'
  BY <1>2, <1>3 DEF IInv, Histories
<1> DEFINE New == {RoundTrips(session')[n] : n \in 1 .. Half(session') \ 1 .. Half(session)}
<1>8. Rounds(session') = Rounds(session) \cup New
  BY <1>2, <1>3, <1>4, RoundFacts
<1>9. /\ Made' = Made \cup New
      /\ \A p \in New : /\ p \in [entry : Fills, exit : Fills]
                        /\ p.exit.bar = b
                        /\ p.exit.at = <<crashes, Len(session.trades) + 1>>
  BY <1>2, <1>3, <1>4, <1>5, <1>8, RoundFacts DEF Made
<1>10. \A p, q \in New : p = q
  <2> SUFFICES ASSUME NEW m \in 1 .. Half(session') \ 1 .. Half(session),
                      NEW n \in 1 .. Half(session') \ 1 .. Half(session)
               PROVE  RoundTrips(session')[m] = RoundTrips(session')[n]
    OBVIOUS
  <2>1. 2 * m = 2 * n /\ m \in Nat /\ n \in Nat
    BY <1>3, <1>4, HalfFacts
  <2> QED
    BY <2>1
<1> HIDE DEF New
<1>11. \A p \in New, q \in Made : ~Alike(p, q) /\ ~Alike(q, p)
  <2> SUFFICES ASSUME NEW p \in New, NEW q \in Made, q.exit.at[1] = crashes
               PROVE  q.exit.at # p.exit.at /\ q.exit.bar # p.exit.bar
    BY <1>9 DEF Alike
  <2>1. PICK n \in 1 .. Half(session) : q = RoundTrips(session)[n]
    BY <1>2, RoundFacts DEF IInv, Current
  <2>2. /\ 2 * n \in 1 .. Len(session.trades) /\ q.exit = session.trades[2 * n]
    BY <1>2, <2>1, RoundFacts, HalfFacts
  <2>3. q.exit.bar \in session.bars /\ q.exit.at[2] = 2 * n
    BY <1>2, <2>2 DEF Sound
  <2> QED
    BY <1>2, <1>5, <1>9, <2>2, <2>3
<1>12. Unique'
  BY <1>9, <1>10, <1>11 DEF IInv, Unique
<1>13. Current'
  <2> SUFFICES ASSUME NEW p \in Made'
               PROVE  /\ p.exit.at[1] <= crashes
                      /\ p.exit.at[1] = crashes => p \in Rounds(session')
    BY <1>2 DEF Current
  <2>1. CASE p \in Made
    BY <1>8, <2>1 DEF IInv, Current
  <2>2. CASE p \in New
    BY <1>8, <1>9, <2>2, Parts
  <2> QED
    BY <1>9, <2>1, <2>2
<1>14. Once'
  BY <1>5 DEF IInv, Once
<1>15. UpToDate'
  <2> SUFFICES ASSUME NEW n \in 1 .. Half(session'), 2 * n <= agent.synced,
                      RoundTrips(session')[n].exit.at[1] = crashes
               PROVE  RoundTrips(session')[n] \in Listed
    BY <1>2, <1>3, <1>5, RoundFacts DEF UpToDate
  <2>1. agent.synced <= Len(session.trades) /\ agent.synced \in Nat /\ n \in Nat
    BY <1>2, Parts DEF TypeOK, Agents
  <2>2. n \in 1 .. Half(session)
    BY <1>4, <1>5, <2>1
  <2> QED
    BY <1>2, <1>4, <2>2, RoundFacts DEF IInv, UpToDate
<1>16. Ahead'
  <2>1. ASSUME ~lost PROVE Durable!GoesOn(Account(sessFile.sha), Account(session'))
    BY <1>1, <1>2, <2>1, Parts, ProcessedGoesOn DEF IInv, Ahead
  <2> QED
    BY <1>2, <1>3, <2>1 DEF IInv, Ahead
<1>17. Dated' /\ Stopped'
  BY <1>2 DEF IInv, Dated, Stopped, Whole
<1> QED
  BY <1>6, <1>7, <1>12, <1>13, <1>14, <1>15, <1>16, <1>17 DEF IInv

(* What a sync adds: the round trips that are not known, each once.         *)
LEMMA AddedFacts ==
    ASSUME NEW s \in Sessions, Sound(s), NEW new \in Added(s)
    PROVE  /\ new \in Seq([entry : Fills, exit : Fills])
           /\ \A k \in DOMAIN new : new[k] \in Rounds(s) /\ ~Known(new[k])
           /\ \A j, k \in DOMAIN new : j < k => new[j] # new[k]
           /\ \A n \in 1 .. Half(s) : ~Known(RoundTrips(s)[n]) =>
                  \E k \in DOMAIN new : new[k] = RoundTrips(s)[n]
<1> DEFINE places == {n \in DOMAIN RoundTrips(s) : ~Known(RoundTrips(s)[n])}
           c == Cardinality(places)
<1>1. PICK at \in [1 .. c -> places] :
          /\ \A j, k \in DOMAIN at : j < k => at[j] < at[k]
          /\ \A n \in places : \E k \in DOMAIN at : at[k] = n
          /\ new = [k \in DOMAIN at |-> RoundTrips(s)[at[k]]]
  BY DEF Added
<1>2. places \subseteq 1 .. Half(s)
  BY RoundFacts
<1>3. c \in Nat
  <2>1. Half(s) \in Int
    BY SessionFacts DEF Half
  <2>2. IsFiniteSet(1 .. Half(s))
    BY <2>1, FS_Interval
  <2> QED
    BY <1>2, <2>2, FS_Subset, FS_CardinalityType
<1>4. \A n \in places : RoundTrips(s)[n] \in Rounds(s) /\ ~Known(RoundTrips(s)[n])
  BY <1>2, RoundFacts
<1>5. \A n \in 1 .. Half(s) : ~Known(RoundTrips(s)[n]) => n \in places
  BY RoundFacts
<1>6. \A n \in places : RoundTrips(s)[n] \in [entry : Fills, exit : Fills]
  BY <1>2, RoundFacts
<1>7. \A m, n \in places : m < n => RoundTrips(s)[m] # RoundTrips(s)[n]
  <2> SUFFICES ASSUME NEW m \in places, NEW n \in places, m < n
               PROVE  RoundTrips(s)[m] # RoundTrips(s)[n]
    OBVIOUS
  <2>1. m \in 1 .. Half(s) /\ n \in 1 .. Half(s)
    BY <1>2
  <2>2. RoundTrips(s)[m].exit.at[2] = 2 * m /\ RoundTrips(s)[n].exit.at[2] = 2 * n
    BY <2>1, RoundFacts, HalfFacts DEF Sound
  <2>3. m \in Nat /\ n \in Nat
    BY <2>1, HalfFacts
  <2> QED
    BY <2>2, <2>3
<1> HIDE DEF places, c
<1>8. DOMAIN new = 1 .. c /\ \A k \in 1 .. c : at[k] \in places /\ new[k] = RoundTrips(s)[at[k]]
  BY <1>1
<1>9. new \in Seq([entry : Fills, exit : Fills])
  <2>1. new \in [1 .. c -> [entry : Fills, exit : Fills]]
    BY <1>1, <1>6
  <2> QED
    BY <1>3, <2>1, SeqOf
<1>10. \A j, k \in DOMAIN new : j < k => new[j] # new[k]
  BY <1>1, <1>7, <1>8
<1>11. \A n \in places : \E k \in DOMAIN new : new[k] = RoundTrips(s)[n]
  BY <1>1, <1>8
<1> QED
  BY <1>4, <1>5, <1>8, <1>9, <1>10, <1>11

(* A sync puts the round trips that are not known at the end of the ledger. *)
LEMMA SyncInv == ASSUME IInv, Sync PROVE IInv'
<1>1. /\ pc = "poll" /\ eligible = {} /\ session # None
      /\ UNCHANGED <<now, sessFile, agentFile, crashes, lost, name>>
  BY DEF Sync, IInv, TypeOK
<1>2. /\ session \in Sessions /\ Sound(session) /\ agent \in Agents
      /\ Len(session.trades) \in Nat
  BY Parts, SessionFacts DEF IInv, Histories
<1>3. CASE ledger' = ledger /\ Ends(agent, session)
  <2>1. /\ agent' \in Agents /\ agent'.jobs = agent.jobs /\ agent'.synced = agent.synced
        /\ session' = session /\ eligible' = {} /\ pc' \in {"session", "record"}
        /\ pc' = "session" => session # None
    BY <1>2, <1>3, EndsFacts
  <2> QED
    BY <1>1, <1>3, <2>1, SameInv DEF IInv, TypeOK
<1>4. CASE /\ \E new \in Added(session) : ledger' = [ledger EXCEPT !.trips = @ \o new]
           /\ Ends([agent EXCEPT !.synced = Len(session.trades)], session)
  <2> DEFINE a == [agent EXCEPT !.synced = Len(session.trades)]
  <2>1. a \in Agents /\ a.jobs = agent.jobs /\ a.synced = Len(session.trades)
    BY <1>2 DEF Agents
  <2>2. Ends(a, session)
    BY <1>4
  <2> HIDE DEF a
  <2>3. /\ agent' \in Agents /\ agent'.jobs = agent.jobs
        /\ agent'.synced = Len(session.trades)
        /\ session' = session /\ eligible' = {} /\ pc' \in {"session", "record"}
    BY <2>1, <2>2, EndsFacts
  <2>4. PICK new \in Added(session) : ledger' = [ledger EXCEPT !.trips = @ \o new]
    BY <1>4
  <2>5. /\ new \in Seq([entry : Fills, exit : Fills])
        /\ \A k \in DOMAIN new : new[k] \in Rounds(session) /\ ~Known(new[k])
        /\ \A j, k \in DOMAIN new : j < k => new[j] # new[k]
        /\ \A n \in 1 .. Half(session) : ~Known(RoundTrips(session)[n]) =>
               \E k \in DOMAIN new : new[k] = RoundTrips(session)[n]
    BY <1>2, AddedFacts
  <2>6. /\ Trips \in Seq([entry : Fills, exit : Fills])
        /\ Trips' = Trips \o new
        /\ ledger' \in [trips : Seq([entry : Fills, exit : Fills]), reads : BOOLEAN]
    <3>1. ledger \in [trips : Seq([entry : Fills, exit : Fills]), reads : BOOLEAN]
      BY DEF IInv, TypeOK
    <3>2. ledger.trips \o new \in Seq([entry : Fills, exit : Fills])
      BY <2>5, <3>1
    <3> QED
      BY <2>4, <3>1, <3>2 DEF Trips
  <2> DEFINE L == Len(Trips)
             N == Len(new)
  <2>7. /\ L \in Nat /\ N \in Nat /\ DOMAIN Trips = 1 .. L /\ DOMAIN new = 1 .. N
    BY <2>5, <2>6, SeqFacts
  <2>8. /\ DOMAIN Trips' = 1 .. L + N
        /\ \A n \in 1 .. L : Trips'[n] = Trips[n]
        /\ \A k \in 1 .. N : Trips'[L + k] = new[k]
    BY <2>5, <2>6
  <2> HIDE DEF L, N
  <2>9. \A n \in L + 1 .. L + N : n - L \in 1 .. N /\ Trips'[n] = new[n - L]
    <3> SUFFICES ASSUME NEW n \in L + 1 .. L + N
                 PROVE  n - L \in 1 .. N /\ Trips'[n] = new[n - L]
      OBVIOUS
    <3>1. n - L \in 1 .. N /\ n = L + (n - L)
      BY <2>7
    <3> QED
      BY <2>8, <3>1
  <2>10. Listed' \subseteq Listed \cup Rounds(session)
    <3> SUFFICES ASSUME NEW n \in 1 .. L + N
                 PROVE  Trips'[n] \in Listed \cup Rounds(session)
      BY <2>8 DEF Listed
    <3>1. CASE n \in 1 .. L
      BY <2>7, <2>8, <3>1 DEF Listed
    <3>2. CASE n \in L + 1 .. L + N
      BY <2>5, <2>7, <2>9, <3>2
    <3> QED
      BY <2>7, <3>1, <3>2
  <2>11. Listed \subseteq Listed' /\ \A k \in DOMAIN new : new[k] \in Listed'
    <3>1. \A n \in 1 .. L : n \in 1 .. L + N
      BY <2>7
    <3>2. \A k \in 1 .. N : L + k \in 1 .. L + N
      BY <2>7
    <3> QED
      BY <2>7, <2>8, <3>1, <3>2 DEF Listed
  <2>12. TypeOK'
    BY <1>1, <1>2, <2>3, <2>6 DEF IInv, TypeOK
  <2>13. Histories'
    BY <1>1, <2>3 DEF IInv, Histories
  <2>14. Made' \subseteq Made
    BY <1>1, <2>3, <2>10 DEF Made
  <2>15. Unique' /\ Current'
    BY <1>1, <2>3, <2>14 DEF IInv, Unique, Current
  <2>16. Once'
    <3> SUFFICES ASSUME NEW m \in 1 .. L + N, NEW n \in 1 .. L + N, m < n
                 PROVE  Trips'[m] # Trips'[n]
      BY <2>7, <2>8 DEF Once
    <3>1. CASE n \in 1 .. L
      <4>1. m \in 1 .. L /\ m # n
        BY <2>7, <3>1
      <4> QED
        BY <2>7, <2>8, <3>1, <4>1 DEF IInv, Once
    <3>2. CASE m \in 1 .. L /\ n \in L + 1 .. L + N
      <4>1. ~Known(Trips'[n])
        BY <2>5, <2>7, <2>9, <3>2
      <4> QED
        BY <2>7, <2>8, <3>2, <4>1 DEF Known
    <3>3. CASE m \in L + 1 .. L + N /\ n \in L + 1 .. L + N
      <4>1. m - L < n - L
        BY <2>7
      <4> QED
        BY <2>5, <2>7, <2>9, <3>3, <4>1
    <3> QED
      BY <2>7, <3>1, <3>2, <3>3
  <2>17. UpToDate'
    <3> SUFFICES ASSUME NEW n \in 1 .. Half(session)
                 PROVE  RoundTrips(session)[n] \in Listed'
      BY <1>2, <2>3, RoundFacts DEF UpToDate
    <3> DEFINE p == RoundTrips(session)[n]
    <3>1. CASE Known(p)
      <4>1. PICK m \in DOMAIN Trips : Trips[m].exit.at = p.exit.at
        BY <3>1 DEF Known
      <4>2. Trips[m] \in Made /\ p \in Made /\ Trips[m] \in Listed
        BY <1>2, RoundFacts DEF Made, Listed
      <4>3. Alike(Trips[m], p)
        BY <4>1 DEF Alike
      <4>4. Trips[m] = p
        BY <4>2, <4>3 DEF IInv, Unique
      <4> QED
        BY <2>11, <4>2, <4>4
    <3>2. CASE ~Known(p)
      BY <2>5, <2>11, <3>2
    <3> QED
      BY <3>1, <3>2
  <2>18. Ahead' /\ Dated' /\ Stopped'
    BY <1>1, <2>3 DEF IInv, Ahead, Dated, Stopped, Whole
  <2> QED
    BY <2>12, <2>13, <2>15, <2>16, <2>17, <2>18 DEF IInv
<1> QED
  BY <1>3, <1>4 DEF Sync

(* The checkpoint makes the session durable, then the record.               *)
LEMMA WriteInv == ASSUME IInv, Write PROVE IInv'
<1>1. UNCHANGED <<now, agent, session, eligible, ledger, crashes, name>>
  BY DEF Write
<1>2. Trips' = Trips /\ Listed' = Listed
  BY <1>1 DEF Trips, Listed
<1>3. Once' /\ UpToDate'
  BY <1>1, <1>2 DEF IInv, Once, UpToDate
<1>4. CASE /\ pc = "session" /\ pc' = "session.meta"
           /\ sessFile' = [sessFile EXCEPT !.body = session]
           /\ UNCHANGED <<agentFile, lost>>
  <2>1. /\ sessFile' \in [body : Sessions, sha : Sessions]
        /\ sessFile'.body = session /\ sessFile'.sha = sessFile.sha /\ session # None
    BY <1>4 DEF IInv, TypeOK
  <2>2. TypeOK'
    BY <1>1, <1>4, <2>1 DEF IInv, TypeOK
  <2>3. Histories'
    BY <1>1, <2>1 DEF IInv, Histories
  <2>4. Made' \subseteq Made
    BY <1>1, <1>2, <2>1 DEF Made
  <2>5. Unique' /\ Current'
    BY <1>1, <2>4 DEF IInv, Unique, Current
  <2>6. Ahead'
    BY <1>1, <1>4, <2>1 DEF IInv, Ahead
  <2>7. Dated' /\ Stopped'
    BY <1>1, <1>4 DEF IInv, Dated, Stopped, Whole
  <2> QED
    BY <1>3, <2>2, <2>3, <2>5, <2>6, <2>7 DEF IInv
<1>5. CASE /\ pc = "session.meta" /\ pc' = "record"
           /\ sessFile' = [sessFile EXCEPT !.sha = sessFile.body]
           /\ lost' = FALSE /\ UNCHANGED agentFile
  <2>1. /\ sessFile' \in [body : Sessions, sha : Sessions]
        /\ sessFile'.body = session /\ sessFile'.sha = session /\ session # None
        /\ sessFile.body = session
    BY <1>5 DEF IInv, TypeOK, Ahead
  <2>2. TypeOK'
    BY <1>1, <1>5, <2>1 DEF IInv, TypeOK
  <2>3. Histories'
    BY <1>1, <2>1 DEF IInv, Histories
  <2>4. Made' \subseteq Made
    BY <1>1, <1>2, <2>1 DEF Made
  <2>5. Unique' /\ Current'
    BY <1>1, <2>4 DEF IInv, Unique, Current
  <2>6. Ahead'
    BY <1>1, <1>5, <2>1, Parts, GoesOnFacts DEF Ahead
  <2>7. Dated' /\ Stopped'
    BY <1>1, <1>5 DEF IInv, Dated, Stopped, Whole
  <2> QED
    BY <1>3, <2>2, <2>3, <2>5, <2>6, <2>7 DEF IInv
<1>6. CASE UNCHANGED <<sessFile, lost>> /\ pc \in {"record", "record.meta"}
  <2>1. /\ agentFile' \in [body : Agents, sha : Agents]
        /\ pc' \in {"record.meta", "idle"}
        /\ \/ pc' = "record.meta" /\ agentFile'.body.jobs = agent.jobs
           \/ /\ pc' = "idle" /\ pc = "record.meta"
              /\ agentFile'.body = agentFile.body
    <3>1. Record \in Agents /\ Record.jobs = agent.jobs
      BY Parts DEF Record, Agents
    <3> QED
      BY <1>6, <3>1, Parts DEF Write, IInv, TypeOK
  <2>2. TypeOK'
    BY <1>1, <1>6, <2>1 DEF IInv, TypeOK
  <2>3. Made' = Made
    BY <1>1, <1>2, <1>6 DEF Made
  <2>4. Histories' /\ Unique' /\ Current'
    BY <1>1, <1>6, <2>3 DEF IInv, Histories, Unique, Current
  <2>5. Ahead' /\ Stopped'
    BY <1>1, <1>6, <2>1 DEF IInv, Ahead, Stopped, RestoredSession, Found,
     Whole
  <2>6. Dated'
    BY <1>1, <2>1 DEF IInv, Dated
  <2> QED
    BY <1>3, <2>2, <2>4, <2>5, <2>6 DEF IInv
<1> QED
  BY <1>4, <1>5, <1>6 DEF Write

(* A death loses what is in memory, and what it tears is not restored.      *)
LEMMA CrashInv == ASSUME IInv, Crash PROVE IInv'
<1>1. /\ pc # "off" /\ crashes' = crashes + 1 /\ pc' = "off" /\ agent' = NewAgent
      /\ session' = None /\ eligible' = {} /\ now' = now /\ name' = name
      /\ lost' = (lost \/ ~Found')
      /\ crashes < MaxCrashes
  BY DEF Crash
<1>2. NewAgent \in Agents /\ NewAgent.synced = 0
  BY AgentAssumption DEF NewAgent, Agents
<1>3. Trips' = Trips /\ Listed' = Listed
  BY DEF Crash, Torn, IInv, TypeOK, Trips, Listed
<1>4. /\ sessFile' \in [body : Sessions, sha : Sessions]
      /\ sessFile'.body \in {sessFile.body, None}
      /\ sessFile'.sha \in {sessFile.sha, None}
  BY BlankFacts DEF Crash, Torn, IInv, TypeOK
<1>5. agentFile' \in [body : Agents, sha : Agents]
  BY <1>2 DEF Crash, Torn, IInv, TypeOK
<1>6. ledger' \in [trips : Seq([entry : Fills, exit : Fills]), reads : BOOLEAN]
  BY DEF Crash, Torn, IInv, TypeOK
<1>7. /\ crashes' \in 0 .. MaxCrashes /\ lost' \in BOOLEAN
      /\ crashes \in Nat
  BY <1>1, AgentAssumption DEF IInv, TypeOK
<1>8. TypeOK'
  BY <1>1, <1>2, <1>4, <1>5, <1>6, <1>7, BlankFacts DEF IInv, TypeOK
<1>9. Histories'
  BY <1>1, <1>4, BlankSound DEF IInv, Histories
<1>10. Made' \subseteq Made
  BY <1>1, <1>3, <1>4, BlankRounds DEF Made
<1>11. Unique'
  BY <1>10 DEF IInv, Unique
<1>12. Current'
  <2> SUFFICES ASSUME NEW p \in Made'
               PROVE  /\ p.exit.at[1] <= crashes'
                      /\ p.exit.at[1] # crashes'
    BY DEF Current
  <2>1. p.exit.at[1] \in Nat /\ p.exit.at[1] <= crashes
    BY <1>10, Parts DEF IInv, Current
  <2> QED
    BY <1>1, <1>7, <2>1
<1>13. Once'
  BY <1>3 DEF IInv, Once
<1>14. UpToDate'
  <2>1. \A n : n \notin 1 .. Half(None)
    BY BlankRounds
  <2> QED
    BY <1>1, <2>1, BlankFacts, RoundFacts DEF UpToDate
<1>15. Ahead'
  <2>1. ASSUME ~lost' PROVE Whole(sessFile') /\ RestoredSession' = sessFile'.sha
    BY <1>1, <2>1 DEF Found, RestoredSession, Whole
  <2>2. ASSUME ~lost'
        PROVE  Durable!GoesOn(Account(sessFile'.sha), Account(sessFile'.body))
    BY <1>4, <2>1, <2>2, GoesOnFacts DEF Whole
  <2> QED
    BY <1>1, <2>1, <2>2 DEF Ahead
<1>16. Dated' /\ Stopped'
  BY <1>1 DEF Dated, Stopped
<1> QED
  BY <1>8, <1>9, <1>11, <1>12, <1>13, <1>14, <1>15, <1>16 DEF IInv

LEMMA NextInv == ASSUME IInv, [Next]_vars PROVE IInv'
<1>1. CASE UNCHANGED vars
  <2>1. Trips' = Trips /\ Listed' = Listed /\ Made' = Made
    BY <1>1 DEF vars, Trips, Listed, Made
  <2> QED
    BY <1>1, <2>1 DEF vars, IInv, TypeOK, Histories, Unique, Current, Once,
                      UpToDate, Ahead, Dated, Stopped, RestoredSession, Found, Whole
<1> QED
  BY <1>1, BootInv, CycleInv, CandleInv, PollFailsInv, SyncInv, OperatorInv,
     WriteInv, CrashInv DEF Next
-----------------------------------------------------------------------------
LEMMA Invariance == Spec => []IInv
BY InitInv, NextInv, PTL DEF Spec

(* The state keeps its shape.                                               *)
THEOREM Typing == Spec => []TypeOK
BY Invariance, PTL DEF IInv

(* The session, the snapshot and what its metadata vouches for know the     *)
(* candle an open position was entered on, so the stop can protect it.      *)
THEOREM Armed == Spec => []StopArmed
<1>1. IInv => StopArmed
  BY DEF IInv, Histories, Sound, StopArmed
<1> QED
  BY <1>1, Invariance, PTL

(* A process writes no two round trips on the same bars to the ledger.      *)
THEOREM NoDuplicates == Spec => []DuplicatesFromDeaths
<1>1. IInv => DuplicatesFromDeaths
  <2> SUFFICES ASSUME IInv, NEW m \in DOMAIN Trips, NEW n \in DOMAIN Trips, m # n,
                      Trips[m].exit.bar = Trips[n].exit.bar,
                      Trips[m].exit.at[1] = Trips[n].exit.at[1]
               PROVE  FALSE
    BY DEF DuplicatesFromDeaths
  <2>1. Trips[m] \in Made /\ Trips[n] \in Made /\ Alike(Trips[m], Trips[n])
    BY DEF Made, Listed, Alike
  <2> QED
    BY <2>1 DEF IInv, Unique, Once
<1> QED
  BY <1>1, Invariance, PTL

(* A ledger that is read as ahead of its session has every round trip its   *)
(* process closed.                                                          *)
THEOREM KeepsUp == Spec => []LedgerKeepsUp
<1>1. IInv => LedgerKeepsUp
  <2> SUFFICES ASSUME IInv, agent.synced = Len(session.trades),
                      NEW n \in 1 .. Half(session),
                      RoundTrips(session)[n].exit.at[1] = crashes
               PROVE  \E k \in DOMAIN Trips : Trips[k] = RoundTrips(session)[n]
    BY Parts, RoundFacts DEF LedgerKeepsUp
  <2>1. 2 * n <= agent.synced
    BY Parts, HalfFacts
  <2>2. RoundTrips(session)[n] \in Listed
    BY <2>1, Parts, RoundFacts DEF IInv, UpToDate
  <2> QED
    BY <2>2 DEF Listed
<1> QED
  BY <1>1, Invariance, PTL

(* A job that succeeded is not repeated before its interval is over.        *)
THEOREM Intervals == Spec => JobsSpaced
<1> DEFINE A == (Whole(agentFile) /\ agentFile.body.jobs # 0
                    /\ agentFile'.body # NewAgent
                    /\ agentFile'.body.jobs # agentFile.body.jobs)
                 => agentFile'.body.jobs >= agentFile.body.jobs + MinGap
<1>1. IInv /\ [Next]_vars => [A]_vars
  <2> SUFFICES ASSUME IInv, Next, Whole(agentFile), agentFile.body.jobs # 0,
                      agentFile'.body # NewAgent,
                      agentFile'.body.jobs # agentFile.body.jobs
               PROVE  agentFile'.body.jobs >= agentFile.body.jobs + MinGap
    BY DEF vars
  <2>1. CASE UNCHANGED agentFile
    BY <2>1
  <2>2. CASE Write /\ ~UNCHANGED agentFile
    <3>1. agentFile' = [agentFile EXCEPT !.body = Record]
          \/ agentFile' = [agentFile EXCEPT !.sha = agentFile.body]
      BY <2>2 DEF Write
    <3>2. Record.jobs = agent.jobs
      BY Parts DEF Record, Agents
    <3>3. agentFile'.body.jobs = agent.jobs /\ pc # "off"
      BY <2>2, <3>1, <3>2 DEF Write, IInv, TypeOK
    <3> QED
      BY <3>3 DEF IInv, Dated
  <2>3. CASE Crash
    <3>1. agentFile'.body \in {agentFile.body, NewAgent}
      BY <2>3 DEF Crash, Torn, IInv, TypeOK
    <3> QED
      BY <3>1
  <2> QED
    BY <2>1, <2>2, <2>3 DEF Next, Boot, Cycle, Candle, PollFails, Sync, Halt, Resume
<1> QED
  BY <1>1, Invariance, PTL DEF Spec, JobsSpaced
-----------------------------------------------------------------------------
(* No account is the lost one.                                              *)
LEMMA NotLost == ASSUME NEW s \in Sessions PROVE Account(s) # Durable!Lost
<1> SUFFICES ASSUME Account(s) = Durable!Lost PROVE FALSE
  OBVIOUS
<1>1. s.trades = <<[side |-> "LOST", bar |-> 0]>>
  BY DEF Account, Durable!Lost
<1>2. Len(s.trades) = 1 /\ s.trades[1].side = "LOST"
  BY <1>1
<1>3. s.trades[1] \in Fills
  BY <1>2, SessionFacts
<1> QED
  BY <1>2, <1>3 DEF Fills

(* The durable account changes when the metadata of a snapshot is written,  *)
(* and when a death leaves a session that no new process will find.         *)
LEMMA AccountStep ==
    ASSUME IInv, [Next]_vars
    PROVE  [Durable!Advance \/ Durable!Lose \/ Durable!Afresh]_(
               IF lost THEN [bars |-> {}, trades |-> <<[side |-> "LOST", bar |-> 0]>>]
               ELSE Account(sessFile.sha))
<1> DEFINE A == IF lost THEN [bars |-> {}, trades |-> <<[side |-> "LOST", bar |-> 0]>>]
                ELSE Account(sessFile.sha)
<1>0. /\ lost => A = Durable!Lost
      /\ ~lost => A = Account(sessFile.sha) /\ A # Durable!Lost
  BY Parts, NotLost DEF Durable!Lost
<1>1. CASE UNCHANGED <<lost, sessFile>>
  BY <1>1 DEF Account
<1>2. CASE Crash
  <2>1. CASE lost
    BY <1>2, <2>1 DEF Crash
  <2>2. CASE ~lost /\ lost'
    <3>1. A' = Durable!Lost
      BY <2>2 DEF Durable!Lost
    <3> QED
      BY <1>0, <2>2, <3>1 DEF Durable!Lose
  <2>3. CASE ~lost /\ ~lost'
    <3>1. \/ sessFile'.sha = sessFile.sha
          \/ pc = "session.meta" /\ sessFile'.sha = None
      BY <1>2 DEF Crash, Torn, IInv, TypeOK
    <3>2. sessFile'.sha = sessFile'.body
      BY <1>2, <2>3 DEF Crash, Found, Whole
    <3>3. pc = "session.meta" => sessFile.body # None
      BY DEF IInv, TypeOK, Ahead
    <3>4. pc = "session.meta" => sessFile'.body = sessFile.body
      BY <1>2 DEF Crash, Torn, IInv, TypeOK
    <3>5. sessFile'.sha = sessFile.sha
      BY <3>1, <3>2, <3>3, <3>4
    <3> QED
      BY <2>3, <3>5 DEF Account
  <2> QED
    BY <2>1, <2>2, <2>3
<1>3. CASE Write /\ pc = "session"
  <2>1. sessFile'.sha = sessFile.sha /\ lost' = lost
    BY <1>3 DEF Write, IInv, TypeOK
  <2> QED
    BY <2>1 DEF Account
<1>4. CASE Write /\ pc = "session.meta"
  <2>1. sessFile'.sha = session /\ ~lost' /\ session # None
    BY <1>4 DEF Write, IInv, TypeOK, Ahead
  <2>2. A' = Account(session)
    BY <2>1 DEF Account
  <2>3. CASE lost
    <3>1. Durable!GoesOn(Durable!Empty, Account(session))
      BY Parts, GoesOnFacts DEF IInv, Histories
    <3> QED
      BY <1>0, <2>2, <2>3, <3>1 DEF Durable!Afresh
  <2>4. CASE ~lost
    <3>1. Durable!GoesOn(Account(sessFile.sha), Account(session))
      BY <2>1, <2>4 DEF IInv, Ahead
    <3> QED
      BY <1>0, <2>2, <2>4, <3>1 DEF Durable!Advance
  <2> QED
    BY <2>3, <2>4
<1>5. \/ UNCHANGED <<lost, sessFile>>
      \/ Crash
      \/ Write /\ pc \in {"session", "session.meta"}
  <2>1. CASE UNCHANGED vars
    BY <2>1 DEF vars
  <2>2. CASE Write
    BY <2>2 DEF Write
  <2> QED
    BY <2>1, <2>2 DEF Next, Boot, Cycle, Candle, PollFails, Sync, Halt, Resume
<1> QED
  BY <1>1, <1>2, <1>3, <1>4, <1>5

(* The account on disk implements the restartable one: over any number of   *)
(* deaths it only goes on, and it is lost only to a torn checkpoint or to a *)
(* name under which no new process finds it.                                *)
THEOREM Restartable == Spec => AccountGoesOn
<1>1. Init => Durable!Start
  <2> SUFFICES ASSUME Init PROVE Durable!Start
    OBVIOUS
  <2>1. Account(sessFile.sha) = Durable!Empty /\ ~lost
    BY BlankFacts DEF Init, NoSession, Account, Durable!Empty
  <2> QED
    BY <2>1 DEF Durable!Start
<1> QED
  BY <1>1, AccountStep, Invariance, PTL DEF Spec, AccountGoesOn, Durable!AccountSpec
=============================================================================
