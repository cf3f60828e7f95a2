------------------------- MODULE UsageLogger_proofs -------------------------
(***************************************************************************)
(* Theorems about UsageLogger, for every number of callers, records and    *)
(* failures, every capacity of the channel and every size of the batch.    *)
(*                                                                         *)
(* A record that was logged is on its way to the table (in the channel,    *)
(* the batch or the table itself), or in its caller's hand, or lost.  On   *)
(* its way it keeps its place among the records of its caller: they stand  *)
(* in increasing order, so none stands there twice.                        *)
(***************************************************************************)
EXTENDS UsageLogger, SequenceTheorems, TLAPS

-----------------------------------------------------------------------------
(* Sequences of records and the order of one caller's records.             *)

\* x is an earlier record than y, if they are the same caller's.
Earlier(x, y) == x[1] = y[1] => x[2] < y[2]

Ordered(s) == \A i, j \in 1..Len(s) : i < j => Earlier(s[i], s[j])

\* Every record of S comes before every record of T of the same caller.
Before(S, T) == \A x \in S, y \in T : Earlier(x, y)

\* What a sequence of records holds is records.
LEMMA HeldRecords ==
  ASSUME NEW s \in Seq(Record)
  PROVE  In(s) \subseteq Record /\ (In(s) = {} <=> s = <<>>)
  BY DEF In

\* An empty sequence holds nothing.
LEMMA EmptyHolds == In(<<>>) = {} /\ Ordered(<<>>)
  BY DEF In, Ordered

\* A record that is appended is added to what the sequence holds.
LEMMA AppendHolds ==
  ASSUME NEW s \in Seq(Record), NEW r \in Record
  PROVE  /\ Append(s, r) \in Seq(Record)
         /\ Len(Append(s, r)) = Len(s) + 1
         /\ In(Append(s, r)) = In(s) \cup {r}
<1>1. /\ Append(s, r) \in Seq(Record) /\ Len(Append(s, r)) = Len(s) + 1
      /\ \A i \in 1..Len(s) : Append(s, r)[i] = s[i]
      /\ Append(s, r)[Len(s) + 1] = r
      /\ Len(s) \in Nat
  OBVIOUS
<1>2. 1..(Len(s) + 1) = 1..Len(s) \cup {Len(s) + 1}
  BY <1>1
<1> QED
  BY <1>1, <1>2 DEF In

\* A record may be appended if nothing the sequence holds comes after it.
LEMMA AppendOrdered ==
  ASSUME NEW s \in Seq(Record), NEW r \in Record, Ordered(s), Before(In(s), {r})
  PROVE  Ordered(Append(s, r))
<1>1. \A i, j \in 1..(Len(s) + 1) : i < j => Earlier(Append(s, r)[i], Append(s, r)[j])
  <2> TAKE i, j \in 1..(Len(s) + 1)
  <2> HAVE i < j
  <2>1. Append(s, r)[i] = s[i] /\ i \in 1..Len(s)
    OBVIOUS
  <2>2. CASE j = Len(s) + 1
    <3>1. Append(s, r)[j] = r /\ s[i] \in In(s)
      BY <2>1, <2>2 DEF In
    <3> QED
      BY <2>1, <3>1 DEF Before
  <2>3. CASE j # Len(s) + 1
    BY <2>1, <2>3 DEF Ordered
  <2> QED
    BY <2>2, <2>3
<1> QED
  BY <1>1, AppendHolds DEF Ordered

\* The first record of an ordered sequence comes before the others, and what is
\* left when it is taken is ordered.
LEMMA TailHolds ==
  ASSUME NEW s \in Seq(Record), s # <<>>
  PROVE  /\ Head(s) \in Record /\ Tail(s) \in Seq(Record)
         /\ Len(Tail(s)) = Len(s) - 1
         /\ In(s) = {Head(s)} \cup In(Tail(s))
         /\ Ordered(s) => Ordered(Tail(s)) /\ Before({Head(s)}, In(Tail(s)))
<1>1. /\ Head(s) = s[1] /\ Head(s) \in Record
      /\ Tail(s) \in Seq(Record) /\ Len(Tail(s)) = Len(s) - 1
      /\ \A i \in 1..Len(Tail(s)) : Tail(s)[i] = s[i + 1]
      /\ Len(s) \in Nat \ {0}
  OBVIOUS
<1>2. In(s) = {Head(s)} \cup In(Tail(s))
  <2>1. ASSUME NEW i \in 1..Len(s) PROVE s[i] \in {Head(s)} \cup In(Tail(s))
    <3>1. CASE i = 1
      BY <1>1, <3>1
    <3>2. CASE i # 1
      <4>1. i - 1 \in 1..Len(Tail(s)) /\ s[i] = Tail(s)[i - 1]
        BY <1>1, <3>2
      <4> QED
        BY <4>1 DEF In
    <3> QED
      BY <3>1, <3>2
  <2>2. ASSUME NEW i \in 1..Len(Tail(s)) PROVE Tail(s)[i] \in In(s)
    BY <1>1 DEF In
  <2>3. Head(s) \in In(s)
    BY <1>1 DEF In
  <2> QED
    BY <2>1, <2>2, <2>3 DEF In
<1>3. ASSUME Ordered(s) PROVE Ordered(Tail(s)) /\ Before({Head(s)}, In(Tail(s)))
  <2>1. ASSUME NEW i \in 1..Len(Tail(s)), NEW j \in 1..Len(Tail(s)), i < j
        PROVE  Earlier(Tail(s)[i], Tail(s)[j])
    <3>1. i + 1 \in 1..Len(s) /\ j + 1 \in 1..Len(s) /\ i + 1 < j + 1
      BY <1>1, <2>1
    <3> QED
      BY <1>1, <1>3, <3>1 DEF Ordered
  <2>2. ASSUME NEW i \in 1..Len(Tail(s)) PROVE Earlier(Head(s), Tail(s)[i])
    <3>1. i + 1 \in 1..Len(s) /\ 1 \in 1..Len(s) /\ 1 < i + 1
      BY <1>1
    <3> QED
      BY <1>1, <1>3, <3>1 DEF Ordered
  <2> QED
    BY <2>1, <2>2 DEF Ordered, Before, In
<1> QED
  BY <1>1, <1>2, <1>3

\* Two sequences in a row hold what both hold.
LEMMA ConcatHolds ==
  ASSUME NEW s \in Seq(Record), NEW t \in Seq(Record)
  PROVE  s \o t \in Seq(Record) /\ In(s \o t) = In(s) \cup In(t)
<1>1. /\ s \o t \in Seq(Record) /\ Len(s \o t) = Len(s) + Len(t)
      /\ Len(s) \in Nat /\ Len(t) \in Nat
      /\ \A i \in 1..Len(s) : (s \o t)[i] = s[i]
      /\ \A i \in 1..Len(t) : (s \o t)[Len(s) + i] = t[i]
  OBVIOUS
<1>2. ASSUME NEW i \in 1..Len(s \o t) PROVE (s \o t)[i] \in In(s) \cup In(t)
  <2>1. CASE i <= Len(s)
    BY <1>1, <2>1 DEF In
  <2>2. CASE ~(i <= Len(s))
    <3>1. i - Len(s) \in 1..Len(t) /\ (s \o t)[i] = t[i - Len(s)]
      BY <1>1, <2>2
    <3> QED
      BY <3>1 DEF In
  <2> QED
    BY <2>1, <2>2
<1>3. ASSUME NEW i \in 1..Len(s) PROVE s[i] \in In(s \o t)
  BY <1>1 DEF In
<1>4. ASSUME NEW i \in 1..Len(t) PROVE t[i] \in In(s \o t)
  <2>1. Len(s) + i \in 1..Len(s \o t)
    BY <1>1
  <2> QED
    BY <1>1, <2>1 DEF In
<1> QED
  BY <1>1, <1>2, <1>3, <1>4 DEF In

\* Two sequences in a row are ordered if both are and the first comes before the
\* second.
LEMMA ConcatOrdered ==
  ASSUME NEW s \in Seq(Record), NEW t \in Seq(Record),
         Ordered(s), Ordered(t), Before(In(s), In(t))
  PROVE  Ordered(s \o t)
<1>1. /\ Len(s \o t) = Len(s) + Len(t) /\ Len(s) \in Nat /\ Len(t) \in Nat
      /\ \A i \in 1..Len(s) : (s \o t)[i] = s[i]
      /\ \A i \in 1..Len(t) : (s \o t)[Len(s) + i] = t[i]
  OBVIOUS
<1>2. SUFFICES ASSUME NEW i \in 1..Len(s \o t), NEW j \in 1..Len(s \o t), i < j
               PROVE  Earlier((s \o t)[i], (s \o t)[j])
  BY DEF Ordered
<1>3. CASE j <= Len(s)
  BY <1>1, <1>2, <1>3 DEF Ordered
<1>4. CASE i <= Len(s) /\ ~(j <= Len(s))
  <2>1. j - Len(s) \in 1..Len(t) /\ (s \o t)[j] = t[j - Len(s)] /\ (s \o t)[i] = s[i]
    BY <1>1, <1>4
  <2>2. s[i] \in In(s) /\ t[j - Len(s)] \in In(t)
    BY <2>1, <1>4 DEF In
  <2> QED
    BY <2>1, <2>2 DEF Before
<1>5. CASE ~(i <= Len(s))
  <2>1. /\ i - Len(s) \in 1..Len(t) /\ (s \o t)[i] = t[i - Len(s)]
        /\ j - Len(s) \in 1..Len(t) /\ (s \o t)[j] = t[j - Len(s)]
        /\ i - Len(s) < j - Len(s)
    BY <1>1, <1>2, <1>5
  <2> QED
    BY <2>1 DEF Ordered
<1> QED
  BY <1>1, <1>2, <1>3, <1>4, <1>5

\* An ordered sequence holds no record twice.
LEMMA OrderedNoRepeats ==
  ASSUME NEW s \in Seq(Record), Ordered(s)
  PROVE  NoRepeats(s)
<1>1. SUFFICES ASSUME NEW i \in 1..Len(s), NEW j \in 1..Len(s), i < j, s[i] = s[j]
               PROVE  FALSE
  BY DEF NoRepeats
<1>2. Earlier(s[i], s[j])
  BY <1>1 DEF Ordered
<1>3. s[i] \in Record /\ s[j][2] = s[i][2] /\ s[i][2] \in Int
  BY <1>1, LoggerAssumption DEF Record
<1> QED
  BY <1>1, <1>2, <1>3 DEF Earlier

-----------------------------------------------------------------------------
(* The inductive invariant.                                                *)

\* The records that have left their caller's hand.
LeftHands == {r \in Record : /\ r[2] <= issued[r[1]]
                             /\ caller[r[1]] # "idle" => r[2] < issued[r[1]]}

UnderWay == In(db) \cup In(batch) \cup In(ch)

\* The way to the table, from its end: every part is ordered, and so are the
\* parts among each other.
InOrder ==
  /\ Ordered(db) /\ Ordered(batch) /\ Ordered(ch)
  /\ Before(In(db), In(batch)) /\ Before(In(db) \cup In(batch), In(ch))

\* A record that has left its caller's hand is under way or lost in one way.
Accounted ==
  /\ LeftHands = UnderWay \cup displaced \cup refused \cup failed
  /\ UnderWay \cap (displaced \cup refused \cup failed) = {}
  /\ displaced \cap refused = {} /\ displaced \cap failed = {} /\ refused \cap failed = {}
  /\ \A c \in Callers : caller[c] # "idle" => issued[c] > 0

\* A full batch is being inserted, and an insert has something to insert.
BatchFits ==
  /\ runner # "insert" => Len(batch) < BatchSize
  /\ runner = "insert" => batch # <<>>
  /\ runner = "done" => batch = <<>>

\* Before the stop the goroutine is in its loop; what was held at the stop was
\* under way, and has left the channel when the drain is over.
Stopping ==
  /\ ~stopped => runner \in {"select", "insert"} /\ resume = "select" /\ atStop = {}
  /\ atStop \subseteq UnderWay \cup displaced \cup refused \cup failed
  /\ runner = "done" \/ (runner = "insert" /\ resume = "done") => atStop \cap In(ch) = {}

IInv == TypeOK /\ InOrder /\ Accounted /\ BatchFits /\ Stopping

\* An insert that fails, whether or not it is counted as one of the failures.
BatchLost == InsertFails /\ failures' \in 0..MaxFailures

RunnerStep ==
  \/ Receive("select") \/ Tick \/ SeeStop
  \/ Receive("drain") \/ Leave
  \/ Insert \/ BatchLost
  \/ TickFires
  \/ Shutdown

\* What a record's parts are.
LEMMA RecordParts ==
  /\ \A r \in Record : r[1] \in Callers /\ r[2] \in 1..MaxRecords /\ r = <<r[1], r[2]>>
  /\ MaxRecords \in Nat
  /\ \A c \in Callers, k \in 1..MaxRecords :
       <<c, k>> \in Record /\ <<c, k>>[1] = c /\ <<c, k>>[2] = k
  BY LoggerAssumption DEF Record

\* The record in a caller's hand.
LEMMA InTheHand ==
  ASSUME TypeOK, Accounted, NEW c \in Callers, caller[c] # "idle"
  PROVE  /\ Current(c) \in Record /\ Current(c) = <<c, issued[c]>>
         /\ Current(c)[1] = c /\ Current(c)[2] = issued[c]
         /\ Current(c) \notin LeftHands
<1>1. issued[c] \in 1..MaxRecords
  BY RecordParts DEF TypeOK, Accounted
<1> QED
  BY <1>1, RecordParts DEF Current, LeftHands

\* The initial state satisfies the invariant.
LEMMA InitHolds == LoggerInit => IInv
<1> SUFFICES ASSUME LoggerInit PROVE IInv
  OBVIOUS
<1> USE DEF LoggerInit
<1>1. TypeOK
  <2>1. <<>> \in Seq(Record) /\ Len(<<>>) = 0 /\ 0 <= BufferSize /\ 0 <= BatchSize
    BY LoggerAssumption
  <2>2. 0 \in 0..MaxRecords /\ 0 \in 0..MaxFailures
    BY LoggerAssumption
  <2>3. ch \in Seq(Record) /\ Len(ch) <= BufferSize /\ batch \in Seq(Record) /\ Len(batch) <= BatchSize
    BY <2>1
  <2> QED
    BY <2>1, <2>2, <2>3 DEF TypeOK
<1>2. InOrder
  BY EmptyHolds DEF InOrder, Before
<1>3. Accounted
  <2>1. LeftHands = {}
    BY RecordParts DEF LeftHands
  <2> QED
    BY <2>1, EmptyHolds DEF Accounted, UnderWay
<1>4. BatchFits
  BY LoggerAssumption DEF BatchFits
<1>5. Stopping
  BY DEF Stopping
<1> QED
  BY <1>1, <1>2, <1>3, <1>4, <1>5 DEF IInv

-----------------------------------------------------------------------------
(* Types.                                                                  *)

\* The steps of Log keep the types and leave the batch alone.
LEMMA LogTypes ==
  ASSUME IInv, NEW c \in Callers, LogStep(c)
  PROVE  TypeOK' /\ BatchFits'
<1> USE DEF IInv, TypeOK
<1>0. BatchFits'
  BY DEF LogStep, Enqueue, FindFull, Displace, Requeue, GiveUp, runVars, BatchFits
<1>1. CASE Enqueue(c)
  <2>1. Current(c)' \in Record
    <3>1. Current(c)' = <<c, issued[c] + 1>> /\ issued[c] + 1 \in 1..MaxRecords
      BY <1>1, RecordParts DEF Enqueue, Issue, Current
    <3> QED
      BY <3>1, RecordParts
  <2>2. ch' \in Seq(Record) /\ Len(ch') <= BufferSize
    BY <1>1, <2>1, AppendHolds, LoggerAssumption DEF Enqueue, HasRoom
  <2>3. issued' \in [Callers -> 0..MaxRecords]
    BY <1>1, LoggerAssumption DEF Enqueue, Issue
  <2> QED
    BY <1>0, <1>1, <2>2, <2>3 DEF Enqueue, runVars, dbVars, stopVars
<1>2. CASE FindFull(c)
  <2>1. issued' \in [Callers -> 0..MaxRecords] /\ caller' \in [Callers -> {"idle", "full", "freed"}]
    BY <1>2, LoggerAssumption DEF FindFull, Issue
  <2> QED
    BY <1>0, <1>2, <2>1 DEF FindFull, runVars, dbVars, stopVars
<1>3. CASE Displace(c)
  <2>1. ch' \in Seq(Record) /\ Len(ch') <= BufferSize /\ displaced' \subseteq Record
    BY <1>3, TailHolds, LoggerAssumption DEF Displace
  <2> QED
    BY <1>0, <1>3, <2>1 DEF Displace, runVars, dbVars, stopVars
<1>4. CASE Requeue(c)
  <2>1. Current(c) \in Record
    BY <1>4, InTheHand DEF Requeue
  <2>2. ch' \in Seq(Record) /\ Len(ch') <= BufferSize
    BY <1>4, <2>1, AppendHolds, LoggerAssumption DEF Requeue, HasRoom
  <2> QED
    BY <1>0, <1>4, <2>2 DEF Requeue, runVars, dbVars, stopVars
<1>5. CASE GiveUp(c)
  <2>1. Current(c) \in Record
    BY <1>5, InTheHand DEF GiveUp
  <2> QED
    BY <1>0, <1>5, <2>1 DEF GiveUp, runVars, dbVars, stopVars
<1> QED
  BY <1>1, <1>2, <1>3, <1>4, <1>5 DEF LogStep

\* The steps of the goroutine, of the ticker and of Shutdown keep the types.
LEMMA RunnerTypes ==
  ASSUME IInv, RunnerStep
  PROVE  TypeOK' /\ BatchFits'
<1> USE DEF IInv, TypeOK
<1>1. ASSUME NEW here \in {"select", "drain"}, Receive(here)
      PROVE  TypeOK' /\ BatchFits'
  <2> USE <1>1 DEF Receive
  <2>1. /\ ch # <<>> /\ batch' = Append(batch, Head(ch)) /\ ch' = Tail(ch)
        /\ Head(ch) \in Record /\ ch' \in Seq(Record) /\ Len(ch') = Len(ch) - 1
    BY TailHolds DEF Appended
  <2>2. batch' \in Seq(Record) /\ Len(batch') = Len(batch) + 1 /\ batch' # <<>>
    <3>1. Append(batch, Head(ch)) \in Seq(Record) /\ Len(Append(batch, Head(ch))) = Len(batch) + 1
          /\ In(Append(batch, Head(ch))) = In(batch) \cup {Head(ch)}
      BY <2>1, AppendHolds
    <3>2. batch' \in Seq(Record) /\ Len(batch') = Len(batch) + 1 /\ In(batch') # {}
      BY <2>1, <3>1
    <3> QED
      BY <3>2, EmptyHolds
  <2>3. Len(batch) < BatchSize
    BY DEF BatchFits
  <2>4. Len(batch') <= BatchSize /\ Len(ch') <= BufferSize
    BY <2>1, <2>2, <2>3, LoggerAssumption
  <2>5. CASE Len(batch') >= BatchSize
    <3>1. runner' = "insert" /\ resume' = here
      BY <2>2, <2>5 DEF Flush
    <3> QED
      BY <2>1, <2>2, <2>4, <3>1 DEF dbVars, stopVars, BatchFits
  <2>6. CASE ~(Len(batch') >= BatchSize)
    <3>1. Len(batch') < BatchSize /\ runner' = here /\ resume' = resume
      BY <2>2, <2>6, LoggerAssumption
    <3> QED
      BY <2>1, <2>2, <2>4, <3>1 DEF dbVars, stopVars, BatchFits
  <2> QED
    BY <2>5, <2>6
<1>2. CASE Tick
  BY <1>2 DEF Tick, Flush, logVars, dbVars, stopVars, BatchFits
<1>3. CASE SeeStop
  BY <1>3 DEF SeeStop, Flush, AfterStop, logVars, dbVars, stopVars, BatchFits
<1>4. CASE Leave
  BY <1>4 DEF Leave, Flush, logVars, dbVars, stopVars, BatchFits
<1>5. CASE Insert
  <2>1. db' \in Seq(Record) /\ batch' = <<>> /\ Len(batch') = 0
    BY <1>5, ConcatHolds DEF Insert, Reset
  <2> QED
    BY <1>5, <2>1, LoggerAssumption DEF Insert, logVars, stopVars, BatchFits
<1>6. CASE BatchLost
  <2>1. db' \in Seq(Record) /\ batch' = <<>> /\ Len(batch') = 0 /\ failed' \subseteq Record
    BY <1>6, ConcatHolds, HeldRecords DEF BatchLost, InsertFails, Reset, RowsKept
  <2> QED
    BY <1>6, <2>1, LoggerAssumption
       DEF BatchLost, InsertFails, logVars, stopVars, BatchFits
<1>7. CASE TickFires
  BY <1>7 DEF TickFires, logVars, dbVars, stopVars, BatchFits
<1>8. CASE Shutdown
  <2>1. atStop' \subseteq Record
    BY <1>8, HeldRecords DEF Shutdown
  <2> QED
    BY <1>8, <2>1 DEF Shutdown, logVars, runVars, dbVars, BatchFits
<1> QED
  BY <1>1, <1>2, <1>3, <1>4, <1>5, <1>6, <1>7, <1>8 DEF RunnerStep

-----------------------------------------------------------------------------
(* Where the records are.                                                  *)

\* A record that has not left its caller's hand comes after all that have.
LEMMA HandComesLast ==
  ASSUME TypeOK, Accounted, NEW r \in Record, r \notin LeftHands, r[2] <= issued[r[1]] + 1,
         caller[r[1]] # "idle" => r[2] <= issued[r[1]]
  PROVE  Before(UnderWay, {r}) /\ r \notin UnderWay \cup displaced \cup refused \cup failed
<1>1. ASSUME NEW x \in UnderWay, x[1] = r[1] PROVE x[2] < r[2]
  <2>1. x \in LeftHands /\ x \in Record
    BY DEF Accounted, LeftHands
  <2>2. x[2] \in Int /\ r[2] \in Int /\ issued[r[1]] \in Int
    BY <2>1, RecordParts DEF TypeOK
  <2> QED
    BY <1>1, <2>1, <2>2 DEF LeftHands
<1> QED
  BY <1>1 DEF Before, Earlier, Accounted

\* A record that leaves its caller's hand for the channel.
LEMMA Sent ==
  ASSUME IInv, NEW r \in Record, r \notin UnderWay \cup displaced \cup refused \cup failed,
         Before(UnderWay, {r}), ch' = Append(ch, r),
         LeftHands' = LeftHands \cup {r},
         \A c \in Callers : caller'[c] # "idle" => issued'[c] > 0,
         UNCHANGED <<db, batch, displaced, refused, failed>>
  PROVE  InOrder' /\ Accounted' /\ UnderWay' = UnderWay \cup {r} /\ In(ch)' = In(ch) \cup {r}
<1>1. In(ch)' = In(ch) \cup {r} /\ Ordered(ch)'
  <2>1. Before(In(ch), {r}) /\ Ordered(ch) /\ ch \in Seq(Record)
    BY DEF IInv, InOrder, UnderWay, Before, TypeOK
  <2> QED
    BY <2>1, AppendHolds, AppendOrdered
<1>2. UnderWay' = UnderWay \cup {r}
  BY <1>1 DEF UnderWay
<1>3. Before((In(db) \cup In(batch))', In(ch)')
  BY <1>1 DEF IInv, InOrder, UnderWay, Before
<1>4. InOrder'
  BY <1>1, <1>3 DEF IInv, InOrder
<1>5. Accounted'
  BY <1>2 DEF IInv, Accounted
<1> QED
  BY <1>1, <1>2, <1>4, <1>5

\* The steps of Log keep the records in order and accounted for.
LEMMA LogRecords ==
  ASSUME IInv, NEW c \in Callers, LogStep(c)
  PROVE  InOrder' /\ Accounted' /\ Stopping'
<1> USE DEF IInv
<1>t. issued[c] \in 0..MaxRecords /\ MaxRecords \in Nat
  BY LoggerAssumption DEF TypeOK
<1>1. CASE Enqueue(c)
  <2> DEFINE r == <<c, issued[c] + 1>>
  <2>1. /\ caller[c] = "idle" /\ issued' = [issued EXCEPT ![c] = issued[c] + 1]
        /\ caller' = caller /\ ch' = Append(ch, Current(c)')
        /\ UNCHANGED <<displaced, refused, runVars, dbVars, stopVars>>
        /\ issued[c] < MaxRecords
    BY <1>1 DEF Enqueue, Issue
  <2>2. Current(c)' = r /\ r \in Record /\ r[1] = c /\ r[2] = issued[c] + 1
    <3>1. issued'[c] = issued[c] + 1
      BY <2>1 DEF TypeOK
    <3>2. issued[c] + 1 \in 1..MaxRecords
      BY <1>t, <2>1
    <3> QED
      BY <3>1, <3>2, RecordParts DEF Current
  <2>3. r \notin LeftHands
    BY <1>t, <2>2 DEF LeftHands
  <2>4. LeftHands' = LeftHands \cup {r}
    <3>1. ASSUME NEW x \in Record
          PROVE  x \in LeftHands' <=> x \in LeftHands \/ x = r
      <4>1. x[1] \in Callers /\ x[2] \in Int /\ x = <<x[1], x[2]>> /\ issued[x[1]] \in Int
        BY RecordParts DEF TypeOK
      <4>2. CASE x[1] = c
        <5>1. x \in LeftHands' <=> x[2] <= issued[c] + 1
          BY <2>1, <4>1, <4>2 DEF LeftHands, TypeOK
        <5>2. x \in LeftHands <=> x[2] <= issued[c]
          BY <2>1, <4>1, <4>2 DEF LeftHands
        <5>3. x = r <=> x[2] = issued[c] + 1
          BY <4>1, <4>2, <2>2
        <5> QED
          BY <1>t, <4>1, <5>1, <5>2, <5>3
      <4>3. CASE x[1] # c
        BY <2>1, <2>2, <4>1, <4>3 DEF LeftHands, TypeOK
      <4> QED
        BY <4>2, <4>3
    <3> QED
      BY <3>1, <2>2 DEF LeftHands
  <2>5. \A d \in Callers : caller'[d] # "idle" => issued'[d] > 0
    BY <1>t, <2>1 DEF Accounted, TypeOK
  <2> HIDE DEF r
  <2>6. Before(UnderWay, {r}) /\ r \notin UnderWay \cup displaced \cup refused \cup failed
    <3>1. r[2] <= issued[r[1]] + 1 /\ (caller[r[1]] # "idle" => r[2] <= issued[r[1]])
      BY <1>t, <2>1, <2>2
    <3> QED
      BY <2>2, <2>3, <3>1, HandComesLast
  <2>7. InOrder' /\ Accounted' /\ UnderWay' = UnderWay \cup {r} /\ In(ch)' = In(ch) \cup {r}
    BY <2>1, <2>2, <2>4, <2>5, <2>6, Sent DEF runVars, dbVars
  <2>8. Stopping'
    BY <2>1, <2>6, <2>7 DEF Stopping, runVars, dbVars, stopVars
  <2> QED
    BY <2>7, <2>8
<1>2. CASE FindFull(c)
  <2>1. /\ issued' = [issued EXCEPT ![c] = issued[c] + 1]
        /\ caller' = [caller EXCEPT ![c] = "full"] /\ caller[c] = "idle"
        /\ UNCHANGED <<ch, displaced, refused, runVars, dbVars, stopVars>>
    BY <1>2 DEF FindFull, Issue
  <2>2. LeftHands' = LeftHands
    <3>1. ASSUME NEW x \in Record
          PROVE  x \in LeftHands' <=> x \in LeftHands
      <4>1. x[1] \in Callers /\ x[2] \in Int /\ issued[x[1]] \in Int
        BY RecordParts DEF TypeOK
      <4> QED
        BY <2>1, <4>1 DEF LeftHands, TypeOK
    <3> QED
      BY <3>1 DEF LeftHands
  <2>3. UnderWay' = UnderWay /\ InOrder'
    BY <2>1 DEF UnderWay, InOrder, runVars, dbVars
  <2>4. \A d \in Callers : caller'[d] # "idle" => issued'[d] > 0
    BY <1>t, <2>1 DEF Accounted, TypeOK
  <2>5. Accounted'
    BY <2>1, <2>2, <2>3, <2>4 DEF Accounted, dbVars
  <2>6. Stopping'
    BY <2>1, <2>3 DEF Stopping, runVars, dbVars, stopVars
  <2> QED
    BY <2>3, <2>5, <2>6
<1>3. CASE Displace(c)
  <2>1. /\ caller' = [caller EXCEPT ![c] = "freed"] /\ caller[c] = "full" /\ ch # <<>>
        /\ ch' = Tail(ch) /\ displaced' = displaced \cup {Head(ch)}
        /\ UNCHANGED <<issued, refused, runVars, dbVars, stopVars>>
    BY <1>3 DEF Displace
  <2>2. /\ In(ch) = {Head(ch)} \cup In(ch)' /\ Ordered(ch)' /\ Before({Head(ch)}, In(ch)')
        /\ Head(ch) \in Record
    BY <2>1, TailHolds DEF TypeOK, InOrder
  <2>3. Head(ch) \notin In(ch)'
    BY <2>2, RecordParts DEF Before, Earlier
  <2>4. Head(ch) \notin In(db) \cup In(batch)
    BY <2>2, RecordParts DEF InOrder, Before, Earlier
  <2>5. UnderWay' = UnderWay \ {Head(ch)} /\ Head(ch) \in UnderWay
    BY <2>1, <2>2, <2>3, <2>4 DEF UnderWay, runVars, dbVars
  <2>6. InOrder'
    BY <2>1, <2>2 DEF InOrder, Before, runVars, dbVars
  <2>7. LeftHands' = LeftHands
    BY <2>1, RecordParts DEF LeftHands, TypeOK
  <2>8. \A d \in Callers : caller'[d] # "idle" => issued'[d] > 0
    BY <2>1 DEF Accounted, TypeOK
  <2>9. Accounted'
    BY <2>1, <2>5, <2>7, <2>8 DEF Accounted, dbVars
  <2>10. Stopping'
    BY <2>1, <2>2, <2>5 DEF Stopping, runVars, dbVars, stopVars
  <2> QED
    BY <2>6, <2>9, <2>10
<1>4. CASE Requeue(c)
  <2>1. /\ caller' = [caller EXCEPT ![c] = "idle"] /\ caller[c] = "freed"
        /\ ch' = Append(ch, Current(c))
        /\ UNCHANGED <<issued, displaced, refused, runVars, dbVars, stopVars>>
    BY <1>4 DEF Requeue
  <2>2. /\ Current(c) \in Record /\ Current(c)[1] = c /\ Current(c)[2] = issued[c]
        /\ Current(c) = <<c, issued[c]>> /\ Current(c) \notin LeftHands
    BY <2>1, InTheHand
  <2>3. LeftHands' = LeftHands \cup {Current(c)}
    <3>1. ASSUME NEW x \in Record
          PROVE  x \in LeftHands' <=> x \in LeftHands \/ x = Current(c)
      <4>1. x[1] \in Callers /\ x[2] \in Int /\ x = <<x[1], x[2]>> /\ issued[x[1]] \in Int
        BY RecordParts DEF TypeOK
      <4> QED
        BY <2>1, <2>2, <4>1 DEF LeftHands, TypeOK
    <3> QED
      BY <3>1, <2>2 DEF LeftHands
  <2>4. \A d \in Callers : caller'[d] # "idle" => issued'[d] > 0
    BY <2>1 DEF Accounted, TypeOK
  <2>5. /\ Before(UnderWay, {Current(c)})
        /\ Current(c) \notin UnderWay \cup displaced \cup refused \cup failed
    BY <1>t, <2>2, HandComesLast
  <2>6. /\ InOrder' /\ Accounted' /\ UnderWay' = UnderWay \cup {Current(c)}
        /\ In(ch)' = In(ch) \cup {Current(c)}
    BY <2>1, <2>2, <2>3, <2>4, <2>5, Sent DEF runVars, dbVars
  <2>7. Stopping'
    BY <2>1, <2>5, <2>6 DEF Stopping, runVars, dbVars, stopVars
  <2> QED
    BY <2>6, <2>7
<1>5. CASE GiveUp(c)
  <2>1. /\ caller' = [caller EXCEPT ![c] = "idle"] /\ caller[c] # "idle"
        /\ refused' = refused \cup {Current(c)}
        /\ UNCHANGED <<ch, issued, displaced, runVars, dbVars, stopVars>>
    BY <1>5 DEF GiveUp
  <2>2. /\ Current(c) \in Record /\ Current(c)[1] = c /\ Current(c)[2] = issued[c]
        /\ Current(c) = <<c, issued[c]>> /\ Current(c) \notin LeftHands
    BY <2>1, InTheHand
  <2>3. LeftHands' = LeftHands \cup {Current(c)}
    <3>1. ASSUME NEW x \in Record
          PROVE  x \in LeftHands' <=> x \in LeftHands \/ x = Current(c)
      <4>1. x[1] \in Callers /\ x[2] \in Int /\ x = <<x[1], x[2]>> /\ issued[x[1]] \in Int
        BY RecordParts DEF TypeOK
      <4> QED
        BY <2>1, <2>2, <4>1 DEF LeftHands, TypeOK
    <3> QED
      BY <3>1, <2>2 DEF LeftHands
  <2>4. \A d \in Callers : caller'[d] # "idle" => issued'[d] > 0
    BY <2>1 DEF Accounted, TypeOK
  <2>5. UnderWay' = UnderWay /\ InOrder'
    BY <2>1 DEF UnderWay, InOrder, runVars, dbVars
  <2>6. Accounted'
    BY <2>1, <2>2, <2>3, <2>4, <2>5 DEF Accounted, dbVars
  <2>7. Stopping'
    BY <2>1, <2>5 DEF Stopping, runVars, dbVars, stopVars
  <2> QED
    BY <2>5, <2>6, <2>7
<1> QED
  BY <1>1, <1>2, <1>3, <1>4, <1>5 DEF LogStep

\* What the goroutine receives goes from the front of the channel to the end of
\* the batch.
LEMMA ReceiveRecords ==
  ASSUME IInv, NEW here \in {"select", "drain"}, Receive(here),
         here = "drain" => stopped
  PROVE  InOrder' /\ UnderWay' = UnderWay /\ Stopping'
<1> USE DEF IInv
<1>1. /\ ch # <<>> /\ batch' = Append(batch, Head(ch)) /\ ch' = Tail(ch)
      /\ UNCHANGED <<db, displaced, refused, failed, stopped, atStop>>
      /\ runner = here
  BY DEF Receive, Appended, dbVars, stopVars
<1>2. /\ In(ch) = {Head(ch)} \cup In(ch)' /\ Ordered(ch)' /\ Before({Head(ch)}, In(ch)')
      /\ Head(ch) \in Record
  BY <1>1, TailHolds DEF TypeOK, InOrder
<1>3. In(batch)' = In(batch) \cup {Head(ch)} /\ batch' # <<>>
  <2>1. In(batch)' = In(batch) \cup {Head(ch)}
    BY <1>1, <1>2, AppendHolds DEF TypeOK
  <2> QED
    BY <2>1, EmptyHolds
<1>4. Ordered(batch)'
  <2>1. Before(In(batch), {Head(ch)}) /\ Ordered(batch) /\ batch \in Seq(Record)
    BY <1>2 DEF InOrder, Before, TypeOK
  <2> QED
    BY <1>1, <1>2, <2>1, AppendOrdered
<1>5. Before(In(db), In(batch))' /\ Before(In(db) \cup In(batch), In(ch))'
  BY <1>1, <1>2, <1>3 DEF InOrder, Before
<1>6. InOrder'
  BY <1>1, <1>2, <1>4, <1>5 DEF InOrder
<1>7. UnderWay' = UnderWay
  BY <1>1, <1>2, <1>3 DEF UnderWay
<1>8. \/ runner' = "insert" /\ resume' = here
      \/ runner' = here /\ resume' = resume
  BY <1>1, <1>3 DEF Receive, Flush
<1>9. Stopping'
  BY <1>1, <1>7, <1>8 DEF Stopping
<1> QED
  BY <1>6, <1>7, <1>9

\* The steps of the goroutine, of the ticker and of Shutdown keep the records in
\* order and accounted for.
LEMMA RunnerRecords ==
  ASSUME IInv, RunnerStep
  PROVE  InOrder' /\ Accounted' /\ Stopping'
<1> USE DEF IInv
<1>1. UNCHANGED <<issued, caller, displaced, refused>>
  BY DEF RunnerStep, Receive, Tick, SeeStop, Leave, Insert, BatchLost, InsertFails,
         TickFires, Shutdown, logVars
<1>2. LeftHands' = LeftHands /\ \A c \in Callers : caller'[c] # "idle" => issued'[c] > 0
  BY <1>1 DEF LeftHands, Accounted
<1>3. ASSUME InOrder', UnderWay' = UnderWay, failed' = failed PROVE Accounted'
  BY <1>1, <1>2, <1>3 DEF Accounted
<1>4. ASSUME UNCHANGED <<ch, batch, db>> PROVE InOrder' /\ UnderWay' = UnderWay
  BY <1>4 DEF InOrder, UnderWay
<1>5. CASE Receive("select")
  <2>1. failed' = failed
    BY <1>5 DEF Receive, dbVars
  <2> QED
    BY <1>3, <1>5, <2>1, ReceiveRecords
<1>6. CASE Receive("drain")
  <2>1. failed' = failed
    BY <1>6 DEF Receive, dbVars
  <2>2. stopped
    BY <1>6 DEF Receive, Stopping
  <2> QED
    BY <1>3, <1>6, <2>1, <2>2, ReceiveRecords
<1>7. CASE Tick \/ SeeStop \/ Leave \/ TickFires
  <2>1. UNCHANGED <<ch, batch, db, displaced, refused, failed, stopped, atStop>>
    BY <1>7 DEF Tick, SeeStop, Leave, TickFires, logVars, dbVars, stopVars
  <2>2. InOrder' /\ UnderWay' = UnderWay /\ Accounted'
    BY <1>3, <1>4, <2>1
  <2>3. Stopping'
    <3>1. CASE Tick
      BY <2>1, <2>2, <3>1 DEF Tick, Flush, Stopping
    <3>2. CASE SeeStop
      BY <2>1, <2>2, <3>2 DEF SeeStop, Flush, AfterStop, Stopping
    <3>3. CASE Leave
      <4>1. In(ch)' = {} /\ stopped'
        BY <2>1, <3>3, EmptyHolds DEF Leave, Stopping
      <4> QED
        BY <2>1, <2>2, <4>1 DEF Stopping
    <3>4. CASE TickFires
      BY <2>1, <2>2, <3>4 DEF TickFires, Stopping
    <3> QED
      BY <1>7, <3>1, <3>2, <3>3, <3>4
  <2> QED
    BY <2>2, <2>3
<1>8. CASE Insert
  <2>1. /\ db' = db \o batch /\ batch' = <<>> /\ runner = "insert" /\ runner' = resume
        /\ UNCHANGED <<ch, resume, failed, stopped, atStop>>
    BY <1>8 DEF Insert, Reset, logVars, stopVars
  <2>2. In(db)' = In(db) \cup In(batch) /\ In(batch)' = {} /\ Ordered(batch)'
    BY <2>1, ConcatHolds, EmptyHolds DEF TypeOK
  <2>3. Ordered(db)'
    BY <2>1, ConcatOrdered DEF TypeOK, InOrder
  <2>4. InOrder'
    BY <2>1, <2>2, <2>3 DEF InOrder, Before
  <2>5. UnderWay' = UnderWay
    BY <2>1, <2>2 DEF UnderWay
  <2>6. Stopping'
    BY <1>1, <2>1, <2>5 DEF Stopping, TypeOK
  <2> QED
    BY <1>3, <2>1, <2>4, <2>5, <2>6
<1>9. CASE BatchLost
  <2>1. /\ db' = db /\ batch' = <<>> /\ runner = "insert" /\ runner' = resume
        /\ failed' = failed \cup In(batch)
        /\ UNCHANGED <<ch, resume, stopped, atStop>>
    <3>1. db \o <<>> = db
      BY DEF TypeOK
    <3> QED
      BY <1>9, <3>1 DEF BatchLost, InsertFails, Reset, RowsKept, logVars, stopVars
  <2>2. In(batch)' = {} /\ Ordered(batch)'
    BY <2>1, EmptyHolds
  <2>3. InOrder'
    BY <2>1, <2>2 DEF InOrder, Before
  <2>4. In(batch) \cap (In(db) \cup In(ch)) = {}
    <3>1. In(batch) \subseteq Record
      BY HeldRecords DEF TypeOK
    <3> QED
      BY <3>1, RecordParts DEF InOrder, Before, Earlier
  <2>5. UnderWay' = UnderWay \ In(batch) /\ In(batch) \subseteq UnderWay
    BY <2>1, <2>2, <2>4 DEF UnderWay
  <2>6. Accounted'
    BY <1>1, <1>2, <2>1, <2>5 DEF Accounted
  <2>7. Stopping'
    BY <1>1, <2>1, <2>5 DEF Stopping, TypeOK
  <2> QED
    BY <2>3, <2>6, <2>7
<1>10. CASE Shutdown
  <2>1. /\ UNCHANGED <<ch, batch, db, failed, runner, resume>>
        /\ ~stopped /\ stopped' /\ atStop' = In(ch) \cup In(batch)
    BY <1>10 DEF Shutdown, logVars, runVars, dbVars
  <2>2. InOrder' /\ UnderWay' = UnderWay /\ Accounted'
    BY <1>3, <1>4, <2>1
  <2>3. Stopping'
    BY <2>1, <2>2 DEF Stopping, UnderWay
  <2> QED
    BY <2>2, <2>3
<1> QED
  BY <1>5, <1>6, <1>7, <1>8, <1>9, <1>10 DEF RunnerStep

\* Every step of the specification is one of Log or one of those above.
LEMMA StepsAreLogOrRunner ==
  ASSUME TypeOK, Next
  PROVE  (\E c \in Callers : LogStep(c)) \/ RunnerStep
<1>1. ASSUME SomeInsertFails PROVE BatchLost
  BY <1>1, LoggerAssumption DEF SomeInsertFails, BatchLost, TypeOK
<1> QED
  BY <1>1 DEF Next, RunnerStep

\* A step that leaves the logger alone keeps the invariant.
LEMMA LoggerAlone ==
  ASSUME IInv, UNCHANGED loggerVars
  PROVE  IInv'
  BY DEF loggerVars, logVars, runVars, dbVars, stopVars, IInv, TypeOK, InOrder,
         Accounted, BatchFits, Stopping, LeftHands, UnderWay

\* A step of the logger keeps the invariant.
LEMMA LoggerStepKeeps ==
  ASSUME IInv, (\E c \in Callers : LogStep(c)) \/ RunnerStep
  PROVE  IInv'
<1>1. ASSUME NEW c \in Callers, LogStep(c) PROVE IInv'
  BY <1>1, LogTypes, LogRecords DEF IInv
<1>2. CASE RunnerStep
  BY <1>2, RunnerTypes, RunnerRecords DEF IInv
<1> QED
  BY <1>1, <1>2

\* IInv is inductive.
LEMMA Invariance == Spec => []IInv
<1>1. LoggerInit => IInv
  BY InitHolds
<1>2. IInv /\ [Next]_loggerVars => IInv'
  <2>1. IInv /\ Next => IInv'
    BY StepsAreLogOrRunner, LoggerStepKeeps DEF IInv
  <2>2. IInv /\ UNCHANGED loggerVars => IInv'
    BY LoggerAlone
  <2> QED
    BY <2>1, <2>2
<1> QED
  BY <1>1, <1>2, PTL DEF Spec

-----------------------------------------------------------------------------
(* The properties.                                                         *)

\* The channel and the batch keep their capacities, and every variable its type.
THEOREM TypesHold == Spec => []TypeOK
<1>1. IInv => TypeOK
  BY DEF IInv
<1> QED
  BY <1>1, Invariance, PTL

\* One caller's records stand in the table, the batch and the channel in the
\* order it logged them.
THEOREM OrderHolds == Spec => []CallerOrderKept
<1>1. IInv => CallerOrderKept
  <2> SUFFICES ASSUME IInv PROVE CallerOrderKept
    OBVIOUS
  <2>1. /\ db \in Seq(Record) /\ batch \in Seq(Record) /\ ch \in Seq(Record)
        /\ Ordered(db) /\ Ordered(batch) /\ Ordered(ch)
        /\ Before(In(db), In(batch)) /\ Before(In(db) \cup In(batch), In(ch))
    BY DEF IInv, InOrder, TypeOK
  <2> DEFINE front == db \o batch
  <2>2. front \in Seq(Record) /\ Ordered(front) /\ In(front) = In(db) \cup In(batch)
    BY <2>1, ConcatHolds, ConcatOrdered
  <2>3. Ordered(front \o ch)
    <3> HIDE DEF front
    <3> QED
      BY <2>1, <2>2, ConcatOrdered
  <2> QED
    BY <2>3 DEF CallerOrderKept, Ordered, Earlier
<1> QED
  BY <1>1, Invariance, PTL

\* A logger in a state of the invariant has every record in exactly one place.
LEMMA OnceInOnePlace ==
  ASSUME IInv
  PROVE  EveryRecordOnce
<1>1. NoRepeats(ch) /\ NoRepeats(batch) /\ NoRepeats(db)
  BY OrderedNoRepeats DEF IInv, InOrder, TypeOK
<1>2. In(ch) \subseteq Record /\ In(batch) \subseteq Record /\ In(db) \subseteq Record
  BY HeldRecords DEF IInv, TypeOK
<1>3. /\ In(ch) \cap In(batch) = {} /\ In(ch) \cap In(db) = {} /\ In(batch) \cap In(db) = {}
  BY <1>2, RecordParts DEF IInv, InOrder, Before, Earlier
<1>4. InHand \cap LeftHands = {}
  BY InTheHand DEF IInv, InHand
<1>5. InHand \cup LeftHands = Issued
  <2>1. ASSUME NEW r \in InHand PROVE r \in Issued
    <3>1. PICK c \in Callers : caller[c] # "idle" /\ r = Current(c)
      BY DEF InHand
    <3>2. issued[c] \in Int
      BY DEF IInv, TypeOK
    <3> QED
      BY <3>1, <3>2, InTheHand DEF IInv, Issued
  <2>2. LeftHands \subseteq Issued
    BY DEF LeftHands, Issued
  <2>3. ASSUME NEW r \in Issued, r \notin LeftHands PROVE r \in InHand
    <3>1. /\ r \in Record /\ r[1] \in Callers /\ r = <<r[1], r[2]>> /\ r[2] \in Int
          /\ issued[r[1]] \in Int /\ r[2] <= issued[r[1]]
      BY <2>3, RecordParts DEF Issued, IInv, TypeOK
    <3>2. caller[r[1]] # "idle" /\ r[2] = issued[r[1]]
      BY <2>3, <3>1 DEF LeftHands
    <3>3. r = Current(r[1])
      BY <3>1, <3>2 DEF Current
    <3> QED
      BY <3>1, <3>2, <3>3 DEF InHand
  <2> QED
    BY <2>1, <2>2, <2>3
<1>6. /\ LeftHands = In(db) \cup In(batch) \cup In(ch) \cup displaced \cup refused \cup failed
      /\ (In(db) \cup In(batch) \cup In(ch)) \cap (displaced \cup refused \cup failed) = {}
      /\ displaced \cap refused = {} /\ displaced \cap failed = {} /\ refused \cap failed = {}
  BY DEF IInv, Accounted, UnderWay
<1> DEFINE places == <<InHand, In(ch), In(batch), In(db), displaced, refused, failed>>
<1>7. /\ Len(places) = 7 /\ places[1] = InHand /\ places[2] = In(ch) /\ places[3] = In(batch)
      /\ places[4] = In(db) /\ places[5] = displaced /\ places[6] = refused
      /\ places[7] = failed
  OBVIOUS
<1> HIDE DEF places
<1>8. \A i \in 1..7 : i = 1 \/ i = 2 \/ i = 3 \/ i = 4 \/ i = 5 \/ i = 6 \/ i = 7
  OBVIOUS
<1>9. ASSUME NEW i \in 1..7, NEW j \in 1..7, i # j PROVE places[i] \cap places[j] = {}
  <2>1. CASE i = 1 \/ j = 1
    BY <1>4, <1>6, <1>7, <1>8, <1>9, <2>1
  <2>2. CASE i \in 2..4 /\ j \in 2..4
    BY <1>3, <1>7, <1>9, <2>2
  <2>3. CASE i \in 2..4 /\ j \in 5..7
    BY <1>6, <1>7, <2>3
  <2>4. CASE i \in 5..7 /\ j \in 2..4
    BY <1>6, <1>7, <2>4
  <2>5. CASE i \in 5..7 /\ j \in 5..7
    BY <1>6, <1>7, <1>9, <2>5
  <2> QED
    BY <2>1, <2>2, <2>3, <2>4, <2>5
<1>10. UNION In(places) = Issued
  <2>1. In(places) = {places[i] : i \in 1..7}
    BY <1>7 DEF In
  <2>2. In(places) = {InHand, In(ch), In(batch), In(db), displaced, refused, failed}
    <3>1. \A S \in In(places) :
            S \in {InHand, In(ch), In(batch), In(db), displaced, refused, failed}
      BY <1>7, <1>8, <2>1
    <3>2. \A S \in {InHand, In(ch), In(batch), In(db), displaced, refused, failed} :
            S \in In(places)
      BY <1>7, <2>1
    <3> QED
      BY <3>1, <3>2
  <2>3. UNION In(places)
          = InHand \cup In(ch) \cup In(batch) \cup In(db) \cup displaced \cup refused \cup failed
    BY <2>2
  <2> QED
    BY <1>5, <1>6, <2>3
<1> QED
  BY <1>1, <1>7, <1>9, <1>10 DEF EveryRecordOnce, places

\* Every record logged is in exactly one place, and nowhere twice.
THEOREM RecordsOnce == Spec => []EveryRecordOnce
<1>1. IInv => EveryRecordOnce
  BY OnceInOnePlace
<1> QED
  BY <1>1, Invariance, PTL

\* When the goroutine has returned, the channel and the batch hold nothing that
\* they held when the shutdown was requested.
THEOREM DrainComplete == Spec => []ShutdownDrains
<1>1. IInv => ShutdownDrains
  BY EmptyHolds DEF IInv, BatchFits, Stopping, ShutdownDrains
<1> QED
  BY <1>1, Invariance, PTL

-----------------------------------------------------------------------------
(* The logger implements the log of UsageLog.                              *)

\* Two sequences in a row, taken apart where they meet.
LEMMA TakenApart ==
  ASSUME NEW s \in Seq(Record), NEW t \in Seq(Record)
  PROVE  /\ SubSeq(s \o t, 1, Len(s)) = s
         /\ SubSeq(s \o t, Len(s) + 1, Len(s \o t)) = t
         /\ t # <<>> => (s \o t)[Len(s) + 1] = Head(t)
         /\ t # <<>> => SubSeq(s \o t, Len(s) + 2, Len(s \o t)) = Tail(t)
<1> DEFINE u == s \o t
<1>1. /\ u \in Seq(Record) /\ Len(u) = Len(s) + Len(t)
      /\ Len(s) \in Nat /\ Len(t) \in Nat
      /\ \A i \in 1..Len(s) : u[i] = s[i]
      /\ \A i \in 1..Len(t) : u[Len(s) + i] = t[i]
  OBVIOUS
<1> HIDE DEF u
<1>2. SubSeq(u, 1, Len(s)) = s
  <2> DEFINE v == SubSeq(u, 1, Len(s))
  <2>1. \A i \in 1..Len(s) : u[i] \in Record
    BY <1>1
  <2>2. v \in Seq(Record) /\ Len(v) = Len(s) /\ \A i \in 1..Len(s) : v[i] = s[i]
    BY <1>1, <2>1, SubSeqProperties, SMTT(30)
  <2> HIDE DEF v
  <2>3. v = s
    BY <2>2, SeqEqual
  <2> QED
    BY <2>3 DEF v
<1>3. SubSeq(u, Len(s) + 1, Len(u)) = t
  <2> DEFINE v == SubSeq(u, Len(s) + 1, Len(u))
  <2>1. \A i \in (Len(s) + 1)..Len(u) : u[i] \in Record
    BY <1>1
  <2>2. v \in Seq(Record) /\ Len(v) = Len(t) /\ \A i \in 1..Len(t) : v[i] = t[i]
    BY <1>1, <2>1, SubSeqProperties, SMTT(30)
  <2> HIDE DEF v
  <2>3. v = t
    BY <2>2, SeqEqual
  <2> QED
    BY <2>3 DEF v
<1>4. ASSUME t # <<>> PROVE u[Len(s) + 1] = Head(t)
  BY <1>1, <1>4
<1>5. ASSUME t # <<>> PROVE SubSeq(u, Len(s) + 2, Len(u)) = Tail(t)
  <2> DEFINE v == SubSeq(u, Len(s) + 2, Len(u))
  <2>1. \A i \in (Len(s) + 2)..Len(u) : u[i] \in Record
    BY <1>1
  <2>2. Tail(t) \in Seq(Record) /\ Len(Tail(t)) = Len(t) - 1
        /\ \A i \in 1..Len(Tail(t)) : Tail(t)[i] = t[i + 1]
    BY <1>5, HeadTailProperties
  <2>3. Len(t) >= 1
    BY <1>1, <1>5
  <2>4. v \in Seq(Record) /\ Len(v) = Len(t) - 1 /\ \A i \in 1..(Len(t) - 1) : v[i] = t[i + 1]
    <3> DEFINE m == Len(s) + 2
    <3>1. /\ v \in Seq(Record)
          /\ Len(v) = IF m <= Len(u) THEN Len(u) - m + 1 ELSE 0
          /\ \A i \in 1..(Len(u) - m + 1) : v[i] = u[m + i - 1]
      BY <1>1, <2>1, SubSeqProperties
    <3>2. /\ Len(u) - m + 1 = Len(t) - 1
          /\ (IF m <= Len(u) THEN Len(u) - m + 1 ELSE 0) = Len(t) - 1
          /\ \A i \in 1..(Len(t) - 1) : m + i - 1 = Len(s) + (i + 1) /\ i + 1 \in 1..Len(t)
      <4>1. \A a, b, c \in Int : c = a + b /\ b >= 1 =>
              /\ c - (a + 2) + 1 = b - 1
              /\ (IF a + 2 <= c THEN c - (a + 2) + 1 ELSE 0) = b - 1
              /\ \A i \in 1..(b - 1) : a + 2 + i - 1 = a + (i + 1) /\ i + 1 \in 1..b
        OBVIOUS
      <4>2. Len(s) \in Int /\ Len(t) \in Int /\ Len(u) \in Int
        BY <1>1
      <4> QED
        BY <1>1, <2>3, <4>1, <4>2
    <3> HIDE DEF m, v
    <3>3. ASSUME NEW i \in 1..(Len(t) - 1) PROVE v[i] = t[i + 1]
      <4>1. v[i] = u[Len(s) + (i + 1)]
        BY <3>1, <3>2
      <4> QED
        BY <1>1, <3>2, <4>1
    <3> QED
      BY <3>1, <3>2, <3>3
  <2> HIDE DEF v
  <2>5. v = Tail(t)
    BY <2>2, <2>4, SeqEqual
  <2> QED
    BY <2>5 DEF v
<1> QED
  BY <1>2, <1>3, <1>4, <1>5 DEF u

\* A record moves over the border between two sequences in a row.
LEMMA MovedOver ==
  ASSUME NEW s \in Seq(Record), NEW t \in Seq(Record), NEW r \in Record
  PROVE  /\ s \o Append(t, r) = Append(s \o t, r)
         /\ t # <<>> => Append(s, Head(t)) \o Tail(t) = s \o t
<1>1. s \o Append(t, r) = Append(s \o t, r)
  <2>1. <<r>> \in Seq(Record) /\ s \o t \in Seq(Record)
    OBVIOUS
  <2>2. Append(t, r) = t \o <<r>> /\ Append(s \o t, r) = (s \o t) \o <<r>>
    BY <2>1, AppendIsConcat
  <2> QED
    BY <2>1, <2>2, ConcatAssociative
<1>2. ASSUME t # <<>> PROVE Append(s, Head(t)) \o Tail(t) = s \o t
  <2> DEFINE h == <<Head(t)>>
  <2>1. Head(t) \in Record /\ h \in Seq(Record) /\ Tail(t) \in Seq(Record)
    BY <1>2
  <2>2. Append(s, Head(t)) = s \o h
    BY <2>1, AppendIsConcat
  <2>3. h \o Tail(t) = t
    <3>1. /\ Len(h \o Tail(t)) = Len(t) /\ h \o Tail(t) \in Seq(Record)
          /\ \A i \in 1..Len(t) : (h \o Tail(t))[i] = t[i]
      BY <1>2, <2>1
    <3> QED
      BY <3>1, SeqEqual
  <2> HIDE DEF h
  <2> QED
    BY <2>1, <2>2, <2>3, ConcatAssociative
<1> QED
  BY <1>1, <1>2

\* The records under way, as the abstract log sees them.
LEMMA LogHolds ==
  ASSUME TypeOK
  PROVE  /\ batch \o ch \in Seq(Record)
         /\ Len(batch \o ch) = Len(batch) + Len(ch)
         /\ Len(batch) \in Nat /\ Len(ch) \in Nat
         /\ \A r : Log!Fresh(r) <=> r \notin UnderWay \cup displaced \cup refused \cup failed
<1>1. /\ batch \o ch \in Seq(Record) /\ Len(batch \o ch) = Len(batch) + Len(ch)
      /\ Len(batch) \in Nat /\ Len(ch) \in Nat
  BY DEF TypeOK
<1>2. In(batch \o ch) = In(batch) \cup In(ch)
  BY ConcatHolds DEF TypeOK
<1>3. \A s : Log!In(s) = In(s)
  BY DEF Log!In, In
<1> QED
  BY <1>1, <1>2, <1>3 DEF Log!Fresh, UnderWay

\* A step of Log accepts, displaces or refuses a record, or nothing.
LEMMA LogSteps ==
  ASSUME IInv, NEW c \in Callers, LogStep(c)
  PROVE  [Log!Next]_(Log!vars)
<1> USE DEF IInv
<1>t. issued[c] \in 0..MaxRecords /\ MaxRecords \in Nat /\ ch \in Seq(Record) /\ batch \in Seq(Record)
  BY LoggerAssumption DEF TypeOK
<1>1. CASE Enqueue(c)
  <2> DEFINE r == <<c, issued[c] + 1>>
  <2>1. /\ caller[c] = "idle" /\ issued'[c] = issued[c] + 1 /\ issued[c] < MaxRecords
        /\ ch' = Append(ch, Current(c)')
        /\ UNCHANGED <<displaced, refused, failed, batch, db>>
    BY <1>1 DEF Enqueue, Issue, TypeOK, runVars, dbVars
  <2>2. Current(c)' = r /\ r \in Record /\ r[1] = c /\ r[2] = issued[c] + 1
    <3>1. issued[c] + 1 \in 1..MaxRecords
      BY <1>t, <2>1
    <3> QED
      BY <2>1, <3>1, RecordParts DEF Current
  <2>3. r \notin LeftHands
    BY <1>t, <2>2 DEF LeftHands
  <2> HIDE DEF r
  <2>4. r \notin UnderWay \cup displaced \cup refused \cup failed
    <3>1. r[2] <= issued[r[1]] + 1 /\ (caller[r[1]] # "idle" => r[2] <= issued[r[1]])
      BY <1>t, <2>1, <2>2
    <3> QED
      BY <2>2, <2>3, <3>1, HandComesLast
  <2>5. (batch \o ch)' = Append(batch \o ch, r)
    BY <1>t, <2>1, <2>2, MovedOver
  <2>6. Log!Accept(r)
    BY <2>1, <2>4, <2>5, LogHolds DEF Log!Accept
  <2> QED
    BY <2>2, <2>6 DEF Log!Next
<1>2. CASE FindFull(c)
  BY <1>2 DEF FindFull, runVars, dbVars, Log!vars
<1>3. CASE Displace(c)
  <2>1. /\ ch # <<>> /\ ch' = Tail(ch) /\ displaced' = displaced \cup {Head(ch)}
        /\ UNCHANGED <<refused, failed, batch, db>>
    BY <1>3 DEF Displace, runVars, dbVars
  <2> DEFINE i == Len(batch) + 1
  <2>2. i \in 1..Len(batch \o ch) /\ i - 1 = Len(batch) /\ i + 1 = Len(batch) + 2
    <3>1. Len(ch) > 0
      BY <1>t, <2>1
    <3> QED
      BY <3>1, LogHolds
  <2>3. (batch \o ch)' = Log!RemoveAt(batch \o ch, i)
    <3>1. /\ SubSeq(batch \o ch, 1, Len(batch)) = batch
          /\ SubSeq(batch \o ch, Len(batch) + 2, Len(batch \o ch)) = Tail(ch)
      BY <1>t, <2>1, TakenApart
    <3>2. Log!RemoveAt(batch \o ch, i)
            = SubSeq(batch \o ch, 1, i - 1) \o SubSeq(batch \o ch, i + 1, Len(batch \o ch))
      BY DEF Log!RemoveAt
    <3> HIDE DEF i
    <3> QED
      BY <2>1, <2>2, <3>1, <3>2
  <2>4. (batch \o ch)[i] = Head(ch)
    BY <1>t, <2>1, TakenApart
  <2>5. Log!Displace(i)
    BY <2>1, <2>3, <2>4 DEF Log!Displace
  <2> QED
    BY <2>2, <2>5 DEF Log!Next
<1>4. CASE Requeue(c)
  <2>1. /\ ch' = Append(ch, Current(c)) /\ caller[c] # "idle"
        /\ UNCHANGED <<displaced, refused, failed, batch, db>>
    BY <1>4 DEF Requeue, runVars, dbVars
  <2>2. Current(c) \in Record /\ Current(c) \notin UnderWay \cup displaced \cup refused \cup failed
    BY <2>1, InTheHand DEF Accounted
  <2>3. (batch \o ch)' = Append(batch \o ch, Current(c))
    BY <1>t, <2>1, <2>2, MovedOver
  <2>4. Log!Accept(Current(c))
    BY <2>1, <2>2, <2>3, LogHolds DEF Log!Accept
  <2> QED
    BY <2>2, <2>4 DEF Log!Next
<1>5. CASE GiveUp(c)
  <2>1. /\ refused' = refused \cup {Current(c)} /\ caller[c] # "idle"
        /\ UNCHANGED <<ch, displaced, failed, batch, db>>
    BY <1>5 DEF GiveUp, runVars, dbVars
  <2>2. Current(c) \in Record /\ Current(c) \notin UnderWay \cup displaced \cup refused \cup failed
    BY <2>1, InTheHand DEF Accounted
  <2>3. Log!Refuse(Current(c))
    BY <2>1, <2>2, LogHolds DEF Log!Refuse
  <2> QED
    BY <2>2, <2>3 DEF Log!Next
<1> QED
  BY <1>1, <1>2, <1>3, <1>4, <1>5 DEF LogStep

\* The goroutine's insert stores the batch or loses it; its other steps, the
\* ticker's and Shutdown's change nothing that the abstract log sees.
LEMMA RunnerSteps ==
  ASSUME IInv, RunnerStep
  PROVE  [Log!Next]_(Log!vars)
<1> USE DEF IInv
<1>t. ch \in Seq(Record) /\ batch \in Seq(Record)
  BY DEF TypeOK
<1>1. ASSUME NEW here \in {"select", "drain"}, Receive(here) PROVE UNCHANGED Log!vars
  <2>1. /\ ch # <<>> /\ batch' = Append(batch, Head(ch)) /\ ch' = Tail(ch)
        /\ UNCHANGED <<db, displaced, refused, failed>>
    BY <1>1 DEF Receive, Appended, dbVars
  <2>2. Head(ch) \in Record
    BY <1>t, <2>1, TailHolds
  <2>3. (batch \o ch)' = batch \o ch
    BY <1>t, <2>1, <2>2, MovedOver
  <2> QED
    BY <2>1, <2>3 DEF Log!vars
<1>2. CASE Tick \/ SeeStop \/ Leave \/ TickFires \/ Shutdown
  BY <1>2 DEF Tick, SeeStop, Leave, TickFires, Shutdown, logVars, runVars, dbVars, Log!vars
<1>3. CASE Insert \/ BatchLost
  <2> DEFINE n == Len(batch)
  <2>1. runner = "insert" /\ batch' = <<>> /\ UNCHANGED <<ch, displaced, refused>>
    BY <1>3 DEF Insert, BatchLost, InsertFails, Reset, logVars
  <2>2. batch # <<>>
    BY <2>1 DEF BatchFits
  <2>3. n \in 1..Len(batch \o ch)
    BY <1>t, <2>2, LogHolds
  <2>4. SubSeq(batch \o ch, 1, n) = batch /\ SubSeq(batch \o ch, n + 1, Len(batch \o ch)) = ch
    BY <1>t, TakenApart
  <2>5. (batch \o ch)' = SubSeq(batch \o ch, n + 1, Len(batch \o ch))
    <3>1. <<>> \o ch = ch
      BY <1>t, ConcatEmptySeq
    <3> QED
      BY <2>1, <2>4, <3>1
  <2>6. CASE Insert
    <3>1. db' = db \o SubSeq(batch \o ch, 1, n) /\ failed' = failed
      BY <2>4, <2>6 DEF Insert
    <3>2. Log!Store(n)
      BY <2>1, <2>5, <3>1 DEF Log!Store
    <3> QED
      BY <2>3, <3>2 DEF Log!Next
  <2>7. CASE BatchLost
    <3>1. db \o <<>> = db
      BY ConcatEmptySeq DEF TypeOK
    <3>2. db' = db /\ failed' = failed \cup In(SubSeq(batch \o ch, 1, n))
      BY <2>4, <2>7, <3>1 DEF BatchLost, InsertFails, RowsKept
    <3>3. Log!Fail(n)
      BY <2>1, <2>5, <3>2 DEF Log!Fail, Log!In, In
    <3> QED
      BY <2>3, <3>3 DEF Log!Next
  <2> QED
    BY <1>3, <2>6, <2>7
<1> QED
  BY <1>1, <1>2, <1>3 DEF RunnerStep

\* The logger implements the lossy, ordered, exactly-once log of UsageLog.
THEOREM LogImplemented == Spec => ImplementsUsageLog
<1>1. LoggerInit => Log!Init
  <2>1. <<>> \o <<>> = <<>>
    OBVIOUS
  <2> QED
    BY <2>1 DEF LoggerInit, Log!Init
<1>2. IInv /\ [Next]_loggerVars => [Log!Next]_(Log!vars)
  <2> SUFFICES ASSUME IInv, [Next]_loggerVars PROVE [Log!Next]_(Log!vars)
    OBVIOUS
  <2>1. ASSUME NEW c \in Callers, LogStep(c) PROVE [Log!Next]_(Log!vars)
    BY <2>1, LogSteps
  <2>2. CASE RunnerStep
    BY <2>2, RunnerSteps
  <2>3. CASE UNCHANGED loggerVars
    BY <2>3 DEF loggerVars, logVars, runVars, dbVars, Log!vars
  <2> QED
    BY <2>1, <2>2, <2>3, StepsAreLogOrRunner DEF IInv
<1> QED
  BY <1>1, <1>2, Invariance, PTL DEF Spec, ImplementsUsageLog, Log!Spec

=============================================================================
