---------------------------- MODULE BenchProofs ----------------------------
(* Proofs about the two benchmark programs: when the throughput benchmark times
   its publishes, and that the latency benchmark subtracts the right timestamp. *)
EXTENDS BenchRuns, FiniteSetTheorems, TLAPS

----------------------------------------------------------------------------
(* The throughput benchmark. *)

Reported == {r \in Readers : rpc[r] # "new"}

CellInv ==
  /\ rpc \in [Readers -> {"new", "barrier", "loop", "poll", "done"}]
  /\ ready = Cardinality(Reported)
  /\ TimedWithAllReaders

LEMMA ReportedFinite == IsFiniteSet(Reported)
  BY FS_Subset, CellAssumption DEF Reported

LEMMA CellInit == Init => CellInv
<1> SUFFICES ASSUME Init PROVE CellInv
  OBVIOUS
<1>1. Reported = {}
  BY DEF Init, Reported
<1>2. ready = Cardinality(Reported)
  BY <1>1, FS_EmptySet DEF Init
<1> QED BY <1>2 DEF Init, Ring!Init, CellInv, TimedWithAllReaders

\* A reader moves, and neither unreports nor reports.
LEMMA ReaderMoves ==
  ASSUME CellInv, NEW r \in Readers,
         rpc[r] # "new", NEW where \in {"barrier", "loop", "poll", "done"},
         rpc' = [rpc EXCEPT ![r] = where], UNCHANGED <<ready, mpc>>
  PROVE  /\ rpc' \in [Readers -> {"new", "barrier", "loop", "poll", "done"}]
         /\ ready' = Cardinality(Reported') /\ TimedWithAllReaders'
<1>1. Reported' = Reported
  BY DEF CellInv, Reported
<1> QED BY <1>1 DEF CellInv, TimedWithAllReaders

LEMMA ReportKeeps ==
  ASSUME CellInv, NEW r \in Readers, Report(r)
  PROVE  CellInv'
<1>1. Reported' = Reported \cup {r} /\ r \notin Reported
  BY DEF CellInv, Reported, Report
<1>2. ready' = Cardinality(Reported')
  BY <1>1, ReportedFinite, FS_AddElement DEF CellInv, Report
<1> QED BY <1>2 DEF CellInv, Report, TimedWithAllReaders

LEMMA ReaderKeeps ==
  ASSUME CellInv, NEW r \in Readers, ReaderStep(r)
  PROVE  CellInv'
<1>1. CASE Report(r)
  BY <1>1, ReportKeeps
<1>2. CASE PassBarrier(r)
  BY <1>2, ReaderMoves DEF PassBarrier, flagVars, CellInv
<1>3. CASE LoadStop(r)
  <2>1. PICK where \in {"done", "poll"} : rpc' = [rpc EXCEPT ![r] = where]
    BY <1>3 DEF LoadStop
  <2> QED BY <1>3, <2>1, ReaderMoves DEF LoadStop, flagVars, CellInv
<1>4. CASE ReadOk(r) \/ ReadLapped(r) \/ ReadEmpty(r)
  BY <1>4, ReaderMoves DEF ReadOk, ReadLapped, ReadEmpty, flagVars, CellInv
<1> QED BY <1>1, <1>2, <1>3, <1>4 DEF ReaderStep

\* When ready has reached the number of readers, every reader has reported.
LEMMA AwaitKeeps ==
  ASSUME CellInv, AwaitReady
  PROVE  CellInv'
<1>1. Cardinality(Reported) >= Cardinality(Readers)
  BY DEF CellInv, AwaitReady
<1>2. Reported \in SUBSET Readers
  BY DEF Reported
<1>3. Cardinality(Reported) <= Cardinality(Readers)
  BY <1>2, FS_Subset, CellAssumption
<1>4. Cardinality(Reported) \in Nat /\ Cardinality(Readers) \in Nat
  BY ReportedFinite, FS_CardinalityType, CellAssumption
<1>5. Reported = Readers
  BY <1>1, <1>2, <1>3, <1>4, FS_Subset, CellAssumption
<1>6. TimedWithAllReaders'
  BY <1>5 DEF AwaitReady, TimedWithAllReaders, Reported
<1> QED BY <1>6 DEF CellInv, AwaitReady, flagVars, Reported

LEMMA JoinKeeps ==
  ASSUME CellInv, Join
  PROVE  CellInv'
<1>1. CASE rep + 1 < Reps
  <2>1. Reported' = {}
    BY <1>1 DEF Join, Reported
  <2>2. ready' = Cardinality(Reported')
    BY <1>1, <2>1, FS_EmptySet DEF Join
  <2> QED BY <1>1, <2>2 DEF Join, CellInv, TimedWithAllReaders
<1>2. CASE ~(rep + 1 < Reps)
  BY <1>2 DEF Join, flagVars, CellInv, TimedWithAllReaders, Reported
<1> QED BY <1>1, <1>2

LEMMA CellNext == CellInv /\ [Next]_vars => CellInv'
<1> SUFFICES ASSUME CellInv, [Next]_vars PROVE CellInv'
  OBVIOUS
<1>1. CASE AwaitReady
  BY <1>1, AwaitKeeps
<1>2. CASE Publish
  BY <1>2 DEF Publish, flagVars, CellInv, Reported, TimedWithAllReaders
<1>3. CASE Start
  BY <1>3 DEF Start, CellInv, Reported, TimedWithAllReaders
<1>4. CASE Stop
  BY <1>4 DEF Stop, CellInv, Reported, TimedWithAllReaders
<1>5. CASE Join
  BY <1>5, JoinKeeps
<1>6. ASSUME NEW r \in Readers, ReaderStep(r) PROVE CellInv'
  BY <1>6, ReaderKeeps
<1>7. CASE UNCHANGED vars
  BY <1>7 DEF vars, flagVars, CellInv, Reported, TimedWithAllReaders
<1> QED BY <1>1, <1>2, <1>3, <1>4, <1>5, <1>6, <1>7 DEF Next, MainStep

----------------------------------------------------------------------------
(* The latency benchmark. *)

Total == Latency!Total
SlotAt(seq) == Latency!SlotOf(seq)

\* The slot of a message that has not been overwritten holds its time.
Intact ==
  \A i \in 0 .. lpublished - 1 :
    lpublished <= i + Capacity => slot[SlotAt(i)] = sentAt[i]

RunType ==
  /\ lpublished \in 0 .. Total
  /\ lnext \in [{Consumer} -> Nat]
  /\ clock \in Nat /\ recv \in Nat /\ msg \in Nat
  /\ slot \in [0 .. Capacity - 1 -> Nat]
  /\ sentAt \in [0 .. Total - 1 -> Nat]

\* The consumer is a member of the ring, and ready, once it is constructed; the
\* producer waits for that.
Registered ==
  /\ lready <=> cpc # "new"
  /\ Consumer \in lmember <=> cpc # "new"
  /\ ~lready => ppc = "await"
  /\ ppc = "await" => lpublished = 0

RunInv ==
  /\ RunType /\ Registered
  /\ ppc = "publish" => lpublished < Total /\ msg = sentAt[lpublished]
  /\ lpublished <= lnext[Consumer] + Capacity
  /\ \A i \in 0 .. Total - 1 : sentAt[i] <= clock
  /\ Intact
  /\ cpc \in {"copy", "commit"} =>
       lnext[Consumer] < lpublished /\ sentAt[lnext[Consumer]] <= recv
  /\ OwnTimestamp

LEMMA TotalNat == Total \in Nat /\ Capacity \in Nat \ {0}
  BY CellAssumption, RunAssumption DEF Total, Latency!Total

LEMMA SlotRange == ASSUME NEW q \in Nat PROVE SlotAt(q) \in 0 .. Capacity - 1
  BY TotalNat DEF SlotAt, Latency!SlotOf

\* Two messages that share a slot are at least a lap apart.
LEMMA SharedSlot ==
  ASSUME NEW a \in Nat, NEW b \in Nat, a < b, SlotAt(a) = SlotAt(b)
  PROVE  a + Capacity <= b
<1> DEFINE i == a \div Capacity
           j == b \div Capacity
           s == a % Capacity
<1>1. /\ i \in Int /\ j \in Int /\ s \in Int /\ Capacity \in Nat /\ Capacity > 0
      /\ a = Capacity * i + s /\ b = Capacity * j + s
  BY TotalNat DEF SlotAt, Latency!SlotOf
<1> HIDE DEF i, j, s
<1>2. j > i
  <2> SUFFICES ASSUME j <= i PROVE FALSE
    BY <1>1
  <2>1. Capacity * j <= Capacity * i
    BY <1>1
  <2> QED BY <1>1, <2>1
<1>3. Capacity * j >= Capacity * (i + 1) /\ Capacity * (i + 1) = Capacity * i + Capacity
  BY <1>1, <1>2
<1> QED BY <1>1, <1>3

LEMMA RunInit == Latency!Init => RunInv
<1> SUFFICES ASSUME Latency!Init PROVE RunInv
  OBVIOUS
<1>1. RunType
  BY TotalNat DEF Latency!Init, Latency!Ring!Init, RunType, Total
<1>2. Registered
  BY DEF Latency!Init, Latency!Ring!Init, Registered
<1>3. \A i \in 0 .. Total - 1 : sentAt[i] <= clock
  BY DEF Latency!Init, Total
<1>4. Intact
  BY DEF Latency!Init, Latency!Ring!Init, Intact
<1>5. lpublished <= lnext[Consumer] + Capacity
  BY TotalNat DEF Latency!Init, Latency!Ring!Init
<1>6. ppc = "await" /\ cpc = "new"
  BY DEF Latency!Init
<1> QED BY <1>1, <1>2, <1>3, <1>4, <1>5, <1>6 DEF RunInv, OwnTimestamp, Latency!OwnTimestamp

LEMMA StampRunKeeps ==
  ASSUME RunInv, Latency!Stamp
  PROVE  RunInv'
<1> DEFINE n == lpublished
<1>1. /\ ppc = "pace" /\ n < Total /\ n \in 0 .. Total - 1
      /\ msg' = clock /\ sentAt' = [sentAt EXCEPT ![n] = clock] /\ ppc' = "publish"
      /\ UNCHANGED <<lpublished, lmember, lnext, ldelivered, slot, lready, cpc, recv, send, clock>>
  BY TotalNat DEF Latency!Stamp, Latency!ringVars, Latency!consVars, RunInv, RunType, Total
<1>2. RunType' /\ Registered'
  BY <1>1 DEF RunInv, RunType, Registered
<1>3. \A i \in 0 .. n - 1 : sentAt'[i] = sentAt[i]
  BY <1>1 DEF RunInv, RunType
<1>4. Intact'
  BY <1>1, <1>3 DEF RunInv, Intact
<1>5. \A i \in 0 .. Total - 1 : sentAt'[i] <= clock'
  BY <1>1 DEF RunInv, RunType
<1>6. cpc \in {"copy", "commit"} => sentAt'[lnext[Consumer]] = sentAt[lnext[Consumer]]
  BY <1>1, <1>3 DEF RunInv, RunType
<1>7. msg' = sentAt'[n]
  BY <1>1 DEF RunInv, RunType
<1> QED BY <1>1, <1>2, <1>4, <1>5, <1>6, <1>7 DEF RunInv, OwnTimestamp, Latency!OwnTimestamp

LEMMA PublishRunKeeps ==
  ASSUME RunInv, Latency!Publish
  PROVE  RunInv'
<1> DEFINE n == lpublished
<1>1. /\ ppc = "publish" /\ n < Total /\ n \in Nat /\ msg = sentAt[n] /\ msg \in Nat
      /\ lready /\ Consumer \in lmember
  BY TotalNat DEF Latency!Publish, RunInv, RunType, Registered
<1>2. /\ lpublished' = n + 1 /\ n < lnext[Consumer] + Capacity
      /\ slot' = [slot EXCEPT ![SlotAt(n)] = msg] /\ ppc' = "pace"
      /\ UNCHANGED <<lmember, lnext, lready, cpc, recv, send, clock, msg, sentAt>>
  BY <1>1 DEF Latency!Publish, Latency!Ring!Publish, Latency!consVars, SlotAt
<1>3. SlotAt(n) \in 0 .. Capacity - 1
  BY <1>1, SlotRange
<1>4. RunType' /\ Registered'
  BY <1>1, <1>2, <1>3, TotalNat DEF RunInv, RunType, Registered
<1>5. Intact'
  <2> SUFFICES ASSUME NEW i \in 0 .. n, n + 1 <= i + Capacity
               PROVE  slot'[SlotAt(i)] = sentAt[i]
    BY <1>1, <1>2 DEF Intact
  <2>1. i \in Nat /\ SlotAt(i) \in 0 .. Capacity - 1
    BY SlotRange
  <2>2. CASE i = n
    BY <1>1, <1>2, <1>3, <2>2 DEF RunInv, RunType
  <2>3. CASE i < n
    <3>1. SlotAt(i) # SlotAt(n)
      BY <1>1, <2>1, <2>3, TotalNat, SharedSlot
    <3>2. slot[SlotAt(i)] = sentAt[i]
      BY <1>1, <2>1, <2>3, TotalNat DEF RunInv, Intact
    <3> QED BY <1>2, <2>1, <3>1, <3>2 DEF RunInv, RunType
  <2> QED BY <1>1, <2>1, <2>2, <2>3
<1>6. lpublished' <= lnext'[Consumer] + Capacity
  BY <1>1, <1>2, TotalNat DEF RunInv, RunType
<1>7. cpc \in {"copy", "commit"} => lnext[Consumer] < lpublished'
  BY <1>1, <1>2 DEF RunInv, RunType
<1> QED BY <1>2, <1>4, <1>5, <1>6, <1>7 DEF RunInv, OwnTimestamp, Latency!OwnTimestamp

\* A step of the producer or the clock that leaves the ring and the consumer alone.
LEMMA PacingKeeps ==
  ASSUME RunInv, Latency!Tick \/ Latency!AwaitReady \/ Latency!Join
  PROVE  RunInv'
<1>1. /\ UNCHANGED <<lpublished, lmember, lnext, slot, lready, cpc, recv, send, msg, sentAt>>
      /\ clock' \in Nat /\ clock <= clock'
      /\ ppc' = ppc \/ (ppc' \in {"pace", "finished"} /\ (lready \/ ppc = "pace"))
  BY DEF Latency!Tick, Latency!AwaitReady, Latency!Join, Latency!ringVars,
         Latency!prodVars, Latency!consVars, RunInv, RunType
<1>2. RunType' /\ Registered'
  BY <1>1 DEF RunInv, RunType, Registered
<1>3. \A i \in 0 .. Total - 1 : sentAt'[i] <= clock'
  BY <1>1 DEF RunInv, RunType
<1>4. Intact'
  BY <1>1 DEF RunInv, Intact
<1> QED BY <1>1, <1>2, <1>3, <1>4 DEF RunInv, OwnTimestamp, Latency!OwnTimestamp

LEMMA ConsumerRunKeeps ==
  ASSUME RunInv, Latency!ConsumerStep
  PROVE  RunInv'
<1>0. /\ lpublished \in Nat /\ lnext[Consumer] \in Nat /\ clock \in Nat
      /\ UNCHANGED <<lpublished, slot, sentAt, clock, ppc, msg>>
  BY TotalNat
  DEF RunInv, RunType, Latency!ConsumerStep, Latency!Construct, Latency!Receive,
      Latency!CopyStamp, Latency!Commit, Latency!ringVars, Latency!prodVars,
      Latency!Ring!Join, Latency!Ring!Deliver
<1>1. Intact' /\ \A i \in 0 .. Total - 1 : sentAt'[i] <= clock'
  BY <1>0 DEF RunInv, Intact
<1>2. CASE Latency!Construct
  <2>1. /\ cpc = "new" /\ cpc' \in {"read", "done"} /\ lready' = TRUE /\ recv' = recv
        /\ lmember' = lmember \cup {Consumer} /\ lnext'[Consumer] = 0
        /\ lnext' \in [{Consumer} -> Nat]
    BY <1>2 DEF Latency!Construct, Latency!Ring!Join, RunInv, RunType
  <2>2. lpublished = 0
    BY <2>1 DEF RunInv, Registered
  <2> QED BY <1>0, <1>1, <2>1, <2>2, TotalNat
          DEF RunInv, RunType, Registered, OwnTimestamp, Latency!OwnTimestamp
<1>3. CASE Latency!Receive
  <2>1. /\ cpc = "read" /\ cpc' = "copy" /\ recv' = clock
        /\ lnext[Consumer] < lpublished
        /\ UNCHANGED <<lmember, lnext, lready, send>>
    BY <1>3 DEF Latency!Receive, Latency!ringVars
  <2>2. sentAt[lnext[Consumer]] <= recv'
    <3>1. lpublished <= Total
      BY TotalNat DEF RunInv, RunType
    <3>2. lnext[Consumer] \in 0 .. Total - 1
      BY <1>0, <2>1, <3>1, TotalNat
    <3> QED BY <2>1, <3>2 DEF RunInv
  <2> QED BY <1>0, <1>1, <2>1, <2>2
          DEF RunInv, RunType, Registered, OwnTimestamp, Latency!OwnTimestamp
<1>4. CASE Latency!CopyStamp
  <2>1. /\ cpc = "copy" /\ cpc' = "commit" /\ send' = slot[SlotAt(lnext[Consumer])]
        /\ UNCHANGED <<lmember, lnext, lready, recv>>
    BY <1>4 DEF Latency!CopyStamp, Latency!ringVars, SlotAt
  <2>2. send' = sentAt[lnext[Consumer]] /\ send' <= recv
    BY <1>0, <2>1 DEF RunInv, Intact
  <2> QED BY <1>0, <1>1, <2>1, <2>2
          DEF RunInv, RunType, Registered, OwnTimestamp, Latency!OwnTimestamp
<1>5. CASE Latency!Commit
  <2>1. /\ cpc = "commit" /\ cpc' \in {"read", "done"} /\ recv' = recv
        /\ lnext' = [lnext EXCEPT ![Consumer] = @ + 1]
        /\ UNCHANGED <<lmember, lready>>
    BY <1>5 DEF Latency!Commit, Latency!Ring!Deliver
  <2>2. lnext' \in [{Consumer} -> Nat] /\ lnext'[Consumer] = lnext[Consumer] + 1
    BY <1>0, <2>1 DEF RunInv, RunType
  <2>3. lpublished' <= lnext'[Consumer] + Capacity
    BY <1>0, <2>2, TotalNat DEF RunInv
  <2> QED BY <1>0, <1>1, <2>1, <2>2, <2>3
          DEF RunInv, RunType, Registered, OwnTimestamp, Latency!OwnTimestamp
<1> QED BY <1>2, <1>3, <1>4, <1>5 DEF Latency!ConsumerStep

LEMMA RunNext == RunInv /\ [Latency!Next]_(Latency!vars) => RunInv'
<1> SUFFICES ASSUME RunInv, [Latency!Next]_(Latency!vars) PROVE RunInv'
  OBVIOUS
<1>1. CASE Latency!Tick \/ Latency!AwaitReady \/ Latency!Join
  BY <1>1, PacingKeeps
<1>2. CASE Latency!Stamp
  BY <1>2, StampRunKeeps
<1>3. CASE Latency!Publish
  BY <1>3, PublishRunKeeps
<1>4. CASE Latency!ConsumerStep
  BY <1>4, ConsumerRunKeeps
<1>5. CASE UNCHANGED Latency!vars
  BY <1>5 DEF Latency!vars, Latency!ringVars, Latency!prodVars, Latency!consVars,
              RunInv, RunType, Registered, Intact, OwnTimestamp, Latency!OwnTimestamp
<1> QED BY <1>1, <1>2, <1>3, <1>4, <1>5 DEF Latency!Next, Latency!ProducerStep

----------------------------------------------------------------------------
(* The histogram of the latency benchmark. *)

\* The measured messages received so far whose sample is v.
Taken(v) == {i \in Warmup .. seen - 1 : Latency!Sample(i) = v}
Counted == \A v \in 1 .. HistMax : hist[v] = IF histOk THEN Cardinality(Taken(v)) ELSE 0

HistInv ==
  /\ seen \in Nat /\ seen = lnext[Consumer] /\ seen <= lpublished
  /\ cpc = "new" => seen = 0
  /\ hist \in [1 .. HistMax -> Nat]
  /\ recvAt \in [0 .. Total - 1 -> Nat]
  /\ cpc \in {"copy", "commit"} => recv = recvAt[seen]
  /\ cpc = "done" => seen = Total
  /\ ppc = "finished" => cpc = "done"
  /\ Counted

LEMMA MeasureNat == Warmup \in Nat /\ Overhead \in Nat /\ HistMax \in Nat
  BY CellAssumption, RunAssumption

LEMMA TakenFinite ==
  ASSUME seen \in Nat, NEW v
  PROVE  IsFiniteSet(Taken(v)) /\ Cardinality(Taken(v)) \in Nat
<1>1. IsFiniteSet(Warmup .. seen - 1)
  BY MeasureNat, FS_Interval
<1> QED BY <1>1, FS_Subset, FS_CardinalityType DEF Taken

\* Samples of messages that were received do not change.
LEMMA CountedFrame ==
  ASSUME Counted, seen \in Nat, UNCHANGED <<seen, hist, histOk>>,
         \A i \in Nat : i < seen => sentAt'[i] = sentAt[i] /\ recvAt'[i] = recvAt[i]
  PROVE  Counted'
<1>1. \A i \in Warmup .. seen - 1 : Latency!Sample(i)' = Latency!Sample(i)
  BY MeasureNat DEF Latency!Sample
<1>2. ASSUME NEW v PROVE Taken(v)' = Taken(v)
  BY <1>1 DEF Taken
<1> QED BY <1>2 DEF Counted

LEMMA HistInit == Latency!Init => HistInv
<1> SUFFICES ASSUME Latency!Init PROVE HistInv
  OBVIOUS
<1>1. \A v : Taken(v) = {}
  BY MeasureNat DEF Latency!Init, Taken
<1>2. Counted
  BY <1>1, FS_EmptySet DEF Latency!Init, Counted
<1> QED BY <1>2, TotalNat
        DEF Latency!Init, Latency!Ring!Init, HistInv, Total

LEMMA HistProducerKeeps ==
  ASSUME RunInv, HistInv, Latency!Tick \/ Latency!ProducerStep
  PROVE  HistInv'
<1>1. /\ UNCHANGED <<lnext, cpc, recv, seen, hist, histOk, recvAt>>
      /\ lpublished' \in {lpublished, lpublished + 1} /\ lpublished \in Nat
      /\ ppc' = "finished" => ppc = "finished" \/ cpc = "done"
  BY TotalNat
  DEF Latency!Tick, Latency!ProducerStep, Latency!AwaitReady, Latency!Stamp,
      Latency!Publish, Latency!Ring!Publish, Latency!Join, Latency!ringVars,
      Latency!prodVars, Latency!consVars, RunInv, RunType
<1>2. sentAt' = sentAt \/ sentAt' = [sentAt EXCEPT ![lpublished] = clock]
  BY DEF Latency!Tick, Latency!ProducerStep, Latency!AwaitReady, Latency!Stamp,
      Latency!Publish, Latency!Join, Latency!prodVars
<1>3. \A i \in Nat : i < seen => sentAt'[i] = sentAt[i]
  <2>1. seen \in Nat /\ seen <= lpublished
    BY DEF HistInv
  <2>2. sentAt \in [0 .. Total - 1 -> Nat]
    BY DEF RunInv, RunType
  <2>3. ASSUME NEW i \in Nat, i < seen PROVE sentAt'[i] = sentAt[i]
    <3>1. i # lpublished
      BY <1>1, <2>1, <2>3
    <3>2. CASE sentAt' = [sentAt EXCEPT ![lpublished] = clock]
      BY <2>2, <3>1, <3>2
    <3> QED BY <1>2, <3>2
  <2> QED BY <2>3
<1>4. Counted'
  BY <1>1, <1>3, CountedFrame DEF HistInv
<1> QED BY <1>1, <1>4 DEF HistInv

\* The message committed joins the samples it belongs to.
LEMMA OneMoreTaken ==
  ASSUME seen \in Nat, seen' = seen + 1, UNCHANGED <<sentAt, recvAt>>, NEW v
  PROVE  Cardinality(Taken(v)') =
           IF seen >= Warmup /\ Latency!Sample(seen) = v
             THEN Cardinality(Taken(v)) + 1 ELSE Cardinality(Taken(v))
<1>1. \A i : Latency!Sample(i)' = Latency!Sample(i)
  BY DEF Latency!Sample
<1>2. CASE seen >= Warmup /\ Latency!Sample(seen) = v
  <2>1. Taken(v)' = Taken(v) \cup {seen} /\ seen \notin Taken(v)
    BY <1>1, <1>2, MeasureNat DEF Taken
  <2> QED BY <1>2, <2>1, TakenFinite, FS_AddElement
<1>3. CASE ~(seen >= Warmup /\ Latency!Sample(seen) = v)
  <2>1. Taken(v)' = Taken(v)
    BY <1>1, <1>3, MeasureNat DEF Taken
  <2> QED BY <1>3, <2>1
<1> QED BY <1>2, <1>3

LEMMA HistConsumerKeeps ==
  ASSUME RunInv, HistInv, Latency!ConsumerStep
  PROVE  HistInv'
<1>0. /\ lpublished \in 0 .. Total /\ lpublished \in Nat /\ seen \in Nat
      /\ lnext \in [{Consumer} -> Nat] /\ recv \in Nat /\ clock \in Nat
      /\ UNCHANGED <<lpublished, sentAt, ppc, histOk>>
      /\ cpc # "done"
  BY TotalNat
  DEF RunInv, RunType, HistInv, Latency!ConsumerStep, Latency!Construct, Latency!Receive,
      Latency!CopyStamp, Latency!Commit, Latency!ringVars, Latency!prodVars,
      Latency!Ring!Join, Latency!Ring!Deliver
<1>1. CASE Latency!Construct
  <2>1. /\ cpc = "new" /\ cpc' = IF Total > 0 THEN "read" ELSE "done"
        /\ lnext'[Consumer] = 0 /\ UNCHANGED <<recv, seen, hist, recvAt>>
    BY <1>1 DEF Latency!Construct, Total
  <2>2. Counted'
    BY <1>0, <2>1, CountedFrame DEF HistInv
  <2> QED BY <1>0, <2>1, <2>2, TotalNat DEF HistInv
<1>2. CASE Latency!Receive
  <2>1. /\ cpc = "read" /\ cpc' = "copy" /\ recv' = clock /\ seen < lpublished
        /\ recvAt' = [recvAt EXCEPT ![seen] = clock]
        /\ UNCHANGED <<lnext, seen, hist>>
    BY <1>2 DEF Latency!Receive, Latency!ringVars, HistInv
  <2>2. /\ recvAt' \in [0 .. Total - 1 -> Nat] /\ recvAt'[seen] = clock
        /\ \A i \in Nat : i < seen => recvAt'[i] = recvAt[i]
    BY <1>0, <2>1, TotalNat DEF HistInv
  <2>3. Counted'
    BY <1>0, <2>1, <2>2, CountedFrame DEF HistInv
  <2> QED BY <1>0, <2>1, <2>2, <2>3 DEF HistInv
<1>3. CASE Latency!CopyStamp
  <2>1. cpc = "copy" /\ cpc' = "commit" /\ UNCHANGED <<lnext, recv, seen, hist, recvAt>>
    BY <1>3 DEF Latency!CopyStamp, Latency!ringVars
  <2>2. Counted'
    BY <1>0, <2>1, CountedFrame DEF HistInv
  <2> QED BY <1>0, <2>1, <2>2 DEF HistInv
<1>4. CASE Latency!Commit
  <2>1. /\ cpc = "commit" /\ cpc' = IF seen + 1 < Total THEN "read" ELSE "done"
        /\ lnext' = [lnext EXCEPT ![Consumer] = @ + 1] /\ seen' = seen + 1
        /\ UNCHANGED <<recv, recvAt>>
        /\ IF seen >= Warmup THEN Latency!Record(recv - send - Overhead)
                             ELSE UNCHANGED hist
    BY <1>4 DEF Latency!Commit, Latency!Ring!Deliver, Total
  <2>2. seen + 1 <= lpublished /\ lnext'[Consumer] = seen + 1
    BY <1>0, <2>1 DEF RunInv, HistInv
  <2>3. recv = recvAt[seen] /\ send = sentAt[seen]
    BY <2>1 DEF RunInv, HistInv, OwnTimestamp, Latency!OwnTimestamp
  <2> DEFINE w == Latency!Sample(seen)
  <2>4. /\ recvAt[seen] \in Nat /\ sentAt[seen] \in Nat
        /\ w \in Int /\ w >= 1
        /\ Latency!Record(recv - send - Overhead) <=>
              hist' = IF histOk /\ w <= HistMax THEN [hist EXCEPT ![w] = @ + 1] ELSE hist
    <3>1. seen \in 0 .. Total - 1
      BY <1>0, <2>2, TotalNat
    <3>2. recvAt[seen] \in Nat /\ sentAt[seen] \in Nat
      BY <3>1 DEF RunInv, RunType, HistInv
    <3>3. w = IF recv - send - Overhead >= 1 THEN recv - send - Overhead ELSE 1
      BY <2>3 DEF Latency!Sample
    <3>4. w \in Int /\ w >= 1
      BY <2>3, <3>2, <3>3, MeasureNat
    <3> QED BY <3>2, <3>3, <3>4 DEF Latency!Record
  <2> HIDE DEF w
  <2>5. hist' \in [1 .. HistMax -> Nat]
    BY <2>1, <2>4, MeasureNat DEF HistInv
  <2>6. ASSUME NEW v \in 1 .. HistMax
        PROVE  hist'[v] = IF histOk' THEN Cardinality(Taken(v)') ELSE 0
    <3>1. hist[v] = IF histOk THEN Cardinality(Taken(v)) ELSE 0
      BY DEF HistInv, Counted
    <3>2. hist'[v] = IF histOk /\ seen >= Warmup /\ w = v THEN hist[v] + 1 ELSE hist[v]
      BY <2>1, <2>4, MeasureNat DEF HistInv
    <3>3. Cardinality(Taken(v)') =
            IF seen >= Warmup /\ w = v THEN Cardinality(Taken(v)) + 1
                                       ELSE Cardinality(Taken(v))
      BY <1>0, <2>1, OneMoreTaken DEF w
    <3> QED BY <1>0, <3>1, <3>2, <3>3
  <2>7. Counted'
    BY <2>6 DEF Counted
  <2>8. seen + 1 < Total \/ seen + 1 = Total
    BY <1>0, <2>2, TotalNat
  <2> QED BY <1>0, <2>1, <2>2, <2>5, <2>7, <2>8 DEF HistInv
<1> QED BY <1>1, <1>2, <1>3, <1>4 DEF Latency!ConsumerStep

LEMMA HistNext == RunInv /\ HistInv /\ [Latency!Next]_(Latency!vars) => HistInv'
<1> SUFFICES ASSUME RunInv, HistInv, [Latency!Next]_(Latency!vars) PROVE HistInv'
  OBVIOUS
<1>1. CASE UNCHANGED Latency!vars
  <2>1. UNCHANGED <<lpublished, lnext, cpc, ppc, recv, seen, hist, histOk, recvAt, sentAt>>
    BY <1>1 DEF Latency!vars, Latency!ringVars, Latency!prodVars, Latency!consVars
  <2>2. Counted'
    BY <2>1, CountedFrame DEF HistInv
  <2> QED BY <2>1, <2>2 DEF HistInv
<1> QED BY <1>1, HistProducerKeeps, HistConsumerKeeps DEF Latency!Next

----------------------------------------------------------------------------
(* The theorems. *)

LEMMA BenchInv == BenchSpec => [](CellInv /\ RunInv /\ HistInv)
<1>1. BenchInit => CellInv /\ RunInv /\ HistInv
  BY CellInit, RunInit, HistInit DEF BenchInit
<1>2. CellInv /\ RunInv /\ HistInv /\ [BenchNext]_benchVars =>
        (CellInv /\ RunInv /\ HistInv)'
  <2>1. [BenchNext]_benchVars => [Next]_vars /\ [Latency!Next]_(Latency!vars)
    BY DEF BenchNext, Cell, Run, benchVars, latencyVars, Latency!vars,
           Latency!ringVars, Latency!prodVars, Latency!consVars
  <2> QED BY <2>1, CellNext, RunNext, HistNext
<1> QED BY <1>1, <1>2, PTL DEF BenchSpec

\* However many readers, repetitions and messages: publishes are timed only once
\* every reader thread has constructed its Consumer and counted itself ready, at
\* the barrier or past it (throughput_bench.cpp run_cell()).
THEOREM TimingIsFair == BenchSpec => []TimedWithAllReaders
<1>1. CellInv => TimedWithAllReaders
  BY DEF CellInv
<1> QED BY <1>1, BenchInv, PTL

\* For every capacity and number of messages, the latency benchmark subtracts
\* the send time of the very message it received (latency_bench.cpp run_latency()).
THEOREM LatencyIsOfTheMessage == BenchSpec => []OwnTimestamp
<1>1. RunInv => OwnTimestamp
  BY DEF RunInv
<1> QED BY <1>1, BenchInv, PTL

\* The histogram the percentiles are taken from is exactly the distribution of the
\* receive-minus-send times of the messages after the warm-up, for every number of
\* messages, clock and histogram range (latency_bench.cpp run_latency(), common.hpp
\* Histogram::record()).
THEOREM HistogramIsOfTheMessages == BenchSpec => []AllMeasured
<1>1. \A S : Latency!Cardinality(S) = Cardinality(S)
  BY DEF Latency!Cardinality, Cardinality
<1>2. HistInv => AllMeasured
  BY <1>1 DEF HistInv, Counted, Taken, AllMeasured, Latency!AllMeasured, Total
<1> QED BY <1>2, BenchInv, PTL
============================================================================
