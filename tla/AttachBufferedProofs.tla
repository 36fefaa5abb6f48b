------------------------ MODULE AttachBufferedProofs ------------------------
(* Proofs about AttachBuffered: the cursor table keeps its promises with the
   stores of all threads in buffers of any length, and attach is lossless but
   for a reused entry and a count that is a lap behind. *)
EXTENDS AttachBuffered, CursorRegistryProofs

AttachType ==
  /\ buffer \in [Consumers -> Seq(Stamps)]
  /\ nextPublish \in Seqs /\ stamped \in Seqs /\ counted \in Seqs
  /\ counted <= stamped /\ stamped <= nextPublish /\ stamped <= counted + 1
  /\ InBuffer(nextPublish) <= ProducerDepth
  /\ ppc \in {"idle", "in_use", "value", "write"}
  /\ ppc # "idle" => nextPublish < MaxPublish
  /\ scan \in Ids /\ (ppc \in {"idle", "write"} => scan = 0)
  /\ cpc \in [Consumers -> {"none", "produced", "seek", "member"}]
  /\ next \in [Consumers -> Seqs]
  /\ reused \in [Consumers -> BOOLEAN] /\ late \in [Consumers -> BOOLEAN]

\* A consumer is constructed once it is registered.
LifeOf(c) ==
  /\ cpc[c] # "none" <=> stage[c] = "in"
  /\ cpc[c] \in {"none", "produced"} => next[c] = 0

\* The stores in a buffer are to an entry its owner holds, and the last one of
\* a consumer that leaves parks the cursor.
BufferOf(c) ==
  /\ buffer[c] # <<>> => stage[c] \in {"in", "release"} /\ cursorId[c] \in Ids
  /\ stage[c] = "release" =>
       IF buffer[c] = <<>> THEN value[cursorId[c]] = Infinity
                           ELSE buffer[c][Len(buffer[c])] = Infinity

\* On a fresh entry neither memory nor the buffer runs ahead of the consumer.
Fresh(c) == stage[c] \in {"init", "in"} /\ cursorId[c] \in Ids /\ ~reused[c]
FreshOf(c) ==
  Fresh(c) => /\ value[cursorId[c]] <= next[c]
              /\ \A i \in 1 .. Len(buffer[c]) : buffer[c][i] <= next[c]

\* The producer is at most a lap ahead of a consumer with such an entry that has
\* loaded a count less than a lap behind, and closer still once its scan has
\* passed the entry.
Cleared(i) == ppc \in {"in_use", "value"} /\ i < scan
Ahead == IF ppc = "write" THEN nextPublish + 1 ELSE nextPublish
GateOf(c) ==
  Fresh(c) /\ ~late[c] /\ cpc[c] \in {"seek", "member"} =>
    /\ Ahead <= next[c] + Capacity
    /\ Cleared(cursorId[c]) => nextPublish < next[c] + Capacity

ConsumerInv(c) == LifeOf(c) /\ BufferOf(c) /\ FreshOf(c) /\ GateOf(c)

\* An entry that is not in use has never been used or has been parked.
FreeAt(i) == ~inUse[i] => value[i] \in {0, Infinity}

AttachInv ==
  /\ RegIInv /\ AttachType
  /\ \A c \in Consumers : ConsumerInv(c)
  /\ \A i \in Ids : FreeAt(i)

----------------------------------------------------------------------------
(* The parts of the invariant that a step leaves alone. *)

LEMMA Numbers ==
  /\ Capacity \in Nat \ {0} /\ MaxPublish \in Nat
  /\ Seqs \subseteq Nat /\ Seqs \subseteq Stamps /\ Stamps \subseteq Nat
  /\ 0 \in Seqs /\ Infinity \in Stamps /\ \A q \in Seqs : q < Infinity
  /\ ProducerDepth \in Nat /\ ProducerDepth >= 2
  BY CapacityAssumption, RangeAssumption, BufferAssumption
  DEF Seqs, Stamps, Infinity, EmptySeq

\* The table's invariant does not look at the values of the cursors.
LEMMA ValuesTable ==
  ASSUME RegIInv, value' \in [Ids -> Stamps], UNCHANGED <<inUse, stage, cursorId>>
  PROVE  RegIInv'
<1>1. TableInv'
  BY DEF RegIInv, TableInv, RegTypeOK, CursorInRange, CursorOwnership, Holds
<1>2. \A k \in 0 .. MaxConsumers : Beyond(k)' \subseteq Beyond(k)
  BY DEF Beyond
<1> QED BY <1>1, <1>2, ShrinkDwindling DEF RegIInv

\* Nor does it tell the stages of a consumer that holds its entry apart.
LEMMA StagesTable ==
  ASSUME RegIInv, NEW c \in Consumers, NEW s \in {"in", "release"},
         stage[c] \in {"init", "in"}, cursorId[c] \in Ids,
         stage' = [stage EXCEPT ![c] = s], UNCHANGED <<inUse, value, cursorId>>
  PROVE  RegIInv'
<1>1. \A d \in Consumers, i \in Ids : Holds(d, i)' <=> Holds(d, i)
  BY DEF RegIInv, TableInv, RegTypeOK, Holds
<1>2. TableInv'
  BY <1>1 DEF RegIInv, TableInv, RegTypeOK, CursorInRange, CursorOwnership
<1>3. \A k \in 0 .. MaxConsumers : Beyond(k)' \subseteq Beyond(k)
  BY DEF RegIInv, TableInv, RegTypeOK, Beyond
<1> QED BY <1>2, <1>3, ShrinkDwindling DEF RegIInv

LEMMA AppendFacts ==
  ASSUME NEW S, NEW s \in Seq(S), NEW e \in S
  PROVE  /\ Append(s, e) \in Seq(S) /\ Append(s, e) # <<>>
         /\ Len(Append(s, e)) = Len(s) + 1 /\ Len(s) \in Nat
         /\ \A i \in 1 .. Len(s) : Append(s, e)[i] = s[i]
         /\ Append(s, e)[Len(s) + 1] = e
  OBVIOUS

LEMMA TailFacts ==
  ASSUME NEW S, NEW s \in Seq(S), s # <<>>
  PROVE  /\ Head(s) \in S /\ Tail(s) \in Seq(S) /\ Len(Tail(s)) = Len(s) - 1
         /\ Head(s) = s[1] /\ 1 \in 1 .. Len(s) /\ Len(s) \in Nat
         /\ \A i \in 1 .. Len(Tail(s)) : Tail(s)[i] = s[i + 1] /\ i + 1 \in 1 .. Len(s)
         /\ Tail(s) = <<>> => Len(s) = 1
<1>1. Head(s) \in S /\ Tail(s) \in Seq(S) /\ Len(Tail(s)) = Len(s) - 1 /\ Len(s) \in Nat
  OBVIOUS
<1>2. Head(s) = s[1] /\ 1 \in 1 .. Len(s)
  OBVIOUS
<1>3. \A i \in 1 .. Len(Tail(s)) : Tail(s)[i] = s[i + 1] /\ i + 1 \in 1 .. Len(s)
  OBVIOUS
<1>4. Tail(s) = <<>> => Len(s) = 1
  <2> DEFINE t == Tail(s)
  <2>1. Len(<<>>) = 0 /\ Len(t) = Len(s) - 1 /\ Len(s) \in Nat
    BY <1>1
  <2> HIDE DEF t
  <2>2. t = <<>> => Len(s) = 1
    BY <2>1
  <2> QED BY <2>2 DEF t
<1> QED BY <1>1, <1>2, <1>3, <1>4

LEMMA LastOfTail ==
  ASSUME NEW S, NEW s \in Seq(S), s # <<>>, Tail(s) # <<>>
  PROVE  Len(Tail(s)) \in 1 .. Len(Tail(s)) /\ Tail(s)[Len(Tail(s))] = s[Len(s)]
<1>1. Len(Tail(s)) \in Nat /\ Len(Tail(s)) # 0 /\ Len(s) = Len(Tail(s)) + 1
  BY TailFacts
<1> QED BY <1>1, TailFacts

LEMMA InitAttach == AttachInit => AttachInv
<1> SUFFICES ASSUME AttachInit PROVE AttachInv
  OBVIOUS
<1>1. RegIInv
  BY InitTable, InitDwindling DEF AttachInit, RegIInv
<1>2. AttachType
  BY Numbers, TableFacts DEF AttachInit, AttachType, InBuffer
<1>3. /\ \A c \in Consumers : ConsumerInv(c)
      /\ \A i \in Ids : FreeAt(i)
  BY TableFacts
  DEF AttachInit, RegInit, ConsumerInv, LifeOf, BufferOf, FreshOf, Fresh, GateOf, FreeAt
<1> QED BY <1>1, <1>2, <1>3 DEF AttachInv

----------------------------------------------------------------------------
(* The producer. *)

\* The gate lets the producer pass the entry it has just looked at.
LEMMA ScanGate ==
  ASSUME AttachInv, ppc \in {"in_use", "value"}, ScanOn,
         UNCHANGED <<nextPublish, regVars, cpc, next, attachGhosts>>,
         NEW c \in Consumers,
         Fresh(c) /\ ~late[c] /\ cpc[c] \in {"seek", "member"} /\ cursorId[c] = scan =>
           nextPublish < next[c] + Capacity
  PROVE  GateOf(c)'
<1> SUFFICES ASSUME Fresh(c), ~late[c], cpc[c] \in {"seek", "member"}
             PROVE  /\ Ahead' <= next[c] + Capacity
                    /\ Cleared(cursorId[c])' => nextPublish < next[c] + Capacity
  BY DEF GateOf, Fresh, regVars, attachGhosts
<1>1. /\ cursorId[c] \in Nat /\ cursorId[c] < MaxConsumers /\ MaxConsumers \in Nat
      /\ cursorId' = cursorId /\ nextPublish' = nextPublish
      /\ nextPublish \in Nat /\ next[c] \in Nat /\ scan \in Nat
  BY Numbers, TableFacts DEF Fresh, regVars, AttachInv, AttachType
<1>2. /\ nextPublish <= next[c] + Capacity
      /\ cursorId[c] <= scan => nextPublish < next[c] + Capacity
  BY <1>1 DEF AttachInv, ConsumerInv, GateOf, Cleared, Ahead
<1>3. CASE scan + 1 < MaxConsumers /\ ppc' = "in_use" /\ scan' = scan + 1
  BY <1>1, <1>2, <1>3 DEF Ahead, Cleared
<1>4. CASE ~(scan + 1 < MaxConsumers) /\ ppc' = "write" /\ scan' = 0
  <2>1. nextPublish < next[c] + Capacity
    BY <1>1, <1>2, <1>4
  <2> QED BY <1>1, <1>4, <2>1, Numbers DEF Ahead, Cleared
<1> QED BY <1>3, <1>4 DEF ScanOn

LEMMA ProducerAttach ==
  ASSUME AttachInv,
         Begin \/ LoadInUse \/ LoadValue \/ Publish \/ DrainStamp \/ DrainCount
  PROVE  AttachInv'
<1> USE DEF AttachInv
<1> USE DEF attachGhosts
<1>0. /\ UNCHANGED <<regVars, buffer, cpc, next, attachGhosts>>
      /\ nextPublish \in Nat /\ Capacity \in Nat \ {0} /\ scan \in Ids /\ 0 \in Ids
  BY Numbers, TableFacts
  DEF Begin, LoadInUse, LoadValue, Publish, DrainStamp, DrainCount, AttachType
<1>1. RegIInv' /\ \A i \in Ids : FreeAt(i)'
  BY <1>0, ValuesTable DEF regVars, RegIInv, TableInv, RegTypeOK, FreeAt
<1>2. AttachType'
  <2>1. CASE Begin \/ LoadInUse \/ LoadValue
    BY <1>0, <2>1, TableFacts, Numbers
    DEF Begin, LoadInUse, LoadValue, ScanOn, AttachType, memVars, InBuffer
  <2>2. CASE Publish \/ DrainStamp \/ DrainCount
    BY <1>0, <2>2, TableFacts, Numbers
    DEF Publish, DrainStamp, DrainCount, AttachType, memVars, InBuffer, Seqs
  <2> QED BY <2>1, <2>2
<1> SUFFICES ASSUME NEW c \in Consumers PROVE GateOf(c)'
  BY <1>0, <1>1, <1>2 DEF regVars, ConsumerInv, LifeOf, BufferOf, FreshOf, Fresh
<1>3. /\ GateOf(c) /\ FreshOf(c) /\ next[c] \in Nat
      /\ (Fresh(c)' <=> Fresh(c)) /\ late' = late
  BY <1>0, Numbers DEF regVars, Fresh, ConsumerInv, AttachType
<1>4. ASSUME Ahead' <= Ahead, \A i \in Ids : Cleared(i)' => Cleared(i),
             UNCHANGED nextPublish
      PROVE  GateOf(c)'
  <2>1. Ahead \in Nat /\ Ahead' \in Nat
    BY <1>0, <1>4 DEF Ahead
  <2> QED BY <1>0, <1>3, <1>4, <2>1 DEF regVars, GateOf, Fresh
<1>5. CASE Begin
  <2>1. scan = 0 /\ scan' = 0 /\ nextPublish' = nextPublish
        /\ ppc = "idle" /\ ppc' = IF nextPublish >= Capacity THEN "in_use" ELSE "write"
    BY <1>5 DEF Begin, AttachType
  <2>2. \A i \in Ids : ~Cleared(i)'
    BY <2>1, TableFacts DEF Cleared
  <2>3. Fresh(c) /\ ~late[c] /\ cpc[c] \in {"seek", "member"} =>
          Ahead' <= next[c] + Capacity
    BY <1>0, <1>3, <2>1 DEF Ahead, GateOf
  <2> QED BY <1>0, <1>3, <2>2, <2>3 DEF regVars, GateOf, Fresh
<1>6. CASE LoadInUse
  <2>1. CASE ~inUse[scan] /\ ScanOn
    <3>1. Fresh(c) => cursorId[c] # scan
      BY <1>0, <2>1 DEF Fresh, RegIInv, TableInv, CursorOwnership, Holds
    <3> QED BY <1>0, <1>6, <2>1, <3>1, ScanGate DEF LoadInUse
  <2>2. CASE ppc' = "value" /\ UNCHANGED scan
    BY <1>0, <1>4, <1>6, <2>2 DEF LoadInUse, Cleared, Ahead
  <2> QED BY <1>6, <2>1, <2>2 DEF LoadInUse
<1>7. CASE LoadValue
  <2>1. CASE ~(value[scan] <= nextPublish - Capacity) /\ ScanOn
    <3>1. ASSUME Fresh(c), cursorId[c] = scan PROVE nextPublish < next[c] + Capacity
      <4>1. value[scan] \in Nat /\ value[scan] <= next[c]
        BY <1>0, <1>3, <3>1, Numbers DEF FreshOf, RegIInv, TableInv, RegTypeOK
      <4> QED BY <1>0, <1>3, <2>1, <4>1
    <3> QED BY <1>0, <1>7, <2>1, <3>1, ScanGate DEF LoadValue
  <2>2. CASE ppc' = "in_use" /\ scan' = 0
    <3>1. \A i \in Ids : ~Cleared(i)'
      BY <2>2, TableFacts DEF Cleared
    <3> QED BY <1>0, <1>4, <1>7, <2>2, <3>1 DEF LoadValue, Ahead
  <2> QED BY <1>7, <2>1, <2>2 DEF LoadValue
<1>8. CASE Publish
  <2>1. Ahead' = Ahead /\ \A i : ~Cleared(i)'
    BY <1>8 DEF Publish, Ahead, Cleared
  <2> QED BY <1>0, <1>3, <2>1 DEF regVars, GateOf, Fresh
<1>9. CASE DrainStamp \/ DrainCount
  <2>1. Ahead' = Ahead /\ nextPublish' = nextPublish /\ \A i : Cleared(i)' = Cleared(i)
    BY <1>9 DEF DrainStamp, DrainCount, Ahead, Cleared
  <2> QED BY <1>0, <1>3, <2>1 DEF regVars, GateOf, Fresh
<1> QED BY <1>5, <1>6, <1>7, <1>8, <1>9

----------------------------------------------------------------------------
(* The consumers. *)

\* A step of c leaves to the others what is theirs.
OnlyMoves(c) ==
  /\ UNCHANGED prodVars
  /\ \A d \in Consumers \ {c} :
       /\ stage'[d] = stage[d] /\ cursorId'[d] = cursorId[d]
       /\ cpc'[d] = cpc[d] /\ next'[d] = next[d]
       /\ reused'[d] = reused[d] /\ late'[d] = late[d] /\ buffer'[d] = buffer[d]
  /\ \A i \in Ids :
       IF Holds(c, i) THEN inUse'[i] \/ value'[i] = Infinity
                      ELSE value'[i] = value[i] /\ (inUse[i] => inUse'[i])

LEMMA ConsumerFrame ==
  ASSUME NEW c \in Consumers, AttachInv, OnlyMoves(c),
         RegIInv', AttachType', ConsumerInv(c)'
  PROVE  AttachInv'
<1>1. ASSUME NEW i \in Ids PROVE FreeAt(i)'
  BY DEF OnlyMoves, FreeAt, AttachInv
<1>2. ASSUME NEW d \in Consumers \ {c} PROVE ConsumerInv(d)'
  <2>1. /\ stage'[d] = stage[d] /\ cursorId'[d] = cursorId[d] /\ cpc'[d] = cpc[d]
        /\ next'[d] = next[d] /\ reused'[d] = reused[d] /\ late'[d] = late[d]
        /\ buffer'[d] = buffer[d] /\ ConsumerInv(d)
    BY DEF OnlyMoves, AttachInv
  <2>2. stage[d] \in {"init", "in", "release"} /\ cursorId[d] \in Ids =>
          value'[cursorId[d]] = value[cursorId[d]]
    BY DEF OnlyMoves, Holds, AttachInv, RegIInv, TableInv, CursorOwnership
  <2>3. stage[d] = "release" => cursorId[d] \in Ids
    BY DEF AttachInv, RegIInv, TableInv, CursorInRange
  <2>4. LifeOf(d)' /\ BufferOf(d)'
    BY <2>1, <2>2, <2>3 DEF ConsumerInv, LifeOf, BufferOf
  <2>5. FreshOf(d)'
    BY <2>1, <2>2 DEF ConsumerInv, FreshOf, Fresh
  <2>6. GateOf(d)'
    BY <2>1 DEF OnlyMoves, prodVars, ConsumerInv, GateOf, Fresh, Cleared, Ahead
  <2> QED BY <2>4, <2>5, <2>6 DEF ConsumerInv
<1> QED BY <1>1, <1>2 DEF AttachInv

\* What a consumer's step starts from.
LEMMA Mine ==
  ASSUME NEW c \in Consumers, AttachInv
  PROVE  /\ RegIInv /\ AttachType /\ ConsumerInv(c)
         /\ stage[c] \in {"claim", "init", "release"} => cursorId[c] \in Ids
         /\ cursorId[c] \in Ids \cup {MaxConsumers}
         /\ cursorId[c] < MaxConsumers <=> cursorId[c] \in Ids
         /\ next[c] \in Seqs /\ next[c] \in Nat /\ nextPublish \in Seqs
         /\ \A i \in Ids : Holds(c, i) => inUse[i]
  BY TableFacts, Numbers
  DEF AttachInv, RegIInv, TableInv, RegTypeOK, CursorInRange, CursorOwnership, AttachType

\* A store put off: the buffer grows by it, and by nothing else.
LEMMA Buffered ==
  ASSUME NEW c \in Consumers, AttachInv, NEW v \in Stamps, Buffer(c, v)
  PROVE  /\ buffer' \in [Consumers -> Seq(Stamps)]
         /\ \A d \in Consumers \ {c} : buffer'[d] = buffer[d]
         /\ cursorId[c] \notin Ids => buffer'[c] = buffer[c]
         /\ cursorId[c] \in Ids => buffer'[c] = Append(buffer[c], v)
<1>1. buffer \in [Consumers -> Seq(Stamps)] /\ buffer[c] \in Seq(Stamps)
  BY DEF AttachInv, AttachType
<1>2. Append(buffer[c], v) \in Seq(Stamps)
  BY <1>1, AppendFacts
<1>3. IF cursorId[c] \in Ids THEN buffer' = [buffer EXCEPT ![c] = Append(buffer[c], v)]
                             ELSE buffer' = buffer
  BY Mine DEF Buffer
<1> QED BY <1>1, <1>2, <1>3, Zenon

\* The put-off store is no higher than the consumer's next message.
LEMMA BufferedFresh ==
  ASSUME NEW c \in Consumers, AttachInv, NEW v \in Stamps, Buffer(c, v),
         Fresh(c)' => Fresh(c), cursorId' = cursorId, value' = value,
         next'[c] \in Nat, next[c] <= next'[c], v <= next'[c]
  PROVE  FreshOf(c)'
<1> SUFFICES ASSUME Fresh(c)
             PROVE  /\ value[cursorId[c]] <= next'[c]
                    /\ \A i \in 1 .. Len(buffer'[c]) : buffer'[c][i] <= next'[c]
  BY DEF FreshOf
<1>1. /\ cursorId[c] \in Ids /\ next[c] \in Nat
      /\ value[cursorId[c]] \in Nat /\ value[cursorId[c]] <= next[c]
      /\ \A i \in 1 .. Len(buffer[c]) : buffer[c][i] <= next[c]
      /\ buffer[c] \in Seq(Stamps)
  BY Mine, Numbers
  DEF Fresh, ConsumerInv, FreshOf, RegIInv, TableInv, RegTypeOK, AttachType
<1>2. buffer'[c] = Append(buffer[c], v)
  BY <1>1, Buffered
<1>3. ASSUME NEW i \in 1 .. Len(buffer'[c]) PROVE buffer'[c][i] <= next'[c]
  <2>1. /\ Len(buffer'[c]) = Len(buffer[c]) + 1 /\ Len(buffer[c]) \in Nat
        /\ \A k \in 1 .. Len(buffer[c]) : buffer'[c][k] = buffer[c][k]
        /\ buffer'[c][Len(buffer[c]) + 1] = v
    BY <1>1, <1>2, AppendFacts
  <2>2. CASE i = Len(buffer[c]) + 1
    BY <2>1, <2>2
  <2>3. CASE i \in 1 .. Len(buffer[c])
    <3>1. buffer[c][i] \in Stamps
      BY <1>1, <2>3
    <3>2. buffer[c][i] \in Nat /\ buffer[c][i] <= next[c]
      BY <1>1, <2>3, <3>1, Numbers
    <3> QED BY <1>1, <2>1, <2>3, <3>2
  <2> QED BY <2>1, <2>2, <2>3
<1> QED BY <1>1, <1>3

LEMMA RegisteringAttach ==
  ASSUME NEW c \in Consumers, AttachInv, Construct(c) \/ ClaimEntry(c) \/ TryNext(c)
  PROVE  AttachInv'
<1>0. RegIInv /\ AttachType /\ ConsumerInv(c) /\ RegTypeOK
  BY Mine DEF RegIInv, TableInv
<1>1. stage[c] \in {"out", "claim"} /\ cpc[c] = "none" /\ next[c] = 0 /\ buffer[c] = <<>>
  BY <1>0 DEF Construct, ClaimEntry, TryNext, Enter, Claim, SkipTaken,
              ConsumerInv, LifeOf, BufferOf, AttachType
<1>2. RegIInv'
  BY <1>0, NextRegIInv DEF Construct, ClaimEntry, TryNext, RegNext, RegStep
<1>3. AttachType'
  BY <1>0
  DEF Construct, ClaimEntry, TryNext, prodVars, memVars, attachGhosts, InBuffer, AttachType
<1>4. OnlyMoves(c)
  BY <1>0, <1>1, Mine
  DEF Construct, ClaimEntry, TryNext, Enter, Claim, SkipTaken, RegTypeOK,
      AttachType, OnlyMoves, attachGhosts, Holds
<1>5. ConsumerInv(c)'
  <2>1. CASE Construct(c)
    BY <1>0, <1>1, <2>1
    DEF Construct, Enter, RegTypeOK, ConsumerInv, LifeOf, BufferOf, FreshOf, GateOf, Fresh
  <2>2. CASE ClaimEntry(c)
    <3>1. /\ cursorId[c] \in Ids /\ ~inUse[cursorId[c]] /\ stage[c] = "claim"
          /\ UNCHANGED <<buffer, cpc, next, cursorId, value>>
          /\ stage'[c] = "init"
          /\ reused'[c] <=> value[cursorId[c]] = Infinity
      BY <1>0, <2>2, Mine DEF ClaimEntry, Claim, RegTypeOK, AttachType
    <3>2. value[cursorId[c]] \in {0, Infinity}
      BY <3>1 DEF AttachInv, FreeAt
    <3> QED BY <1>1, <3>1, <3>2
        DEF ConsumerInv, LifeOf, BufferOf, FreshOf, GateOf, Fresh
  <2>3. CASE TryNext(c)
    <3>1. /\ stage[c] = "claim" /\ cursorId[c] \in Ids
          /\ UNCHANGED <<buffer, next>>
          /\ cursorId'[c] = cursorId[c] + 1
          /\ stage'[c] = IF cursorId[c] + 1 = MaxConsumers THEN "in" ELSE "claim"
          /\ cpc'[c] = IF stage'[c] = "in" THEN "produced" ELSE cpc[c]
      BY <1>0, <2>3, Mine DEF TryNext, SkipTaken, RegTypeOK, AttachType
    <3> QED BY <1>1, <3>1, TableFacts
        DEF ConsumerInv, LifeOf, BufferOf, FreshOf, GateOf, Fresh
  <2> QED BY <2>1, <2>2, <2>3
<1> QED BY <1>2, <1>3, <1>4, <1>5, ConsumerFrame

LEMMA BufferZeroAttach ==
  ASSUME NEW c \in Consumers, AttachInv, BufferZero(c)
  PROVE  AttachInv'
<1>0. /\ RegIInv /\ AttachType /\ ConsumerInv(c) /\ RegTypeOK
      /\ stage[c] = "init" /\ cursorId[c] \in Ids /\ cpc[c] = "none" /\ next[c] = 0
      /\ Buffer(c, 0) /\ 0 \in Stamps
      /\ stage' = [stage EXCEPT ![c] = "in"] /\ cpc' = [cpc EXCEPT ![c] = "produced"]
      /\ UNCHANGED <<inUse, value, cursorId, prodVars, next, attachGhosts>>
  BY Mine, Numbers DEF BufferZero, ConsumerInv, LifeOf, AttachType, RegIInv, TableInv
<1>1. RegIInv'
  BY <1>0, StagesTable
<1>2. AttachType'
  BY <1>0, Buffered DEF prodVars, memVars, attachGhosts, InBuffer, AttachType
<1>3. OnlyMoves(c)
  BY <1>0, Mine, Buffered DEF OnlyMoves, attachGhosts, RegTypeOK, AttachType
<1>4. FreshOf(c)'
  BY <1>0, BufferedFresh DEF attachGhosts, Fresh
<1>5. LifeOf(c)' /\ BufferOf(c)' /\ GateOf(c)'
  BY <1>0 DEF RegTypeOK, AttachType, LifeOf, BufferOf, GateOf
<1> QED BY <1>1, <1>2, <1>3, <1>4, <1>5, ConsumerFrame DEF ConsumerInv

LEMMA LoadProducedAttach ==
  ASSUME NEW c \in Consumers, AttachInv, LoadProduced(c)
  PROVE  AttachInv'
<1>0. /\ RegIInv /\ AttachType /\ ConsumerInv(c) /\ RegTypeOK
      /\ stage[c] = "in" /\ cpc[c] = "produced" /\ next[c] = 0
      /\ next' = [next EXCEPT ![c] = counted] /\ cpc' = [cpc EXCEPT ![c] = "seek"]
      /\ late' = [late EXCEPT ![c] = nextPublish >= counted + Capacity]
      /\ UNCHANGED <<regVars, buffer, prodVars, reused>>
  BY Mine DEF LoadProduced, ConsumerInv, LifeOf, AttachType, RegIInv, TableInv
<1>1. RegIInv'
  BY <1>0, ValuesTable DEF regVars, RegTypeOK
<1>2. AttachType'
  BY <1>0 DEF prodVars, memVars, attachGhosts, InBuffer, AttachType
<1>3. OnlyMoves(c)
  BY <1>0, Mine DEF OnlyMoves, regVars, AttachType
<1>4. FreshOf(c)'
  <2> SUFFICES ASSUME Fresh(c)
               PROVE  /\ value[cursorId[c]] <= counted
                      /\ \A i \in 1 .. Len(buffer[c]) : buffer[c][i] <= counted
    BY <1>0 DEF FreshOf, Fresh, regVars, AttachType
  <2>1. /\ value[cursorId[c]] \in Nat /\ counted \in Nat
        /\ value[cursorId[c]] <= 0
        /\ \A i \in 1 .. Len(buffer[c]) : buffer[c][i] <= 0
    BY <1>0, Numbers DEF Fresh, RegTypeOK, AttachType, ConsumerInv, FreshOf
  <2>2. \A i \in 1 .. Len(buffer[c]) : buffer[c][i] \in Nat
    <3>1. buffer[c] \in Seq(Stamps)
      BY <1>0 DEF AttachType
    <3>2. \A i \in 1 .. Len(buffer[c]) : buffer[c][i] \in Stamps
      BY <3>1
    <3> QED BY <3>2, Numbers
  <2> QED BY <2>1, <2>2
<1>5. LifeOf(c)' /\ BufferOf(c)'
  BY <1>0 DEF regVars, AttachType, ConsumerInv, LifeOf, BufferOf
<1>6. GateOf(c)'
  <2>1. /\ next'[c] = counted /\ counted \in Nat
        /\ nextPublish' = nextPublish /\ nextPublish \in Nat /\ ppc' = ppc
    BY <1>0, Numbers DEF prodVars, AttachType
  <2>2. late'[c] <=> nextPublish >= counted + Capacity
    BY <1>0 DEF AttachType
  <2>3. ~late'[c] => nextPublish < counted + Capacity
    BY <2>1, <2>2, Numbers
  <2> QED BY <2>1, <2>3, Numbers DEF GateOf, Ahead
<1> QED BY <1>1, <1>2, <1>3, <1>4, <1>5, <1>6, ConsumerFrame DEF ConsumerInv

\* A consumer that stays a member stores the position it moves to.
LEMMA AdvanceAttach ==
  ASSUME NEW c \in Consumers, AttachInv, NEW n \in Seqs,
         cpc[c] \in {"seek", "member"}, next[c] <= n, Buffer(c, n),
         next' = [next EXCEPT ![c] = n], cpc' = [cpc EXCEPT ![c] = "member"],
         UNCHANGED <<regVars, prodVars, attachGhosts>>
  PROVE  AttachInv'
<1>0. /\ RegIInv /\ AttachType /\ ConsumerInv(c) /\ RegTypeOK
      /\ stage[c] = "in" /\ next[c] \in Nat /\ n \in Nat /\ n \in Stamps
      /\ next'[c] = n /\ cpc'[c] = "member"
  BY Mine, Numbers DEF ConsumerInv, LifeOf, AttachType, RegIInv, TableInv
<1>1. RegIInv'
  BY <1>0, ValuesTable DEF regVars, RegTypeOK
<1>2. AttachType'
  BY <1>0, Buffered DEF prodVars, memVars, attachGhosts, InBuffer, AttachType
<1>3. OnlyMoves(c)
  BY <1>0, Mine, Buffered DEF OnlyMoves, attachGhosts, regVars, AttachType
<1>4. FreshOf(c)'
  BY <1>0, BufferedFresh DEF attachGhosts, Fresh, regVars
<1>5. LifeOf(c)' /\ BufferOf(c)'
  <2>1. cursorId[c] \notin Ids => buffer'[c] = buffer[c]
    BY <1>0, Buffered
  <2> QED BY <1>0, <2>1 DEF regVars, ConsumerInv, LifeOf, BufferOf
<1>6. GateOf(c)'
  <2>1. nextPublish \in Nat /\ Ahead \in Nat
    BY <1>0, Numbers DEF AttachType, Ahead
  <2>2. nextPublish' = nextPublish /\ Ahead' = Ahead
    BY DEF prodVars, memVars, attachGhosts, Ahead
  <2>3. (Fresh(c)' => Fresh(c)) /\ late' = late
    BY DEF regVars, attachGhosts, Fresh
  <2>4. Cleared(cursorId[c])' => Cleared(cursorId[c])
    BY DEF prodVars, memVars, attachGhosts, regVars, Cleared
  <2> SUFFICES ASSUME Fresh(c), ~late[c]
               PROVE  /\ Ahead <= n + Capacity
                      /\ Cleared(cursorId[c])' => nextPublish < n + Capacity
    BY <1>0, <2>2, <2>3 DEF GateOf
  <2>5. /\ Ahead <= next[c] + Capacity
        /\ Cleared(cursorId[c]) => nextPublish < next[c] + Capacity
    BY <1>0 DEF ConsumerInv, GateOf
  <2> QED BY <1>0, <2>1, <2>4, <2>5, Numbers
<1> QED BY <1>1, <1>2, <1>3, <1>4, <1>5, <1>6, ConsumerFrame DEF ConsumerInv

LEMMA MemberAttach ==
  ASSUME NEW c \in Consumers, AttachInv, Seek(c) \/ Commit(c)
  PROVE  AttachInv'
<1>0. /\ next \in [Consumers -> Seqs]
      /\ cpc \in [Consumers -> {"none", "produced", "seek", "member"}]
  BY DEF AttachInv, AttachType
<1>1. CASE Seek(c)
  <2>1. next' = [next EXCEPT ![c] = next[c]] /\ next[c] <= next[c] /\ next[c] \in Seqs
    BY <1>0, <1>1, Mine DEF Seek
  <2> QED BY <1>1, <2>1, AdvanceAttach DEF Seek
<1>2. CASE Commit(c)
  <2>1. next[c] + 1 \in Seqs /\ next[c] <= next[c] + 1
    BY <1>2, Mine, Numbers DEF Commit, Seqs, AttachType
  <2>2. cpc' = [cpc EXCEPT ![c] = "member"] /\ cpc[c] = "member"
    BY <1>0, <1>2 DEF Commit
  <2> QED BY <1>2, <2>1, <2>2, AdvanceAttach DEF Commit
<1> QED BY <1>1, <1>2

LEMMA DepartAttach ==
  ASSUME NEW c \in Consumers, AttachInv, Depart(c)
  PROVE  AttachInv'
<1>0. /\ RegIInv /\ AttachType /\ ConsumerInv(c) /\ RegTypeOK /\ 0 \in Seqs
      /\ cpc' = [cpc EXCEPT ![c] = "none"] /\ next' = [next EXCEPT ![c] = 0]
      /\ reused' = [reused EXCEPT ![c] = FALSE] /\ late' = [late EXCEPT ![c] = FALSE]
      /\ UNCHANGED prodVars
  BY Mine, Numbers DEF Depart, RegIInv, TableInv
<1>1. CASE /\ cpc[c] = "member" /\ Tracked(c) /\ Buffer(c, Infinity)
           /\ stage' = [stage EXCEPT ![c] = "release"]
           /\ UNCHANGED <<inUse, value, cursorId>>
  <2>0. cursorId[c] \in Ids /\ stage[c] = "in" /\ stage'[c] = "release"
        /\ Infinity \in Stamps
    BY <1>0, <1>1, Mine, Numbers DEF Tracked, RegTypeOK
  <2>1. RegIInv'
    BY <1>0, <1>1, <2>0, StagesTable
  <2>2. AttachType'
    BY <1>0, <1>1, <2>0, Buffered DEF prodVars, memVars, attachGhosts, InBuffer, AttachType
  <2>3. OnlyMoves(c)
    BY <1>0, <1>1, <2>0, Mine, Buffered DEF OnlyMoves, attachGhosts, RegTypeOK, AttachType
  <2>4. BufferOf(c)'
    <3>1. buffer'[c] = Append(buffer[c], Infinity) /\ buffer[c] \in Seq(Stamps)
      BY <1>0, <1>1, <2>0, Buffered DEF AttachType
    <3>2. buffer'[c] # <<>> /\ buffer'[c][Len(buffer'[c])] = Infinity
      BY <2>0, <3>1, AppendFacts
    <3> QED BY <1>1, <2>0, <3>2 DEF BufferOf
  <2>5. LifeOf(c)' /\ FreshOf(c)' /\ GateOf(c)'
    BY <1>0, <2>0 DEF AttachType, LifeOf, FreshOf, GateOf, Fresh
  <2> QED BY <2>1, <2>2, <2>3, <2>4, <2>5, ConsumerFrame DEF ConsumerInv
<1>2. CASE /\ cpc[c] \in {"none", "member"} /\ ~Tracked(c) /\ buffer[c] = <<>>
           /\ Unregister(c) /\ UNCHANGED buffer
  <2>1. RegIInv'
    BY <1>0, <1>2, NextRegIInv DEF RegNext
  <2>2. AttachType'
    BY <1>0, <1>2 DEF prodVars, memVars, attachGhosts, InBuffer, AttachType
  <2>3. stage'[c] = "out" /\ UNCHANGED value
    BY <1>0, <1>2 DEF Unregister, RegTypeOK
  <2>4. OnlyMoves(c)
    <3>1. \A i \in Ids : IF Holds(c, i) THEN inUse'[i] \/ value'[i] = Infinity
                                        ELSE inUse[i] => inUse'[i]
      <4>1. CASE stage[c] = "release" /\ inUse' = [inUse EXCEPT ![cursorId[c]] = FALSE]
        BY <1>0, <1>2, <2>3, <4>1 DEF Holds, ConsumerInv, BufferOf, RegTypeOK
      <4>2. CASE UNCHANGED inUse
        BY <4>2, Mine
      <4> QED BY <1>2, <4>1, <4>2 DEF Unregister
    <3>2. \A d \in Consumers \ {c} : stage'[d] = stage[d] /\ cursorId'[d] = cursorId[d]
      BY <1>0, <1>2 DEF Unregister, RegTypeOK
    <3> QED BY <1>0, <1>2, <2>3, <3>1, <3>2 DEF OnlyMoves, AttachType
  <2>5. ConsumerInv(c)'
    BY <1>0, <1>2, <2>3
    DEF AttachType, ConsumerInv, LifeOf, BufferOf, FreshOf, GateOf, Fresh
  <2> QED BY <2>1, <2>2, <2>4, <2>5, ConsumerFrame
<1> QED BY <1>1, <1>2 DEF Depart

LEMMA DrainAttach ==
  ASSUME NEW c \in Consumers, AttachInv, Drain(c)
  PROVE  AttachInv'
<1> DEFINE b == buffer[c]
<1>0. /\ RegIInv /\ AttachType /\ ConsumerInv(c) /\ RegTypeOK
      /\ b # <<>> /\ b \in Seq(Stamps)
      /\ stage[c] \in {"in", "release"} /\ cursorId[c] \in Ids
      /\ UNCHANGED <<inUse, stage, cursorId, prodVars, cpc, next, attachGhosts>>
      /\ value' = [value EXCEPT ![cursorId[c]] = Head(b)]
      /\ buffer' = [buffer EXCEPT ![c] = Tail(b)]
  BY Mine DEF Drain, ConsumerInv, BufferOf, RegIInv, TableInv, AttachType
<1>1. /\ Head(b) \in Stamps /\ Tail(b) \in Seq(Stamps)
      /\ Head(b) = b[1] /\ 1 \in 1 .. Len(b)
      /\ \A i \in 1 .. Len(Tail(b)) : Tail(b)[i] = b[i + 1] /\ i + 1 \in 1 .. Len(b)
      /\ Tail(b) = <<>> => Len(b) = 1
      /\ Tail(b) # <<>> => Tail(b)[Len(Tail(b))] = b[Len(b)]
  BY <1>0, TailFacts, LastOfTail
<1>2. value'[cursorId[c]] = Head(b) /\ buffer'[c] = Tail(b)
  BY <1>0 DEF RegTypeOK, AttachType
<1>3. RegIInv'
  BY <1>0, <1>1, ValuesTable DEF RegTypeOK
<1>4. AttachType'
  BY <1>0, <1>1 DEF prodVars, memVars, attachGhosts, InBuffer, AttachType
<1>5. OnlyMoves(c)
  BY <1>0, Mine DEF OnlyMoves, attachGhosts, Holds, RegTypeOK, AttachType
<1> HIDE DEF b
<1>6. BufferOf(c)'
  <2>1. stage[c] = "release" => b[Len(b)] = Infinity
    BY <1>0 DEF b, ConsumerInv, BufferOf
  <2> QED BY <1>0, <1>1, <1>2, <2>1 DEF BufferOf
<1>7. FreshOf(c)'
  <2> SUFFICES ASSUME Fresh(c)
               PROVE  /\ Head(b) <= next[c]
                      /\ \A i \in 1 .. Len(Tail(b)) : Tail(b)[i] <= next[c]
    BY <1>0, <1>2 DEF FreshOf, Fresh, attachGhosts
  <2>1. \A i \in 1 .. Len(b) : b[i] <= next[c]
    BY <1>0 DEF b, ConsumerInv, FreshOf
  <2> QED BY <1>1, <2>1
<1>8. LifeOf(c)' /\ GateOf(c)'
  BY <1>0
  DEF prodVars, attachGhosts, ConsumerInv, LifeOf, GateOf, Fresh, Ahead, Cleared
<1> QED BY <1>3, <1>4, <1>5, <1>6, <1>7, <1>8, ConsumerFrame DEF ConsumerInv

----------------------------------------------------------------------------
(* The theorems. *)

LEMMA NextAttach == AttachInv /\ [AttachNext]_attachVars => AttachInv'
<1> SUFFICES ASSUME AttachInv, [AttachNext]_attachVars PROVE AttachInv'
  OBVIOUS
<1>1. CASE \/ Begin \/ LoadInUse \/ LoadValue \/ Publish
           \/ DrainStamp \/ DrainCount
  BY <1>1, ProducerAttach
<1>2. ASSUME NEW c \in Consumers, Drain(c) PROVE AttachInv'
  BY <1>2, DrainAttach
<1>3. ASSUME NEW c \in Consumers, ConsumerStep(c) PROVE AttachInv'
  BY <1>3, RegisteringAttach, BufferZeroAttach, LoadProducedAttach, MemberAttach,
     DepartAttach
  DEF ConsumerStep
<1>4. CASE UNCHANGED attachVars
  <2>1. RegIInv'
    BY <1>4, NextRegIInv DEF attachVars, AttachInv
  <2>2. AttachType'
    BY <1>4 DEF attachVars, prodVars, memVars, attachGhosts, InBuffer, AttachInv, AttachType
  <2> QED BY <1>4, <2>1, <2>2
      DEF attachVars, regVars, prodVars, attachGhosts, AttachInv, ConsumerInv, LifeOf,
          BufferOf, FreshOf, Fresh, GateOf, Cleared, Ahead, FreeAt
<1> QED BY <1>1, <1>2, <1>3, <1>4 DEF AttachNext

THEOREM AttachInvariance == AttachSpec => []AttachInv
<1> QED BY InitAttach, NextAttach, PTL DEF AttachSpec

\* The table keeps one holder per entry while the cursors' stores, the parking
\* store of unregister_consumer() among them, wait in store buffers.
THEOREM OneHolderBuffered == AttachSpec => []CursorOwnership
<1>1. AttachInv => CursorOwnership
  BY DEF AttachInv, RegIInv, TableInv
<1> QED BY <1>1, AttachInvariance, PTL

\* And register_consumer() turns away no more consumers than there are too many.
THEOREM FewTurnedAwayBuffered == AttachSpec => []RoomForAll
<1>1. AttachInv => RoomForAll
  BY RoomLemma DEF AttachInv
<1> QED BY <1>1, AttachInvariance, PTL

\* However long stores are put off, the producer's and the consumers', the slot of
\* a message attach_consumer_at_current() promised is overwritten only on an entry
\* that another consumer left behind, or if a lap of publishes was not counted yet:
\* otherwise await_consumers_past() sees a cursor no higher than the position.
THEOREM LosslessButFor == AttachSpec => []OverrunNeedsReuseOrLateCount
<1>1. AttachInv => OverrunNeedsReuseOrLateCount
  <2> SUFFICES ASSUME AttachInv, NEW c \in Consumers, Tracked(c), Overrun(c),
                      ~reused[c], ~late[c]
               PROVE  FALSE
    BY DEF OverrunNeedsReuseOrLateCount
  <2>1. Fresh(c) /\ cpc[c] = "member" /\ ConsumerInv(c)
    BY Mine DEF Fresh, Tracked, Overrun
  <2>2. Ahead <= next[c] + Capacity
    BY <2>1 DEF ConsumerInv, GateOf
  <2>3. Ahead > next[c] + Capacity
    BY DEF Overrun, Ahead
  <2>4. nextPublish \in Nat /\ next[c] \in Nat
    BY Mine, Numbers
  <2>5. Ahead \in Nat
    BY <2>4 DEF Ahead
  <2> QED BY <2>2, <2>3, <2>4, <2>5, Numbers
<1> QED BY <1>1, AttachInvariance, PTL

----------------------------------------------------------------------------
(* A ring that is not small beside the producer's store buffer. *)

SmallBuffer == ProducerDepth <= 2 * Capacity - 2
NoneLate == \A c \in Consumers : ~late[c]

LEMMA NeverLate ==
  ASSUME SmallBuffer, AttachInv, NoneLate, [AttachNext]_attachVars
  PROVE  NoneLate'
<1>1. /\ nextPublish \in Nat /\ stamped \in Nat /\ counted \in Nat
      /\ stamped <= counted + 1 /\ InBuffer(nextPublish) <= ProducerDepth
      /\ late \in [Consumers -> BOOLEAN]
  BY Numbers DEF AttachInv, AttachType
<1>2. ~(nextPublish >= counted + Capacity)
  BY <1>1, Numbers DEF SmallBuffer, InBuffer
<1>3. ASSUME NEW c \in Consumers, LoadProduced(c) \/ Depart(c) PROVE NoneLate'
  BY <1>1, <1>2, <1>3 DEF LoadProduced, Depart, NoneLate
<1>4. CASE UNCHANGED late
  BY <1>4 DEF NoneLate
<1> QED BY <1>3, <1>4
    DEF AttachNext, ConsumerStep, attachVars, attachGhosts, Begin, LoadInUse, LoadValue,
        Publish, DrainStamp, DrainCount, Drain, Construct, ClaimEntry, TryNext,
        BufferZero, Seek, Commit

\* If the producer's buffer holds less than a lap of messages, its delays are
\* harmless: attach loses a message only on an entry another consumer left behind.
THEOREM LosslessOnFreshEntry ==
  ASSUME SmallBuffer
  PROVE  AttachSpec => [](\A c \in Consumers : Tracked(c) /\ Overrun(c) => reused[c])
<1>1. AttachInit => NoneLate
  BY DEF AttachInit, NoneLate
<1>2. AttachInv /\ NoneLate /\ [AttachNext]_attachVars => NoneLate'
  BY NeverLate
<1>3. AttachSpec => []NoneLate
  BY <1>1, <1>2, AttachInvariance, PTL DEF AttachSpec
<1>4. NoneLate /\ OverrunNeedsReuseOrLateCount =>
        \A c \in Consumers : Tracked(c) /\ Overrun(c) => reused[c]
  BY DEF NoneLate, OverrunNeedsReuseOrLateCount
<1> QED BY <1>3, <1>4, LosslessButFor, PTL
============================================================================
