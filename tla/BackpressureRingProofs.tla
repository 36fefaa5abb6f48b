----------------------- MODULE BackpressureRingProofs -----------------------
(* Proofs about BackpressureRing, for every Capacity, length of the stream, set
   of consumers and set of parts, and a table of any size: a consumer for which
   it has no entry is there, and disturbs nobody that has one. *)
EXTENDS BackpressureRing, CursorRegistryProofs

\* A sequence number maps to a slot of the ring.
LEMMA SlotType == ASSUME NEW q \in Nat PROVE SlotOf(q) \in Slots
  BY CapacityAssumption DEF SlotOf, Slots

\* Two messages that share a slot are at least a lap apart.
LEMMA LapApart ==
  ASSUME NEW a \in Nat, NEW b \in Nat, a < b, SlotOf(a) = SlotOf(b)
  PROVE  a + Capacity <= b
<1> DEFINE i == a \div Capacity
           j == b \div Capacity
<1>1. /\ i \in Int /\ j \in Int
      /\ a = Capacity * i + SlotOf(a)
      /\ b = Capacity * j + SlotOf(a)
  BY CapacityAssumption DEF SlotOf
<1>2. j > i
  <2> SUFFICES ASSUME j <= i PROVE FALSE
    BY <1>1
  <2> HIDE DEF i, j
  <2>1. Capacity * j <= Capacity * i
    BY <1>1, CapacityAssumption
  <2> QED BY <1>1, <2>1, CapacityAssumption DEF SlotOf
<1> HIDE DEF i, j
<1>3. Capacity * j >= Capacity * (i + 1)
  BY <1>1, <1>2, CapacityAssumption
<1>4. Capacity * (i + 1) = Capacity * i + Capacity
  BY <1>1, CapacityAssumption
<1> QED BY <1>1, <1>3, <1>4, CapacityAssumption DEF SlotOf

\* The running publish() will not look at entry e again before it writes.
Cleared(e) ==
  ppc \in {"write", "advance"} \/ (ppc \in {"in_use", "value"} /\ e < scan)

\* What publish() keeps true of its slot and of the founders it waits for.
ProducerInv ==
  /\ ppc # "idle" => nextPublish < MaxPublish
  /\ ppc \in {"in_use", "value"} => nextPublish >= Capacity
  /\ founding # {} =>
       /\ nextPublish < Capacity
       /\ ppc # "idle" => nextPublish < Capacity - 1
  /\ ppc = "write" => \A p \in Parts \ unwritten : mem[CurSlot][p] = nextPublish

\* The last Capacity messages are in their slots; only the oldest may be the
\* one being overwritten.
SlotInv ==
  /\ \A s \in Slots : stamp[s] # EmptySeq => stamp[s] < Published
  /\ \A q \in Seqs : q < Published /\ Published <= q + Capacity =>
       /\ stamp[SlotOf(q)] = q
       /\ ppc # "write" \/ nextPublish < q + Capacity =>
            \A p \in Parts : mem[SlotOf(q)][p] = q

\* What a consumer's entry carries in each phase of its life, if it has one.
LifeOf(c) ==
  /\ cpc[c] # "none" <=> stage[c] = "in"
  /\ c \in founding => stage[c] \in {"out", "claim", "init"}
  /\ cpc[c] \in {"none", "produced"} => next[c] = 0
  /\ cpc[c] \in {"none", "produced", "seek"} => delivered[c] = NoMessage
  /\ cpc[c] \in {"produced", "seek"} /\ Tracked(c) => value[cursorId[c]] = 0
  /\ Member(c) => value[cursorId[c]] = next[c]

\* The gate: a member is at most a lap behind, and less once its entry has been
\* passed.  While attach still shows cursor 0 the producer can finish the one
\* message it was let through for, or what is left of the first lap.
GateOf(c) ==
  /\ cpc[c] = "seek" /\ Tracked(c) =>
       /\ next[c] <= nextPublish
       /\ nextPublish <= next[c] + 1 \/ nextPublish <= Capacity
       /\ Cleared(cursorId[c]) => nextPublish = next[c] \/ nextPublish < Capacity
  /\ Member(c) =>
       /\ next[c] <= Published
       /\ nextPublish <= next[c] + Capacity
       /\ Cleared(cursorId[c]) => nextPublish < next[c] + Capacity

\* A span is of a published message, and a member's holds the message it wants.
ViewOf(c) ==
  cpc[c] = "view" =>
    /\ next[c] < Published
    /\ Tracked(c) => \A p \in Parts \ unread[c] : view[c][p] = next[c]

\* A consumer with a cursor is not lapped.
NoLap(c) == Tracked(c) => cpc[c] # "lapped"

LifeInv == \A c \in Consumers : LifeOf(c)
GateInv == \A c \in Consumers : GateOf(c)
ViewInv == \A c \in Consumers : ViewOf(c)

IInv ==
  /\ TypeOK
  /\ RegIInv
  /\ ProducerInv
  /\ SlotInv
  /\ LifeInv
  /\ GateInv
  /\ ViewInv
  /\ NeverLapped
----------------------------------------------------------------------------

LEMMA NumberFacts ==
  /\ Capacity \in Nat /\ Capacity >= 2 /\ MaxPublish \in Nat
  /\ EmptySeq \in Stamps /\ Stamps \subseteq Nat /\ 0 \in Seqs
  /\ \A q \in Seqs : /\ q \in Nat /\ q \in Stamps /\ q <= MaxPublish
                     /\ q # EmptySeq /\ q # WritingSeq
                     /\ q < MaxPublish => q + 1 \in Seqs
  BY CapacityAssumption, RangeAssumption
     DEF EmptySeq, WritingSeq, Stamps, Seqs

\* What the arithmetic of every step needs to know of the state.
LEMMA StateFacts ==
  ASSUME TypeOK, ProducerInv
  PROVE  /\ nextPublish \in Seqs /\ nextPublish \in Nat
         /\ CurSlot \in Slots
         /\ Published \in Seqs /\ Published \in Nat
         /\ ppc # "idle" => nextPublish + 1 \in Seqs
         /\ ppc = "advance" => Published = nextPublish + 1
         /\ ppc # "advance" => Published = nextPublish
         /\ \A c \in Consumers : next[c] \in Seqs /\ next[c] \in Nat
         /\ \A i \in Ids : value[i] \in Nat
  BY NumberFacts, SlotType
     DEF TypeOK, RegTypeOK, ProducerInv, CurSlot, Published

\* The message before last lap's is the only one that shares the slot.
LEMMA OtherSlot ==
  ASSUME NEW a \in Nat, NEW b \in Nat, a < b, b < a + Capacity
  PROVE  SlotOf(a) # SlotOf(b)
  BY LapApart, NumberFacts

\* A consumer with a cursor holds the entry that its cursor is in.
LEMMA HasEntry ==
  ASSUME RegIInv, NEW c \in Consumers
  PROVE  /\ stage[c] = "in" => (Tracked(c) <=> cursorId[c] \in Ids)
         /\ Tracked(c) =>
              stage[c] = "in" /\ cursorId[c] \in Ids /\ Holds(c, cursorId[c])
  BY TableFacts DEF RegIInv, TableInv, RegTypeOK, Tracked, Holds

LEMMA RegStutter == RegIInv /\ UNCHANGED regVars => RegIInv'
  BY NextRegIInv

LEMMA InitIInv == Init => IInv
<1> SUFFICES ASSUME Init PROVE IInv
  OBVIOUS
<1>1. RegIInv
  BY InitTable, InitDwindling DEF Init, RegIInv
<1> USE DEF Init, RegInit
<1>2. TypeOK
  BY <1>1, NumberFacts, TableFacts DEF TypeOK, RegIInv, TableInv, Blank, Message
<1>3. ProducerInv
  BY NumberFacts DEF ProducerInv
<1>4. SlotInv
  BY NumberFacts DEF SlotInv, Published
<1>5. LifeInv /\ GateInv /\ ViewInv /\ NeverLapped
  BY
     DEF LifeInv, LifeOf, GateInv, GateOf, ViewInv, ViewOf, NeverLapped, Member,
         Reads, Tracked
<1> QED BY <1>1, <1>2, <1>3, <1>4, <1>5 DEF IInv

\* A producer step leaves the consumers' part of the invariant alone.
LEMMA ConsumersKept ==
  ASSUME IInv, UNCHANGED <<consVars, regVars>>
  PROVE  RegIInv' /\ LifeInv' /\ NeverLapped'
<1>1. RegIInv'
  BY RegStutter DEF IInv
<1>2. LifeInv' /\ NeverLapped'
  BY
     DEF IInv, LifeInv, LifeOf, NeverLapped, Member, Reads, Tracked, consVars,
         readVars, regVars
<1> QED BY <1>1, <1>2

LEMMA BeginStep == IInv /\ Begin => IInv'
<1> SUFFICES ASSUME IInv, Begin PROVE IInv'
  OBVIOUS
<1> USE DEF IInv
<1>0. /\ ppc = "idle" /\ nextPublish < MaxPublish /\ Contract
      /\ UNCHANGED <<nextPublish, stamp, mem>>
      /\ UNCHANGED <<consVars, regVars>>
      /\ \/ /\ nextPublish >= Capacity /\ ppc' = "in_use" /\ scan' = 0
            /\ UNCHANGED unwritten
         \/ /\ ~(nextPublish >= Capacity) /\ ppc' = "write" /\ unwritten' = Parts
            /\ UNCHANGED scan
  BY DEF Begin, slotVars
<1>1. RegIInv' /\ LifeInv' /\ NeverLapped'
  BY <1>0, ConsumersKept
<1>2. TypeOK'
  BY <1>0, TableFacts DEF TypeOK, RegTypeOK, consVars, readVars, regVars
<1>3. ProducerInv'
  <2>1. UNCHANGED founding
    BY <1>0 DEF consVars
  <2>2. founding # {} => nextPublish < Capacity - 1
    BY <1>0, StateFacts, NumberFacts DEF ProducerInv, Contract
  <2> QED BY <1>0, <2>1, <2>2, NumberFacts, StateFacts DEF ProducerInv
<1>4. Published' = Published
  BY <1>0 DEF Published
<1>5. SlotInv'
  BY <1>0, <1>4, StateFacts DEF SlotInv, Published
<1>6. GateInv'
  <2>1. ASSUME NEW c \in Consumers
        PROVE  Cleared(cursorId[c])' => nextPublish < Capacity
    <3>1. cursorId[c] \in Nat /\ cursorId'[c] = cursorId[c]
      BY <1>0, TableFacts DEF TypeOK, RegTypeOK, regVars
    <3> QED BY <1>0, <3>1, StateFacts, NumberFacts DEF Cleared
  <2>2. UNCHANGED <<cpc, next, nextPublish, stage, cursorId>>
    BY <1>0 DEF consVars, regVars
  <2>3. \A c \in Consumers : next[c] \in Nat
    BY StateFacts
  <2> QED BY <1>4, <2>1, <2>2, <2>3, StateFacts, NumberFacts
     DEF GateInv, GateOf, Member, Reads, Tracked
<1>7. ViewInv'
  BY <1>0, <1>4 DEF ViewInv, ViewOf, Tracked, consVars, readVars, regVars
<1> QED BY <1>1, <1>2, <1>3, <1>5, <1>6, <1>7
\* The scan goes on past an entry only if nobody in it needs the slot.
LEMMA ScanOnStep ==
  ASSUME IInv, ppc \in {"in_use", "value"}, ScanOn,
         UNCHANGED <<nextPublish, slotVars, consVars, regVars>>,
         \A c \in Consumers : Tracked(c) /\ cursorId[c] = scan =>
           value[scan] > nextPublish - Capacity
  PROVE  TypeOK' /\ ProducerInv' /\ SlotInv' /\ GateInv'
<1> USE DEF IInv
<1>1. /\ scan \in Ids
      /\ \/ scan + 1 \in Ids /\ ppc' = "in_use" /\ scan' = scan + 1
            /\ UNCHANGED unwritten
         \/ scan + 1 = MaxConsumers /\ ppc' = "write" /\ scan' = 0
            /\ unwritten' = Parts
  BY TableFacts DEF ScanOn, TypeOK
<1>2. Published' = Published /\ Published = nextPublish
  BY <1>1 DEF Published
<1>3. TypeOK'
  BY <1>1, TableFacts DEF TypeOK, RegTypeOK, slotVars, consVars, readVars, regVars
<1>4. ProducerInv'
  BY <1>1, StateFacts, NumberFacts DEF ProducerInv, consVars, slotVars, CurSlot
<1>5. SlotInv'
  BY <1>1, <1>2, StateFacts DEF SlotInv, slotVars
<1>6. GateInv'
  <2> SUFFICES ASSUME NEW c \in Consumers, Tracked(c), cpc[c] = "seek" \/ Member(c)
               PROVE  Cleared(cursorId[c])' =>
                        \/ Cleared(cursorId[c])
                        \/ Member(c) /\ nextPublish < next[c] + Capacity
    BY <1>2 DEF GateInv, GateOf, Member, Reads, Tracked, consVars, regVars
  <2>1. cursorId[c] \in Ids /\ cursorId'[c] = cursorId[c]
    BY HasEntry DEF regVars
  <2>2. CASE cursorId[c] = scan
    <3>1. value[scan] > nextPublish - Capacity /\ nextPublish >= Capacity
      BY <2>2 DEF ProducerInv
    <3>2. Member(c) /\ value[scan] = next[c]
      BY <2>2, <3>1, StateFacts, NumberFacts DEF LifeInv, LifeOf
    <3> QED BY <3>1, <3>2, StateFacts, NumberFacts
  <2>3. CASE cursorId[c] # scan
    <3>1. cursorId[c] \in Nat /\ scan \in Nat /\ cursorId[c] < MaxConsumers
      BY <1>1, <2>1, TableFacts
    <3>2. CASE scan + 1 = MaxConsumers
      BY <2>3, <3>1, <3>2 DEF Cleared
    <3>3. CASE scan' = scan + 1 /\ ppc' = "in_use"
      BY <2>1, <2>3, <3>1, <3>3 DEF Cleared
    <3> QED BY <1>1, <3>2, <3>3
  <2> QED BY <2>2, <2>3
<1> QED BY <1>3, <1>4, <1>5, <1>6

LEMMA LoadStep ==
  ASSUME IInv, LoadInUse \/ LoadValue
  PROVE  IInv'
<1> USE DEF IInv
<1>0. /\ ppc \in {"in_use", "value"}
      /\ UNCHANGED <<nextPublish, slotVars, consVars, regVars>>
  BY DEF LoadInUse, LoadValue
<1>1. RegIInv' /\ LifeInv' /\ NeverLapped'
  BY <1>0, ConsumersKept
<1>2. ViewInv'
  <2>1. Published' = Published
    BY <1>0 DEF LoadInUse, LoadValue, ScanOn, Published
  <2> QED BY <1>0, <2>1 DEF ViewInv, ViewOf, Tracked, consVars, readVars, regVars
<1>3. CASE ScanOn
  <2>1. ASSUME NEW c \in Consumers, Tracked(c), cursorId[c] = scan
        PROVE  value[scan] > nextPublish - Capacity
    <3>1. Holds(c, scan) /\ scan \in Ids
      BY <2>1, HasEntry
    <3>2. inUse[scan]
      BY <3>1 DEF RegIInv, TableInv, CursorOwnership
    <3>3. CASE LoadInUse
      BY <3>2, <3>3, <1>3, <1>0, TableFacts DEF LoadInUse, ScanOn, TypeOK
    <3>4. CASE LoadValue
      BY <3>1, <3>4, <1>3, StateFacts, NumberFacts, TableFacts
         DEF LoadValue, ScanOn
    <3> QED BY <3>3, <3>4
  <2>2. TypeOK' /\ ProducerInv' /\ SlotInv' /\ GateInv'
    <3> HIDE DEF IInv
    <3> QED BY <1>0, <1>3, <2>1, ScanOnStep
  <2> QED BY <1>1, <1>2, <2>2
<1>4. CASE /\ UNCHANGED unwritten
           /\ \/ ppc' = "value" /\ UNCHANGED scan
              \/ ppc' = "in_use" /\ scan' = 0
  <2>1. Published' = Published /\ Published = nextPublish
    BY <1>0, <1>4 DEF Published
  <2>2. TypeOK'
    BY <1>0, <1>4, TableFacts
       DEF TypeOK, RegTypeOK, slotVars, consVars, readVars, regVars
  <2>3. ProducerInv' /\ SlotInv'
    BY <1>0, <1>4, <2>1, StateFacts DEF ProducerInv, SlotInv, consVars, slotVars
  <2>4. ASSUME NEW c \in Consumers
        PROVE  Cleared(cursorId[c])' => Cleared(cursorId[c])
    <3>1. cursorId[c] \in Nat /\ cursorId'[c] = cursorId[c]
      BY <1>0, TableFacts DEF TypeOK, RegTypeOK, regVars
    <3> HIDE DEF IInv
    <3> QED BY <1>0, <1>4, <3>1 DEF Cleared
  <2>5. GateInv'
    <3>1. UNCHANGED <<cpc, next, nextPublish, stage, cursorId>>
      BY <1>0 DEF consVars, regVars
    <3> QED BY <2>1, <2>4, <3>1 DEF GateInv, GateOf, Member, Reads, Tracked
  <2> QED BY <1>1, <1>2, <2>2, <2>3, <2>5
<1> QED BY <1>3, <1>4 DEF LoadInUse, LoadValue

LEMMA WritePartStep ==
  ASSUME NEW p \in Parts, IInv, WritePart(p)
  PROVE  IInv'
<1> USE DEF IInv
<1>0. /\ ppc = "write" /\ p \in unwritten
      /\ mem' = [mem EXCEPT ![CurSlot][p] = nextPublish]
      /\ unwritten' = unwritten \ {p}
      /\ UNCHANGED <<stamp, nextPublish, ppc, scan, consVars, regVars>>
  BY DEF WritePart
<1>1. RegIInv' /\ LifeInv' /\ NeverLapped'
  BY <1>0, ConsumersKept
<1>2. /\ Published' = Published /\ Published = nextPublish /\ CurSlot' = CurSlot
      /\ CurSlot \in Slots /\ nextPublish \in Nat /\ nextPublish \in Stamps
  BY <1>0, StateFacts, NumberFacts DEF Published, CurSlot
<1>3. TypeOK'
  BY <1>0, <1>2 DEF TypeOK, RegTypeOK, consVars, readVars, regVars
<1>4. ProducerInv'
  BY <1>0, <1>2 DEF ProducerInv, TypeOK, consVars
<1>5. SlotInv'
  <2>1. \A s \in Slots : s # CurSlot => mem'[s] = mem[s]
    BY <1>0 DEF TypeOK
  <2>2. ASSUME NEW q \in Seqs, q < nextPublish, nextPublish < q + Capacity
        PROVE  SlotOf(q) # CurSlot /\ SlotOf(q) \in Slots
    BY <1>2, <2>2, NumberFacts, OtherSlot, SlotType DEF CurSlot
  <2> QED BY <1>0, <1>2, <2>1, <2>2 DEF SlotInv
<1>6. GateInv' /\ ViewInv'
  BY <1>0, <1>2
     DEF GateInv, GateOf, ViewInv, ViewOf, Member, Reads, Tracked, Cleared,
         consVars, readVars, regVars
<1> QED BY <1>1, <1>3, <1>4, <1>5, <1>6

LEMMA StampStep == IInv /\ Stamp => IInv'
<1> SUFFICES ASSUME IInv, Stamp PROVE IInv'
  OBVIOUS
<1> USE DEF IInv
<1>0. /\ ppc = "write" /\ unwritten = {} /\ ppc' = "advance"
      /\ stamp' = [stamp EXCEPT ![CurSlot] = nextPublish]
      /\ UNCHANGED <<mem, nextPublish, scan, unwritten, consVars, regVars>>
  BY DEF Stamp
<1>1. RegIInv' /\ LifeInv' /\ NeverLapped'
  BY <1>0, ConsumersKept
<1>2. /\ Published' = nextPublish + 1 /\ Published = nextPublish
      /\ CurSlot \in Slots /\ nextPublish \in Nat /\ nextPublish \in Stamps
  BY <1>0, StateFacts, NumberFacts DEF Published
<1>3. TypeOK'
  BY <1>0, <1>2 DEF TypeOK, RegTypeOK, consVars, readVars, regVars
<1>4. ProducerInv'
  BY <1>0, <1>2 DEF ProducerInv, consVars
<1>5. SlotInv'
  <2>1. \A s \in Slots : s # CurSlot => stamp'[s] = stamp[s]
    BY <1>0 DEF TypeOK
  <2>2. stamp'[CurSlot] = nextPublish
    BY <1>0, <1>2 DEF TypeOK
  <2>3. ASSUME NEW s \in Slots, stamp'[s] # EmptySeq
        PROVE  stamp'[s] < nextPublish + 1
    <3>1. stamp[s] \in Nat
      BY NumberFacts DEF TypeOK
    <3> QED BY <1>2, <2>1, <2>2, <2>3, <3>1 DEF SlotInv
  <2>4. ASSUME NEW q \in Seqs, q < nextPublish + 1, nextPublish + 1 <= q + Capacity
        PROVE  stamp'[SlotOf(q)] = q /\ \A p \in Parts : mem[SlotOf(q)][p] = q
    <3>1. CASE q = nextPublish
      BY <1>0, <2>2, <3>1 DEF CurSlot, ProducerInv
    <3>2. CASE q # nextPublish
      <4>1. q < nextPublish /\ nextPublish < q + Capacity
        BY <1>2, <2>4, <3>2, NumberFacts
      <4>2. SlotOf(q) # CurSlot /\ SlotOf(q) \in Slots
        BY <1>2, <4>1, NumberFacts, OtherSlot, SlotType DEF CurSlot
      <4> QED BY <1>2, <2>1, <4>1, <4>2, NumberFacts DEF SlotInv
    <3> QED BY <3>1, <3>2
  <2> QED BY <1>0, <1>2, <2>3, <2>4 DEF SlotInv
<1>6. GateInv' /\ ViewInv'
  BY <1>0, <1>2, StateFacts
    
       DEF GateInv, GateOf, ViewInv, ViewOf, Member, Reads, Tracked, Cleared,
           consVars, readVars, regVars
<1> QED BY <1>1, <1>3, <1>4, <1>5, <1>6

LEMMA AdvanceStep == IInv /\ Advance => IInv'
<1> SUFFICES ASSUME IInv, Advance PROVE IInv'
  OBVIOUS
<1> USE DEF IInv
<1>0. /\ ppc = "advance" /\ ppc' = "idle" /\ nextPublish' = nextPublish + 1
      /\ UNCHANGED <<scan, unwritten, slotVars, consVars, regVars>>
  BY DEF Advance
<1>1. RegIInv' /\ LifeInv' /\ NeverLapped'
  BY <1>0, ConsumersKept
<1>2. /\ Published' = Published /\ Published = nextPublish + 1
      /\ nextPublish \in Nat /\ nextPublish + 1 \in Seqs
  BY <1>0, StateFacts DEF Published
<1>3. TypeOK'
  BY <1>0, <1>2 DEF TypeOK, RegTypeOK, slotVars, consVars, readVars, regVars
<1>4. ProducerInv'
  BY <1>0, <1>2, NumberFacts DEF ProducerInv, consVars
<1>5. SlotInv'
  BY <1>0, <1>2, NumberFacts DEF SlotInv, slotVars
<1>6. GateInv'
  BY <1>0, <1>2, StateFacts, NumberFacts
    
       DEF GateInv, GateOf, Member, Reads, Tracked, Cleared, consVars, readVars,
           regVars
<1>7. ViewInv'
  BY <1>0, <1>2 DEF ViewInv, ViewOf, Tracked, consVars, readVars, regVars
<1> QED BY <1>1, <1>3, <1>4, <1>5, <1>6, <1>7
----------------------------------------------------------------------------
(* The consumers' steps. *)

\* A consumer step leaves the producer's part of the invariant alone.
LEMMA ProducerKept ==
  ASSUME IInv, UNCHANGED <<prodVars, slotVars>>, founding' \subseteq founding
  PROVE  ProducerInv' /\ SlotInv' /\ Published' = Published
<1>1. UNCHANGED <<nextPublish, ppc, scan, unwritten, stamp, mem>>
  BY DEF prodVars, slotVars
<1> QED BY <1>1 DEF IInv, ProducerInv, SlotInv, Published, CurSlot

\* ... and says the same of every other consumer, whose entry it cannot touch.
LEMMA OthersKept ==
  ASSUME IInv, UNCHANGED <<prodVars, slotVars>>, founding' \subseteq founding,
         NEW d \in Consumers,
         /\ cpc'[d] = cpc[d] /\ stage'[d] = stage[d] /\ cursorId'[d] = cursorId[d]
         /\ next'[d] = next[d] /\ unread'[d] = unread[d]
         /\ view'[d] = view[d] /\ delivered'[d] = delivered[d],
         Tracked(d) => value'[cursorId[d]] = value[cursorId[d]]
  PROVE  LifeOf(d)' /\ GateOf(d)' /\ ViewOf(d)' /\ NoLap(d)'
<1>1. LifeOf(d) /\ GateOf(d) /\ ViewOf(d) /\ NoLap(d)
  BY DEF IInv, LifeInv, GateInv, ViewInv, NeverLapped, NoLap
<1>2. UNCHANGED <<nextPublish, ppc, scan>> /\ Published' = Published
  BY DEF prodVars, Published
<1> QED BY <1>1, <1>2
        DEF LifeOf, GateOf, ViewOf, NoLap, Member, Reads, Tracked, Cleared

\* Nobody writes the entry that another consumer's cursor is in.
LEMMA EntriesApart ==
  ASSUME IInv, NEW c \in Consumers, NEW d \in Consumers, c # d,
         stage[c] \in {"init", "in", "release"}, Tracked(d)
  PROVE  cursorId[d] \in Ids /\ cursorId[c] # cursorId[d]
<1>1. cursorId[d] \in Ids /\ Holds(d, cursorId[d])
  BY HasEntry DEF IInv
<1>2. Holds(c, cursorId[c])
  BY DEF Holds
<1> QED BY <1>1, <1>2 DEF IInv, RegIInv, TableInv, CursorOwnership

\* What is left to show of a step of c: types, the table, and c itself.
LEMMA ConsumerStepInv ==
  ASSUME IInv, NEW c \in Consumers,
         UNCHANGED <<prodVars, slotVars>>, founding' \subseteq founding,
         TypeOK', RegIInv',
         LifeOf(c)', GateOf(c)', ViewOf(c)', NoLap(c)',
         \A d \in Consumers \ {c} :
           /\ cpc'[d] = cpc[d] /\ stage'[d] = stage[d] /\ cursorId'[d] = cursorId[d]
           /\ next'[d] = next[d] /\ unread'[d] = unread[d]
           /\ view'[d] = view[d] /\ delivered'[d] = delivered[d]
           /\ Tracked(d) => value'[cursorId[d]] = value[cursorId[d]]
  PROVE  IInv'
<1>1. ProducerInv' /\ SlotInv'
  BY ProducerKept
<1>2. \A d \in Consumers : LifeOf(d)' /\ GateOf(d)' /\ ViewOf(d)' /\ NoLap(d)'
  BY OthersKept
<1>3. LifeInv' /\ GateInv' /\ ViewInv' /\ NeverLapped'
  BY <1>2 DEF LifeInv, GateInv, ViewInv, NeverLapped, NoLap
<1> QED BY <1>1, <1>3 DEF IInv

\* What the invariant says of one consumer.
LEMMA OfConsumer ==
  ASSUME IInv, NEW c \in Consumers
  PROVE  /\ LifeOf(c) /\ GateOf(c) /\ ViewOf(c) /\ NoLap(c)
         /\ cpc[c] # "none" => stage[c] = "in"
         /\ Tracked(c) => cursorId[c] \in Ids /\ stage[c] = "in"
         /\ next[c] \in Seqs /\ next[c] \in Nat /\ cursorId[c] \in Nat
<1>1. LifeOf(c) /\ GateOf(c) /\ ViewOf(c) /\ NoLap(c)
  BY DEF IInv, LifeInv, GateInv, ViewInv, NeverLapped, NoLap
<1>2. /\ cpc[c] # "none" => stage[c] = "in"
      /\ Tracked(c) => cursorId[c] \in Ids /\ stage[c] = "in"
  BY <1>1, HasEntry DEF IInv, LifeOf
<1>3. next[c] \in Seqs /\ next[c] \in Nat /\ cursorId[c] \in Nat
  BY StateFacts, TableFacts DEF IInv, TypeOK, RegTypeOK
<1> QED BY <1>1, <1>2, <1>3

LEMMA ConstructStep ==
  ASSUME IInv, NEW c \in Consumers, Construct(c)
  PROVE  IInv'
<1>0. Enter(c) /\ UNCHANGED <<prodVars, slotVars, consVars>>
  BY DEF Construct
<1>1. RegIInv'
  BY <1>0, NextRegIInv DEF IInv, RegNext
<1>2. TypeOK'
  BY <1>0, <1>1 DEF IInv, TypeOK, RegIInv, TableInv, prodVars, slotVars,
                    consVars, readVars
<1>3. /\ stage[c] = "out" /\ stage' = [stage EXCEPT ![c] = "claim"]
      /\ cursorId' = [cursorId EXCEPT ![c] = 0]
      /\ UNCHANGED <<value, cpc, founding, next, unread, view, delivered>>
  BY <1>0 DEF Enter, consVars, readVars
<1>4. \A d \in Consumers : stage'[d] = IF d = c THEN "claim" ELSE stage[d]
  BY <1>3 DEF IInv, TypeOK, RegTypeOK
<1>5. \A d \in Consumers \ {c} : cursorId'[d] = cursorId[d]
  BY <1>3 DEF IInv, TypeOK, RegTypeOK
<1>6. cpc[c] = "none" /\ cpc'[c] = "none"
  BY <1>3, OfConsumer DEF LifeOf
<1>7. LifeOf(c)' /\ GateOf(c)' /\ ViewOf(c)' /\ NoLap(c)'
  BY <1>3, <1>4, <1>6, OfConsumer
     DEF LifeOf, GateOf, ViewOf, NoLap, Member, Reads, Tracked
<1> QED BY <1>0, <1>1, <1>2, <1>3, <1>4, <1>5, <1>6, <1>7, ConsumerStepInv

LEMMA RegisterStep ==
  ASSUME IInv, NEW c \in Consumers, Register(c)
  PROVE  IInv'
<1>0. /\ RegStep(c) /\ UNCHANGED <<next, readVars, prodVars, slotVars>>
      /\ UNCHANGED <<next, unread, view, delivered>>
  BY DEF Register, readVars
<1>1. RegIInv'
  BY <1>0, NextRegIInv DEF IInv, RegNext
<1>2. founding' \in {founding, founding \ {c}}
  BY DEF Register
<1>3. TypeOK'
  BY <1>0, <1>1, <1>2 DEF Register, IInv, TypeOK, RegIInv, TableInv, prodVars,
                          slotVars, readVars
<1>4. /\ stage[c] \in {"claim", "init"} /\ cpc[c] = "none"
      /\ c \in founding \/ c \notin founding
  BY <1>0, OfConsumer DEF RegStep, Claim, SkipTaken, StoreZero, LifeOf
<1>5. \A d \in Consumers \ {c} :
        cpc'[d] = cpc[d] /\ stage'[d] = stage[d] /\ cursorId'[d] = cursorId[d]
  BY <1>0 DEF Register, RegStep, Claim, SkipTaken, StoreZero, IInv, TypeOK,
              RegTypeOK
<1>6. \A d \in Consumers \ {c} :
        Tracked(d) => value'[cursorId[d]] = value[cursorId[d]]
  <2> SUFFICES ASSUME NEW d \in Consumers \ {c}, Tracked(d)
               PROVE  value'[cursorId[d]] = value[cursorId[d]]
    OBVIOUS
  <2>1. CASE StoreZero(c)
    BY <2>1, EntriesApart DEF StoreZero, IInv, TypeOK, RegTypeOK
  <2>2. CASE Claim(c) \/ SkipTaken(c)
    BY <2>2 DEF Claim, SkipTaken
  <2> QED BY <1>0, <2>1, <2>2 DEF RegStep
<1>7. LifeOf(c)' /\ GateOf(c)' /\ ViewOf(c)' /\ NoLap(c)'
  <2>1. CASE stage'[c] # "in"
    <3>1. cpc'[c] = "none" /\ founding' = founding /\ stage'[c] \in {"claim", "init"}
      BY <1>0, <1>4, <2>1
         DEF Register, RegStep, Claim, SkipTaken, StoreZero, IInv, TypeOK, RegTypeOK
    <3> QED BY <1>0, <1>4, <3>1, OfConsumer
            DEF LifeOf, GateOf, ViewOf, NoLap, Member, Reads, Tracked
  <2>2. CASE stage'[c] = "in"
    <3>1. /\ cpc'[c] = IF c \in founding THEN "poll" ELSE "produced"
          /\ founding' = founding \ {c}
      BY <2>2 DEF Register, IInv, TypeOK
    <3>2. next[c] = 0 /\ next'[c] = 0 /\ delivered'[c] = NoMessage
      BY <1>0, <1>4, OfConsumer DEF LifeOf
    <3>3. Tracked(c)' => value'[cursorId'[c]] = 0
      <4>1. CASE StoreZero(c)
        BY <4>1, HasEntry DEF StoreZero, IInv, RegIInv, TableInv, CursorInRange,
                              TypeOK, RegTypeOK
      <4>2. CASE SkipTaken(c)
        <5>1. cursorId[c] \in Ids
          BY <4>2 DEF SkipTaken, IInv, RegIInv, TableInv, CursorInRange
        <5>2. cursorId'[c] = MaxConsumers
          BY <2>2, <4>2, <5>1, TableFacts DEF SkipTaken, IInv, TypeOK, RegTypeOK
        <5> QED BY <5>2, TableFacts DEF Tracked
      <4>3. CASE Claim(c)
        BY <2>2, <4>3 DEF Claim, IInv, TypeOK, RegTypeOK
      <4> QED BY <1>0, <4>1, <4>2, <4>3 DEF RegStep
    <3>4. LifeOf(c)' /\ ViewOf(c)' /\ NoLap(c)'
      BY <2>2, <3>1, <3>2, <3>3 DEF LifeOf, ViewOf, NoLap, Member
    <3>5. GateOf(c)'
      <4>1. Published' = Published /\ nextPublish' = nextPublish
        BY <1>0 DEF Published, prodVars
      <4>2. c \in founding => nextPublish < Capacity
        BY DEF IInv, ProducerInv
      <4> QED BY <3>1, <3>2, <4>1, <4>2, StateFacts, NumberFacts
              DEF GateOf, Member, Reads, IInv
    <3> QED BY <3>4, <3>5
  <2> QED BY <2>1, <2>2
<1> QED BY <1>0, <1>1, <1>2, <1>3, <1>5, <1>6, <1>7, ConsumerStepInv
\* A step of c that leaves the table alone but for c's own cursor.
LEMMA OwnStep ==
  ASSUME IInv, NEW c \in Consumers, cpc[c] # "none",
         UNCHANGED <<prodVars, slotVars, founding>>,
         UNCHANGED regVars \/ \E v \in Stamps : SetCursor(c, v),
         TypeOK',
         LifeOf(c)', GateOf(c)', ViewOf(c)', NoLap(c)',
         \A d \in Consumers \ {c} :
           /\ cpc'[d] = cpc[d] /\ next'[d] = next[d] /\ unread'[d] = unread[d]
           /\ view'[d] = view[d] /\ delivered'[d] = delivered[d]
  PROVE  IInv'
<1>1. UNCHANGED <<stage, cursorId, inUse>>
  BY DEF regVars, SetCursor
<1>2. RegIInv'
  <2>1. CASE UNCHANGED regVars
    BY <2>1, RegStutter DEF IInv
  <2>2. CASE \E v \in Stamps : SetCursor(c, v)
    <3>1. TableInv'
      BY <2>2, SetCursorTable DEF IInv, RegIInv
    <3>2. \A k \in 0 .. MaxConsumers : Beyond(k)' \subseteq Beyond(k)
      BY <1>1 DEF Beyond
    <3> QED BY <3>1, <3>2, ShrinkDwindling DEF IInv, RegIInv
  <2> QED BY <2>1, <2>2
<1>3. \A d \in Consumers \ {c} :
        Tracked(d) => value'[cursorId[d]] = value[cursorId[d]]
  <2> SUFFICES ASSUME NEW d \in Consumers \ {c}, Tracked(d)
               PROVE  value'[cursorId[d]] = value[cursorId[d]]
    OBVIOUS
  <2>1. cursorId[c] # cursorId[d] /\ cursorId[d] \in Ids
    BY OfConsumer, EntriesApart
  <2> QED BY <2>1 DEF SetCursor, regVars, IInv, TypeOK, RegTypeOK
<1> QED BY <1>1, <1>2, <1>3, ConsumerStepInv

LEMMA LoadProducedStep ==
  ASSUME IInv, NEW c \in Consumers, LoadProduced(c)
  PROVE  IInv'
<1>0. /\ cpc[c] = "produced" /\ cpc' = [cpc EXCEPT ![c] = "seek"]
      /\ next' = [next EXCEPT ![c] = nextPublish]
      /\ UNCHANGED <<founding, readVars, prodVars, slotVars, regVars>>
      /\ UNCHANGED <<unread, view, delivered>>
  BY DEF LoadProduced, readVars
<1>1. TypeOK'
  BY <1>0 DEF IInv, TypeOK, RegTypeOK, readVars, prodVars, slotVars, regVars
<1>2. cpc'[c] = "seek" /\ next'[c] = nextPublish /\ nextPublish \in Nat
  BY <1>0, StateFacts DEF IInv, TypeOK
<1>3. LifeOf(c)' /\ ViewOf(c)' /\ NoLap(c)'
  BY <1>0, <1>2, OfConsumer
     DEF LifeOf, ViewOf, NoLap, Member, Reads, Tracked, regVars
<1>4. GateOf(c)'
  BY <1>0, <1>2 DEF GateOf, Member, Reads, Tracked, prodVars
<1>5. \A d \in Consumers \ {c} : cpc'[d] = cpc[d] /\ next'[d] = next[d]
  BY <1>0 DEF IInv, TypeOK
<1> QED BY <1>0, <1>1, <1>2, <1>3, <1>4, <1>5, OwnStep

LEMMA SeekStep ==
  ASSUME IInv, NEW c \in Consumers, Seek(c)
  PROVE  IInv'
<1>0. /\ cpc[c] = "seek" /\ cpc' = [cpc EXCEPT ![c] = "poll"]
      /\ SetCursor(c, next[c])
      /\ UNCHANGED <<founding, next, readVars, prodVars, slotVars>>
      /\ UNCHANGED <<unread, view, delivered>>
  BY DEF Seek, readVars
<1>1. next[c] \in Stamps /\ next[c] \in Nat /\ stage[c] = "in"
  BY <1>0, OfConsumer, NumberFacts
<1>2. /\ value' = IF Tracked(c) THEN [value EXCEPT ![cursorId[c]] = next[c]] ELSE value
      /\ UNCHANGED <<inUse, stage, cursorId>> /\ Tracked(c)' = Tracked(c)
  BY <1>0 DEF SetCursor, Tracked
<1>3. TypeOK'
  BY <1>0, <1>1, <1>2 DEF IInv, TypeOK, RegTypeOK, readVars, prodVars, slotVars
<1>4. cpc'[c] = "poll" /\ (Tracked(c) => value'[cursorId[c]] = next[c])
  BY <1>0, <1>1, <1>2, OfConsumer DEF IInv, TypeOK, RegTypeOK
<1>5. LifeOf(c)' /\ ViewOf(c)' /\ NoLap(c)'
  BY <1>0, <1>2, <1>4, OfConsumer DEF LifeOf, ViewOf, NoLap, Member, Reads
<1>6. GateOf(c)'
  <2>1. UNCHANGED <<nextPublish, ppc, scan>> /\ Published' = Published
    BY <1>0 DEF prodVars, Published
  <2>2. Published = nextPublish \/ Published = nextPublish + 1
    BY StateFacts DEF IInv
  <2> QED BY <1>0, <1>1, <1>2, <1>4, <2>1, <2>2, OfConsumer, StateFacts, NumberFacts
          DEF GateOf, Member, Reads, Cleared, IInv
<1>7. \A d \in Consumers \ {c} : cpc'[d] = cpc[d]
  BY <1>0 DEF IInv, TypeOK
<1> QED BY <1>0, <1>1, <1>3, <1>4, <1>5, <1>6, <1>7, OwnStep

\* What the slots hold of the messages a member still wants.
LEMMA SlotsOfMember ==
  ASSUME IInv, NEW c \in Consumers, Member(c),
         NEW q \in Nat, next[c] <= q, q < Published
  PROVE  /\ q \in Seqs /\ stamp[SlotOf(q)] = q
         /\ \A p \in Parts : mem[SlotOf(q)][p] = q
<1>1. q \in Seqs
  <2>1. Published \in Nat /\ Published <= MaxPublish
    BY StateFacts, NumberFacts DEF IInv
  <2> QED BY <2>1, NumberFacts DEF Seqs
<1>2. /\ nextPublish <= next[c] + Capacity
      /\ Cleared(cursorId[c]) => nextPublish < next[c] + Capacity
      /\ next[c] \in Nat
  BY OfConsumer DEF GateOf
<1>3. Published <= q + Capacity /\ (ppc = "write" => nextPublish < q + Capacity)
  BY <1>2, StateFacts, NumberFacts DEF Cleared, IInv
<1> QED BY <1>1, <1>3 DEF IInv, SlotInv

LEMMA PollStep ==
  ASSUME IInv, NEW c \in Consumers, Poll(c)
  PROVE  IInv'
<1> DEFINE now == stamp[SlotOf(next[c])]
           status == ReadStatus(now, next[c])
<1>0. /\ cpc[c] = "poll" /\ status # "empty"
      /\ cpc' = [cpc EXCEPT ![c] = IF status = "ok" THEN "view" ELSE "lapped"]
      /\ unread' = [unread EXCEPT ![c] = IF status = "ok" THEN Parts ELSE {}]
      /\ UNCHANGED <<founding, next, view, delivered, prodVars, slotVars, regVars>>
  BY DEF Poll
<1>1. /\ next[c] \in Nat /\ next[c] \in Seqs /\ Published \in Nat
      /\ SlotOf(next[c]) \in Slots /\ now \in Nat
      /\ Tracked(c) => Member(c) /\ next[c] <= Published
  BY <1>0, OfConsumer, StateFacts, SlotType, NumberFacts
     DEF Member, Reads, GateOf, IInv, TypeOK
<1>2. now = EmptySeq \/ now < Published
  BY <1>1 DEF IInv, SlotInv
\* A message that is in its slot is read; a member finds no other there.
<1>3. status = "ok" => next[c] < Published
  BY <1>1, <1>2, NumberFacts DEF ReadStatus
<1>4. Tracked(c) => status = "ok"
  <2> SUFFICES ASSUME Tracked(c) PROVE status = "ok"
    OBVIOUS
  <2>1. CASE next[c] < Published
    <3>1. now = next[c]
      BY <1>1, <2>1, SlotsOfMember
    <3> QED BY <1>1, <3>1, NumberFacts DEF ReadStatus
  <2>2. CASE next[c] = Published
    <3>1. now = EmptySeq \/ now < next[c]
      BY <1>2, <2>2
    <3>2. now # next[c]
      BY <1>1, <3>1, NumberFacts
    <3>3. status = "empty"
      BY <3>1, <3>2 DEF ReadStatus
    <3> QED BY <1>0, <3>3
  <2> QED BY <1>1, <2>1, <2>2
<1> HIDE DEF now, status
<1>5. TypeOK'
  BY <1>0 DEF IInv, TypeOK, RegTypeOK, prodVars, slotVars, regVars
<1>6. /\ cpc'[c] = IF status = "ok" THEN "view" ELSE "lapped"
      /\ unread'[c] = IF status = "ok" THEN Parts ELSE {}
  BY <1>0 DEF IInv, TypeOK
<1>7. LifeOf(c)' /\ GateOf(c)' /\ ViewOf(c)' /\ NoLap(c)'
  <2>1. UNCHANGED <<nextPublish, ppc, scan, value, stage, cursorId>>
        /\ Published' = Published /\ Tracked(c)' = Tracked(c)
    BY <1>0 DEF prodVars, regVars, Published, Tracked
  <2>2. LifeOf(c)'
    BY <1>0, <1>6, <2>1, OfConsumer DEF LifeOf, Member, Reads
  <2>3. GateOf(c)'
    BY <1>0, <1>6, <2>1, OfConsumer DEF GateOf, Member, Reads, Cleared
  <2>4. ViewOf(c)' /\ NoLap(c)'
    BY <1>0, <1>3, <1>4, <1>6, <2>1 DEF ViewOf, NoLap
  <2> QED BY <2>2, <2>3, <2>4
<1>8. \A d \in Consumers \ {c} : cpc'[d] = cpc[d] /\ unread'[d] = unread[d]
  BY <1>0 DEF IInv, TypeOK
<1> QED BY <1>0, <1>5, <1>7, <1>8, OwnStep

LEMMA ReadPartStep ==
  ASSUME IInv, NEW c \in Consumers, NEW p \in Parts, ReadPart(c, p)
  PROVE  IInv'
<1>0. /\ cpc[c] = "view" /\ p \in unread[c]
      /\ view' = [view EXCEPT ![c][p] = mem[SlotOf(next[c])][p]]
      /\ unread' = [unread EXCEPT ![c] = @ \ {p}]
      /\ UNCHANGED <<founding, cpc, next, delivered, prodVars, slotVars, regVars>>
  BY DEF ReadPart
<1>1. /\ next[c] < Published /\ next[c] \in Nat
      /\ SlotOf(next[c]) \in Slots
      /\ Tracked(c) => /\ Member(c)
                       /\ \A r \in Parts \ unread[c] : view[c][r] = next[c]
  BY <1>0, OfConsumer, SlotType DEF Member, Reads, ViewOf
<1>2. Tracked(c) => mem[SlotOf(next[c])][p] = next[c]
  BY <1>1, SlotsOfMember
<1>3. TypeOK'
  BY <1>0, <1>1 DEF IInv, TypeOK, RegTypeOK, prodVars, slotVars, regVars
<1>4. /\ unread'[c] = unread[c] \ {p} /\ view[c] \in [Parts -> Stamps]
      /\ view'[c] = [view[c] EXCEPT ![p] = mem[SlotOf(next[c])][p]]
  BY <1>0 DEF IInv, TypeOK
<1>5. LifeOf(c)' /\ GateOf(c)' /\ ViewOf(c)' /\ NoLap(c)'
  <2>1. UNCHANGED <<nextPublish, ppc, scan, value, stage, cursorId>>
        /\ Published' = Published /\ Tracked(c)' = Tracked(c)
    BY <1>0 DEF prodVars, regVars, Published, Tracked
  <2>2. Tracked(c) => \A r \in Parts \ unread'[c] : view'[c][r] = next[c]
    BY <1>1, <1>2, <1>4
  <2> QED BY <1>0, <1>1, <2>1, <2>2, OfConsumer
          DEF LifeOf, GateOf, ViewOf, NoLap, Member, Reads, Cleared
<1>6. \A d \in Consumers \ {c} : view'[d] = view[d] /\ unread'[d] = unread[d]
  BY <1>0 DEF IInv, TypeOK
<1> QED BY <1>0, <1>3, <1>5, <1>6, OwnStep

LEMMA CommitStep ==
  ASSUME IInv, NEW c \in Consumers, Commit(c)
  PROVE  IInv'
<1>0. /\ cpc[c] = "view" /\ SetCursor(c, next[c] + 1)
      /\ delivered' = [delivered EXCEPT ![c] = view[c]]
      /\ next' = [next EXCEPT ![c] = next[c] + 1]
      /\ cpc' = [cpc EXCEPT ![c] = "poll"]
      /\ view' = [view EXCEPT ![c] = Blank]
      /\ UNCHANGED <<founding, unread, prodVars, slotVars>>
  BY DEF Commit, IInv, TypeOK
<1>1. next[c] < Published /\ next[c] \in Nat
  BY <1>0, OfConsumer DEF ViewOf
<1>2. next[c] + 1 \in Seqs /\ next[c] + 1 \in Stamps /\ Blank \in [Parts -> Stamps]
  BY <1>1, OfConsumer, StateFacts, NumberFacts DEF IInv, Blank, Message
<1>3. /\ value' = IF Tracked(c) THEN [value EXCEPT ![cursorId[c]] = next[c] + 1]
                                ELSE value
      /\ UNCHANGED <<inUse, stage, cursorId>> /\ Tracked(c)' = Tracked(c)
  BY <1>0 DEF SetCursor, Tracked
<1>4. TypeOK'
  BY <1>0, <1>2, <1>3 DEF IInv, TypeOK, RegTypeOK, prodVars, slotVars
<1>5. /\ cpc'[c] = "poll" /\ next'[c] = next[c] + 1
      /\ Tracked(c) => value'[cursorId[c]] = next[c] + 1
  BY <1>0, <1>3, OfConsumer DEF IInv, TypeOK, RegTypeOK
<1>6. LifeOf(c)' /\ GateOf(c)' /\ ViewOf(c)' /\ NoLap(c)'
  <2>1. UNCHANGED <<nextPublish, ppc, scan>> /\ Published' = Published
    BY <1>0 DEF prodVars, Published
  <2> QED BY <1>0, <1>1, <1>3, <1>5, <2>1, OfConsumer, StateFacts, NumberFacts
          DEF LifeOf, GateOf, ViewOf, NoLap, Member, Reads, Cleared, IInv
<1>7. \A d \in Consumers \ {c} :
        /\ cpc'[d] = cpc[d] /\ next'[d] = next[d]
        /\ view'[d] = view[d] /\ delivered'[d] = delivered[d]
  BY <1>0 DEF IInv, TypeOK
<1> QED BY <1>0, <1>2, <1>4, <1>5, <1>6, <1>7, OwnStep

LEMMA DepartStep ==
  ASSUME IInv, NEW c \in Consumers, Depart(c)
  PROVE  IInv'
<1>0. /\ Unregister(c) /\ cpc' = [cpc EXCEPT ![c] = "none"]
      /\ next' = [next EXCEPT ![c] = 0] /\ unread' = [unread EXCEPT ![c] = {}]
      /\ view' = [view EXCEPT ![c] = Blank]
      /\ delivered' = [delivered EXCEPT ![c] = NoMessage]
      /\ UNCHANGED <<founding, prodVars, slotVars>>
  BY DEF Depart
<1>1. RegIInv'
  BY <1>0, NextRegIInv DEF IInv, RegNext
<1>2. TypeOK'
  BY <1>0, <1>1, NumberFacts DEF IInv, TypeOK, RegIInv, TableInv, prodVars,
                                 slotVars, Blank, Message
<1>3. stage[c] \in {"in", "release"} /\ stage'[c] \in {"release", "out"}
  BY <1>0 DEF Unregister, Tracked, IInv, TypeOK, RegTypeOK
<1>4. /\ cpc'[c] = "none" /\ next'[c] = 0 /\ delivered'[c] = NoMessage
      /\ c \notin founding
  BY <1>0, <1>3, OfConsumer DEF IInv, TypeOK, LifeOf
<1>5. LifeOf(c)' /\ GateOf(c)' /\ ViewOf(c)' /\ NoLap(c)'
  BY <1>0, <1>3, <1>4 DEF LifeOf, GateOf, ViewOf, NoLap, Member, Reads, Tracked
<1>6. \A d \in Consumers \ {c} :
        /\ cpc'[d] = cpc[d] /\ next'[d] = next[d] /\ unread'[d] = unread[d]
        /\ view'[d] = view[d] /\ delivered'[d] = delivered[d]
        /\ stage'[d] = stage[d] /\ cursorId'[d] = cursorId[d]
  BY <1>0 DEF IInv, TypeOK, Unregister, RegTypeOK
<1>7. \A d \in Consumers \ {c} :
        Tracked(d) => value'[cursorId[d]] = value[cursorId[d]]
  <2> SUFFICES ASSUME NEW d \in Consumers \ {c}, Tracked(d)
               PROVE  value'[cursorId[d]] = value[cursorId[d]]
    OBVIOUS
  <2>1. cursorId[c] # cursorId[d] /\ cursorId[d] \in Ids
    BY <1>3, EntriesApart
  <2> QED BY <1>0, <2>1 DEF Unregister, IInv, TypeOK, RegTypeOK
<1> QED BY <1>0, <1>1, <1>2, <1>4, <1>5, <1>6, <1>7, ConsumerStepInv
----------------------------------------------------------------------------

LEMMA StutterStep == IInv /\ UNCHANGED vars => IInv'
<1> SUFFICES ASSUME IInv, UNCHANGED vars PROVE IInv'
  OBVIOUS
<1>0. /\ UNCHANGED <<nextPublish, ppc, scan, unwritten, stamp, mem>>
      /\ UNCHANGED <<consVars, regVars>> /\ Published' = Published
  BY DEF vars, prodVars, slotVars, Published
<1>1. RegIInv' /\ LifeInv' /\ NeverLapped'
  BY <1>0, ConsumersKept
<1>2. TypeOK'
  BY <1>0, <1>1 DEF IInv, TypeOK, RegIInv, TableInv, consVars, readVars
<1>3. ProducerInv' /\ SlotInv'
  BY <1>0 DEF IInv, ProducerInv, SlotInv, consVars, CurSlot
<1>4. GateInv' /\ ViewInv'
  BY <1>0
     DEF IInv, GateInv, GateOf, ViewInv, ViewOf, Member, Reads, Tracked, Cleared,
         consVars,
              readVars, regVars
<1> QED BY <1>1, <1>2, <1>3, <1>4 DEF IInv

LEMMA NextIInv ==
  ASSUME IInv, [Next]_vars
  PROVE  IInv'
<1>1. CASE Begin
  BY <1>1, BeginStep
<1>2. CASE FinishPublish
  BY <1>2, LoadStep, WritePartStep, StampStep, AdvanceStep DEF FinishPublish
<1>3. ASSUME NEW c \in Consumers, Construct(c) \/ Depart(c) PROVE IInv'
  BY <1>3, ConstructStep, DepartStep
<1>4. ASSUME NEW c \in Consumers, ConsumerStep(c) PROVE IInv'
  BY <1>4, RegisterStep, LoadProducedStep, SeekStep, PollStep, ReadPartStep,
     CommitStep DEF ConsumerStep
<1>5. CASE UNCHANGED vars
  BY <1>5, StutterStep
<1> QED BY <1>1, <1>2, <1>3, <1>4, <1>5 DEF Next

THEOREM Invariance == Spec => []IInv
<1>1. Init => IInv
  BY InitIInv
<1>2. IInv /\ [Next]_vars => IInv'
  BY NextIInv
<1> QED BY <1>1, <1>2, PTL DEF Spec

\* Types, with every sequence number below the sentinels, whoever comes and goes.
THEOREM TypeCorrect == Spec => []TypeOK
<1>1. IInv => TypeOK
  BY DEF IInv
<1> QED BY <1>1, Invariance, PTL

\* A consumer with a cursor is never lapped: not by a scan that it joins or leaves
\* half way, not through the cursor a reused entry still holds, not because of
\* consumers for which the table has no room.
THEOREM NobodyIsLapped == Spec => []NeverLapped
<1>1. IInv => NeverLapped
  BY DEF IInv
<1> QED BY <1>1, Invariance, PTL

LEMMA MemberKept ==
  ASSUME IInv, NEW c \in Consumers, Member(c)
  PROVE  Kept(c)
<1> SUFFICES ASSUME NEW q \in next[c] .. Published - 1
             PROVE  stamp[SlotOf(q)] = q /\ mem[SlotOf(q)] = Message(q)
  BY DEF Kept
<1>1. q \in Nat /\ next[c] <= q /\ q < Published
  BY OfConsumer, StateFacts DEF IInv
<1>2. stamp[SlotOf(q)] = q /\ \A p \in Parts : mem[SlotOf(q)][p] = q
  BY <1>1, SlotsOfMember
<1>3. mem[SlotOf(q)] \in [Parts -> Stamps]
  BY <1>1, SlotType DEF IInv, TypeOK
<1> QED BY <1>2, <1>3 DEF Message

\* The producer never touches a slot with a message that a consumer with a cursor
\* wants, so its span needs no validate().
THEOREM ZeroCopyIsStable == Spec => []MembersSlotsKept
<1>1. IInv => MembersSlotsKept
  BY MemberKept DEF MembersSlotsKept
<1> QED BY <1>1, Invariance, PTL

\* With an entry for everyone that is everyone, as the documentation has it: only
\* a full table can leave a consumer with an overwritten message.
THEOREM WithRoomForAll ==
  ASSUME Cardinality(Consumers) <= MaxConsumers
  PROVE  Spec => []UnreadSlotsKept
<1>1. IInv => UnreadSlotsKept
  <2> SUFFICES ASSUME IInv, NEW c \in Consumers, Reads(c) PROVE Kept(c)
    BY DEF UnreadSlotsKept
  <2>1. stage[c] = "in"
    BY OfConsumer DEF Reads
  <2>2. Tracked(c)
    BY <2>1, AllTracked DEF IInv
  <2> QED BY <2>2, MemberKept DEF Member
<1> QED BY <1>1, Invariance, PTL

----------------------------------------------------------------------------
(* BackpressureRing implements LosslessFanout: Stamp is the moment a        *)
(* message joins the stream, a founder joins when its cursor is there, an   *)
(* attaching consumer when it has sought, and both leave with the cursor.   *)
(* Who has no cursor takes no part.                                         *)

mapped == [c \in Consumers |-> IF Member(c) THEN next[c] ELSE 0]
members == {c \in Consumers : Member(c)}
handed == [c \in Consumers |-> IF Member(c) THEN delivered[c] ELSE NoMessage]

LEMMA InitRefines == Init => Fanout!Init
  BY DEF Init, Fanout!Init, Published, Member, Reads, Tracked

\* The abstract state, when neither the stream nor a member moves.
LEMMA FanoutKept ==
  ASSUME Published' = Published,
         \A c \in Consumers :
           /\ Member(c)' <=> Member(c)
           /\ Member(c) => next'[c] = next[c] /\ delivered'[c] = delivered[c]
  PROVE  UNCHANGED Fanout!vars
  BY DEF Fanout!vars

LEMMA StampRefines ==
  ASSUME IInv, Stamp
  PROVE  Fanout!Publish
<1>1. /\ Published = nextPublish /\ Published' = Published + 1
      /\ nextPublish < MaxPublish /\ nextPublish \in Nat
  BY StateFacts DEF IInv, ProducerInv, Stamp, Published
<1>2. \A c \in Consumers : Member(c) => Published < next[c] + Capacity
  BY <1>1, OfConsumer DEF GateOf, Cleared, Stamp
<1>3. UNCHANGED <<cpc, next, delivered, stage, cursorId>>
  BY DEF Stamp, consVars, readVars, regVars
<1> QED BY <1>1, <1>2, <1>3 DEF Fanout!Publish, Member, Reads, Tracked

\* A consumer becomes a member at a message of the last lap.
LEMMA JoinRefines ==
  ASSUME IInv, IInv', NEW c \in Consumers,
         UNCHANGED <<prodVars, next, delivered>>,
         ~Reads(c), Member(c)',
         \A d \in Consumers \ {c} :
           cpc'[d] = cpc[d] /\ stage'[d] = stage[d] /\ cursorId'[d] = cursorId[d]
  PROVE  Fanout!Join(c)
<1>1. Published' = Published /\ nextPublish' = nextPublish
  BY DEF prodVars, Published
<1>2. GateOf(c)'
  BY DEF IInv, GateInv
<1>3. /\ next[c] \in 0 .. Published /\ Published <= next[c] + Capacity
  <2>1. /\ next[c] <= Published /\ nextPublish <= next[c] + Capacity
        /\ ppc = "advance" => nextPublish < next[c] + Capacity
    BY <1>1, <1>2 DEF GateOf, Cleared, prodVars
  <2> QED BY <2>1, StateFacts, NumberFacts DEF IInv
<1>4. ~Member(c) /\ \A d \in Consumers : Member(d)' <=> Member(d) \/ d = c
  BY DEF Member, Reads, Tracked
<1>5. delivered[c] = NoMessage
  BY OfConsumer DEF LifeOf, Reads, IInv, TypeOK
<1>6. /\ mapped' = [mapped EXCEPT ![c] = next[c]] /\ members' = members \cup {c}
      /\ handed' = handed
  BY <1>4, <1>5 DEF mapped, members, handed
<1> QED BY <1>1, <1>3, <1>4, <1>6 DEF Fanout!Join, mapped, members, handed

LEMMA CommitRefines ==
  ASSUME IInv, NEW c \in Consumers, Commit(c)
  PROVE  Fanout!Deliver(c) \/ UNCHANGED Fanout!vars
<1>1. /\ cpc[c] = "view" /\ unread[c] = {} /\ cpc' = [cpc EXCEPT ![c] = "poll"]
      /\ delivered' = [delivered EXCEPT ![c] = view[c]]
      /\ next' = [next EXCEPT ![c] = next[c] + 1]
      /\ Published' = Published /\ UNCHANGED <<stage, cursorId>>
  BY DEF Commit, SetCursor, IInv, TypeOK, Published, prodVars
<1>2. \A d \in Consumers : Member(d)' <=> Member(d)
  BY <1>1 DEF Member, Reads, Tracked, IInv, TypeOK
<1>3. CASE Tracked(c)
  <2>1. next[c] < Published /\ \A p \in Parts : view[c][p] = next[c]
    BY <1>1, <1>3, OfConsumer DEF ViewOf
  <2>2. view[c] = Fanout!Message(next[c])
    BY <2>1 DEF Fanout!Message, IInv, TypeOK
  <2>3. /\ Member(c)
        /\ \A d \in Consumers :
             /\ next'[d] = IF d = c THEN next[c] + 1 ELSE next[d]
             /\ delivered'[d] = IF d = c THEN view[c] ELSE delivered[d]
    BY <1>1, <1>3 DEF Member, Reads, IInv, TypeOK
  <2>4. /\ mapped' = [mapped EXCEPT ![c] = next[c] + 1] /\ mapped[c] = next[c]
        /\ handed' = [handed EXCEPT ![c] = view[c]]
        /\ members' = members /\ c \in members
    BY <1>2, <2>3 DEF mapped, members, handed
  <2> QED BY <1>1, <2>1, <2>2, <2>4 DEF Fanout!Deliver, mapped, members, handed
<1>4. CASE ~Tracked(c)
  <2>1. ~Member(c) /\ \A d \in Consumers \ {c} :
                        next'[d] = next[d] /\ delivered'[d] = delivered[d]
    BY <1>1, <1>4 DEF Member, IInv, TypeOK
  <2> QED BY <1>1, <1>2, <2>1, FanoutKept
<1> QED BY <1>3, <1>4

LEMMA DepartRefines ==
  ASSUME IInv, NEW c \in Consumers, Depart(c)
  PROVE  Fanout!Leave(c) \/ UNCHANGED Fanout!vars
<1>1. /\ cpc' = [cpc EXCEPT ![c] = "none"]
      /\ delivered' = [delivered EXCEPT ![c] = NoMessage]
      /\ next' = [next EXCEPT ![c] = 0]
      /\ Published' = Published
  BY DEF Depart, Published, prodVars
<1>2. \A d \in Consumers \ {c} : stage'[d] = stage[d] /\ cursorId'[d] = cursorId[d]
  BY DEF Depart, Unregister, IInv, TypeOK, RegTypeOK
<1>3. ~Member(c)' /\ \A d \in Consumers \ {c} : Member(d)' <=> Member(d)
  BY <1>1, <1>2 DEF Member, Reads, Tracked, IInv, TypeOK
<1>4. \A d \in Consumers \ {c} : next'[d] = next[d] /\ delivered'[d] = delivered[d]
  BY <1>1 DEF IInv, TypeOK
<1>5. CASE ~Member(c)
  BY <1>1, <1>3, <1>4, <1>5, FanoutKept
<1>6. CASE Member(c)
  <2>1. /\ mapped' = [mapped EXCEPT ![c] = 0]
        /\ members' = members \ {c} /\ c \in members
        /\ handed' = [handed EXCEPT ![c] = NoMessage]
    BY <1>3, <1>4, <1>6 DEF mapped, members, handed
  <2> QED BY <1>1, <2>1 DEF Fanout!Leave, mapped, members, handed
<1> QED BY <1>5, <1>6

LEMMA NextRefines ==
  ASSUME IInv, IInv', [Next]_vars
  PROVE  [Fanout!Next]_(Fanout!vars)
<1> SUFFICES Fanout!Next \/ UNCHANGED Fanout!vars
  OBVIOUS
<1>1. CASE Begin \/ LoadInUse \/ LoadValue \/ Advance
           \/ \E p \in Parts : WritePart(p)
  <2>1. Published' = Published /\ UNCHANGED <<delivered, cpc, next, stage, cursorId>>
    BY <1>1 DEF Begin, LoadInUse, LoadValue, ScanOn, Advance, WritePart, Published,
                consVars, readVars, regVars
  <2> QED BY <2>1, FanoutKept DEF Member, Reads, Tracked
<1>2. CASE Stamp
  BY <1>2, StampRefines DEF Fanout!Next
<1>3. ASSUME NEW c \in Consumers, ConsumerStep(c) \/ Construct(c)
      PROVE  Fanout!Next \/ UNCHANGED Fanout!vars
  <2>1. CASE Construct(c) \/ LoadProduced(c) \/ Poll(c) \/ \E p \in Parts : ReadPart(c, p)
    <3>1. Published' = Published /\ UNCHANGED delivered
      BY <2>1 DEF Construct, LoadProduced, Poll, ReadPart, Published, prodVars,
                  consVars, readVars
    <3>2. \A d \in Consumers :
            (Member(d)' <=> Member(d)) /\ (Member(d) => next'[d] = next[d])
      <4>1. CASE Construct(c)
        BY <4>1, OfConsumer DEF Construct, Enter, LifeOf, Member, Reads, Tracked,
           consVars, IInv, TypeOK, RegTypeOK
      <4>2. CASE ~Construct(c)
        BY <2>1, <4>2 DEF LoadProduced, Poll, ReadPart, Member, Reads, Tracked,
                          regVars, IInv, TypeOK
      <4> QED BY <4>1, <4>2
    <3> QED BY <3>1, <3>2, FanoutKept
  <2>2. CASE Register(c) \/ Seek(c)
    <3>1. UNCHANGED <<prodVars, next, delivered>> /\ Published' = Published
      BY <2>2 DEF Register, Seek, readVars, Published, prodVars
    <3>2. \A d \in Consumers \ {c} :
            cpc'[d] = cpc[d] /\ stage'[d] = stage[d] /\ cursorId'[d] = cursorId[d]
      BY <2>2 DEF Register, RegStep, Claim, SkipTaken, StoreZero, Seek, SetCursor,
                  IInv, TypeOK, RegTypeOK
    <3>3. ~Reads(c)
      BY <2>2, OfConsumer
         DEF Register, RegStep, Claim, SkipTaken, StoreZero, Seek, LifeOf, Reads
    <3>4. CASE Member(c)'
      BY <3>1, <3>2, <3>3, <3>4, JoinRefines DEF Fanout!Next
    <3>5. CASE ~Member(c)'
      BY <3>1, <3>2, <3>3, <3>5, FanoutKept DEF Member, Reads, Tracked
    <3> QED BY <3>4, <3>5
  <2>3. CASE Commit(c)
    BY <2>3, CommitRefines DEF Fanout!Next
  <2> QED BY <1>3, <2>1, <2>2, <2>3 DEF ConsumerStep
<1>4. ASSUME NEW c \in Consumers, Depart(c)
      PROVE  Fanout!Next \/ UNCHANGED Fanout!vars
  BY <1>4, DepartRefines DEF Fanout!Next
<1>5. CASE UNCHANGED vars
  BY <1>5, FanoutKept DEF vars, prodVars, consVars, readVars, regVars, Member,
                          Reads, Tracked, Published
<1> QED BY <1>1, <1>2, <1>3, <1>4, <1>5 DEF Next, FinishPublish

\* Every consumer with a cursor gets every message from the one it joined at, whole
\* and in order, and the stream waits for the slowest of them.
THEOREM Refinement == Spec => ImplementsLosslessFanout
<1>1. Init => Fanout!Init
  BY InitRefines
<1>2. IInv /\ IInv' /\ [Next]_vars => [Fanout!Next]_(Fanout!vars)
  BY NextRefines
<1> QED BY <1>1, <1>2, Invariance, PTL
        DEF Spec, ImplementsLosslessFanout, Fanout!Spec
============================================================================
