------------------------ MODULE OverwriteRingProofs ------------------------
(* Proofs about OverwriteRing, for every Capacity, stream length, set of
   consumers and set of parts. *)
EXTENDS OverwriteRing, TLAPS

\* A sequence number maps to a slot of the ring.
LEMMA SlotType == ASSUME NEW q \in Nat PROVE SlotOf(q) \in Slots
  BY CapacityAssumption DEF SlotOf, Slots

\* Two messages that share a slot are at least a lap apart.
LEMMA LapApart ==
  ASSUME NEW a \in Nat, NEW b \in Nat, a < b, SlotOf(a) = SlotOf(b)
  PROVE  a + Capacity <= b
<1> DEFINE i == a \div Capacity
           j == b \div Capacity
<1>1. /\ i \in Int /\ j \in Int
      /\ a = Capacity * i + SlotOf(a)
      /\ b = Capacity * j + SlotOf(a)
  BY CapacityAssumption DEF SlotOf
<1>2. j > i
  <2> SUFFICES ASSUME j <= i PROVE FALSE
    BY <1>1
  <2> HIDE DEF i, j
  <2>1. Capacity * j <= Capacity * i
    BY <1>1, CapacityAssumption
  <2> QED BY <1>1, <2>1, CapacityAssumption DEF SlotOf
<1> HIDE DEF i, j
<1>3. Capacity * j >= Capacity * (i + 1)
  BY <1>1, <1>2, CapacityAssumption
<1>4. Capacity * (i + 1) = Capacity * i + Capacity
  BY <1>1, CapacityAssumption
<1> QED BY <1>1, <1>3, <1>4, CapacityAssumption DEF SlotOf

Reading(c) == cpc[c] \in {"view", "copy"}

\* What publish() keeps true of the slot it works on.
ProducerInv ==
  /\ ppc # "idle" => nextPublish < MaxPublish
  /\ ppc = "write" =>
       /\ stamp[CurSlot] = WritingSeq
       /\ \A p \in Parts \ unwritten : mem[CurSlot][p] = nextPublish

\* A marker is only ever the running publish's; a published stamp vouches for
\* the bytes of its slot.
SlotInv ==
  \A s \in Slots :
    /\ stamp[s] = WritingSeq => ppc = "write" /\ s = CurSlot
    /\ stamp[s] \notin {EmptySeq, WritingSeq} =>
         /\ SlotOf(stamp[s]) = s
         /\ stamp[s] < Published
         /\ \A p \in Parts : mem[s][p] = stamp[s]

\* A message being read was published, and its slot has not gone back since.
ReaderInv ==
  \A c \in Consumers :
    Reading(c) =>
      LET now == stamp[SlotOf(readSeq[c])]
      IN  /\ readSeq[c] = next[c]
          /\ readSeq[c] < Published
          /\ now # EmptySeq
          /\ now = WritingSeq \/ now >= readSeq[c]

IInv ==
  /\ TypeOK
  /\ ProducerInv
  /\ SlotInv
  /\ ReaderInv
  /\ ValidViewIsWhole
  /\ LappedIsReal

----------------------------------------------------------------------------

\* The sentinels are stamps, and no message's number.
LEMMA SentinelFacts ==
  /\ EmptySeq \in Stamps /\ WritingSeq \in Stamps /\ EmptySeq # WritingSeq
  /\ \A q \in 0 .. MaxPublish - 1 :
       q \in Stamps /\ q # EmptySeq /\ q # WritingSeq /\ q \in Seqs
  /\ Seqs \subseteq Nat /\ Stamps \subseteq Nat
  BY RangeAssumption DEF EmptySeq, WritingSeq, Stamps, Seqs

LEMMA InitIInv == Init => IInv
<1> SUFFICES ASSUME Init PROVE IInv
  OBVIOUS
<1> USE DEF Init
<1>1. TypeOK
  BY SentinelFacts, RangeAssumption DEF TypeOK, Blank, Message, Seqs
<1>2. ProducerInv
  BY DEF ProducerInv
<1>3. SlotInv
  BY SentinelFacts DEF SlotInv
<1>4. ReaderInv /\ ValidViewIsWhole /\ LappedIsReal
  BY DEF ReaderInv, Reading, ValidViewIsWhole, LappedIsReal
<1> QED BY <1>1, <1>2, <1>3, <1>4 DEF IInv

\* While a publish is under way its slot and number are in range.
LEMMA CurSlotFacts ==
  ASSUME TypeOK
  PROVE  /\ CurSlot \in Slots
         /\ nextPublish \in Nat
         /\ nextPublish < MaxPublish =>
              /\ nextPublish \in Stamps /\ nextPublish + 1 \in Seqs
              /\ nextPublish # EmptySeq /\ nextPublish # WritingSeq
         /\ \A c \in Consumers : /\ SlotOf(readSeq[c]) \in Slots
                                 /\ SlotOf(next[c]) \in Slots
                                 /\ readSeq[c] \in Nat /\ next[c] \in Nat
<1>1. nextPublish \in Nat /\ MaxPublish \in Nat
  BY RangeAssumption DEF TypeOK, Seqs
<1>2. nextPublish < MaxPublish =>
        nextPublish \in 0 .. MaxPublish - 1 /\ nextPublish + 1 \in Seqs
  BY <1>1 DEF Seqs
<1> QED BY <1>1, <1>2, SlotType, SentinelFacts DEF TypeOK, CurSlot, Seqs

LEMMA MarkStep == IInv /\ Mark => IInv'
<1> SUFFICES ASSUME IInv, Mark PROVE IInv'
  OBVIOUS
<1> USE DEF IInv, Mark, slotVars, consVars
<1>0. /\ CurSlot \in Slots /\ CurSlot' = CurSlot /\ nextPublish < MaxPublish
      /\ nextPublish \in Nat /\ Published = nextPublish /\ Published' = nextPublish
  BY CurSlotFacts DEF CurSlot, Published
<1>1. TypeOK'
  BY <1>0, SentinelFacts DEF TypeOK
<1>2. ProducerInv'
  BY <1>0 DEF ProducerInv, TypeOK
<1>3. SlotInv'
  BY <1>0 DEF SlotInv, TypeOK
<1>4. ReaderInv'
  BY <1>0, CurSlotFacts, SentinelFacts DEF ReaderInv, Reading, TypeOK
<1>5. ValidViewIsWhole'
  <2> SUFFICES ASSUME NEW c \in Consumers, Reading(c), Validates(c)',
                      NEW p \in Parts \ unread[c]
               PROVE  view[c][p] = readSeq[c]
    BY DEF ValidViewIsWhole, Reading
  <2>1. readSeq[c] # WritingSeq
    BY <1>0, SentinelFacts, CurSlotFacts, RangeAssumption
       DEF ReaderInv, WritingSeq, EmptySeq
  <2>2. Validates(c)
    BY <2>1, CurSlotFacts DEF Validates, TypeOK
  <2> QED BY <2>2 DEF ValidViewIsWhole, Reading
<1>6. LappedIsReal'
  BY DEF LappedIsReal
<1> QED BY <1>1, <1>2, <1>3, <1>4, <1>5, <1>6

LEMMA WritePartStep ==
  ASSUME NEW q \in Parts, IInv, WritePart(q)
  PROVE  IInv'
<1> USE DEF IInv, WritePart, consVars
<1>0. /\ CurSlot \in Slots /\ CurSlot' = CurSlot
      /\ nextPublish < MaxPublish /\ nextPublish \in Nat
      /\ nextPublish \in Stamps
      /\ Published = nextPublish /\ Published' = nextPublish
  BY CurSlotFacts DEF CurSlot, Published, ProducerInv
<1>1. TypeOK'
  BY <1>0 DEF TypeOK
<1>2. ProducerInv'
  BY <1>0 DEF ProducerInv, TypeOK
<1>3. SlotInv'
  BY <1>0 DEF SlotInv, TypeOK, ProducerInv
<1>4. ReaderInv'
  BY <1>0 DEF ReaderInv, Reading
<1>5. ValidViewIsWhole' /\ LappedIsReal'
  BY DEF ValidViewIsWhole, Validates, LappedIsReal
<1> QED BY <1>1, <1>2, <1>3, <1>4, <1>5

LEMMA StampStep == IInv /\ Stamp => IInv'
<1> SUFFICES ASSUME IInv, Stamp PROVE IInv'
  OBVIOUS
<1> USE DEF IInv, Stamp, consVars
<1>0. /\ CurSlot \in Slots /\ CurSlot' = CurSlot
      /\ nextPublish < MaxPublish /\ nextPublish \in Nat
      /\ nextPublish \in Stamps
      /\ nextPublish # EmptySeq /\ nextPublish # WritingSeq
      /\ Published = nextPublish /\ Published' = nextPublish + 1
  BY CurSlotFacts DEF CurSlot, Published, ProducerInv
<1>1. TypeOK'
  BY <1>0 DEF TypeOK
<1>2. ProducerInv'
  BY <1>0 DEF ProducerInv
<1>3. SlotInv'
  <2> SUFFICES ASSUME NEW s \in Slots
               PROVE  /\ stamp'[s] = WritingSeq => ppc' = "write" /\ s = CurSlot'
                      /\ stamp'[s] \notin {EmptySeq, WritingSeq} =>
                           /\ SlotOf(stamp'[s]) = s
                           /\ stamp'[s] < Published'
                           /\ \A p \in Parts : mem'[s][p] = stamp'[s]
    BY DEF SlotInv
  <2>1. CASE s = CurSlot
    BY <1>0, <2>1 DEF TypeOK, ProducerInv, CurSlot
  <2>2. CASE s # CurSlot
    <3>1. stamp'[s] = stamp[s] /\ mem'[s] = mem[s] /\ stamp[s] \in Nat
      BY <2>2, SentinelFacts DEF TypeOK
    <3> QED BY <1>0, <2>2, <3>1 DEF SlotInv
  <2> QED BY <2>1, <2>2
<1>4. ReaderInv'
  BY <1>0, CurSlotFacts, SentinelFacts DEF ReaderInv, Reading, TypeOK
<1>5. ValidViewIsWhole'
  <2> SUFFICES ASSUME NEW c \in Consumers, Reading(c), Validates(c)',
                      NEW p \in Parts \ unread[c]
               PROVE  view[c][p] = readSeq[c]
    BY DEF ValidViewIsWhole, Reading
  <2>1. readSeq[c] < nextPublish
    BY <1>0 DEF ReaderInv
  <2>2. Validates(c)
    BY <1>0, <2>1, CurSlotFacts DEF Validates, TypeOK
  <2> QED BY <2>2 DEF ValidViewIsWhole, Reading
<1>6. LappedIsReal'
  BY DEF LappedIsReal
<1> QED BY <1>1, <1>2, <1>3, <1>4, <1>5, <1>6

LEMMA AdvanceStep == IInv /\ Advance => IInv'
<1> SUFFICES ASSUME IInv, Advance PROVE IInv'
  OBVIOUS
<1> USE DEF IInv, Advance, slotVars, consVars
<1>0. /\ nextPublish \in Nat /\ nextPublish < MaxPublish
      /\ nextPublish' = nextPublish + 1
      /\ Published' = Published
  BY CurSlotFacts DEF Published, ProducerInv
<1>1. TypeOK'
  BY <1>0, RangeAssumption DEF TypeOK, Seqs
<1>2. ProducerInv' /\ SlotInv' /\ ReaderInv'
  BY <1>0 DEF ProducerInv, SlotInv, ReaderInv, Reading
<1>3. ValidViewIsWhole'
  BY DEF ValidViewIsWhole, Validates
<1>4. LappedIsReal'
  BY <1>0, CurSlotFacts, CapacityAssumption DEF LappedIsReal
<1> QED BY <1>1, <1>2, <1>3, <1>4

\* A slot whose stamp is newer than the message wanted from it is a lap away.
LEMMA NewerIsALap ==
  ASSUME IInv, NEW q \in Nat,
         \/ stamp[SlotOf(q)] = WritingSeq /\ q < nextPublish
         \/ stamp[SlotOf(q)] \notin {EmptySeq, WritingSeq} /\ stamp[SlotOf(q)] > q
  PROVE  nextPublish >= q + Capacity
<1> DEFINE s == SlotOf(q)
<1> USE DEF IInv
<1>0. s \in Slots /\ stamp[s] \in Nat /\ nextPublish \in Nat
  BY SlotType, SentinelFacts DEF TypeOK, Seqs
<1>1. CASE stamp[s] = WritingSeq /\ q < nextPublish
  <2>1. SlotOf(nextPublish) = SlotOf(q)
    BY <1>0, <1>1 DEF SlotInv, CurSlot
  <2> QED BY <1>0, <1>1, <2>1, LapApart, CapacityAssumption
<1>2. CASE stamp[s] \notin {EmptySeq, WritingSeq} /\ stamp[s] > q
  <2>1. SlotOf(stamp[s]) = SlotOf(q) /\ stamp[s] <= nextPublish
    BY <1>0, <1>2 DEF SlotInv, Published
  <2>2. q + Capacity <= stamp[s]
    BY <1>0, <1>2, <2>1, LapApart
  <2> QED BY <1>0, <2>1, <2>2, CapacityAssumption
<1> QED BY <1>1, <1>2
----------------------------------------------------------------------------
(* The consumer's steps leave the producer's part alone. *)

LEMMA PollOkStep ==
  ASSUME NEW c \in Consumers, IInv, PollOk(c)
  PROVE  IInv'
<1> USE DEF IInv, PollOk, prodVars, slotVars
<1> DEFINE s == SlotOf(next[c])
<1>0. s \in Slots /\ next[c] \in Nat /\ next[c] \in Seqs /\ stamp[s] = next[c]
  BY CurSlotFacts DEF ReadStatus, TypeOK
<1>1. stamp[s] \notin {EmptySeq, WritingSeq} /\ next[c] < Published
  <2>1. next[c] # EmptySeq /\ next[c] # WritingSeq
    BY <1>0, RangeAssumption DEF Seqs, EmptySeq, WritingSeq
  <2> QED BY <1>0, <2>1 DEF SlotInv
<1>2. TypeOK'
  BY <1>0, SentinelFacts DEF TypeOK, Blank, Message
<1>3. ProducerInv' /\ SlotInv'
  BY DEF ProducerInv, SlotInv, Published, CurSlot
<1>4. ReaderInv'
  <2> SUFFICES ASSUME NEW d \in Consumers, Reading(d)'
               PROVE  LET now == stamp[SlotOf(readSeq'[d])]
                      IN  /\ readSeq'[d] = next'[d]
                          /\ readSeq'[d] < Published
                          /\ now # EmptySeq
                          /\ now = WritingSeq \/ now >= readSeq'[d]
    BY DEF ReaderInv, Published
  <2>1. CASE d = c
    BY <1>0, <1>1, <2>1 DEF TypeOK
  <2>2. CASE d # c
    BY <2>2 DEF ReaderInv, Reading, TypeOK
  <2> QED BY <2>1, <2>2
<1>5. ValidViewIsWhole'
  BY DEF ValidViewIsWhole, Validates, TypeOK
<1>6. LappedIsReal'
  BY DEF LappedIsReal, TypeOK
<1> QED BY <1>2, <1>3, <1>4, <1>5, <1>6

LEMMA PollLappedStep ==
  ASSUME NEW c \in Consumers, IInv, PollLapped(c)
  PROVE  IInv'
<1> USE DEF IInv, PollLapped, prodVars, slotVars
<1>0. next[c] \in Nat /\ SlotOf(next[c]) \in Slots
  BY CurSlotFacts
<1>1. /\ stamp[SlotOf(next[c])] \notin {EmptySeq, WritingSeq}
      /\ stamp[SlotOf(next[c])] > next[c]
  <2>1. /\ stamp[SlotOf(next[c])] \in Nat
        /\ stamp[SlotOf(next[c])] # next[c]
        /\ stamp[SlotOf(next[c])] \notin {EmptySeq, WritingSeq}
        /\ ~(stamp[SlotOf(next[c])] < next[c])
    BY <1>0, SentinelFacts DEF ReadStatus, TypeOK
  <2> QED BY <1>0, <2>1
<1>2. nextPublish >= next[c] + Capacity
  BY <1>0, <1>1, NewerIsALap
<1>3. TypeOK'
  BY DEF TypeOK
<1>4. ProducerInv' /\ SlotInv'
  BY DEF ProducerInv, SlotInv, Published, CurSlot
<1>5. ReaderInv' /\ ValidViewIsWhole'
  BY DEF ReaderInv, Reading, ValidViewIsWhole, Validates, TypeOK, Published
<1>6. LappedIsReal'
  BY <1>2 DEF LappedIsReal, TypeOK
<1> QED BY <1>3, <1>4, <1>5, <1>6

LEMMA ReadPartStep ==
  ASSUME NEW c \in Consumers, NEW q \in Parts, IInv, ReadPart(c, q)
  PROVE  IInv'
<1> USE DEF IInv, ReadPart, prodVars, slotVars
<1> DEFINE s == SlotOf(readSeq[c])
<1>0. s \in Slots /\ readSeq[c] \in Nat /\ Reading(c)
  BY CurSlotFacts DEF Reading
<1>1. TypeOK'
  BY <1>0 DEF TypeOK
<1>2. ProducerInv' /\ SlotInv' /\ ReaderInv' /\ LappedIsReal'
  BY DEF ProducerInv, SlotInv, Published, CurSlot, ReaderInv, Reading,
         LappedIsReal
<1>3. Validates(c) => mem[s][q] = readSeq[c]
  <2> SUFFICES ASSUME Validates(c) PROVE mem[s][q] = readSeq[c]
    OBVIOUS
  <2>1. readSeq[c] \notin {EmptySeq, WritingSeq}
    <3>1. readSeq[c] < Published /\ (ppc # "idle" => nextPublish < MaxPublish)
      BY <1>0 DEF ReaderInv, ProducerInv
    <3> QED BY <1>0, <3>1, RangeAssumption
            DEF Published, TypeOK, Seqs, EmptySeq, WritingSeq
  <2> QED BY <1>0, <2>1 DEF SlotInv, Validates
<1>4. ValidViewIsWhole'
  <2> SUFFICES ASSUME NEW d \in Consumers, Reading(d), Validates(d),
                      NEW p \in Parts \ unread'[d]
               PROVE  view'[d][p] = readSeq[d]
    BY DEF ValidViewIsWhole, Reading, Validates
  <2>1. CASE d = c /\ p = q
    BY <1>3, <2>1 DEF TypeOK
  <2>2. CASE d # c \/ p # q
    <3>1. p \in Parts \ unread[d] /\ view'[d][p] = view[d][p]
      BY <2>2 DEF TypeOK
    <3> QED BY <3>1 DEF ValidViewIsWhole, Reading
  <2> QED BY <2>1, <2>2
<1> QED BY <1>1, <1>2, <1>4

LEMMA CommitStep ==
  ASSUME NEW c \in Consumers, IInv, Commit(c)
  PROVE  IInv'
<1> USE DEF IInv, Commit, prodVars, slotVars
<1>0. readSeq[c] + 1 \in Seqs
  <2>1. readSeq[c] \in Nat /\ nextPublish \in Seqs /\ Reading(c)
    BY CurSlotFacts DEF TypeOK, Reading
  <2>2. readSeq[c] < Published /\ (ppc # "idle" => nextPublish < MaxPublish)
    BY <2>1 DEF ReaderInv, ProducerInv
  <2> QED BY <2>1, <2>2, RangeAssumption DEF Published, Seqs
<1>1. TypeOK'
  BY <1>0 DEF TypeOK
<1>2. ProducerInv' /\ SlotInv'
  BY DEF ProducerInv, SlotInv, Published, CurSlot
<1>3. ReaderInv' /\ ValidViewIsWhole' /\ LappedIsReal'
  BY DEF ReaderInv, Reading, ValidViewIsWhole, Validates, LappedIsReal,
         Published, TypeOK
<1> QED BY <1>1, <1>2, <1>3

LEMMA DiscardStep ==
  ASSUME NEW c \in Consumers, IInv, Discard(c)
  PROVE  IInv'
<1> USE DEF IInv, Discard, prodVars, slotVars
<1> DEFINE s == SlotOf(readSeq[c])
<1>0. /\ s \in Slots /\ readSeq[c] \in Nat /\ Reading(c)
      /\ stamp[s] \in Nat /\ nextPublish \in Nat
  BY CurSlotFacts, SentinelFacts DEF Reading, TypeOK
<1>1. nextPublish >= next[c] + Capacity
  <2>1. /\ readSeq[c] = next[c] /\ readSeq[c] < Published
        /\ stamp[s] # EmptySeq
        /\ stamp[s] = WritingSeq \/ stamp[s] > readSeq[c]
    BY <1>0 DEF ReaderInv, Validates
  <2>2. stamp[s] = WritingSeq => readSeq[c] < nextPublish
    BY <1>0, <2>1 DEF SlotInv, Published
  <2> QED BY <1>0, <2>1, <2>2, NewerIsALap
<1>2. TypeOK'
  BY SentinelFacts DEF TypeOK, Blank, Message
<1>3. ProducerInv' /\ SlotInv'
  BY DEF ProducerInv, SlotInv, Published, CurSlot
<1>4. ReaderInv' /\ ValidViewIsWhole'
  BY DEF ReaderInv, Reading, ValidViewIsWhole, Validates, Published, TypeOK
<1>5. LappedIsReal'
  BY <1>1 DEF LappedIsReal, TypeOK
<1> QED BY <1>2, <1>3, <1>4, <1>5

LEMMA ResyncStep ==
  ASSUME NEW c \in Consumers, IInv, Resync(c)
  PROVE  IInv'
<1> USE DEF IInv, Resync, prodVars, slotVars
<1>1. ResyncTarget(nextPublish) \in Seqs
  BY CapacityAssumption, RangeAssumption DEF ResyncTarget, TypeOK, Seqs
<1>2. TypeOK'
  BY <1>1 DEF TypeOK
<1>3. ProducerInv' /\ SlotInv'
  BY DEF ProducerInv, SlotInv, Published, CurSlot
<1>4. ReaderInv' /\ ValidViewIsWhole' /\ LappedIsReal'
  BY DEF ReaderInv, Reading, ValidViewIsWhole, Validates, LappedIsReal,
         Published, TypeOK
<1> QED BY <1>2, <1>3, <1>4

LEMMA StutterStep == IInv /\ UNCHANGED vars => IInv'
  BY DEF IInv, vars, prodVars, slotVars, consVars, TypeOK, ProducerInv,
         SlotInv, ReaderInv, Reading, ValidViewIsWhole, Validates,
         LappedIsReal, Published, CurSlot

LEMMA NextIInv == IInv /\ [Next]_vars => IInv'
<1> SUFFICES ASSUME IInv, [Next]_vars PROVE IInv'
  OBVIOUS
<1>1. CASE Mark
  BY <1>1, MarkStep
<1>2. CASE FinishPublish
  BY <1>2, WritePartStep, StampStep, AdvanceStep DEF FinishPublish
<1>3. ASSUME NEW c \in Consumers, ConsumerStep(c) PROVE IInv'
  BY <1>3, PollOkStep, PollLappedStep, ReadPartStep, CommitStep, DiscardStep,
     ResyncStep DEF ConsumerStep
<1>4. CASE UNCHANGED vars
  BY <1>4, StutterStep
<1> QED BY <1>1, <1>2, <1>3, <1>4 DEF Next

THEOREM Invariance == Spec => []IInv
<1> QED BY InitIInv, NextIInv, PTL DEF Spec

\* Types, with every sequence number in use below the sentinels.
THEOREM TypeCorrect == Spec => []TypeOK
<1>1. IInv => TypeOK
  BY DEF IInv
<1> QED BY <1>1, Invariance, PTL

\* The seqlock is sound: a span that validates holds one whole message.
THEOREM NoTornRead == Spec => []ValidViewIsWhole
<1>1. IInv => ValidViewIsWhole
  BY DEF IInv
<1> QED BY <1>1, Invariance, PTL

\* lapped is never reported to a consumer that kept within Capacity.
THEOREM LapsAreReal == Spec => []LappedIsReal
<1>1. IInv => LappedIsReal
  BY DEF IInv
<1> QED BY <1>1, Invariance, PTL
----------------------------------------------------------------------------
(* OverwriteRing implements LossyFanout: Stamp is the moment a message     *)
(* joins the stream, Commit delivers it, and a Resync that moves skips     *)
(* only messages a lap behind.                                             *)

LEMMA InitRefines == Init => Fanout!Init
  BY DEF Init, Fanout!Init, Published

LEMMA StampRefines == IInv /\ Stamp => Fanout!Publish
<1> SUFFICES ASSUME IInv, Stamp PROVE Fanout!Publish
  OBVIOUS
<1>1. nextPublish < MaxPublish /\ Published = nextPublish
  BY DEF IInv, ProducerInv, Stamp, Published
<1> QED BY <1>1 DEF Stamp, Fanout!Publish, Published, consVars

LEMMA CommitRefines ==
  ASSUME NEW c \in Consumers, IInv, Commit(c)
  PROVE  Fanout!Deliver(c)
<1>1. /\ readSeq[c] = next[c] /\ next[c] < Published
      /\ \A p \in Parts : view[c][p] = next[c]
  BY DEF IInv, Commit, ReaderInv, Reading, ValidViewIsWhole
<1>2. view[c] = Fanout!Message(next[c])
  BY <1>1 DEF Fanout!Message, IInv, TypeOK
<1> QED BY <1>1, <1>2
        DEF Commit, Fanout!Deliver, Published, prodVars, slotVars, IInv, TypeOK

LEMMA ResyncRefines ==
  ASSUME NEW c \in Consumers, IInv, Resync(c)
  PROVE  Fanout!Lose(c) \/ UNCHANGED Fanout!vars
<1> DEFINE k == ResyncTarget(nextPublish)
<1>1. /\ nextPublish \in Nat /\ next[c] \in Nat
      /\ nextPublish >= next[c] + Capacity
      /\ Published \in Int /\ nextPublish <= Published
  BY CurSlotFacts DEF IInv, LappedIsReal, Resync, Published
<1>2. k \in Nat /\ next[c] <= k /\ k <= Published - Capacity
  BY <1>1, CapacityAssumption DEF ResyncTarget
<1>3. /\ next' = [next EXCEPT ![c] = k]
      /\ UNCHANGED <<Published, delivered>>
  BY DEF Resync, Published, prodVars
<1> HIDE DEF k
<1>4. CASE k = next[c]
  BY <1>3, <1>4 DEF Fanout!vars, IInv, TypeOK
<1>5. CASE k # next[c]
  <2>1. k \in next[c] + 1 .. Published - Capacity
    BY <1>1, <1>2, <1>5, CapacityAssumption
  <2> QED BY <1>3, <2>1 DEF Fanout!Lose
<1> QED BY <1>4, <1>5

LEMMA NextRefines == IInv /\ [Next]_vars => [Fanout!Next]_(Fanout!vars)
<1> SUFFICES ASSUME IInv, [Next]_vars
             PROVE  Fanout!Next \/ UNCHANGED Fanout!vars
  OBVIOUS
<1>1. CASE Mark
  BY <1>1 DEF Mark, Fanout!vars, Published, consVars
<1>2. ASSUME NEW p \in Parts, WritePart(p) PROVE UNCHANGED Fanout!vars
  BY <1>2 DEF WritePart, Fanout!vars, Published, consVars
<1>3. CASE Stamp
  BY <1>3, StampRefines DEF Fanout!Next
<1>4. CASE Advance
  BY <1>4 DEF Advance, Fanout!vars, Published, consVars
<1>5. ASSUME NEW c \in Consumers, ConsumerStep(c)
      PROVE  Fanout!Next \/ UNCHANGED Fanout!vars
  <2>1. CASE PollOk(c) \/ PollLapped(c) \/ Discard(c)
    BY <2>1 DEF PollOk, PollLapped, Discard, Fanout!vars, Published, prodVars
  <2>2. CASE \E p \in Parts : ReadPart(c, p)
    BY <2>2 DEF ReadPart, Fanout!vars, Published, prodVars
  <2>3. CASE Commit(c)
    BY <2>3, CommitRefines DEF Fanout!Next
  <2>4. CASE Resync(c)
    BY <2>4, ResyncRefines DEF Fanout!Next
  <2> QED BY <1>5, <2>1, <2>2, <2>3, <2>4 DEF ConsumerStep
<1>6. CASE UNCHANGED vars
  BY <1>6 DEF vars, prodVars, consVars, Fanout!vars, Published
<1> QED BY <1>1, <1>2, <1>3, <1>4, <1>5, <1>6 DEF Next, FinishPublish

\* Every consumer gets whole messages of the one stream, in order, and loses
\* only ones the producer has left a full lap behind.
THEOREM Refinement == Spec => ImplementsLossyFanout
<1> QED BY InitRefines, NextRefines, Invariance, PTL
        DEF Spec, ImplementsLossyFanout, Fanout!Spec
============================================================================
