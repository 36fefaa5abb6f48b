--------------------------- MODULE FutexRingProofs ---------------------------
(* Proofs about FutexRing: type correctness, that no wakeup is lost without a
   store buffer and late by a lap at most with one, and that it implements the
   fan-out of LossyFanout with any. *)
EXTENDS FutexRing, FiniteSetTheorems, TLAPS

\* A sequence number maps to a slot of the ring.
LEMMA SlotType == ASSUME NEW q \in Nat PROVE SlotOf(q) \in Slots
  BY CapacityAssumption DEF SlotOf, Slots

\* What is ever stored at an address: a count in next_publish_, a sentinel or
\* the number of a message that was begun in a slot.
Values(a) ==
  IF a = NextPublish THEN Seqs ELSE (0 .. MaxPublish - 1) \cup {EmptySeq, WritingSeq}

ValuesOK ==
  /\ \A a \in Addresses : word[a] \in Values(a)
  /\ \A i \in 1 .. Len(buffer) : buffer[i].val \in Values(buffer[i].at)

Busy == ppc # "idle" => seq < MaxPublish

\* waiters_ counts the consumers between the increment and the decrement.
Waiting == {c \in Consumers : cpc[c] \in {"reload", "sleep", "asleep", "leave"}}
Counted == waiters = Cardinality(Waiting)

\* A consumer goes to sleep on a stamp that is not its message yet.
SleepsOnOldStamp == \A c \in Consumers : cpc[c] = "sleep" => seen[c] < next[c]

Unbuffered == depth = 0 => buffer = <<>>

TypeInv == TypeOK /\ ValuesOK /\ Busy /\ Counted
WakeInv == TypeInv /\ Unbuffered /\ SleepsOnOldStamp /\ NoLostWakeup

----------------------------------------------------------------------------
(* Values. *)

LEMMA Facts ==
  /\ Capacity \in Nat \ {0} /\ MaxPublish \in Nat /\ SeqMod \in Nat
  /\ Slots \subseteq Addresses /\ NextPublish \in Addresses /\ NextPublish \notin Slots
  /\ \A s \in Slots : Values(s) = (0 .. MaxPublish - 1) \cup {EmptySeq, WritingSeq}
  /\ Values(NextPublish) = Seqs
  /\ \A a \in Addresses : Values(a) \subseteq Stamps
  /\ Seqs \subseteq Nat /\ Stamps \subseteq Nat /\ Seqs \subseteq Stamps
  /\ EmptySeq \in Nat /\ WritingSeq \in Nat
  /\ \A q \in Seqs : q < WritingSeq /\ q < EmptySeq
  BY CapacityAssumption, RangeAssumption
  DEF Slots, Addresses, NextPublish, Values, Seqs, Stamps, EmptySeq, WritingSeq

\* A store leaves in memory and in the buffer only values that belong there.
LEMMA StoreValues ==
  ASSUME TypeInv, NEW a \in Addresses, NEW v \in Values(a), Store(a, v)
  PROVE  /\ word' \in [Addresses -> Stamps]
         /\ buffer' \in Seq([at : Addresses, val : Stamps]) /\ Len(buffer') <= depth
         /\ ValuesOK'
<1> DEFINE e == [at |-> a, val |-> v]
<1>0. /\ v \in Stamps /\ word \in [Addresses -> Stamps]
      /\ buffer \in Seq([at : Addresses, val : Stamps]) /\ Len(buffer) <= depth
      /\ depth \in Nat /\ ValuesOK
      /\ e \in [at : Addresses, val : Stamps] /\ e.val \in Values(e.at)
  BY Facts, FutexAssumption DEF TypeInv, TypeOK
<1> HIDE DEF e
<1>1. CASE depth = 0 /\ word' = [word EXCEPT ![a] = v] /\ UNCHANGED buffer
  BY <1>0, <1>1 DEF ValuesOK
<1>2. CASE Len(buffer) < depth /\ buffer' = Append(buffer, e) /\ UNCHANGED word
  <2>1. /\ buffer' \in Seq([at : Addresses, val : Stamps])
        /\ Len(buffer') = Len(buffer) + 1
        /\ \A i \in 1 .. Len(buffer') :
             buffer'[i] = IF i <= Len(buffer) THEN buffer[i] ELSE e
    BY <1>0, <1>2
  <2>2. \A i \in 1 .. Len(buffer') : buffer'[i].val \in Values(buffer'[i].at)
    BY <1>0, <2>1 DEF ValuesOK
  <2>3. ValuesOK'
    BY <1>0, <1>2, <2>2 DEF ValuesOK, Values, NextPublish
  <2> QED BY <1>0, <1>2, <2>1, <2>3
<1> QED BY <1>1, <1>2 DEF Store, e

LEMMA TailFacts ==
  ASSUME NEW S, NEW s \in Seq(S), s # <<>>
  PROVE  /\ Head(s) \in S /\ Tail(s) \in Seq(S) /\ Len(Tail(s)) = Len(s) - 1
         /\ \A i \in 1 .. Len(Tail(s)) : Tail(s)[i] = s[i + 1]
  OBVIOUS

\* The first store of the buffer reaches memory.
LEMMA DrainValues ==
  ASSUME TypeInv, Drain
  PROVE  /\ word' \in [Addresses -> Stamps]
         /\ buffer' \in Seq([at : Addresses, val : Stamps]) /\ Len(buffer') <= depth
         /\ ValuesOK'
<1> DEFINE e == Head(buffer)
<1>0. /\ word \in [Addresses -> Stamps] /\ depth \in Nat /\ ValuesOK
      /\ buffer \in Seq([at : Addresses, val : Stamps]) /\ Len(buffer) <= depth
      /\ buffer # <<>>
      /\ word' = [word EXCEPT ![e.at] = e.val] /\ buffer' = Tail(buffer)
  BY FutexAssumption DEF TypeInv, TypeOK, Drain
<1>1. /\ e \in [at : Addresses, val : Stamps] /\ e = buffer[1] /\ 1 \in 1 .. Len(buffer)
      /\ buffer' \in Seq([at : Addresses, val : Stamps]) /\ Len(buffer') = Len(buffer) - 1
      /\ \A i \in 1 .. Len(buffer') : buffer'[i] = buffer[i + 1] /\ i + 1 \in 1 .. Len(buffer)
  <2>1. buffer' \in Seq([at : Addresses, val : Stamps]) /\ Len(buffer') = Len(buffer) - 1
    BY <1>0, TailFacts
  <2>2. \A i \in 1 .. Len(buffer') : buffer'[i] = buffer[i + 1] /\ i + 1 \in 1 .. Len(buffer)
    BY <1>0, <2>1, TailFacts
  <2>3. e = buffer[1] /\ 1 \in 1 .. Len(buffer)
    BY <1>0
  <2>4. e \in [at : Addresses, val : Stamps]
    BY <1>0, TailFacts
  <2> QED BY <2>1, <2>2, <2>3, <2>4
<1>2. e.val \in Values(e.at)
  BY <1>0, <1>1 DEF ValuesOK
<1> HIDE DEF e
<1>3. \A x \in Addresses : word'[x] \in Values(x)
  BY <1>0, <1>1, <1>2 DEF ValuesOK
<1>4. \A i \in 1 .. Len(buffer') : buffer'[i].val \in Values(buffer'[i].at)
  BY <1>0, <1>1 DEF ValuesOK
<1> QED BY <1>0, <1>1, <1>3, <1>4 DEF ValuesOK, Values, NextPublish

----------------------------------------------------------------------------
(* The count of the waiters. *)

LEMMA SameCount ==
  ASSUME TypeInv, UNCHANGED waiters, Waiting' = Waiting
  PROVE  Counted' /\ waiters' \in Nat
  BY DEF TypeInv, TypeOK, Counted

LEMMA CountUp ==
  ASSUME TypeInv, NEW c \in Consumers, c \notin Waiting,
         waiters' = waiters + 1, Waiting' = Waiting \cup {c}
  PROVE  Counted' /\ waiters' \in Nat
<1>1. IsFiniteSet(Waiting)
  BY FS_Subset, FutexAssumption DEF Waiting
<1>2. Cardinality(Waiting') = Cardinality(Waiting) + 1
  BY <1>1, FS_AddElement
<1> QED BY <1>2 DEF TypeInv, TypeOK, Counted

LEMMA CountDown ==
  ASSUME TypeInv, NEW c \in Consumers, c \in Waiting,
         waiters' = waiters - 1, Waiting' = Waiting \ {c}
  PROVE  Counted' /\ waiters' \in Nat
<1>1. IsFiniteSet(Waiting) /\ IsFiniteSet(Waiting')
  BY FS_Subset, FutexAssumption DEF Waiting
<1>2. Cardinality(Waiting') = Cardinality(Waiting) - 1
  BY <1>1, FS_RemoveElement
<1>3. Cardinality(Waiting') \in Nat
  BY <1>1, FS_CardinalityType
<1> QED BY <1>2, <1>3 DEF TypeInv, TypeOK, Counted

\* A consumer that waits keeps the count above zero.
LEMMA SomeoneCounted ==
  ASSUME TypeInv, NEW c \in Waiting
  PROVE  waiters # 0
<1>1. IsFiniteSet(Waiting)
  BY FS_Subset, FutexAssumption DEF Waiting
<1> QED BY <1>1, FS_EmptySet DEF TypeInv, Counted

----------------------------------------------------------------------------
(* Type correctness. *)

LEMMA InitType == Init => TypeInv
<1> SUFFICES ASSUME Init PROVE TypeInv
  OBVIOUS
<1>1. Waiting = {}
  BY DEF Init, Waiting
<1>2. Counted
  BY <1>1, FS_EmptySet DEF Init, Counted
<1>3. \A a \in Addresses : word[a] \in Values(a)
  BY Facts DEF Init, Addresses, Seqs
<1>4. TypeOK
  BY Facts, FutexAssumption DEF Init, TypeOK, Seqs
<1>5. ValuesOK /\ Busy
  BY <1>3 DEF Init, ValuesOK, Busy
<1> QED BY <1>2, <1>4, <1>5 DEF TypeInv

\* The consumer wants a slot of the ring, and what it finds there belongs there.
LEMMA WantFacts ==
  ASSUME TypeInv, NEW c \in Consumers
  PROVE  /\ next[c] \in Seqs /\ SlotOf(next[c]) \in Slots
         /\ Want(c) \in (0 .. MaxPublish - 1) \cup {EmptySeq, WritingSeq}
         /\ Want(c) \in Stamps /\ Want(c) \in Nat /\ next[c] \in Nat
<1>1. next[c] \in Seqs /\ next[c] \in Nat
  BY Facts DEF TypeInv, TypeOK
<1>2. SlotOf(next[c]) \in Slots
  BY <1>1, SlotType
<1>3. word[SlotOf(next[c])] \in Values(SlotOf(next[c]))
  BY <1>2, Facts DEF TypeInv, ValuesOK
<1> QED BY <1>1, <1>2, <1>3, Facts DEF Want

LEMMA ProducerType ==
  ASSUME TypeInv, Begin \/ FinishPublish \/ Drain
  PROVE  TypeInv'
<1> DEFINE Still == UNCHANGED <<waiters, cpc>>
<1>0. /\ seq \in Seqs /\ seq \in Nat /\ CurSlot \in Slots /\ CurSlot \in Addresses
      /\ waiters \in Nat
  BY Facts, SlotType DEF TypeInv, TypeOK, CurSlot
<1>1. ASSUME Still PROVE Counted'
  BY <1>1 DEF TypeInv, Counted, Waiting
<1>2. CASE Begin
  <2>1. /\ word' \in [Addresses -> Stamps]
        /\ buffer' \in Seq([at : Addresses, val : Stamps]) /\ Len(buffer') <= depth
        /\ ValuesOK'
    <3>1. CASE UNCHANGED <<word, buffer>>
      BY <3>1 DEF TypeInv, TypeOK, ValuesOK, Values, NextPublish
    <3>2. CASE Store(CurSlot, WritingSeq)
      <4>1. WritingSeq \in Values(CurSlot)
        BY <1>0, Facts
      <4> QED BY <1>0, <3>2, <4>1, StoreValues
    <3> QED BY <1>2, <3>1, <3>2 DEF Begin
  <2>2. TypeOK' /\ Busy' /\ Still
    BY <1>2, <2>1 DEF Begin, TypeInv, TypeOK, Busy, fixed, consVars
  <2> QED BY <1>1, <2>1, <2>2 DEF TypeInv
<1>3. CASE Stamp
  <2>1. seq \in Values(CurSlot)
    BY <1>0, <1>3, Facts DEF Stamp, TypeInv, Busy
  <2>2. /\ word' \in [Addresses -> Stamps]
        /\ buffer' \in Seq([at : Addresses, val : Stamps]) /\ Len(buffer') <= depth
        /\ ValuesOK'
    BY <1>0, <1>3, <2>1, StoreValues DEF Stamp
  <2>3. TypeOK' /\ Busy' /\ Still
    BY <1>3, <2>2 DEF Stamp, TypeInv, TypeOK, Busy, fixed, consVars
  <2> QED BY <1>1, <2>2, <2>3 DEF TypeInv
<1>4. CASE Advance
  <2>1. seq + 1 \in Values(NextPublish)
    BY <1>0, <1>4, Facts DEF Advance, TypeInv, Busy, Seqs
  <2>2. /\ word' \in [Addresses -> Stamps]
        /\ buffer' \in Seq([at : Addresses, val : Stamps]) /\ Len(buffer') <= depth
        /\ ValuesOK'
    BY <1>4, <2>1, Facts, StoreValues DEF Advance
  <2>3. TypeOK' /\ Busy' /\ Still
    BY <1>4, <2>2 DEF Advance, TypeInv, TypeOK, Busy, fixed, consVars
  <2> QED BY <1>1, <2>2, <2>3 DEF TypeInv
<1>5. CASE LoadWaiters
  <2>1. TypeOK' /\ Still /\ UNCHANGED <<word, buffer>>
    BY <1>0, <1>5, RangeAssumption DEF LoadWaiters, TypeInv, TypeOK, Busy, Seqs, fixed, consVars
  <2>2. ValuesOK' /\ Busy'
    BY <1>5, <2>1 DEF LoadWaiters, TypeInv, ValuesOK, Values, NextPublish, Busy
  <2> QED BY <1>1, <2>1, <2>2 DEF TypeInv
<1>6. CASE Wake
  <2>1. TypeOK' /\ UNCHANGED <<word, buffer, waiters>>
    BY <1>0, <1>6, RangeAssumption DEF Wake, TypeInv, TypeOK, Busy, Seqs, fixed
  <2>2. ValuesOK' /\ Busy'
    BY <1>6, <2>1 DEF Wake, TypeInv, ValuesOK, Values, NextPublish, Busy
  <2>3. Waiting' = Waiting
    BY <1>6 DEF Wake, Waiting, Sleepers
  <2> QED BY <2>1, <2>2, <2>3, SameCount DEF TypeInv
<1>7. CASE Drain
  <2>1. TypeOK' /\ Busy' /\ Still
    BY <1>7, DrainValues DEF Drain, TypeInv, TypeOK, Busy, fixed, consVars
  <2> QED BY <1>1, <1>7, <2>1, DrainValues DEF TypeInv
<1> QED BY <1>2, <1>3, <1>4, <1>5, <1>6, <1>7 DEF FinishPublish

LEMMA ConsumerType ==
  ASSUME TypeInv, NEW c \in Consumers, ConsumerStep(c) \/ Interrupt(c)
  PROVE  TypeInv'
<1>0. /\ next[c] \in Seqs /\ Want(c) \in Stamps /\ waiters \in Nat
      /\ iter[c] \in 0 .. SpinBeforeSyscall /\ SpinBeforeSyscall \in Nat
  BY WantFacts, FutexAssumption DEF TypeInv, TypeOK
<1>1. UNCHANGED <<word, depth, buffer, ppc, seq>>
  BY DEF ConsumerStep, ReadOk, ReadLapped, Resync, ReadEmpty, SpinOnce, Announce,
         Reload, Sleep, Leave, Interrupt, fixed, prodVars
<1>2. ValuesOK' /\ Busy'
  BY <1>1 DEF TypeInv, ValuesOK, Values, NextPublish, Busy
<1>3. CASE ReadOk(c)
  <2>1. next[c] + 1 \in Seqs
    BY <1>3, WantFacts, Facts DEF ReadOk, ReadStatus, Seqs
  <2>2. TypeOK' /\ Waiting' = Waiting
    BY <1>0, <1>3, <2>1 DEF ReadOk, TypeInv, TypeOK, Waiting, fixed, prodVars
  <2> QED BY <1>2, <1>3, <2>2, SameCount DEF ReadOk, TypeInv
<1>4. CASE Resync(c)
  <2>1. word[NextPublish] \in Seqs
    BY Facts DEF TypeInv, ValuesOK
  <2>2. ResyncTarget(word[NextPublish]) \in Seqs
    BY <2>1, Facts DEF ResyncTarget, Seqs
  <2>3. TypeOK' /\ Waiting' = Waiting
    BY <1>0, <1>4, <2>2 DEF Resync, Goto, TypeInv, TypeOK, Waiting, fixed, prodVars
  <2> QED BY <1>2, <1>4, <2>3, SameCount DEF Resync, TypeInv
<1>5. CASE ReadLapped(c) \/ ReadEmpty(c) \/ SpinOnce(c)
  <2>1. iter' \in [Consumers -> 0 .. SpinBeforeSyscall]
    BY <1>0, <1>5 DEF ReadLapped, ReadEmpty, SpinOnce, TypeInv, TypeOK
  <2>2. \E where \in {"resync", "wait", "read"} :
          cpc[c] \in {"read", "wait"} /\ Goto(c, where)
    BY <1>5 DEF ReadLapped, ReadEmpty, SpinOnce
  <2>3. UNCHANGED <<fixed, word, waiters, next, seen, prodVars>>
    BY <1>5 DEF ReadLapped, ReadEmpty, SpinOnce
  <2>4. TypeOK' /\ Waiting' = Waiting /\ UNCHANGED waiters
    BY <2>1, <2>2, <2>3 DEF Goto, TypeInv, TypeOK, Waiting, fixed, prodVars
  <2> QED BY <1>2, <2>4, SameCount DEF TypeInv
<1>6. CASE Reload(c) \/ Sleep(c) \/ Interrupt(c)
  <2>1. TypeOK' /\ Waiting' = Waiting /\ UNCHANGED waiters
    BY <1>0, <1>6 DEF Reload, Sleep, Interrupt, Goto, TypeInv, TypeOK, Waiting,
                      fixed, prodVars
  <2> QED BY <1>2, <2>1, SameCount DEF TypeInv
<1>7. CASE Announce(c)
  <2>1. c \notin Waiting /\ Waiting' = Waiting \cup {c} /\ waiters' = waiters + 1
    BY <1>7 DEF Announce, Goto, Waiting, TypeInv, TypeOK
  <2>2. TypeOK'
    BY <1>0, <1>7 DEF Announce, Goto, TypeInv, TypeOK, fixed, prodVars
  <2> QED BY <1>2, <2>1, <2>2, CountUp DEF TypeInv
<1>8. CASE Leave(c)
  <2>1. c \in Waiting /\ Waiting' = Waiting \ {c} /\ waiters' = waiters - 1
    BY <1>8 DEF Leave, Goto, Waiting, TypeInv, TypeOK
  <2>2. Counted' /\ waiters' \in Nat
    BY <2>1, CountDown
  <2>3. TypeOK'
    BY <1>0, <1>8, <2>2, Facts DEF Leave, Goto, TypeInv, TypeOK, fixed, prodVars, Stamps
  <2> QED BY <1>2, <2>2, <2>3 DEF TypeInv
<1> QED BY <1>3, <1>4, <1>5, <1>6, <1>7, <1>8 DEF ConsumerStep

LEMMA StutterType == TypeInv /\ UNCHANGED vars => TypeInv'
  BY DEF TypeInv, TypeOK, ValuesOK, Values, NextPublish, Busy, Counted, Waiting,
         vars, fixed, prodVars, consVars

LEMMA NextType == TypeInv /\ [Next]_vars => TypeInv'
  BY ProducerType, ConsumerType, StutterType DEF Next

\* The ring, the buffer and the waiters' count keep their types; the count of
\* waiters in particular never goes below zero, whichever of a wake, a signal and
\* a changed word ends a wait.
THEOREM TypeCorrect == Spec => []TypeOK
<1>1. TypeInv => TypeOK
  BY DEF TypeInv
<1> QED BY <1>1, InitType, NextType, PTL DEF Spec

----------------------------------------------------------------------------
(* No lost wakeup. *)

\* The consumers that NoLostWakeup says must not be.
Overlooked(c) ==
  /\ depth = 0 /\ cpc[c] = "asleep" /\ Want(c) >= next[c] /\ ~SameWord(c)
  /\ ~(ppc # "idle" /\ CurSlot = SlotOf(next[c]))

LEMMA NoneOverlooked == NoLostWakeup <=> \A c \in Local : ~Overlooked(c)
  BY DEF NoLostWakeup, Overlooked

\* Nobody but the consumer itself sends it to sleep or changes what it has seen.
LEMMA ProducerSleeps ==
  ASSUME TypeInv, SleepsOnOldStamp, Begin \/ FinishPublish \/ Drain
  PROVE  /\ UNCHANGED <<depth, next, seen>> /\ depth \in Nat
         /\ \A d \in Consumers : cpc'[d] \in {"sleep", "asleep"} => cpc'[d] = cpc[d]
         /\ SleepsOnOldStamp'
<1>1. UNCHANGED <<depth, next, seen>> /\ depth \in Nat
  BY FutexAssumption
  DEF Begin, FinishPublish, Stamp, Advance, LoadWaiters, Wake, Drain, fixed, consVars,
      TypeInv, TypeOK
<1>2. \A d \in Consumers : cpc'[d] \in {"sleep", "asleep"} => cpc'[d] = cpc[d]
  BY DEF Begin, FinishPublish, Stamp, Advance, LoadWaiters, Wake, Drain, consVars,
         TypeInv, TypeOK
<1> QED BY <1>1, <1>2 DEF SleepsOnOldStamp

LEMMA ProducerWake ==
  ASSUME WakeInv, Begin \/ FinishPublish \/ Drain
  PROVE  (Unbuffered /\ SleepsOnOldStamp /\ NoLostWakeup)'
<1> USE DEF WakeInv
<1>0. UNCHANGED <<depth, next, seen>> /\ depth \in Nat
  BY ProducerSleeps
<1>1. \A d \in Consumers : cpc'[d] \in {"sleep", "asleep"} => cpc'[d] = cpc[d]
  BY ProducerSleeps
<1>2. SleepsOnOldStamp'
  BY ProducerSleeps
<1>3. Unbuffered'
  BY <1>0 DEF Unbuffered, Begin, FinishPublish, Stamp, Advance, LoadWaiters, Wake, Drain,
              Store
<1> SUFFICES ASSUME NEW d \in Local, Overlooked(d)' PROVE FALSE
  BY <1>2, <1>3 DEF Overlooked, NoLostWakeup
<1> d \in Consumers
  BY FutexAssumption
<1>4. /\ depth = 0 /\ buffer = <<>> /\ cpc[d] = "asleep" /\ cpc'[d] = "asleep"
      /\ SlotOf(next[d]) \in Slots /\ SlotOf(next[d]) \in Addresses
      /\ ~Overlooked(d) /\ Want(d)' >= next[d] /\ word \in [Addresses -> Stamps]
      /\ Low(Want(d)') # Low(seen[d])
  BY <1>0, <1>1, WantFacts, Facts, NoneOverlooked
  DEF Unbuffered, Overlooked, SameWord, TypeInv, TypeOK
<1>5. CASE Begin
  <2>1. ppc = "idle" /\ ppc' = "stamp" /\ CurSlot' = CurSlot
    BY <1>5 DEF Begin, CurSlot
  <2>2. SlotOf(next[d]) # CurSlot
    BY <1>0, <2>1 DEF Overlooked
  <2>3. Want(d)' = Want(d)
    BY <1>0, <1>4, <1>5, <2>2 DEF Begin, Store, Want
  <2> QED BY <1>4, <2>1, <2>3 DEF Overlooked, SameWord
<1>6. CASE Stamp \/ Advance
  <2>1. ppc # "idle" /\ ppc' # "idle" /\ CurSlot' = CurSlot
    BY <1>6 DEF Stamp, Advance, CurSlot
  <2>2. SlotOf(next[d]) # CurSlot
    BY <1>0, <2>1 DEF Overlooked
  <2>3. Want(d)' = Want(d)
    BY <1>0, <1>4, <1>6, <2>2, Facts DEF Stamp, Advance, Store, Want
  <2> QED BY <1>4, <2>1, <2>2, <2>3 DEF Overlooked, SameWord
<1>7. CASE LoadWaiters
  <2>1. d \in Waiting
    BY <1>4 DEF Waiting
  <2>2. ppc # "idle" /\ ppc' = "wake" /\ CurSlot' = CurSlot /\ UNCHANGED word
    BY <1>7, <2>1, SomeoneCounted DEF LoadWaiters, CurSlot
  <2> QED BY <1>0, <1>4, <2>2 DEF Overlooked, SameWord, Want
<1>8. CASE Wake
  <2>1. ppc # "idle" /\ UNCHANGED word
    BY <1>8 DEF Wake
  <2>2. CurSlot = SlotOf(next[d])
    BY <1>0, <1>4, <2>1 DEF Overlooked, SameWord, Want
  <2>3. d \in Sleepers(CurSlot) \cap Local
    BY <1>4, <2>2 DEF Sleepers
  <2>4. cpc'[d] = "leave"
    BY <1>8, <2>3 DEF Wake
  <2> QED BY <1>4, <2>4
<1>9. CASE Drain
  BY <1>4, <1>9 DEF Drain
<1> QED BY <1>5, <1>6, <1>7, <1>8, <1>9 DEF FinishPublish

\* A step of a consumer changes nothing but its own state and the count, and a
\* consumer falls asleep on the word of a stamp that was not its message yet.
LEMMA ConsumerSleeps ==
  ASSUME TypeInv, SleepsOnOldStamp,
         NEW c \in Consumers, ConsumerStep(c) \/ Interrupt(c)
  PROVE  /\ UNCHANGED <<word, policy, depth, buffer, ppc, seq>>
         /\ \A d \in Consumers \ {c} :
              cpc'[d] = cpc[d] /\ next'[d] = next[d] /\ seen'[d] = seen[d]
         /\ cpc'[c] = "asleep" =>
              /\ cpc[c] = "sleep" /\ next'[c] = next[c] /\ seen'[c] = seen[c]
              /\ SameWord(c) /\ seen[c] < next[c]
         /\ SleepsOnOldStamp'
<1>0. UNCHANGED <<word, policy, depth, buffer, ppc, seq>>
  BY DEF ConsumerStep, ReadOk, ReadLapped, Resync, ReadEmpty, SpinOnce, Announce,
         Reload, Sleep, Leave, Interrupt, fixed, prodVars
<1>1. \A d \in Consumers \ {c} :
        cpc'[d] = cpc[d] /\ next'[d] = next[d] /\ seen'[d] = seen[d]
  BY DEF ConsumerStep, ReadOk, ReadLapped, Resync, ReadEmpty, SpinOnce, Announce,
         Reload, Sleep, Leave, Interrupt, Goto, TypeInv, TypeOK
<1>2. /\ next[c] \in Nat /\ Want(c) \in Nat /\ Want(c) < SeqMod
      /\ seen[c] \in Nat /\ seen[c] < SeqMod
  BY WantFacts, Facts DEF TypeInv, TypeOK, Stamps
<1>3. cpc'[c] = "sleep" => seen'[c] < next'[c]
  <2>1. cpc'[c] = "sleep" => Reload(c)
    BY DEF ConsumerStep, ReadOk, ReadLapped, Resync, ReadEmpty, SpinOnce, Announce,
           Reload, Sleep, Leave, Interrupt, Goto, TypeInv, TypeOK
  <2>2. Reload(c) /\ cpc'[c] = "sleep" => seen'[c] = Want(c) /\ next'[c] = next[c]
                                          /\ Want(c) < next[c]
    BY <1>2 DEF Reload, Goto, TypeInv, TypeOK
  <2> QED BY <2>1, <2>2
<1>4. SleepsOnOldStamp'
  BY <1>1, <1>3 DEF SleepsOnOldStamp
<1>5. ASSUME cpc'[c] = "asleep"
      PROVE  /\ cpc[c] = "sleep" /\ next'[c] = next[c] /\ seen'[c] = seen[c]
             /\ SameWord(c) /\ seen[c] < next[c]
  <2>1. Sleep(c)
    BY <1>5 DEF ConsumerStep, ReadOk, ReadLapped, Resync, ReadEmpty, SpinOnce, Announce,
           Reload, Sleep, Leave, Interrupt, Goto, TypeInv, TypeOK
  <2>2. SameWord(c) /\ next' = next /\ seen' = seen /\ cpc[c] = "sleep"
    BY <1>5, <2>1 DEF Sleep, Goto, SameWord, TypeInv, TypeOK
  <2> QED BY <2>2 DEF SleepsOnOldStamp
<1> QED BY <1>0, <1>1, <1>4, <1>5

LEMMA ConsumerWake ==
  ASSUME WakeInv, NEW c \in Consumers, ConsumerStep(c) \/ Interrupt(c)
  PROVE  (Unbuffered /\ SleepsOnOldStamp /\ NoLostWakeup)'
<1> USE DEF WakeInv
<1>0. UNCHANGED <<word, depth, buffer, ppc, seq>>
  BY ConsumerSleeps
<1>2. Unbuffered'
  BY <1>0 DEF Unbuffered
<1>5. SleepsOnOldStamp'
  BY ConsumerSleeps
<1>6. cpc'[c] = "asleep" => SameWord(c)'
  BY <1>0, ConsumerSleeps DEF SameWord, Want
<1>7. \A d \in Local : ~Overlooked(d)'
  <2>1. ~Overlooked(c)'
    BY <1>6 DEF Overlooked
  <2>2. ASSUME NEW d \in Local, d # c PROVE ~Overlooked(d)'
    <3>1. d \in Consumers
      BY FutexAssumption
    <3>2. UNCHANGED <<Want(d), CurSlot, cpc[d], next[d], seen[d], depth, ppc>>
      BY <1>0, <2>2, <3>1, ConsumerSleeps DEF Want, CurSlot
    <3> QED BY <2>2, <3>2, NoneOverlooked DEF Overlooked, SameWord
  <2> QED BY <2>1, <2>2
<1>8. NoLostWakeup'
  BY <1>7 DEF NoLostWakeup, Overlooked
<1> QED BY <1>2, <1>5, <1>8

\* Without a store buffer between the stamp and the load of waiters_, no consumer
\* of the producer's process sleeps on a message that has arrived and been passed
\* over, whatever the width of the futex word: only a word that came round between
\* the re-load and the system call can keep it there (wait_strategy.hpp:109-117).
THEOREM WakeupsNotLost == Spec => []NoLostWakeup
<1>1. Init => WakeInv
  BY InitType, FutexAssumption DEF Init, WakeInv, Unbuffered, SleepsOnOldStamp, NoLostWakeup
<1>2. WakeInv /\ [Next]_vars => WakeInv'
  <2> SUFFICES ASSUME WakeInv, [Next]_vars PROVE WakeInv'
    OBVIOUS
  <2>1. TypeInv'
    BY NextType DEF WakeInv
  <2>2. CASE UNCHANGED vars
    BY <2>1, <2>2 DEF WakeInv, Unbuffered, SleepsOnOldStamp, NoLostWakeup, SameWord, Want, CurSlot,
                      vars, fixed, prodVars, consVars
  <2>3. CASE Next
    BY <2>1, <2>3, ProducerWake, ConsumerWake DEF Next, WakeInv
  <2> QED BY <2>2, <2>3
<1>3. WakeInv => NoLostWakeup
  BY DEF WakeInv
<1> QED BY <1>1, <1>2, <1>3, PTL DEF Spec
----------------------------------------------------------------------------
(* The producer's stores, in order. *)

\* The places of message n's stamp and count among them.
StampNo(n) == IF policy = "Overwrite" THEN 3 * n + 2 ELSE 2 * n + 1
CountNo(n) == IF policy = "Overwrite" THEN 3 * n ELSE 2 * n

\* The k-th store of the producer is one of v to a.
Sent(k, a, v) ==
  \/ policy = "Overwrite" /\ k % 3 = 1 /\ a \in Slots /\ v = WritingSeq
  \/ v \in Nat /\ a = SlotOf(v) /\ k = StampNo(v)
  \/ v \in Nat /\ a = NextPublish /\ k = CountNo(v)

\* The buffer holds the stores that follow those in memory.
Underway == \A i \in 1 .. Len(buffer) : Sent(Drained + i, buffer[i].at, buffer[i].val)

\* Memory holds what has drained and nothing else: of a slot's stamps none older
\* than the last one, and of the counts the last.
Arrived == \A n \in Nat : StampNo(n) <= Drained => word[SlotOf(n)] >= n
Authentic ==
  \A s \in Slots :
    word[s] \in {EmptySeq, WritingSeq}
      \/ (StampNo(word[s]) <= Drained /\ SlotOf(word[s]) = s)
CountFollows ==
  CountNo(word[NextPublish]) <= Drained /\ Drained < CountNo(word[NextPublish] + 1)

StoreInv == TypeInv /\ Underway /\ Arrived /\ Authentic /\ CountFollows

LEMMA StoreFacts ==
  ASSUME TypeInv
  PROVE  /\ policy \in {"Overwrite", "Backpressure"} /\ depth \in Nat
         /\ seq \in Nat /\ seq <= MaxPublish /\ Step \in 0 .. 3
         /\ ppc \in {"idle", "stamp", "advance", "notify", "wake"}
         /\ Issued \in Nat /\ Len(buffer) \in Nat /\ Drained \in Int
         /\ Drained + Len(buffer) = Issued
         /\ word \in [Addresses -> Stamps]
         /\ buffer \in Seq([at : Addresses, val : Stamps])
         /\ CurSlot = SlotOf(seq) /\ CurSlot \in Slots /\ CurSlot \in Addresses
<1>1. /\ policy \in {"Overwrite", "Backpressure"} /\ depth \in Nat
      /\ seq \in Nat /\ seq <= MaxPublish
      /\ ppc \in {"idle", "stamp", "advance", "notify", "wake"}
      /\ word \in [Addresses -> Stamps]
      /\ buffer \in Seq([at : Addresses, val : Stamps])
  BY FutexAssumption, Facts DEF TypeInv, TypeOK, Seqs
<1>2. Step \in 0 .. 3 /\ Len(buffer) \in Nat
  BY <1>1 DEF Step
<1>3. Issued \in Nat
  BY <1>1, <1>2 DEF Issued
<1> QED BY <1>1, <1>2, <1>3, SlotType, Facts DEF Drained, CurSlot

\* A message whose stamp is in memory is one of the stream.
InStream ==
  \A n \in Nat :
    StampNo(n) <= Drained =>
      /\ n <= seq /\ n < MaxPublish
      /\ n = seq => ppc \in {"advance", "notify", "wake"}

LEMMA DrainedIsBegun == TypeInv => InStream
<1> SUFFICES ASSUME TypeInv, NEW n \in Nat, StampNo(n) <= Drained
             PROVE  /\ n <= seq /\ n < MaxPublish
                    /\ n = seq => ppc \in {"advance", "notify", "wake"}
  BY DEF InStream
<1>1. n <= seq /\ (n = seq => Step >= 2)
  BY StoreFacts DEF StampNo, Issued
<1>2. Step >= 2 => ppc \in {"advance", "notify", "wake"}
  BY StoreFacts DEF Step
<1>3. n = seq => seq < MaxPublish
  BY <1>1, <1>2 DEF TypeInv, Busy
<1> QED BY <1>1, <1>2, <1>3, StoreFacts, Facts

LEMMA DrainedIsBegunNext == TypeInv' => InStream'
  BY DrainedIsBegun, PTL

\* A step of the producer either leaves memory and what it has drained alone or
\* lands the next store in it.
Lands ==
  /\ Drained' = Drained + 1
  /\ \E a \in Addresses, v \in Stamps :
       Sent(Drained + 1, a, v) /\ word' = [word EXCEPT ![a] = v]

LEMMA SameOrder ==
  ASSUME UNCHANGED policy
  PROVE  /\ \A n : StampNo(n)' = StampNo(n) /\ CountNo(n)' = CountNo(n)
         /\ \A k, a, v : Sent(k, a, v)' <=> Sent(k, a, v)
  BY DEF StampNo, CountNo, Sent, NextPublish

LEMMA StoreGoes ==
  ASSUME TypeInv, Underway, NEW a \in Addresses, NEW v \in Values(a),
         Store(a, v), Issued' = Issued + 1, UNCHANGED policy,
         Sent(Issued + 1, a, v)
  PROVE  Underway' /\ (Lands \/ (Drained' = Drained /\ UNCHANGED word))
<1> DEFINE e == [at |-> a, val |-> v]
<1>0. v \in Stamps /\ e \in [at : Addresses, val : Stamps] /\ e.at = a /\ e.val = v
  BY Facts
<1> HIDE DEF e
<1>1. CASE word' = [word EXCEPT ![a] = v] /\ UNCHANGED buffer /\ depth = 0
  <2>1. Len(buffer) = 0
    BY <1>1, StoreFacts DEF TypeInv, TypeOK
  <2>2. Drained = Issued /\ Drained' = Drained + 1
    BY <1>1, <2>1, StoreFacts DEF Drained
  <2>3. Lands
    BY <1>0, <1>1, <2>2 DEF Lands
  <2> QED BY <1>1, <2>1, <2>3 DEF Underway
<1>2. CASE buffer' = Append(buffer, e) /\ UNCHANGED word
  <2>1. /\ Len(buffer') = Len(buffer) + 1
        /\ \A i \in 1 .. Len(buffer') :
             buffer'[i] = IF i <= Len(buffer) THEN buffer[i] ELSE e
    BY <1>0, <1>2, StoreFacts
  <2>2. Drained' = Drained
    BY <2>1, StoreFacts DEF Drained
  <2>3. ASSUME NEW i \in 1 .. Len(buffer')
        PROVE  Sent(Drained + i, buffer'[i].at, buffer'[i].val)
    <3>1. CASE i <= Len(buffer)
      <4>1. i \in 1 .. Len(buffer) /\ buffer'[i] = buffer[i]
        BY <2>1, <3>1, StoreFacts
      <4> QED BY <4>1 DEF Underway
    <3>2. CASE i = Len(buffer) + 1
      BY <1>0, <2>1, <3>2, StoreFacts
    <3> QED BY <2>1, <3>1, <3>2, StoreFacts
  <2>4. Underway'
    BY <2>2, <2>3, SameOrder DEF Underway
  <2> QED BY <1>2, <2>2, <2>4
<1> QED BY <1>1, <1>2 DEF Store, e

LEMMA DrainGoes ==
  ASSUME TypeInv, Underway, Drain
  PROVE  Underway' /\ Lands
<1> DEFINE e == Head(buffer)
<1>0. /\ buffer # <<>> /\ word' = [word EXCEPT ![e.at] = e.val] /\ buffer' = Tail(buffer)
      /\ Issued' = Issued /\ UNCHANGED policy
  BY DEF Drain, Issued, Step, fixed
<1>1. /\ e \in [at : Addresses, val : Stamps] /\ e = buffer[1] /\ 1 \in 1 .. Len(buffer)
      /\ Len(buffer') = Len(buffer) - 1
      /\ \A i \in 1 .. Len(buffer') : buffer'[i] = buffer[i + 1] /\ i + 1 \in 1 .. Len(buffer)
  <2>1. e \in [at : Addresses, val : Stamps] /\ Len(buffer') = Len(buffer) - 1
    BY <1>0, TailFacts, StoreFacts
  <2>2. \A i \in 1 .. Len(buffer') : buffer'[i] = buffer[i + 1] /\ i + 1 \in 1 .. Len(buffer)
    BY <1>0, <2>1, TailFacts, StoreFacts
  <2>3. e = buffer[1] /\ 1 \in 1 .. Len(buffer)
    BY <1>0, StoreFacts
  <2> QED BY <2>1, <2>2, <2>3
<1>2. Drained' = Drained + 1
  BY <1>0, <1>1, StoreFacts DEF Drained
<1>3. Sent(Drained + 1, e.at, e.val)
  BY <1>1 DEF Underway
<1>4. e.at \in Addresses /\ e.val \in Stamps
  BY <1>1
<1> HIDE DEF e
<1>5. Lands
  BY <1>0, <1>2, <1>3, <1>4 DEF Lands
<1>6. ASSUME NEW i \in 1 .. Len(buffer')
      PROVE  Sent((Drained + 1) + i, buffer'[i].at, buffer'[i].val)
  <2>1. (Drained + 1) + i = Drained + (i + 1)
    BY StoreFacts
  <2> QED BY <1>1, <2>1 DEF Underway
<1>7. Underway'
  BY <1>0, <1>2, <1>6, SameOrder DEF Underway
<1> QED BY <1>5, <1>7

LEMMA ProducerStores ==
  ASSUME TypeInv, Underway, Begin \/ FinishPublish \/ Drain
  PROVE  /\ UNCHANGED policy /\ Underway'
         /\ Lands \/ (Drained' = Drained /\ UNCHANGED word)
<1> USE StoreFacts
<1>1. ASSUME Issued' = Issued, UNCHANGED <<policy, word, buffer>>
      PROVE  Underway' /\ Drained' = Drained /\ UNCHANGED word
  BY <1>1, SameOrder DEF Underway, Drained
<1>2. CASE Begin
  <2>1. CASE policy = "Backpressure"
    <3>1. Issued' = Issued /\ UNCHANGED <<policy, word, buffer>>
      BY <1>2, <2>1 DEF Begin, Issued, Step, fixed
    <3> QED BY <1>1, <3>1
  <2>2. CASE policy = "Overwrite"
    <3>1. Issued = 3 * seq /\ Issued' = Issued + 1 /\ UNCHANGED policy
          /\ Store(CurSlot, WritingSeq)
      BY <1>2, <2>2 DEF Begin, Issued, Step, fixed
    <3>2. WritingSeq \in Values(CurSlot)
      BY Facts
    <3>3. Sent(Issued + 1, CurSlot, WritingSeq)
      BY <2>2, <3>1 DEF Sent
    <3> QED BY <3>1, <3>2, <3>3, StoreGoes
  <2> QED BY <2>1, <2>2
<1>3. CASE Stamp
  <2>1. Issued' = Issued + 1 /\ UNCHANGED policy /\ Store(CurSlot, seq)
    BY <1>3 DEF Stamp, Issued, Step, fixed
  <2>2. seq \in Values(CurSlot)
    BY <1>3, Facts DEF Stamp, TypeInv, Busy
  <2>3. Sent(Issued + 1, CurSlot, seq)
    BY <1>3 DEF Stamp, Issued, Step, StampNo, Sent
  <2> QED BY <2>1, <2>2, <2>3, StoreGoes
<1>4. CASE Advance
  <2>1. Issued' = Issued + 1 /\ UNCHANGED policy /\ Store(NextPublish, seq + 1)
    BY <1>4 DEF Advance, Issued, Step, fixed
  <2>2. seq + 1 \in Values(NextPublish)
    BY <1>4, Facts DEF Advance, TypeInv, Busy, Seqs
  <2>3. Sent(Issued + 1, NextPublish, seq + 1)
    BY <1>4 DEF Advance, Issued, Step, CountNo, Sent
  <2> QED BY <2>1, <2>2, <2>3, Facts, StoreGoes
<1>5. CASE LoadWaiters \/ Wake
  <2>1. Issued' = Issued /\ UNCHANGED <<policy, word, buffer>>
    BY <1>5 DEF LoadWaiters, Wake, Issued, Step, fixed
  <2> QED BY <1>1, <2>1
<1>6. CASE Drain
  BY <1>6, DrainGoes DEF Drain, fixed
<1> QED BY <1>2, <1>3, <1>4, <1>5, <1>6 DEF FinishPublish

LEMMA NoSentinel ==
  ASSUME NEW n \in Nat, n <= MaxPublish
  PROVE  n < WritingSeq /\ n < EmptySeq /\ n # WritingSeq /\ n # EmptySeq
  BY RangeAssumption DEF WritingSeq, EmptySeq

\* A slot that the store spares keeps its place in the order.
LEMMA OtherSlot ==
  ASSUME StoreInv, NEW s \in Slots
  PROVE  word[s] \in {EmptySeq, WritingSeq}
           \/ (StampNo(word[s]) <= Drained + 1 /\ SlotOf(word[s]) = s)
<1>1. word[s] \in Nat /\ Drained \in Int
  BY StoreFacts, Facts DEF StoreInv
<1>2. StampNo(word[s]) \in Nat
  BY <1>1 DEF StampNo
<1> QED BY <1>1, <1>2 DEF StoreInv, Authentic

\* What is in memory stays what it is when the next store lands.
LEMMA LandsInOrder ==
  ASSUME StoreInv, TypeInv', UNCHANGED policy, Lands
  PROVE  /\ (Arrived /\ Authentic /\ CountFollows)'
         /\ word'[NextPublish] >= word[NextPublish]
         /\ \A s \in Slots : word'[s] = EmptySeq => word[s] = EmptySeq
<1> USE DEF StoreInv
<1>1. PICK a \in Addresses, v \in Stamps :
        Sent(Drained + 1, a, v) /\ word' = [word EXCEPT ![a] = v]
  BY DEF Lands
<1>2. Drained' = Drained + 1 /\ Drained \in Int
  BY StoreFacts DEF Lands
<1>3. /\ \A n \in Nat : StampNo(n)' = StampNo(n) /\ StampNo(n) \in Nat
                        /\ SlotOf(n) \in Slots /\ SlotOf(n) \in Addresses
      /\ \A n : CountNo(n)' = CountNo(n)
      /\ policy \in {"Overwrite", "Backpressure"} /\ word \in [Addresses -> Stamps]
      /\ v \in Nat /\ word[NextPublish] \in Nat
  <2>1. \A n \in Nat : StampNo(n) \in Nat /\ SlotOf(n) \in Slots /\ SlotOf(n) \in Addresses
    BY SlotType, Facts DEF StampNo
  <2>2. word[NextPublish] \in Nat /\ v \in Nat
    BY Facts, StoreFacts
  <2> QED BY <2>1, <2>2, StoreFacts, SameOrder
<1>4. ASSUME NEW n \in Nat, StampNo(n) <= Drained + 1 PROVE n < MaxPublish
  BY <1>2, <1>3, <1>4, DrainedIsBegunNext DEF InStream
<1>5. CASE policy = "Overwrite" /\ (Drained + 1) % 3 = 1 /\ a \in Slots /\ v = WritingSeq
  <2>1. \A n \in Nat : StampNo(n) # Drained + 1
    BY <1>2, <1>5 DEF StampNo
  <2>2. ASSUME NEW n \in Nat, StampNo(n) <= Drained + 1 PROVE word'[SlotOf(n)] >= n
    <3>1. StampNo(n) <= Drained /\ n < WritingSeq
      BY <1>2, <1>3, <1>4, <2>1, <2>2, NoSentinel, RangeAssumption
    <3>2. word[SlotOf(n)] >= n
      BY <3>1 DEF Arrived
    <3> QED BY <1>1, <1>3, <1>5, <3>1, <3>2
  <2>3. Arrived'
    BY <1>2, <1>3, <2>2 DEF Arrived
  <2>4. word'[NextPublish] = word[NextPublish]
    BY <1>1, <1>3, <1>5, Facts
  <2>5. ASSUME NEW s \in Slots
        PROVE  word'[s] \in {EmptySeq, WritingSeq}
                 \/ (StampNo(word'[s]) <= Drained + 1 /\ SlotOf(word'[s]) = s)
    BY <1>1, <1>3, <1>5, OtherSlot, Facts
  <2>8. Authentic'
    BY <1>2, <1>3, <2>5, SameOrder DEF Authentic
  <2>6. CountFollows'
    BY <1>2, <1>3, <1>5, <2>4 DEF CountFollows, CountNo
  <2>7. \A s \in Slots : word'[s] = EmptySeq => word[s] = EmptySeq
    BY <1>1, <1>3, <1>5, Facts DEF EmptySeq, WritingSeq
  <2> QED BY <1>3, <2>3, <2>4, <2>6, <2>7, <2>8
<1>6. CASE a = SlotOf(v) /\ Drained + 1 = StampNo(v)
  <2>1. v < MaxPublish /\ v # EmptySeq /\ v # WritingSeq
    BY <1>2, <1>3, <1>4, <1>6, NoSentinel, RangeAssumption
  <2>2. ASSUME NEW n \in Nat, StampNo(n) <= Drained + 1 PROVE word'[SlotOf(n)] >= n
    <3>1. CASE SlotOf(n) = a
      BY <1>1, <1>2, <1>3, <1>6, <2>2, <3>1 DEF StampNo
    <3>2. CASE SlotOf(n) # a
      <4>1. StampNo(n) <= Drained
        BY <1>2, <1>3, <1>6, <2>2, <3>2 DEF StampNo
      <4> QED BY <1>1, <1>3, <3>2, <4>1 DEF Arrived
    <3> QED BY <3>1, <3>2
  <2>3. Arrived'
    BY <1>2, <1>3, <2>2 DEF Arrived
  <2>4. word'[NextPublish] = word[NextPublish]
    BY <1>1, <1>3, <1>6, Facts
  <2>5. ASSUME NEW s \in Slots
        PROVE  word'[s] \in {EmptySeq, WritingSeq}
                 \/ (StampNo(word'[s]) <= Drained + 1 /\ SlotOf(word'[s]) = s)
    BY <1>1, <1>2, <1>3, <1>6, OtherSlot, Facts
  <2>6. Authentic'
    BY <1>2, <1>3, <2>5, SameOrder DEF Authentic
  <2>7. CountFollows'
    BY <1>2, <1>3, <1>6, <2>4 DEF CountFollows, CountNo, StampNo
  <2>8. \A s \in Slots : word'[s] = EmptySeq => word[s] = EmptySeq
    BY <1>1, <1>3, <2>1, Facts
  <2> QED BY <1>3, <2>3, <2>4, <2>6, <2>7, <2>8
<1>7. CASE a = NextPublish /\ Drained + 1 = CountNo(v)
  <2>1. \A s \in Slots : word'[s] = word[s]
    BY <1>1, <1>3, <1>7, Facts
  <2>2. \A n \in Nat : StampNo(n) <= Drained + 1 => StampNo(n) <= Drained
    BY <1>2, <1>3, <1>7 DEF StampNo, CountNo
  <2>3. Arrived'
    BY <1>2, <1>3, <2>1, <2>2 DEF Arrived
  <2>4. Authentic'
    BY <1>2, <1>3, <2>1, OtherSlot, SameOrder DEF Authentic
  <2>5. word'[NextPublish] = v
    BY <1>1, <1>3, <1>7
  <2>6. CountFollows' /\ v >= word[NextPublish]
    BY <1>2, <1>3, <1>7, <2>5 DEF CountFollows, CountNo
  <2> QED BY <2>1, <2>3, <2>4, <2>5, <2>6
<1> QED BY <1>1, <1>5, <1>6, <1>7 DEF Sent

LEMMA InitStore == Init => StoreInv
<1> SUFFICES ASSUME Init PROVE StoreInv
  OBVIOUS
<1>1. TypeInv /\ Len(buffer) = 0 /\ Drained = 0
  <2>1. Step = 0 /\ seq = 0 /\ Len(buffer) = 0
    BY DEF Init, Step
  <2>2. Issued = 0
    BY <2>1 DEF Issued
  <2> QED BY <2>1, <2>2, InitType DEF Drained
<1>2. \A n \in Nat : StampNo(n) \in Nat \ {0}
  BY DEF StampNo
<1>3. word[NextPublish] = 0 /\ \A s \in Slots : word[s] = EmptySeq
  BY Facts DEF Init
<1>4. CountFollows
  BY <1>1, <1>3 DEF CountFollows, CountNo
<1> QED BY <1>1, <1>2, <1>3, <1>4 DEF StoreInv, Underway, Arrived, Authentic

LEMMA ProducerStore ==
  ASSUME StoreInv, Begin \/ FinishPublish \/ Drain
  PROVE  /\ StoreInv' /\ UNCHANGED policy
         /\ word'[NextPublish] >= word[NextPublish]
         /\ \A s \in Slots : word'[s] = EmptySeq => word[s] = EmptySeq
         /\ Drained' = Drained \/ Drained' = Drained + 1
<1>1. TypeInv' /\ Underway' /\ UNCHANGED policy
  BY ProducerType, ProducerStores DEF StoreInv
<1>2. CASE Lands
  BY <1>1, <1>2, LandsInOrder DEF StoreInv, Lands
<1>3. CASE Drained' = Drained /\ UNCHANGED word
  <2>1. (Arrived /\ Authentic /\ CountFollows)'
    BY <1>1, <1>3, SameOrder DEF StoreInv, Arrived, Authentic, CountFollows, NextPublish
  <2>2. word[NextPublish] \in Nat
    BY StoreFacts, Facts DEF StoreInv
  <2> QED BY <1>1, <1>3, <2>1, <2>2 DEF StoreInv
<1> QED BY <1>2, <1>3, ProducerStores DEF StoreInv

\* Consumers store nothing but the count of waiters.
LEMMA RestStore ==
  ASSUME StoreInv, TypeInv', UNCHANGED <<policy, word, buffer, ppc, seq>>
  PROVE  StoreInv' /\ Issued' = Issued /\ Drained' = Drained
<1>1. Issued' = Issued /\ Drained' = Drained
  BY DEF Drained, Issued, Step
<1> QED BY <1>1, SameOrder
        DEF StoreInv, Underway, Arrived, Authentic, CountFollows, NextPublish
----------------------------------------------------------------------------
(* A wake is late by a lap at most. *)

\* A consumer about to sleep has seen a stamp, so that its slot has held one.
SleepsOnUsedSlot == \A c \in Consumers : cpc[c] = "sleep" => Want(c) # EmptySeq

LapInv ==
  StoreInv /\ SleepsOnOldStamp /\ SleepsOnUsedSlot /\ OverlookedForALapAtMost

\* A store that is a buffer's length old is in memory: whatever the producer has
\* published a lap ago has a successor or itself in its slot.
LEMMA LapIsLongEnough ==
  ASSUME TypeInv, Arrived, depth <= 2 * Capacity,
         NEW n \in Nat, n + Capacity < seq
  PROVE  word[SlotOf(n)] >= n
<1>1. Len(buffer) <= depth /\ Capacity \in Nat
  BY Facts DEF TypeInv, TypeOK
<1>2. StampNo(n) + 2 * Capacity <= Issued
  <2>1. CASE policy = "Overwrite"
    BY <1>1, <2>1, StoreFacts DEF StampNo, Issued
  <2>2. CASE policy = "Backpressure"
    BY <1>1, <2>2, StoreFacts DEF StampNo, Issued
  <2> QED BY <2>1, <2>2, StoreFacts
<1>3. StampNo(n) \in Nat
  BY DEF StampNo
<1>4. StampNo(n) <= Drained
  BY <1>1, <1>2, <1>3, StoreFacts
<1> QED BY <1>4 DEF Arrived

\* A message and the one a lap later share a slot.
LEMMA NextLap ==
  ASSUME NEW a \in Nat
  PROVE  SlotOf(a + Capacity) = SlotOf(a)
<1> DEFINE i == a \div Capacity
           j == (a + Capacity) \div Capacity
<1>1. /\ i \in Int /\ j \in Int /\ Capacity \in Nat
      /\ a = Capacity * i + SlotOf(a)
      /\ a + Capacity = Capacity * j + SlotOf(a + Capacity)
      /\ SlotOf(a) \in 0 .. Capacity - 1 /\ SlotOf(a + Capacity) \in 0 .. Capacity - 1
  BY CapacityAssumption DEF SlotOf
<1> HIDE DEF i, j
<1>2. j <= i + 1
  <2> SUFFICES ASSUME i + 2 <= j PROVE FALSE
    BY <1>1
  <2>1. Capacity * (i + 2) <= Capacity * j /\ Capacity * (i + 2) = Capacity * i + 2 * Capacity
    BY <1>1
  <2> QED BY <1>1, <2>1
<1>3. j >= i + 1
  <2> SUFFICES ASSUME j <= i PROVE FALSE
    BY <1>1
  <2>1. Capacity * j <= Capacity * i
    BY <1>1
  <2> QED BY <1>1, <2>1
<1>4. Capacity * j = Capacity * i + Capacity
  BY <1>1, <1>2, <1>3
<1> QED BY <1>1, <1>4

\* A message that shares a slot with a later one is a lap behind it at least.
LEMMA LapApart ==
  ASSUME NEW a \in Nat, NEW b \in Nat, a < b, SlotOf(a) = SlotOf(b)
  PROVE  a + Capacity <= b
<1> DEFINE i == a \div Capacity
           j == b \div Capacity
<1>1. /\ i \in Int /\ j \in Int /\ Capacity \in Nat /\ Capacity > 0
      /\ a = Capacity * i + SlotOf(a) /\ b = Capacity * j + SlotOf(a)
      /\ SlotOf(a) \in Int
  BY CapacityAssumption DEF SlotOf
<1> HIDE DEF i, j
<1>2. j > i
  <2> SUFFICES ASSUME j <= i PROVE FALSE
    BY <1>1
  <2>1. Capacity * j <= Capacity * i
    BY <1>1
  <2> QED BY <1>1, <2>1
<1>3. Capacity * j >= Capacity * (i + 1) /\ Capacity * (i + 1) = Capacity * i + Capacity
  BY <1>1, <1>2
<1> QED BY <1>1, <1>3

\* What a consumer finds in its slot.
LEMMA Found ==
  ASSUME StoreInv, NEW c \in Consumers, Want(c) \notin {EmptySeq, WritingSeq}
  PROVE  /\ Want(c) \in Nat /\ StampNo(Want(c)) <= Drained
         /\ SlotOf(Want(c)) = SlotOf(next[c]) /\ Want(c) <= seq
         /\ Want(c) = seq => ppc # "idle"
         /\ next[c] < Want(c) => next[c] + Capacity <= Want(c)
<1>1. /\ Want(c) \in Nat /\ next[c] \in Nat /\ SlotOf(next[c]) \in Slots
  BY WantFacts DEF StoreInv
<1>2. StampNo(Want(c)) <= Drained /\ SlotOf(Want(c)) = SlotOf(next[c])
  BY <1>1 DEF StoreInv, Authentic, Want
<1>3. Want(c) <= seq /\ (Want(c) = seq => ppc # "idle")
  BY <1>1, <1>2, DrainedIsBegun DEF StoreInv, InStream
<1>4. next[c] < Want(c) => next[c] + Capacity <= Want(c)
  BY <1>1, <1>2, LapApart
<1> QED BY <1>1, <1>2, <1>3, <1>4

\* Words that came round stay so while the consumer sleeps.
LEMMA RepeatsOn ==
  ASSUME TypeInv, NEW c, WordRepeats(c), seq' \in Nat, seq <= seq',
         next'[c] = next[c], seen'[c] = seen[c], next[c] \in Nat
  PROVE  WordRepeats(c)'
<1>1. seq \in Nat
  BY StoreFacts
<1> QED BY <1>1 DEF WordRepeats, Low, WritingSeq

LEMMA ProducerLap ==
  ASSUME LapInv, Begin \/ FinishPublish \/ Drain
  PROVE  LapInv'
<1> USE DEF LapInv, StoreInv
<1>1. /\ StoreInv' /\ SleepsOnOldStamp' /\ UNCHANGED <<next, seen>>
      /\ \A d \in Consumers : cpc'[d] \in {"sleep", "asleep"} => cpc'[d] = cpc[d]
  BY ProducerStore, ProducerSleeps
<1>2. SleepsOnUsedSlot'
  <2> SUFFICES ASSUME NEW d \in Consumers, cpc'[d] = "sleep" PROVE Want(d)' # EmptySeq
    BY DEF SleepsOnUsedSlot
  <2>1. Want(d) # EmptySeq /\ SlotOf(next[d]) \in Slots
    BY <1>1, WantFacts DEF SleepsOnUsedSlot
  <2> QED BY <1>1, <2>1, ProducerStore DEF Want, EmptySeq
<1>3. ASSUME NEW d \in Local, cpc'[d] = "asleep"
      PROVE  seq' <= next'[d] + Capacity \/ WordRepeats(d)'
  <2>0. /\ d \in Consumers /\ cpc[d] = "asleep" /\ next'[d] = next[d] /\ next[d] \in Nat
        /\ seq \in Nat /\ Capacity \in Nat /\ seen'[d] = seen[d]
        /\ seq <= next[d] + Capacity \/ WordRepeats(d)
    BY <1>1, <1>3, WantFacts, StoreFacts, Facts, FutexAssumption
    DEF OverlookedForALapAtMost
  <2>1. seq' = seq \/ seq' = seq + 1
    BY DEF Begin, FinishPublish, Stamp, Advance, LoadWaiters, Wake, Drain
  <2>2. CASE WordRepeats(d)
    BY <2>0, <2>1, <2>2, RepeatsOn
  <2>3. CASE seq <= next[d] + Capacity /\ seq' = seq
    BY <2>0, <2>3
  <2>4. CASE seq <= next[d] + Capacity /\ seq' # seq /\ LoadWaiters
    <3>1. d \in Waiting
      BY <2>0 DEF Waiting
    <3> QED BY <2>4, <3>1, SomeoneCounted DEF LoadWaiters
  <2>5. CASE seq <= next[d] + Capacity /\ seq' # seq /\ Wake
    <3>1. SlotOf(next[d]) # SlotOf(seq)
      BY <1>3, <2>0, <2>5 DEF Wake, Sleepers, CurSlot
    <3>2. seq # next[d] + Capacity
      BY <2>0, <3>1, NextLap
    <3> QED BY <2>0, <2>1, <2>5, <3>2
  <2>6. Begin \/ Stamp \/ Advance \/ Drain => seq' = seq
    BY DEF Begin, Stamp, Advance, Drain
  <2> QED BY <2>0, <2>2, <2>3, <2>4, <2>5, <2>6 DEF FinishPublish
<1>4. OverlookedForALapAtMost'
  BY <1>3 DEF OverlookedForALapAtMost
<1> QED BY <1>1, <1>2, <1>4

LEMMA ConsumerLap ==
  ASSUME LapInv, depth <= 2 * Capacity,
         NEW c \in Consumers, ConsumerStep(c) \/ Interrupt(c)
  PROVE  LapInv'
<1> USE DEF LapInv
<1>0. TypeInv
  BY DEF StoreInv
<1>1. /\ UNCHANGED <<word, policy, depth, buffer, ppc, seq>> /\ SleepsOnOldStamp'
      /\ \A d \in Consumers \ {c} : cpc'[d] = cpc[d] /\ next'[d] = next[d] /\ seen'[d] = seen[d]
      /\ cpc'[c] = "asleep" => /\ cpc[c] = "sleep" /\ next'[c] = next[c] /\ seen'[c] = seen[c]
                               /\ SameWord(c) /\ seen[c] < next[c]
  BY <1>0, ConsumerSleeps
<1>2. StoreInv'
  BY <1>0, <1>1, ConsumerType, RestStore
<1>3. SleepsOnUsedSlot'
  <2>1. ASSUME cpc'[c] = "sleep" PROVE Want(c)' # EmptySeq
    <3>1. Reload(c)
      BY <1>0, <2>1 DEF ConsumerStep, ReadOk, ReadLapped, Resync, ReadEmpty, SpinOnce,
             Announce, Reload, Sleep, Leave, Interrupt, Goto, TypeInv, TypeOK
    <3>2. Want(c) < next[c] /\ next' = next
      BY <1>0, <2>1, <3>1, WantFacts DEF Reload, Goto, TypeInv, TypeOK
    <3>3. Want(c) # EmptySeq
      BY <1>0, <3>2, WantFacts, Facts
    <3> QED BY <1>1, <3>2, <3>3 DEF Want, EmptySeq
  <2>2. ASSUME NEW d \in Consumers, d # c, cpc'[d] = "sleep" PROVE Want(d)' # EmptySeq
    BY <1>1, <2>2 DEF SleepsOnUsedSlot, Want, EmptySeq
  <2> QED BY <2>1, <2>2 DEF SleepsOnUsedSlot
<1>4. ASSUME cpc'[c] = "asleep" PROVE seq <= next[c] + Capacity \/ WordRepeats(c)'
  <2>0. next[c] \in Nat /\ Want(c) \in Nat /\ seq \in Nat /\ Capacity \in Nat
    BY <1>0, WantFacts, StoreFacts, Facts
  <2>1. CASE Want(c) < next[c]
    <3>1. ~(next[c] + Capacity < seq)
      BY <1>0, <2>0, <2>1, LapIsLongEnough DEF StoreInv, Want
    <3> QED BY <2>0, <3>1
  <2>2. CASE Want(c) = WritingSeq
    BY <1>1, <1>4, <2>2 DEF WordRepeats, SameWord, Low, WritingSeq
  <2>3. CASE Want(c) >= next[c] /\ Want(c) # WritingSeq
    <3>1. Want(c) # EmptySeq
      BY <1>1, <1>4 DEF SleepsOnUsedSlot
    <3>2. Want(c) \in next[c] .. seq /\ SlotOf(Want(c)) = SlotOf(next[c])
      BY <2>0, <2>3, <3>1, Found
    <3>3. Low(Want(c)) = Low(seen[c])
      BY <1>1, <1>4 DEF SameWord
    <3>4. WordRepeats(c)
      BY <3>2, <3>3 DEF WordRepeats
    <3> QED BY <1>0, <1>1, <1>4, <2>0, <3>4, RepeatsOn
  <2> QED BY <2>0, <2>1, <2>2, <2>3
<1>5. ASSUME NEW d \in Local, cpc'[d] = "asleep"
      PROVE  seq' <= next'[d] + Capacity \/ WordRepeats(d)'
  <2>1. CASE d = c
    BY <1>1, <1>4, <1>5, <2>1
  <2>2. CASE d # c
    <3>1. /\ d \in Consumers /\ cpc[d] = "asleep" /\ next'[d] = next[d] /\ seen'[d] = seen[d]
          /\ next[d] \in Nat /\ seq' = seq /\ seq \in Nat
      BY <1>0, <1>1, <1>5, <2>2, WantFacts, StoreFacts, FutexAssumption
    <3>2. seq <= next[d] + Capacity \/ WordRepeats(d)
      BY <3>1 DEF OverlookedForALapAtMost
    <3> QED BY <1>0, <3>1, <3>2, RepeatsOn
  <2> QED BY <2>1, <2>2
<1>6. OverlookedForALapAtMost'
  BY <1>5 DEF OverlookedForALapAtMost
<1> QED BY <1>1, <1>2, <1>3, <1>6

\* A producer's store buffer can delay a wake, by a lap at most: as long as it
\* holds no more stores than a lap of messages takes, the publish that reuses a
\* sleeper's slot finds it counted and wakes it, whatever the width of the futex
\* word (wait_strategy.hpp wait(), notify()).
THEOREM LateByALapAtMost ==
  ASSUME \A d \in Depths : d <= 2 * Capacity
  PROVE  Spec => []OverlookedForALapAtMost
<1>1. Init => LapInv
  BY InitStore, FutexAssumption
  DEF Init, LapInv, SleepsOnOldStamp, SleepsOnUsedSlot, OverlookedForALapAtMost
<1>2. LapInv /\ [Next]_vars => LapInv'
  <2> SUFFICES ASSUME LapInv, [Next]_vars PROVE LapInv'
    OBVIOUS
  <2>1. depth <= 2 * Capacity
    BY DEF LapInv, StoreInv, TypeInv, TypeOK
  <2>2. CASE UNCHANGED vars
    <3>1. UNCHANGED <<policy, depth, word, buffer, ppc, seq, cpc, next, seen>>
      BY <2>2 DEF vars, fixed, prodVars, consVars
    <3>2. StoreInv'
      BY <2>2, <3>1, StutterType, RestStore DEF LapInv, StoreInv
    <3>3. SleepsOnOldStamp' /\ SleepsOnUsedSlot' /\ OverlookedForALapAtMost'
      BY <3>1 DEF LapInv, SleepsOnOldStamp, SleepsOnUsedSlot, OverlookedForALapAtMost,
                  WordRepeats, Low, Want, EmptySeq, WritingSeq
    <3> QED BY <3>2, <3>3 DEF LapInv
  <2>3. CASE Next
    BY <2>1, <2>3, ProducerLap, ConsumerLap DEF Next
  <2> QED BY <2>2, <2>3
<1>3. LapInv => OverlookedForALapAtMost
  BY DEF LapInv
<1> QED BY <1>1, <1>2, <1>3, PTL DEF Spec
----------------------------------------------------------------------------
(* The stream, as the consumers see it. *)

\* The count that a lapped consumer will resync to is past what it missed.
ResyncAhead ==
  \A c \in Consumers : cpc[c] = "resync" => next[c] + Capacity <= word[NextPublish]

\* The gate keeps the producer within a lap of every cursor.
WithinALap ==
  policy = "Backpressure" =>
    \A c \in Consumers :
      seq <= next[c] + Capacity /\ (ppc # "idle" => seq < next[c] + Capacity)

FanoutInv == StoreInv /\ ResyncAhead /\ WithinALap /\ NoLapUnderBackpressure

\* The messages in memory are those whose stamp has drained, and the count is not
\* ahead of them.
LEMMA VisibleFacts ==
  ASSUME StoreInv
  PROVE  /\ Visible \in Nat /\ word[NextPublish] \in Nat
         /\ \A n \in Nat : StampNo(n) <= Drained <=> n < Visible
         /\ word[NextPublish] <= Visible
<1>1. Drained \in Int /\ policy \in {"Overwrite", "Backpressure"} /\ word[NextPublish] \in Nat
  BY StoreFacts, Facts DEF StoreInv
<1>2. 0 <= Drained
  BY <1>1 DEF StoreInv, CountFollows, CountNo
<1>3. Visible \in Nat /\ \A n \in Nat : StampNo(n) <= Drained <=> n < Visible
  BY <1>1, <1>2 DEF Visible, StampNo
<1>4. word[NextPublish] <= Visible
  BY <1>1, <1>2 DEF StoreInv, CountFollows, CountNo, Visible
<1> QED BY <1>1, <1>3, <1>4

\* A consumer that finds a later message is a lap behind the count, and is not
\* held by the gate.
LEMMA LappedFacts ==
  ASSUME FanoutInv, NEW c \in Consumers, ReadStatus(Want(c), next[c]) = "lapped"
  PROVE  next[c] + Capacity <= word[NextPublish] /\ policy # "Backpressure"
<1> USE DEF FanoutInv
<1>1. Want(c) \in Nat /\ next[c] \in Nat /\ seq \in Nat /\ Capacity \in Nat
  BY WantFacts, StoreFacts, Facts DEF StoreInv
<1>2. Want(c) \notin {EmptySeq, WritingSeq} /\ next[c] < Want(c)
  BY <1>1 DEF ReadStatus
<1>3. /\ StampNo(Want(c)) <= Drained /\ next[c] + Capacity <= Want(c)
      /\ Want(c) <= seq /\ (Want(c) = seq => ppc # "idle")
  BY <1>2, Found
<1>4. Want(c) <= word[NextPublish]
  <2>1. Drained \in Int /\ policy \in {"Overwrite", "Backpressure"} /\ word[NextPublish] \in Nat
    BY StoreFacts, VisibleFacts DEF StoreInv
  <2> QED BY <1>1, <1>3, <2>1 DEF StoreInv, CountFollows, CountNo, StampNo
<1>5. policy # "Backpressure"
  BY <1>1, <1>3 DEF WithinALap
<1> QED BY <1>1, <1>3, <1>4, <1>5, VisibleFacts

LEMMA ProducerFanout ==
  ASSUME FanoutInv, Begin \/ FinishPublish \/ Drain
  PROVE  /\ FanoutInv' /\ UNCHANGED next
         /\ Visible' = Visible \/ (Visible' = Visible + 1 /\ Visible < MaxPublish)
<1> USE DEF FanoutInv
<1>1. /\ StoreInv' /\ UNCHANGED <<policy, next>> /\ word'[NextPublish] >= word[NextPublish]
      /\ Drained' = Drained \/ Drained' = Drained + 1
      /\ \A c \in Consumers : cpc'[c] = "resync" => cpc[c] = "resync"
  <2>1. UNCHANGED next /\ \A c \in Consumers : cpc'[c] = "resync" => cpc[c] = "resync"
    BY DEF Begin, FinishPublish, Stamp, Advance, LoadWaiters, Wake, Drain, consVars,
           StoreInv, TypeInv, TypeOK
  <2> QED BY <2>1, ProducerStore
<1>2. /\ seq \in Nat /\ Capacity \in Nat /\ MaxPublish \in Nat
      /\ word[NextPublish] \in Nat /\ word'[NextPublish] \in Nat
      /\ \A c \in Consumers : next[c] \in Nat
  <2>1. word'[NextPublish] \in Nat
    BY <1>1, Facts DEF StoreInv, TypeInv, TypeOK
  <2> QED BY <2>1, WantFacts, StoreFacts, VisibleFacts, Facts DEF StoreInv
<1>3. ResyncAhead'
  BY <1>1, <1>2 DEF ResyncAhead, NextPublish
<1>4. NoLapUnderBackpressure'
  BY <1>1 DEF NoLapUnderBackpressure
<1>5. WithinALap'
  <2> SUFFICES ASSUME policy = "Backpressure", NEW c \in Consumers
               PROVE  /\ seq' <= next[c] + Capacity
                      /\ ppc' # "idle" => seq' < next[c] + Capacity
    BY <1>1 DEF WithinALap
  <2>1. seq <= next[c] + Capacity /\ (ppc # "idle" => seq < next[c] + Capacity)
    BY DEF WithinALap
  <2>2. CASE Begin
    BY <1>2, <2>1, <2>2 DEF Begin, AllPast
  <2>3. CASE Stamp \/ Advance \/ Drain
    BY <2>1, <2>3 DEF Stamp, Advance, Drain
  <2>4. CASE LoadWaiters \/ Wake
    BY <1>2, <2>1, <2>4 DEF LoadWaiters, Wake
  <2> QED BY <2>2, <2>3, <2>4 DEF FinishPublish
<1>6. Visible' = Visible \/ (Visible' = Visible + 1 /\ Visible < MaxPublish)
  <2>1. Visible \in Nat /\ Drained \in Int /\ policy \in {"Overwrite", "Backpressure"}
    BY VisibleFacts, StoreFacts DEF StoreInv
  <2>2. CASE Drained' = Drained
    BY <1>1, <2>2 DEF Visible
  <2>3. CASE Drained' = Drained + 1 /\ Visible' # Visible
    <3>1. Visible' = Visible + 1 /\ StampNo(Visible) = Drained + 1
      BY <1>1, <2>1, <2>3 DEF Visible, StampNo
    <3>2. \A n \in Nat : StampNo(n)' = StampNo(n)
      BY <1>1, SameOrder
    <3>3. Visible < MaxPublish
      BY <1>1, <2>1, <2>3, <3>1, <3>2, DrainedIsBegunNext DEF StoreInv, InStream
    <3> QED BY <3>1, <3>3
  <2> QED BY <1>1, <2>2, <2>3
<1> QED BY <1>1, <1>3, <1>4, <1>5, <1>6

LEMMA ConsumerFanout ==
  ASSUME FanoutInv, NEW c \in Consumers, ConsumerStep(c) \/ Interrupt(c)
  PROVE  /\ FanoutInv' /\ UNCHANGED Visible
         /\ \/ UNCHANGED next
            \/ next[c] < Visible /\ next' = [next EXCEPT ![c] = @ + 1]
            \/ \E k \in next[c] + 1 .. Visible - Capacity : next' = [next EXCEPT ![c] = k]
<1> USE DEF FanoutInv
<1>0. /\ UNCHANGED <<word, policy, buffer, ppc, seq>>
      /\ \A d \in Consumers \ {c} : cpc'[d] = cpc[d] /\ next'[d] = next[d]
  BY DEF ConsumerStep, ReadOk, ReadLapped, Resync, ReadEmpty, SpinOnce, Announce,
         Reload, Sleep, Leave, Interrupt, Goto, fixed, prodVars, StoreInv, TypeInv, TypeOK
<1>1. StoreInv' /\ UNCHANGED Visible
  <2>1. TypeInv'
    BY ConsumerType DEF StoreInv
  <2>2. StoreInv' /\ Drained' = Drained
    BY <1>0, <2>1, RestStore
  <2> QED BY <1>0, <2>2 DEF Visible
<1>2. /\ next \in [Consumers -> Nat] /\ next[c] \in Nat /\ seq \in Nat /\ Capacity \in Nat
      /\ Visible \in Nat /\ word[NextPublish] \in Nat /\ word[NextPublish] <= Visible
      /\ cpc \in [Consumers -> {"read", "resync", "wait", "reload", "sleep", "asleep", "leave"}]
  BY VisibleFacts, StoreFacts, Facts DEF StoreInv, TypeInv, TypeOK
\* What is left to show of a step.
<1> DEFINE Fine ==
             /\ next[c] <= next'[c] /\ next'[c] \in Nat
             /\ cpc'[c] = "resync" =>
                  next'[c] + Capacity <= word[NextPublish] /\ policy # "Backpressure"
<1>3. ASSUME Fine PROVE FanoutInv'
  <2>1. ResyncAhead' /\ NoLapUnderBackpressure'
    BY <1>0, <1>3 DEF ResyncAhead, NoLapUnderBackpressure, NextPublish
  <2>2. ASSUME policy = "Backpressure", NEW d \in Consumers
        PROVE  /\ seq <= next'[d] + Capacity
               /\ ppc # "idle" => seq < next'[d] + Capacity
    <3>1. seq <= next[d] + Capacity /\ (ppc # "idle" => seq < next[d] + Capacity)
      BY <2>2 DEF WithinALap
    <3>2. next[d] <= next'[d] /\ next[d] \in Nat /\ next'[d] \in Nat
      BY <1>0, <1>2, <1>3
    <3> QED BY <1>2, <3>1, <3>2
  <2>3. WithinALap'
    BY <1>0, <2>2 DEF WithinALap
  <2> QED BY <1>1, <2>1, <2>3
<1>4. CASE ReadOk(c)
  <2>1. /\ Want(c) = next[c] /\ next' = [next EXCEPT ![c] = @ + 1] /\ cpc'[c] = "read"
        /\ next[c] < WritingSeq /\ next[c] < EmptySeq
    BY <1>2, <1>4, Facts DEF ReadOk, ReadStatus, StoreInv, TypeInv, TypeOK
  <2>2. next[c] < Visible
    <3>1. Want(c) \notin {EmptySeq, WritingSeq}
      BY <1>2, <2>1
    <3> QED BY <1>2, <2>1, <3>1, Found, VisibleFacts
  <2>3. Fine
    BY <1>2, <2>1
  <2> QED BY <1>1, <1>3, <2>1, <2>2, <2>3
<1>5. CASE Resync(c)
  <2> DEFINE k == ResyncTarget(word[NextPublish])
  <2>1. cpc[c] = "resync" /\ next' = [next EXCEPT ![c] = k] /\ cpc'[c] = "read"
    BY <1>2, <1>5 DEF Resync, Goto
  <2>2. next[c] + Capacity <= word[NextPublish]
    BY <2>1 DEF ResyncAhead
  <2>3. k \in Nat /\ next[c] <= k /\ k <= Visible - Capacity
    BY <1>2, <2>2 DEF ResyncTarget
  <2> HIDE DEF k
  <2>4. Fine
    BY <1>2, <2>1, <2>3
  <2>5. k = next[c] \/ k \in next[c] + 1 .. Visible - Capacity
    BY <1>2, <2>3
  <2>6. k = next[c] => next' = next
    BY <1>2, <2>1
  <2> QED BY <1>1, <1>3, <2>1, <2>4, <2>5, <2>6
<1>6. CASE ReadLapped(c)
  <2>1. Fine /\ UNCHANGED next
    BY <1>2, <1>6, LappedFacts DEF ReadLapped
  <2> QED BY <1>1, <1>3, <2>1
<1>7. CASE ReadEmpty(c) \/ SpinOnce(c) \/ Announce(c) \/ Reload(c) \/ Sleep(c)
             \/ Leave(c) \/ Interrupt(c)
  <2>1. UNCHANGED next /\ cpc'[c] # "resync"
    BY <1>2, <1>7 DEF ReadEmpty, SpinOnce, Announce, Reload, Sleep, Leave, Interrupt, Goto
  <2> QED BY <1>1, <1>2, <1>3, <2>1
<1> QED BY <1>4, <1>5, <1>6, <1>7 DEF ConsumerStep

LEMMA StutterFanout ==
  ASSUME FanoutInv, UNCHANGED vars
  PROVE  FanoutInv' /\ UNCHANGED <<next, Visible>>
<1>1. UNCHANGED <<policy, word, buffer, ppc, seq, cpc, next>>
  BY DEF vars, fixed, prodVars, consVars
<1>2. StoreInv' /\ Drained' = Drained
  BY <1>1, StutterType, RestStore DEF FanoutInv, StoreInv
<1> QED BY <1>1, <1>2 DEF FanoutInv, ResyncAhead, WithinALap, NoLapUnderBackpressure,
                          NextPublish, Visible

LEMMA FanoutAlways == Spec => []FanoutInv
<1>1. Init => FanoutInv
  BY InitStore, Facts
  DEF Init, FanoutInv, ResyncAhead, WithinALap, NoLapUnderBackpressure
<1>2. FanoutInv /\ [Next]_vars => FanoutInv'
  BY ProducerFanout, ConsumerFanout, StutterFanout DEF Next
<1> QED BY <1>1, <1>2, PTL DEF Spec

\* Under Backpressure a stamp that is stored late laps nobody: whatever of the
\* producer's stores is underway, no consumer finds a later message in its slot.
THEOREM NobodyIsLapped == Spec => []NoLapUnderBackpressure
<1>1. FanoutInv => NoLapUnderBackpressure
  BY DEF FanoutInv
<1> QED BY <1>1, FanoutAlways, PTL

\* With no part there is only one message.
LEMMA NoParts == \A q : Fanout!Message(q) = <<>>
  BY DEF Fanout!Message

\* For every store buffer, overflow policy and width of the futex word, the
\* consumers read the one stream in order and lose only what is a lap behind.
THEOREM Refinement == Spec => ImplementsLossyFanout
<1>1. Init => Fanout!Init
  <2> SUFFICES ASSUME Init PROVE Fanout!Init
    OBVIOUS
  <2>1. Step = 0 /\ seq = 0 /\ Len(buffer) = 0
    BY DEF Init, Step
  <2>2. Drained = 0
    BY <2>1 DEF Drained, Issued
  <2>3. Visible = 0
    BY <2>2 DEF Visible
  <2> QED BY <2>3 DEF Init, Fanout!Init
<1>2. FanoutInv /\ [Next]_vars => [Fanout!Next]_(Fanout!vars)
  <2> SUFFICES ASSUME FanoutInv, [Next]_vars PROVE [Fanout!Next]_(Fanout!vars)
    OBVIOUS
  <2>1. CASE UNCHANGED <<next, Visible>>
    BY <2>1 DEF Fanout!vars
  <2>2. CASE UNCHANGED next /\ Visible' = Visible + 1 /\ Visible < MaxPublish
    BY <2>2 DEF Fanout!Next, Fanout!Publish
  <2>3. ASSUME NEW c \in Consumers, UNCHANGED Visible, next[c] < Visible,
               next' = [next EXCEPT ![c] = @ + 1]
        PROVE  Fanout!Deliver(c)
    BY <2>3, NoParts DEF Fanout!Deliver
  <2>4. ASSUME NEW c \in Consumers, UNCHANGED Visible,
               \E k \in next[c] + 1 .. Visible - Capacity : next' = [next EXCEPT ![c] = k]
        PROVE  Fanout!Lose(c)
    BY <2>4 DEF Fanout!Lose
  <2>5. CASE Begin \/ FinishPublish \/ Drain
    BY <2>1, <2>2, <2>5, ProducerFanout
  <2>6. ASSUME NEW c \in Consumers, ConsumerStep(c) \/ Interrupt(c)
        PROVE  [Fanout!Next]_(Fanout!vars)
    BY <2>1, <2>3, <2>4, <2>6, ConsumerFanout DEF Fanout!Next
  <2>7. CASE UNCHANGED vars
    BY <2>1, <2>7, StutterFanout
  <2> QED BY <2>5, <2>6, <2>7 DEF Next
<1> QED BY <1>1, <1>2, FanoutAlways, PTL DEF Spec, ImplementsLossyFanout, Fanout!Spec
============================================================================
