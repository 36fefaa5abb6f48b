------------------------ MODULE CursorRegistryProofs ------------------------
(* Proofs about CursorRegistry, for any number of entries and of consumers,
   and the lemmas about its steps that the proofs of BackpressureRing use. *)
EXTENDS CursorRegistry, FiniteSetTheorems, TLAPS

\* A consumer that scans or holds the table is at an entry of it.
CursorInRange ==
  \A c \in Consumers :
    stage[c] \in {"claim", "init", "release"} => cursorId[c] \in Ids

\* The consumers that are at entry k or have passed it, to be told at the end
\* that there is none for them.
Beyond(k) == {c \in Consumers : stage[c] # "out" /\ cursorId[c] >= k}

\* To pass an entry a consumer must meet its holder, who stays behind: for each
\* entry passed there is one consumer less that can have passed it.
Dwindling ==
  \A k \in 0 .. MaxConsumers : Cardinality(Beyond(k)) + k <= MaxConsumers + Excess

TableInv == RegTypeOK /\ CursorInRange /\ CursorOwnership

RegIInv == TableInv /\ Dwindling

----------------------------------------------------------------------------

LEMMA TableFacts ==
  /\ MaxConsumers \in Nat /\ MaxConsumers \notin Ids
  /\ Ids \subseteq Nat
  /\ 0 \in Ids
  /\ \A i \in Ids : i + 1 = MaxConsumers \/ i + 1 \in Ids
  /\ 0 \in Stamps /\ Infinity \in Stamps
  /\ \A i \in Ids \cup {MaxConsumers} : i < MaxConsumers <=> i \in Ids
  BY MaxConsumersAssumption, RangeAssumption DEF Ids, Stamps, Infinity, EmptySeq

LEMMA InitTable == RegInit => TableInv
  BY TableFacts DEF RegInit, TableInv, RegTypeOK, CursorInRange, CursorOwnership, Holds

LEMMA EnterTable ==
  ASSUME NEW c \in Consumers, TableInv, Enter(c)
  PROVE  TableInv'
<1> USE DEF TableInv, Enter
<1>1. RegTypeOK' /\ CursorInRange'
  BY TableFacts DEF RegTypeOK, CursorInRange
<1>2. \A d \in Consumers, i \in Ids : Holds(d, i)' <=> Holds(d, i)
  BY DEF Holds, RegTypeOK
<1>3. CursorOwnership'
  BY <1>2 DEF CursorOwnership
<1> QED BY <1>1, <1>3

LEMMA ClaimTable ==
  ASSUME NEW c \in Consumers, TableInv, Claim(c)
  PROVE  TableInv'
<1> USE DEF TableInv, Claim
<1> DEFINE e == cursorId[c]
<1>0. e \in Ids /\ ~inUse[e] /\ \A d \in Consumers : ~Holds(d, e)
  BY DEF CursorInRange, CursorOwnership
<1>1. RegTypeOK' /\ CursorInRange'
  BY <1>0 DEF RegTypeOK, CursorInRange
<1>2. \A d \in Consumers, i \in Ids :
        Holds(d, i)' <=> Holds(d, i) \/ (d = c /\ i = e)
  BY DEF Holds, RegTypeOK
<1>3. \A i \in Ids : inUse'[i] <=> inUse[i] \/ i = e
  BY <1>0 DEF RegTypeOK
<1> HIDE DEF e
<1>4. CursorOwnership'
  BY <1>0, <1>2, <1>3 DEF CursorOwnership
<1> QED BY <1>1, <1>4

LEMMA SkipTakenTable ==
  ASSUME NEW c \in Consumers, TableInv, SkipTaken(c)
  PROVE  TableInv'
<1> USE DEF TableInv, SkipTaken
<1>0. cursorId[c] \in Ids
  BY DEF CursorInRange
<1>1. RegTypeOK'
  BY <1>0, TableFacts DEF RegTypeOK
<1>2. CursorInRange'
  BY <1>0, TableFacts DEF RegTypeOK, CursorInRange
<1>3. \A d \in Consumers, i \in Ids : Holds(d, i)' <=> Holds(d, i)
  BY <1>0, TableFacts DEF Holds, RegTypeOK
<1>4. CursorOwnership'
  BY <1>3 DEF CursorOwnership
<1> QED BY <1>1, <1>2, <1>4

LEMMA StoreZeroTable ==
  ASSUME NEW c \in Consumers, TableInv, StoreZero(c)
  PROVE  TableInv'
<1> USE DEF TableInv, StoreZero
<1>1. RegTypeOK' /\ CursorInRange'
  BY TableFacts DEF RegTypeOK, CursorInRange
<1>2. \A d \in Consumers, i \in Ids : Holds(d, i)' <=> Holds(d, i)
  BY DEF Holds, RegTypeOK
<1>3. CursorOwnership'
  BY <1>2 DEF CursorOwnership
<1> QED BY <1>1, <1>3

LEMMA SetCursorTable ==
  ASSUME NEW c \in Consumers, NEW v \in Stamps, TableInv, SetCursor(c, v)
  PROVE  TableInv'
  BY DEF TableInv, SetCursor, RegTypeOK, CursorInRange, CursorOwnership, Holds

LEMMA UnregisterTable ==
  ASSUME NEW c \in Consumers, TableInv, Unregister(c)
  PROVE  TableInv'
<1> USE DEF TableInv
<1> DEFINE e == cursorId[c]
<1>1. CASE Tracked(c) /\ stage' = [stage EXCEPT ![c] = "release"]
           /\ value' = [value EXCEPT ![e] = Infinity]
           /\ UNCHANGED <<inUse, cursorId>>
  <2>1. e \in Ids
    BY <1>1, TableFacts DEF Tracked, RegTypeOK
  <2>2. RegTypeOK' /\ CursorInRange'
    BY <1>1, <2>1, TableFacts DEF RegTypeOK, CursorInRange
  <2>3. \A d \in Consumers, i \in Ids : Holds(d, i)' <=> Holds(d, i)
    BY <1>1 DEF Holds, Tracked, RegTypeOK
  <2>4. CursorOwnership'
    BY <1>1, <2>3 DEF CursorOwnership
  <2> QED BY <2>2, <2>4
<1>2. CASE stage[c] = "release" /\ stage' = [stage EXCEPT ![c] = "out"]
           /\ inUse' = [inUse EXCEPT ![e] = FALSE]
           /\ cursorId' = [cursorId EXCEPT ![c] = MaxConsumers]
           /\ UNCHANGED value
  <2>1. e \in Ids /\ Holds(c, e)
    BY <1>2 DEF CursorInRange, Holds
  <2>2. RegTypeOK' /\ CursorInRange'
    BY <1>2, <2>1 DEF RegTypeOK, CursorInRange
  <2>3. \A d \in Consumers, i \in Ids :
          Holds(d, i)' <=> Holds(d, i) /\ d # c
    BY <1>2, TableFacts DEF Holds, RegTypeOK
  <2>4. \A i \in Ids : inUse'[i] <=> inUse[i] /\ i # e
    BY <1>2 DEF RegTypeOK
  <2>5. \A i \in Ids : Holds(c, i) => i = e
    BY DEF Holds
  <2> HIDE DEF e
  <2>6. CursorOwnership'
    BY <2>1, <2>3, <2>4, <2>5 DEF CursorOwnership
  <2> QED BY <2>2, <2>6
<1>3. CASE stage[c] = "in" /\ ~Tracked(c) /\ stage' = [stage EXCEPT ![c] = "out"]
           /\ UNCHANGED <<inUse, value, cursorId>>
  <2>1. RegTypeOK' /\ CursorInRange'
    BY <1>3 DEF RegTypeOK, CursorInRange
  <2>2. \A d \in Consumers, i \in Ids : Holds(d, i)' <=> Holds(d, i)
    BY <1>3, TableFacts DEF Holds, Tracked, RegTypeOK
  <2>3. CursorOwnership'
    BY <1>3, <2>2 DEF CursorOwnership
  <2> QED BY <2>1, <2>3
<1> QED BY <1>1, <1>2, <1>3 DEF Unregister

LEMMA RegStepTable ==
  ASSUME NEW c \in Consumers, TableInv, RegStep(c)
  PROVE  TableInv'
  BY ClaimTable, SkipTakenTable, StoreZeroTable DEF RegStep

----------------------------------------------------------------------------
(* Counting: how many consumers can go without a cursor. *)

LEMMA BeyondFacts ==
  ASSUME NEW k \in Nat
  PROVE  IsFiniteSet(Beyond(k)) /\ Cardinality(Beyond(k)) \in Nat
<1>1. Beyond(k) \subseteq Consumers
  BY DEF Beyond
<1> QED BY <1>1, ConsumersAssumption, FS_Subset, FS_CardinalityType

LEMMA ExcessFacts ==
  /\ Excess \in Nat /\ Cardinality(Consumers) \in Nat
  /\ Cardinality(Consumers) <= MaxConsumers + Excess
<1>1. Cardinality(Consumers) \in Nat
  BY ConsumersAssumption, FS_CardinalityType
<1> QED BY <1>1, TableFacts DEF Excess

LEMMA InitDwindling == RegInit => Dwindling
<1> SUFFICES ASSUME RegInit, NEW k \in 0 .. MaxConsumers
             PROVE  Cardinality(Beyond(k)) + k <= MaxConsumers + Excess
  BY DEF Dwindling
<1>1. Beyond(k) = {}
  BY DEF Beyond, RegInit
<1> QED BY <1>1, FS_EmptySet, ExcessFacts, TableFacts

\* A step after which no more consumers are beyond an entry than before.
LEMMA ShrinkDwindling ==
  ASSUME Dwindling, \A k \in 0 .. MaxConsumers : Beyond(k)' \subseteq Beyond(k)
  PROVE  Dwindling'
<1> SUFFICES ASSUME NEW k \in 0 .. MaxConsumers
             PROVE  Cardinality(Beyond(k)') + k <= MaxConsumers + Excess
  BY DEF Dwindling, Excess
<1>1. /\ Cardinality(Beyond(k)') <= Cardinality(Beyond(k))
      /\ Cardinality(Beyond(k)') \in Nat
  BY BeyondFacts, FS_Subset, FS_CardinalityType
<1> QED BY <1>1, BeyondFacts, ExcessFacts, TableFacts DEF Dwindling

LEMMA EnterDwindling ==
  ASSUME NEW c \in Consumers, RegIInv, Enter(c)
  PROVE  Dwindling'
<1> SUFFICES ASSUME NEW k \in 0 .. MaxConsumers
             PROVE  Cardinality(Beyond(k)') + k <= MaxConsumers + Excess
  BY DEF Dwindling, Excess
<1>1. CASE k = 0
  <2>1. Beyond(k)' \subseteq Consumers
    BY DEF Beyond
  <2>2. /\ Cardinality(Beyond(k)') <= Cardinality(Consumers)
        /\ Cardinality(Beyond(k)') \in Nat
    BY <2>1, ConsumersAssumption, FS_Subset, FS_CardinalityType
  <2> QED BY <1>1, <2>2, ExcessFacts, TableFacts
<1>2. CASE k # 0
  <2>1. Beyond(k)' = Beyond(k)
    BY <1>2 DEF Beyond, Enter, RegIInv, TableInv, RegTypeOK
  <2> QED BY <2>1 DEF RegIInv, Dwindling
<1> QED BY <1>1, <1>2

LEMMA SkipTakenDwindling ==
  ASSUME NEW c \in Consumers, RegIInv, SkipTaken(c)
  PROVE  Dwindling'
<1> SUFFICES ASSUME NEW k \in 0 .. MaxConsumers
             PROVE  Cardinality(Beyond(k)') + k <= MaxConsumers + Excess
  BY DEF Dwindling, Excess
<1> DEFINE e == cursorId[c]
<1>1. e \in Ids /\ inUse[e]
  BY DEF RegIInv, TableInv, CursorInRange, SkipTaken
<1>2. \A d \in Consumers :
        stage'[d] = IF d = c THEN stage'[c] ELSE stage[d]
  BY DEF SkipTaken, RegIInv, TableInv, RegTypeOK
<1>3. stage[c] = "claim" /\ stage'[c] \in {"in", "claim"}
  BY DEF SkipTaken, RegIInv, TableInv, RegTypeOK
<1>4. /\ \A d \in Consumers : cursorId'[d] = IF d = c THEN e + 1 ELSE cursorId[d]
      /\ \A d \in Consumers : cursorId[d] \in Nat
  BY TableFacts DEF SkipTaken, RegIInv, TableInv, RegTypeOK
<1>5. CASE k = e + 1
  <2>1. PICK d \in Consumers : Holds(d, e)
    BY <1>1 DEF RegIInv, TableInv, CursorOwnership
  <2>2. d # c /\ d \in Beyond(e) /\ d \notin Beyond(k)'
    BY <1>1, <1>3, <1>2, <1>4, <1>5, <2>1, TableFacts DEF Holds, Beyond
  <2>3. Beyond(k)' \subseteq Beyond(e) \ {d}
    BY <1>1, <1>2, <1>3, <1>4, <1>5, <2>2, TableFacts DEF Beyond
  <2>4. /\ IsFiniteSet(Beyond(e) \ {d})
        /\ Cardinality(Beyond(e) \ {d}) = Cardinality(Beyond(e)) - 1
    BY <1>1, <2>2, BeyondFacts, FS_RemoveElement, TableFacts
  <2>5. /\ Cardinality(Beyond(k)') <= Cardinality(Beyond(e) \ {d})
        /\ Cardinality(Beyond(k)') \in Nat
    BY <2>3, <2>4, FS_Subset, FS_CardinalityType
  <2>6. /\ Cardinality(Beyond(e)) + e <= MaxConsumers + Excess
        /\ Cardinality(Beyond(e)) \in Nat
    BY <1>1, BeyondFacts, TableFacts DEF RegIInv, Dwindling, Ids
  <2> HIDE DEF e
  <2> QED BY <1>1, <1>5, <2>4, <2>5, <2>6, ExcessFacts, TableFacts
<1>6. CASE k # e + 1
  <2>1. Beyond(k)' = Beyond(k)
    BY <1>1, <1>2, <1>3, <1>4, <1>6, TableFacts DEF Beyond
  <2> QED BY <2>1 DEF RegIInv, Dwindling
<1> QED BY <1>5, <1>6

LEMMA NextRegIInv == RegIInv /\ [RegNext]_regVars => RegIInv'
<1> SUFFICES ASSUME RegIInv, [RegNext]_regVars PROVE RegIInv'
  OBVIOUS
<1>0. TableInv /\ Dwindling
  BY DEF RegIInv
<1>1. ASSUME NEW c \in Consumers, Enter(c) PROVE RegIInv'
  BY <1>0, <1>1, EnterTable, EnterDwindling DEF RegIInv
<1>2. ASSUME NEW c \in Consumers, Claim(c) \/ StoreZero(c) PROVE RegIInv'
  <2>1. \A k \in 0 .. MaxConsumers : Beyond(k)' \subseteq Beyond(k)
    BY <1>0, <1>2 DEF Beyond, Claim, StoreZero, TableInv, RegTypeOK
  <2>2. RegStep(c)
    BY <1>2 DEF RegStep
  <2> QED BY <1>0, <2>1, <2>2, RegStepTable, ShrinkDwindling DEF RegIInv
<1>3. ASSUME NEW c \in Consumers, SkipTaken(c) PROVE RegIInv'
  BY <1>0, <1>3, SkipTakenTable, SkipTakenDwindling DEF RegIInv
<1>4. ASSUME NEW c \in Consumers, Unregister(c) PROVE RegIInv'
  <2>1. \A k \in 0 .. MaxConsumers : Beyond(k)' \subseteq Beyond(k)
    BY <1>0, <1>4 DEF Beyond, Unregister, Tracked, TableInv, RegTypeOK
  <2> QED BY <1>0, <1>4, <2>1, UnregisterTable, ShrinkDwindling DEF RegIInv
<1>5. CASE UNCHANGED regVars
  <2>1. TableInv'
    BY <1>0, <1>5 DEF regVars, TableInv, RegTypeOK, CursorInRange,
                      CursorOwnership, Holds
  <2>2. \A k \in 0 .. MaxConsumers : Beyond(k)' \subseteq Beyond(k)
    BY <1>5 DEF regVars, Beyond
  <2> QED BY <1>0, <2>1, <2>2, ShrinkDwindling DEF RegIInv
<1> QED BY <1>1, <1>2, <1>3, <1>4, <1>5 DEF RegNext, RegStep

THEOREM RegInvariance == RegSpec => []RegIInv
<1>1. RegInit => RegIInv
  BY InitTable, InitDwindling DEF RegIInv
<1> QED BY <1>1, NextRegIInv, PTL DEF RegSpec

\* An entry is in use exactly while one consumer holds it, for any number of
\* consumers that register and leave at once.
THEOREM OneHolder == RegSpec => []CursorOwnership
<1>1. RegIInv => CursorOwnership
  BY DEF RegIInv, TableInv
<1> QED BY <1>1, RegInvariance, PTL

LEMMA RoomLemma == RegIInv => RoomForAll
<1> SUFFICES ASSUME RegIInv PROVE RoomForAll
  OBVIOUS
<1> DEFINE Without == {c \in Consumers : stage[c] = "in" /\ ~Tracked(c)}
<1>1. Without \subseteq Beyond(MaxConsumers)
  <2> SUFFICES ASSUME NEW c \in Without PROVE c \in Beyond(MaxConsumers)
    OBVIOUS
  <2>1. cursorId[c] \in Ids \cup {MaxConsumers} /\ ~(cursorId[c] < MaxConsumers)
    BY DEF Tracked, RegIInv, TableInv, RegTypeOK
  <2>2. cursorId[c] = MaxConsumers
    BY <2>1, TableFacts
  <2>3. cursorId[c] >= MaxConsumers
    BY <2>2, TableFacts
  <2> QED BY <2>3 DEF Beyond
<1>2. /\ Cardinality(Without) <= Cardinality(Beyond(MaxConsumers))
      /\ Cardinality(Without) \in Nat
  BY <1>1, BeyondFacts, TableFacts, FS_Subset, FS_CardinalityType
<1>3. /\ Cardinality(Beyond(MaxConsumers)) + MaxConsumers <= MaxConsumers + Excess
      /\ Cardinality(Beyond(MaxConsumers)) \in Nat
  BY BeyondFacts, TableFacts DEF RegIInv, Dwindling
<1>4. Cardinality(Without) <= Excess
  BY <1>2, <1>3, ExcessFacts, TableFacts
<1> QED BY <1>4 DEF RoomForAll

\* The one pass of register_consumer() over the table turns away no more
\* consumers than there are too many.
THEOREM FewTurnedAway == RegSpec => []RoomForAll
<1> QED BY RoomLemma, RegInvariance, PTL

\* With an entry for everyone, nobody is ever without one.
LEMMA AllTracked ==
  ASSUME Cardinality(Consumers) <= MaxConsumers, RegIInv,
         NEW c \in Consumers, stage[c] = "in"
  PROVE  cursorId[c] \in Ids /\ Tracked(c) /\ Holds(c, cursorId[c])
<1> DEFINE Without == {d \in Consumers : stage[d] = "in" /\ ~Tracked(d)}
<1>1. IsFiniteSet(Without) /\ Cardinality(Without) \in Nat
  <2>1. Without \subseteq Consumers
    OBVIOUS
  <2> QED BY <2>1, ConsumersAssumption, FS_Subset, FS_CardinalityType
<1>2. Cardinality(Without) <= 0
  BY RoomLemma, ExcessFacts, TableFacts DEF RoomForAll, Excess
<1>3. Cardinality(Without) = 0
  BY <1>1, <1>2
<1>4. Without = {}
  BY <1>1, <1>3, FS_EmptySet
<1>5. Tracked(c)
  BY <1>4
<1>6. cursorId[c] < MaxConsumers /\ cursorId[c] \in Ids \cup {MaxConsumers}
  BY <1>5 DEF Tracked, RegIInv, TableInv, RegTypeOK
<1> QED BY <1>5, <1>6, TableFacts DEF Holds
============================================================================
