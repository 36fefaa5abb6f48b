--------------------------- MODULE CursorRegistry ---------------------------
(***************************************************************************)
(* The ring's table of consumer cursors: register_consumer() claims an     *)
(* entry with a compare-exchange per entry, unregister_consumer() gives it *)
(* back.  Any number of consumers register and unregister at once; each    *)
(* atomic access is a step.  Used alone and as a part of BackpressureRing. *)
(***************************************************************************)
EXTENDS RingSeq, FiniteSets

CONSTANTS Consumers, MaxConsumers

ASSUME MaxConsumersAssumption == MaxConsumers \in Nat /\ MaxConsumers >= 1
ASSUME ConsumersAssumption == IsFiniteSet(Consumers)

Ids == 0 .. MaxConsumers - 1
Infinity == EmptySeq                \* ~0, the cursor of a departed consumer

VARIABLES
  inUse,      \* cursors_[i].in_use
  value,      \* cursors_[i].value
  stage,      \* where a consumer is in its registration
  cursorId    \* cursor_id_, or the entry being tried; MaxConsumers: none

regVars == <<inUse, value, stage, cursorId>>

RegInit ==
  /\ inUse = [i \in Ids |-> FALSE]
  /\ value = [i \in Ids |-> 0]
  /\ stage = [c \in Consumers |-> "out"]
  /\ cursorId = [c \in Consumers |-> MaxConsumers]

----------------------------------------------------------------------------
(* register_consumer() *)

Enter(c) ==
  /\ stage[c] = "out"
  /\ stage' = [stage EXCEPT ![c] = "claim"]
  /\ cursorId' = [cursorId EXCEPT ![c] = 0]
  /\ UNCHANGED <<inUse, value>>

\* Variant: a plain test is left out of the claim.
Claim_Blind(c) ==
  /\ stage[c] = "claim"
  /\ inUse' = [inUse EXCEPT ![cursorId[c]] = TRUE]
  /\ stage' = [stage EXCEPT ![c] = "init"]
  /\ UNCHANGED <<value, cursorId>>

\* The compare-exchange on the entry being tried.
Claim(c) ==
  /\ stage[c] = "claim"
  /\ ~inUse[cursorId[c]]
  /\ inUse' = [inUse EXCEPT ![cursorId[c]] = TRUE]
  /\ stage' = [stage EXCEPT ![c] = "init"]
  /\ UNCHANGED <<value, cursorId>>

\* Variant: a consumer that loses the race for an entry looks no further.
SkipTaken_GivesUp(c) ==
  /\ stage[c] = "claim"
  /\ inUse[cursorId[c]]
  /\ cursorId' = [cursorId EXCEPT ![c] = MaxConsumers]
  /\ stage' = [stage EXCEPT ![c] = "in"]
  /\ UNCHANGED <<inUse, value>>

\* Taken: try the next entry; after the last, carry on without a cursor.
SkipTaken(c) ==
  /\ stage[c] = "claim"
  /\ inUse[cursorId[c]]
  /\ cursorId' = [cursorId EXCEPT ![c] = @ + 1]
  /\ stage' = [stage EXCEPT ![c] =
                 IF cursorId[c] + 1 = MaxConsumers THEN "in" ELSE "claim"]
  /\ UNCHANGED <<inUse, value>>

StoreZero(c) ==
  /\ stage[c] = "init"
  /\ value' = [value EXCEPT ![cursorId[c]] = 0]
  /\ stage' = [stage EXCEPT ![c] = "in"]
  /\ UNCHANGED <<inUse, cursorId>>

----------------------------------------------------------------------------
(* set_cursor() and unregister_consumer(); both do nothing without a cursor. *)

Tracked(c) == stage[c] = "in" /\ cursorId[c] < MaxConsumers

SetCursor(c, v) ==
  /\ value' = IF Tracked(c) THEN [value EXCEPT ![cursorId[c]] = v] ELSE value
  /\ UNCHANGED <<inUse, stage, cursorId>>

\* Variant: the entry is given back before its cursor is parked.
Unregister_Swapped(c) ==
  \/ /\ Tracked(c)
     /\ inUse' = [inUse EXCEPT ![cursorId[c]] = FALSE]
     /\ stage' = [stage EXCEPT ![c] = "release"]
     /\ UNCHANGED <<value, cursorId>>
  \/ /\ stage[c] = "release"
     /\ value' = [value EXCEPT ![cursorId[c]] = Infinity]
     /\ stage' = [stage EXCEPT ![c] = "out"]
     /\ UNCHANGED <<inUse, cursorId>>

\* The destructor of a consumer with a cursor parks it at infinity, then gives
\* the entry back; without a cursor there is nothing to undo.
Unregister(c) ==
  \/ /\ Tracked(c)
     /\ value' = [value EXCEPT ![cursorId[c]] = Infinity]
     /\ stage' = [stage EXCEPT ![c] = "release"]
     /\ UNCHANGED <<inUse, cursorId>>
  \/ /\ stage[c] = "release"
     /\ inUse' = [inUse EXCEPT ![cursorId[c]] = FALSE]
     /\ stage' = [stage EXCEPT ![c] = "out"]
     /\ cursorId' = [cursorId EXCEPT ![c] = MaxConsumers]
     /\ UNCHANGED value
  \/ /\ stage[c] = "in" /\ ~Tracked(c)
     /\ stage' = [stage EXCEPT ![c] = "out"]
     /\ UNCHANGED <<inUse, value, cursorId>>

RegStep(c) == Claim(c) \/ SkipTaken(c) \/ StoreZero(c)

RegNext ==
  \E c \in Consumers : Enter(c) \/ RegStep(c) \/ Unregister(c)

RegSpec == RegInit /\ [][RegNext]_regVars

----------------------------------------------------------------------------
(* Properties of the table alone. *)

RegTypeOK ==
  /\ inUse \in [Ids -> BOOLEAN]
  /\ value \in [Ids -> Stamps]
  /\ stage \in [Consumers -> {"out", "claim", "init", "in", "release"}]
  /\ cursorId \in [Consumers -> Ids \cup {MaxConsumers}]

Holds(c, i) == stage[c] \in {"init", "in", "release"} /\ cursorId[c] = i

\* An entry is in use exactly while one consumer holds it, however
\* registrations and departures overlap.
CursorOwnership ==
  \A i \in Ids :
    /\ inUse[i] <=> \E c \in Consumers : Holds(c, i)
    /\ \A c, d \in Consumers : Holds(c, i) /\ Holds(d, i) => c = d

\* No more consumers go without a cursor than there are consumers in excess of
\* entries: one pass over the table does not miss a free entry for good, even
\* though others come and go under the scan.
Excess ==
  IF Cardinality(Consumers) > MaxConsumers
    THEN Cardinality(Consumers) - MaxConsumers ELSE 0
RoomForAll ==
  Cardinality({c \in Consumers : stage[c] = "in" /\ ~Tracked(c)}) <= Excess
============================================================================
