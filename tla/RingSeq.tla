------------------------------ MODULE RingSeq ------------------------------
(***************************************************************************)
(* The vocabulary every ring module shares: sequence numbers, the two      *)
(* sentinel stamps, the slot a sequence number maps to, and the pure part  *)
(* of a consumer's poll.  A stamp is a std::uint64_t; SeqMod stands for    *)
(* 2^64, so the sentinels are the two largest representable stamps and the *)
(* raw comparisons of the code keep their meaning.                         *)
(***************************************************************************)
EXTENDS Integers

CONSTANTS
  Capacity,    \* slots in the ring
  SeqMod,      \* number of values a stamp can take (2^64)
  MaxPublish   \* messages the producer publishes at most

ASSUME CapacityAssumption == Capacity \in Nat /\ Capacity >= 2

\* Neither a message's number nor the count of messages reaches a sentinel.
ASSUME RangeAssumption ==
  /\ SeqMod \in Nat /\ MaxPublish \in Nat
  /\ MaxPublish + 2 < SeqMod

EmptySeq   == SeqMod - 1
WritingSeq == SeqMod - 2

Slots   == 0 .. Capacity - 1
Seqs    == 0 .. MaxPublish          \* values of next_publish_ and next_
Stamps  == 0 .. SeqMod - 1

\* seq & mask, with Capacity a power of two.
SlotOf(seq) == seq % Capacity

\* Variants: do_read() without the case for the marker; without `lapped`;
\* resync() one message too far.
ReadStatus_NoMarkerCase(stamp, want) ==
  CASE stamp = want                       -> "ok"
    [] stamp = EmptySeq \/ stamp < want   -> "empty"
    [] OTHER                              -> "lapped"
ReadStatus_NeverLapped(stamp, want) ==
  IF stamp = want THEN "ok" ELSE "empty"
ResyncTarget_TooFar(produced) ==
  IF produced >= Capacity THEN produced - Capacity + 1 ELSE 0

\* What do_read(want) answers when the slot carries this stamp.
ReadStatus(stamp, want) ==
  CASE stamp = want                       -> "ok"
    [] stamp = WritingSeq                 -> "empty"
    [] stamp = EmptySeq \/ stamp < want   -> "empty"
    [] OTHER                              -> "lapped"

\* Where resync(produced) puts the consumer.
ResyncTarget(produced) ==
  IF produced > Capacity THEN produced - Capacity ELSE 0
============================================================================
