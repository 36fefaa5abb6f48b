--------------------------- MODULE OverwriteRing ---------------------------
(***************************************************************************)
(* Ring<..., Overwrite> and its Consumers: the free-running producer with  *)
(* its two-phase publish, and the seqlock read side.  Each access to a     *)
(* shared word is a step of its own, so the producer can overtake a reader *)
(* between any two of its loads.  Writes to the parts of a payload and     *)
(* reads of them happen in any order.                                      *)
(*                                                                         *)
(* A message is abstracted to the sequence number it was published under;  *)
(* Parts are the pieces of a slot that are copied separately (the length   *)
(* and the words of the payload), each holding the number of the message   *)
(* its bytes belong to.                                                    *)
(***************************************************************************)
EXTENDS RingSeq

CONSTANTS
  Consumers,
  Parts,
  NoMessage     \* delivered[c] before c has received anything

VARIABLES
  stamp,        \* slots_[s].seq
  mem,          \* slots_[s].len and .payload
  nextPublish,  \* next_publish_
  ppc,          \* where the producer is inside publish()
  unwritten,    \* parts of the current slot still to be written
  cpc,          \* where a consumer is between read() and commit()
  next,         \* next_
  readSeq,      \* read_seq_
  unread,       \* parts of the slot still to be looked at
  view,         \* bytes looked at since the poll
  delivered     \* the last message a consumer kept

prodVars == <<nextPublish, ppc, unwritten>>
slotVars == <<stamp, mem>>
consVars == <<cpc, next, readSeq, unread, view, delivered>>
vars == <<prodVars, slotVars, consVars>>

Message(seq) == [p \in Parts |-> seq]
Blank == Message(EmptySeq)          \* bytes no publish has written

CurSlot == SlotOf(nextPublish)      \* the slot publish() works on

Init ==
  /\ stamp = [s \in Slots |-> EmptySeq]
  /\ mem = [s \in Slots |-> Blank]
  /\ nextPublish = 0
  /\ ppc = "idle"
  /\ unwritten = {}
  /\ cpc = [c \in Consumers |-> "poll"]
  /\ next = [c \in Consumers |-> 0]
  /\ readSeq = [c \in Consumers |-> 0]
  /\ unread = [c \in Consumers |-> {}]
  /\ view = [c \in Consumers |-> Blank]
  /\ delivered = [c \in Consumers |-> NoMessage]

----------------------------------------------------------------------------
(* publish(): mark, write, stamp, advance. *)

\* Variant: a publish with a single trailing stamp and no marker.
Mark_OnePhase ==
  /\ ppc = "idle"
  /\ nextPublish < MaxPublish
  /\ ppc' = "write"
  /\ unwritten' = Parts
  /\ UNCHANGED <<slotVars, nextPublish, consVars>>

Mark ==
  /\ ppc = "idle"
  /\ nextPublish < MaxPublish
  /\ stamp' = [stamp EXCEPT ![CurSlot] = WritingSeq]
  /\ ppc' = "write"
  /\ unwritten' = Parts
  /\ UNCHANGED <<mem, nextPublish, consVars>>

WritePart(p) ==
  /\ ppc = "write"
  /\ p \in unwritten
  /\ mem' = [mem EXCEPT ![CurSlot][p] = nextPublish]
  /\ unwritten' = unwritten \ {p}
  /\ UNCHANGED <<stamp, nextPublish, ppc, consVars>>

Stamp ==
  /\ ppc = "write"
  /\ unwritten = {}
  /\ stamp' = [stamp EXCEPT ![CurSlot] = nextPublish]
  /\ ppc' = "advance"
  /\ UNCHANGED <<mem, nextPublish, unwritten, consVars>>

Advance ==
  /\ ppc = "advance"
  /\ nextPublish' = nextPublish + 1
  /\ ppc' = "idle"
  /\ UNCHANGED <<unwritten, slotVars, consVars>>

FinishPublish == (\E p \in Parts : WritePart(p)) \/ Stamp \/ Advance

----------------------------------------------------------------------------
(* A consumer: poll, look at the parts, validate, then commit or resync.   *)
(* "view" is read()/read_blocking() with a zero-copy span, "copy" is       *)
(* read_copy().  A poll that finds the slot empty changes nothing.         *)

\* do_read(next_) returns ok.
PollOk(c) ==
  /\ cpc[c] = "poll"
  /\ ReadStatus(stamp[SlotOf(next[c])], next[c]) = "ok"
  /\ readSeq' = [readSeq EXCEPT ![c] = next[c]]
  /\ \E mode \in {"view", "copy"} : cpc' = [cpc EXCEPT ![c] = mode]
  /\ unread' = [unread EXCEPT ![c] = Parts]
  /\ view' = [view EXCEPT ![c] = Blank]
  /\ UNCHANGED <<next, delivered, prodVars, slotVars>>

\* do_read(next_) returns lapped.
PollLapped(c) ==
  /\ cpc[c] = "poll"
  /\ ReadStatus(stamp[SlotOf(next[c])], next[c]) = "lapped"
  /\ cpc' = [cpc EXCEPT ![c] = "resync"]
  /\ UNCHANGED <<next, readSeq, unread, view, delivered, prodVars, slotVars>>

ReadPart(c, p) ==
  /\ cpc[c] \in {"view", "copy"}
  /\ p \in unread[c]
  /\ view' = [view EXCEPT ![c][p] = mem[SlotOf(readSeq[c])][p]]
  /\ unread' = [unread EXCEPT ![c] = @ \ {p}]
  /\ UNCHANGED <<cpc, next, readSeq, delivered, prodVars, slotVars>>

\* What validate() computes.
Validates(c) == stamp[SlotOf(readSeq[c])] = readSeq[c]

\* Variant: commit() advances a cursor that read() had already advanced.
Commit_AdvancesTwice(c) ==
  /\ cpc[c] \in {"view", "copy"}
  /\ unread[c] = {}
  /\ Validates(c)
  /\ delivered' = [delivered EXCEPT ![c] = view[c]]
  /\ next' = [next EXCEPT ![c] = readSeq[c] + 2]
  /\ cpc' = [cpc EXCEPT ![c] = "poll"]
  /\ UNCHANGED <<readSeq, unread, view, prodVars, slotVars>>

\* validate() succeeds: the bytes are kept and commit() moves on.
Commit(c) ==
  /\ cpc[c] \in {"view", "copy"}
  /\ unread[c] = {}
  /\ Validates(c)
  /\ delivered' = [delivered EXCEPT ![c] = view[c]]
  /\ next' = [next EXCEPT ![c] = readSeq[c] + 1]
  /\ cpc' = [cpc EXCEPT ![c] = "poll"]
  /\ UNCHANGED <<readSeq, unread, view, prodVars, slotVars>>

\* validate() fails: the bytes are dropped.  The holder of a span polls
\* again; read_copy() reports lapped and its caller resyncs.
Discard(c) ==
  /\ cpc[c] \in {"view", "copy"}
  /\ unread[c] = {}
  /\ ~Validates(c)
  /\ cpc' = [cpc EXCEPT ![c] = IF @ = "copy" THEN "resync" ELSE "poll"]
  /\ view' = [view EXCEPT ![c] = Blank]
  /\ UNCHANGED <<next, readSeq, unread, delivered, prodVars, slotVars>>

\* resync(ring.produced()).
Resync(c) ==
  /\ cpc[c] = "resync"
  /\ next' = [next EXCEPT ![c] = ResyncTarget(nextPublish)]
  /\ cpc' = [cpc EXCEPT ![c] = "poll"]
  /\ UNCHANGED <<readSeq, unread, view, delivered, prodVars, slotVars>>

ConsumerStep(c) ==
  \/ PollOk(c)
  \/ PollLapped(c)
  \/ \E p \in Parts : ReadPart(c, p)
  \/ Commit(c)
  \/ Discard(c)
  \/ Resync(c)

Next ==
  \/ Mark
  \/ FinishPublish
  \/ \E c \in Consumers : ConsumerStep(c)

Spec == Init /\ [][Next]_vars

(* A publish that was started finishes and a running consumer keeps        *)
(* polling; whether another message is ever published is up to the         *)
(* application, so Mark has no fairness.                                   *)
FairSpec ==
  /\ Spec
  /\ WF_vars(FinishPublish)
  /\ \A c \in Consumers : WF_vars(ConsumerStep(c))

----------------------------------------------------------------------------
(* Properties. *)

\* Messages a consumer can already obtain: stamped, counted or not.
Published == IF ppc = "advance" THEN nextPublish + 1 ELSE nextPublish

\* Types, including that no real sequence number reaches a sentinel.
TypeOK ==
  /\ stamp \in [Slots -> Stamps]
  /\ mem \in [Slots -> [Parts -> Stamps]]
  /\ nextPublish \in Seqs
  /\ ppc \in {"idle", "write", "advance"}
  /\ unwritten \in SUBSET Parts
  /\ cpc \in [Consumers -> {"poll", "view", "copy", "resync"}]
  /\ next \in [Consumers -> Seqs]
  /\ readSeq \in [Consumers -> Seqs]
  /\ unread \in [Consumers -> SUBSET Parts]
  /\ view \in [Consumers -> [Parts -> Stamps]]
  /\ delivered \in [Consumers -> [Parts -> Stamps] \cup {NoMessage}]

\* The seqlock: as long as validate() would answer true, every byte the
\* consumer has looked at since its poll belongs to the message it asked for.
ValidViewIsWhole ==
  \A c \in Consumers :
    cpc[c] \in {"view", "copy"} /\ Validates(c) =>
      \A p \in Parts \ unread[c] : view[c][p] = readSeq[c]

\* A consumer is sent to resync only when the slot it wants really is being,
\* or has been, taken by a message at least a full lap newer: one that keeps
\* within Capacity of the producer never sees lapped.
LappedIsReal ==
  \A c \in Consumers :
    cpc[c] = "resync" => nextPublish >= next[c] + Capacity

\* The stream a consumer receives: refinement of the abstract fan-out.
Fanout == INSTANCE LossyFanout WITH published <- Published
ImplementsLossyFanout == Fanout!Spec

\* Whenever the producer pauses, however often it lapped them, all consumers
\* reach the end of the stream: no reader is left retrying, resyncing to the
\* same place or waiting on a marker.
CatchUp == <>[](\A c \in Consumers : next[c] = nextPublish)
============================================================================
