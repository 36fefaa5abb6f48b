-------------------------- MODULE BackpressureRing --------------------------
(***************************************************************************)
(* Ring<..., Backpressure> and its Consumers: before it reuses a slot the  *)
(* producer scans the cursor table, entry by entry and load by load, until *)
(* one whole scan finds every cursor in use past the message the slot      *)
(* holds; consumers register, read, commit and leave under that scan.  The *)
(* writing marker of the Overwrite ring is not there, so nothing but the   *)
(* scan keeps a span from being overwritten.                               *)
(*                                                                         *)
(* Founders are constructed before the stream passes its first lap, as     *)
(* register_consumer() demands.  Every later consumer, and every consumer  *)
(* that comes back, is made by ShmSegment::attach_consumer_at_current():   *)
(* register, read produced(), seek there.                                  *)
(***************************************************************************)
EXTENDS CursorRegistry

CONSTANTS
  Founders,     \* consumers constructed before the stream starts in earnest
  Parts,        \* pieces of a slot that are copied separately
  NoMessage     \* delivered[c] before c has received anything

ASSUME FoundersAssumption == Founders \subseteq Consumers

VARIABLES
  stamp,        \* slots_[s].seq
  mem,          \* slots_[s].len and .payload, as in OverwriteRing
  nextPublish,  \* next_publish_
  ppc,          \* where the producer is inside publish()
  scan,         \* the cursor entry await_consumers_past() looks at
  unwritten,    \* parts of the current slot still to be written
  founding,     \* founders still to be constructed
  cpc,          \* where a registered consumer is
  next,         \* next_
  unread,       \* parts of the slot still to be looked at
  view,         \* bytes looked at since the poll
  delivered     \* the last message a consumer kept

prodVars == <<nextPublish, ppc, scan, unwritten>>
slotVars == <<stamp, mem>>
readVars == <<unread, view, delivered>>
consVars == <<founding, cpc, next, readVars>>
vars == <<prodVars, slotVars, consVars, regVars>>

Message(seq) == [p \in Parts |-> seq]
Blank == Message(EmptySeq)

CurSlot == SlotOf(nextPublish)

Init ==
  /\ RegInit
  /\ stamp = [s \in Slots |-> EmptySeq]
  /\ mem = [s \in Slots |-> Blank]
  /\ nextPublish = 0
  /\ ppc = "idle"
  /\ scan = 0
  /\ unwritten = {}
  /\ founding = Founders
  /\ cpc = [c \in Consumers |-> "none"]
  /\ next = [c \in Consumers |-> 0]
  /\ unread = [c \in Consumers |-> {}]
  /\ view = [c \in Consumers |-> Blank]
  /\ delivered = [c \in Consumers |-> NoMessage]

----------------------------------------------------------------------------
(* publish() *)

\* The contract of register_consumer(): every founder is registered before
\* the Capacity-th message.
Contract == nextPublish = Capacity - 1 => founding = {}

Begin ==
  /\ ppc = "idle"
  /\ nextPublish < MaxPublish
  /\ Contract
  /\ IF nextPublish >= Capacity
       THEN ppc' = "in_use" /\ scan' = 0 /\ UNCHANGED unwritten
       ELSE ppc' = "write" /\ unwritten' = Parts /\ UNCHANGED scan
  /\ UNCHANGED <<nextPublish, slotVars, consVars, regVars>>

\* Variant: the scan runs one entry past the table.
ScanOn_PastEnd ==
  IF scan < MaxConsumers
    THEN ppc' = "in_use" /\ scan' = scan + 1 /\ UNCHANGED unwritten
    ELSE ppc' = "write" /\ scan' = 0 /\ unwritten' = Parts

\* The next entry of the scan, or the end of a scan that found all clear.
ScanOn ==
  IF scan + 1 < MaxConsumers
    THEN ppc' = "in_use" /\ scan' = scan + 1 /\ UNCHANGED unwritten
    ELSE ppc' = "write" /\ scan' = 0 /\ unwritten' = Parts

\* Variant: a free entry is taken for the end of the table.
LoadInUse_StopsAtFree ==
  /\ ppc = "in_use"
  /\ IF inUse[scan]
       THEN ppc' = "value" /\ UNCHANGED <<scan, unwritten>>
       ELSE ppc' = "write" /\ scan' = 0 /\ unwritten' = Parts
  /\ UNCHANGED <<nextPublish, slotVars, consVars, regVars>>

LoadInUse ==
  /\ ppc = "in_use"
  /\ IF inUse[scan] THEN ppc' = "value" /\ UNCHANGED <<scan, unwritten>>
                    ELSE ScanOn
  /\ UNCHANGED <<nextPublish, slotVars, consVars, regVars>>

\* Variant: a cursor still at the slot's message counts as past it.
LoadValue_OffByOne ==
  /\ ppc = "value"
  /\ IF value[scan] < nextPublish - Capacity
       THEN ppc' = "in_use" /\ scan' = 0 /\ UNCHANGED unwritten
       ELSE ScanOn
  /\ UNCHANGED <<nextPublish, slotVars, consVars, regVars>>

\* A cursor that is not past the slot's message ends the scan; pause, rescan.
LoadValue ==
  /\ ppc = "value"
  /\ IF value[scan] <= nextPublish - Capacity
       THEN ppc' = "in_use" /\ scan' = 0 /\ UNCHANGED unwritten
       ELSE ScanOn
  /\ UNCHANGED <<nextPublish, slotVars, consVars, regVars>>

WritePart(p) ==
  /\ ppc = "write"
  /\ p \in unwritten
  /\ mem' = [mem EXCEPT ![CurSlot][p] = nextPublish]
  /\ unwritten' = unwritten \ {p}
  /\ UNCHANGED <<stamp, nextPublish, ppc, scan, consVars, regVars>>

Stamp ==
  /\ ppc = "write"
  /\ unwritten = {}
  /\ stamp' = [stamp EXCEPT ![CurSlot] = nextPublish]
  /\ ppc' = "advance"
  /\ UNCHANGED <<mem, nextPublish, scan, unwritten, consVars, regVars>>

Advance ==
  /\ ppc = "advance"
  /\ nextPublish' = nextPublish + 1
  /\ ppc' = "idle"
  /\ UNCHANGED <<scan, unwritten, slotVars, consVars, regVars>>

FinishPublish ==
  LoadInUse \/ LoadValue \/ (\E p \in Parts : WritePart(p)) \/ Stamp \/ Advance

----------------------------------------------------------------------------
(* A consumer's life. *)

Construct(c) ==
  /\ Enter(c)
  /\ UNCHANGED <<prodVars, slotVars, consVars>>

\* register_consumer() runs; when it returns a founder reads from 0, any
\* other consumer goes on with attach_consumer_at_current().
Register(c) ==
  /\ RegStep(c)
  /\ IF stage'[c] = "in"
       THEN /\ cpc' = [cpc EXCEPT ![c] =
                         IF c \in founding THEN "poll" ELSE "produced"]
            /\ founding' = founding \ {c}
       ELSE UNCHANGED <<cpc, founding>>
  /\ UNCHANGED <<next, readVars, prodVars, slotVars>>

\* Variant: attach waits for the message after the next one.
LoadProduced_SkipsOne(c) ==
  /\ cpc[c] = "produced"
  /\ next' = [next EXCEPT ![c] = nextPublish + 1]
  /\ cpc' = [cpc EXCEPT ![c] = "seek"]
  /\ UNCHANGED <<founding, readVars, prodVars, slotVars, regVars>>

\* cur = produced()
LoadProduced(c) ==
  /\ cpc[c] = "produced"
  /\ next' = [next EXCEPT ![c] = nextPublish]
  /\ cpc' = [cpc EXCEPT ![c] = "seek"]
  /\ UNCHANGED <<founding, readVars, prodVars, slotVars, regVars>>

\* Variant: seek() moves next_ but does not publish the cursor.
Seek_Unpublished(c) ==
  /\ cpc[c] = "seek"
  /\ cpc' = [cpc EXCEPT ![c] = "poll"]
  /\ UNCHANGED <<founding, next, readVars, prodVars, slotVars, regVars>>

\* seek(cur)
Seek(c) ==
  /\ cpc[c] = "seek"
  /\ SetCursor(c, next[c])
  /\ cpc' = [cpc EXCEPT ![c] = "poll"]
  /\ UNCHANGED <<founding, next, readVars, prodVars, slotVars>>

\* One call of do_read().  A message opens a span; Backpressure consumers do not
\* handle lapped, so one that is told so only ever leaves.
Poll(c) ==
  /\ cpc[c] = "poll"
  /\ LET status == ReadStatus(stamp[SlotOf(next[c])], next[c])
     IN  /\ status # "empty"
         /\ cpc' = [cpc EXCEPT ![c] = IF status = "ok" THEN "view" ELSE "lapped"]
         /\ unread' = [unread EXCEPT ![c] = IF status = "ok" THEN Parts ELSE {}]
  /\ UNCHANGED <<founding, next, view, delivered, prodVars, slotVars, regVars>>

ReadPart(c, p) ==
  /\ cpc[c] = "view"
  /\ p \in unread[c]
  /\ view' = [view EXCEPT ![c][p] = mem[SlotOf(next[c])][p]]
  /\ unread' = [unread EXCEPT ![c] = @ \ {p}]
  /\ UNCHANGED <<founding, cpc, next, delivered, prodVars, slotVars, regVars>>

\* commit(), with or without a validate() before it.
Commit(c) ==
  /\ cpc[c] = "view"
  /\ unread[c] = {}
  /\ delivered' = [delivered EXCEPT ![c] = view[c]]
  /\ next' = [next EXCEPT ![c] = @ + 1]
  /\ SetCursor(c, next[c] + 1)
  /\ cpc' = [cpc EXCEPT ![c] = "poll"]
  /\ view' = [view EXCEPT ![c] = Blank]
  /\ UNCHANGED <<founding, unread, prodVars, slotVars>>

\* The destructor, between two reads, with a span still open, or after a read
\* that was told lapped.
Depart(c) ==
  /\ Unregister(c)
  /\ cpc[c] \in {"none", "poll", "view", "lapped"}
  /\ cpc' = [cpc EXCEPT ![c] = "none"]
  /\ next' = [next EXCEPT ![c] = 0]
  /\ unread' = [unread EXCEPT ![c] = {}]
  /\ view' = [view EXCEPT ![c] = Blank]
  /\ delivered' = [delivered EXCEPT ![c] = NoMessage]
  /\ UNCHANGED <<founding, prodVars, slotVars>>

ConsumerStep(c) ==
  \/ Register(c) \/ LoadProduced(c) \/ Seek(c)
  \/ Poll(c)
  \/ \E p \in Parts : ReadPart(c, p)
  \/ Commit(c)

Next ==
  \/ Begin
  \/ FinishPublish
  \/ \E c \in Consumers : Construct(c) \/ ConsumerStep(c) \/ Depart(c)

Spec == Init /\ [][Next]_vars

(* A publish that was begun keeps running.  Publishing, joining and leaving *)
(* are up to the application, and a consumer's process may die or be stopped*)
(* anywhere: the properties name the consumers whose running they rest on.  *)
FairSpec == Spec /\ WF_vars(FinishPublish)
Running(c) == WF_vars(ConsumerStep(c))

----------------------------------------------------------------------------
(* Properties. *)

Published == IF ppc = "advance" THEN nextPublish + 1 ELSE nextPublish

\* A consumer that has been constructed, and one whose cursor, besides, is in
\* the table and holds the producer back.
Reads(c) == cpc[c] \in {"poll", "view", "lapped"}
Member(c) == Reads(c) /\ Tracked(c)

TypeOK ==
  /\ RegTypeOK
  /\ stamp \in [Slots -> Stamps]
  /\ mem \in [Slots -> [Parts -> Stamps]]
  /\ nextPublish \in Seqs
  /\ ppc \in {"idle", "in_use", "value", "write", "advance"}
  /\ scan \in Ids
  /\ unwritten \in SUBSET Parts
  /\ founding \in SUBSET Founders
  /\ cpc \in [Consumers ->
                {"none", "produced", "seek", "poll", "view", "lapped"}]
  /\ next \in [Consumers -> Seqs]
  /\ unread \in [Consumers -> SUBSET Parts]
  /\ view \in [Consumers -> [Parts -> Stamps]]
  /\ delivered \in [Consumers -> [Parts -> Stamps] \cup {NoMessage}]

\* A Backpressure consumer with a cursor is never lapped, early or late, whoever
\* else joins or leaves in the middle of the producer's scan, with a cursor or
\* without.
NeverLapped == \A c \in Consumers : Tracked(c) => cpc[c] # "lapped"

\* From the message c wants (and may hold a span into) to the newest, every
\* message is in its slot, whole.
Kept(c) ==
  \A q \in next[c] .. Published - 1 :
    stamp[SlotOf(q)] = q /\ mem[SlotOf(q)] = Message(q)

\* The producer never overwrites a slot that a consumer with a cursor has not
\* read: zero-copy needs no validate() there.
MembersSlotsKept == \A c \in Consumers : Member(c) => Kept(c)

\* Under Backpressure the producer never overwrites an unread slot.
UnreadSlotsKept == \A c \in Consumers : Reads(c) => Kept(c)

\* The stream the consumers with a cursor receive: refinement of the lossless
\* fan-out.
Fanout == INSTANCE LosslessFanout WITH
  published <- Published,
  member <- {c \in Consumers : Member(c)},
  next <- [c \in Consumers |-> IF Member(c) THEN next[c] ELSE 0],
  delivered <- [c \in Consumers |-> IF Member(c) THEN delivered[c] ELSE NoMessage]
ImplementsLosslessFanout == Fanout!Spec

\* The producer waits for c.
HoldsBack(c) ==
  \E i \in Ids : Holds(c, i) /\ value[i] <= nextPublish - Capacity

\* A publish() that was called returns, unless consumers are constructed for
\* ever or a consumer that has stopped running holds it back for good: neither a
\* cursor that starts at 0 under the scan, nor one whose consumer leaves without
\* committing, nor the death of a consumer that is not behind stops the producer.
PublishReturns ==
  \/ []<><<\E c \in Consumers : Construct(c)>>_vars
  \/ \E c \in Consumers : ~Running(c) /\ <>[]HoldsBack(c)
  \/ ppc # "idle" ~> ppc = "idle"

\* Whenever the producer pauses, or is held back, everyone who stays and keeps
\* running reaches the end, whatever becomes of the others.
CatchUp ==
  \A c \in Consumers :
    Running(c) => <>[](Member(c) => next[c] = nextPublish)
============================================================================
