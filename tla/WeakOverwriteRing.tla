-------------------------- MODULE WeakOverwriteRing --------------------------
(***************************************************************************)
(* The seqlock of the Overwrite ring under the C++ memory model, on which  *)
(* its fences and orderings matter (x86-64 gives most of them for free).   *)
(* Every location keeps the history of its stores, which the producer      *)
(* alone appends to.  A load may return any store the thread does not know *)
(* to be superseded; what it knows is a view, the index in each history of *)
(* the oldest store it may still return.  A release store carries the view *)
(* of the producer, a store behind a release fence the view at the fence;  *)
(* an acquire load takes the view over at once, a relaxed load keeps it    *)
(* pending until the next acquire fence.                                   *)
(*                                                                         *)
(* Payload accesses are plain in the code; they race by design and are     *)
(* taken as relaxed, one location per part.                                *)
(***************************************************************************)
EXTENDS RingSeq, Sequences

CONSTANTS
  Consumers,
  Parts,        \* pieces of a slot that are copied separately
  NoMessage     \* delivered[c] before c has received anything

ASSUME PartsAssumption == "seq" \notin Parts

VARIABLES
  hist,         \* hist[a]: the stores to location a, oldest first
  fenced,       \* the producer's view at its last release fence
  nextPublish,  \* next_publish_, as its only writer knows it
  ppc,          \* where the producer is inside publish()
  seen,         \* seen[c]: the view of consumer c
  pending,      \* views of relaxed loads since c's last acquire fence
  cpc,          \* where a consumer is
  next,         \* next_
  readSeq,      \* read_seq_
  unread,       \* parts of the slot still to be looked at
  view,         \* bytes looked at since the poll
  delivered     \* the last message a consumer kept

prodVars == <<hist, fenced, nextPublish, ppc>>
consVars == <<seen, pending, cpc, next, readSeq, unread, view, delivered>>
vars == <<prodVars, consVars>>

StampOf(seq) == <<SlotOf(seq), "seq">>
PartOf(seq, p) == <<SlotOf(seq), p>>
NextPublish == <<Capacity, "next_publish">>
Locations == (Slots \X ({"seq"} \cup Parts)) \cup {NextPublish}

Views == [Locations -> Nat \ {0}]
Oldest == [a \in Locations |-> 1]
Join(v, w) == [a \in Locations |-> IF v[a] < w[a] THEN w[a] ELSE v[a]]

Blank == [p \in Parts |-> EmptySeq]

Init ==
  /\ hist = [a \in Locations |->
               <<[val |-> IF a = NextPublish THEN 0 ELSE EmptySeq,
                  knows |-> Oldest]>>]
  /\ fenced = Oldest
  /\ nextPublish = 0
  /\ ppc = "idle"
  /\ seen = [c \in Consumers |-> Oldest]
  /\ pending = [c \in Consumers |-> Oldest]
  /\ cpc = [c \in Consumers |-> "poll"]
  /\ next = [c \in Consumers |-> 0]
  /\ readSeq = [c \in Consumers |-> 0]
  /\ unread = [c \in Consumers |-> {}]
  /\ view = [c \in Consumers |-> Blank]
  /\ delivered = [c \in Consumers |-> NoMessage]

----------------------------------------------------------------------------
(* publish() *)

Newest == [a \in Locations |-> Len(hist[a])]

\* A store whose reader learns of everything in `knows` by acquiring it.
Store(a, v, knows) ==
  hist' = [hist EXCEPT ![a] = Append(@, [val |-> v, knows |-> knows])]

StoreRelease(a, v) == Store(a, v, [Newest EXCEPT ![a] = @ + 1])

\* Variant: the marker without the fence behind it.
Mark_Unfenced ==
  /\ ppc = "idle"
  /\ nextPublish < MaxPublish
  /\ StoreRelease(StampOf(nextPublish), WritingSeq)
  /\ ppc' = "write"
  /\ UNCHANGED <<fenced, nextPublish, consVars>>

\* The marker, and the release fence behind it.
Mark ==
  /\ ppc = "idle"
  /\ nextPublish < MaxPublish
  /\ StoreRelease(StampOf(nextPublish), WritingSeq)
  /\ fenced' = [Newest EXCEPT ![StampOf(nextPublish)] = @ + 1]
  /\ ppc' = "write"
  /\ UNCHANGED <<nextPublish, consVars>>

\* All parts at once: a reader that misses one just loads an older store.
Write ==
  /\ ppc = "write"
  /\ LET written == {PartOf(nextPublish, p) : p \in Parts}
     IN  hist' = [a \in Locations |->
                    IF a \in written
                      THEN Append(hist[a], [val |-> nextPublish, knows |-> fenced])
                      ELSE hist[a]]
  /\ ppc' = "stamp"
  /\ UNCHANGED <<fenced, nextPublish, consVars>>

Stamp ==
  /\ ppc = "stamp"
  /\ StoreRelease(StampOf(nextPublish), nextPublish)
  /\ ppc' = "advance"
  /\ UNCHANGED <<fenced, nextPublish, consVars>>

\* A relaxed store.
Advance ==
  /\ ppc = "advance"
  /\ Store(NextPublish, nextPublish + 1, fenced)
  /\ nextPublish' = nextPublish + 1
  /\ ppc' = "idle"
  /\ UNCHANGED <<fenced, consVars>>

----------------------------------------------------------------------------
(* A consumer. *)

\* The stores a load of location a may return under view v.
Readable(v, a) == v[a] .. Len(hist[a])

LoadRelaxed(c, a, i) ==
  /\ seen' = [seen EXCEPT ![c][a] = i]
  /\ pending' = [pending EXCEPT ![c] = Join(@, hist[a][i].knows)]

LoadAcquire(c, a, i) ==
  /\ seen' = [seen EXCEPT ![c] = Join([@ EXCEPT ![a] = i], hist[a][i].knows)]
  /\ UNCHANGED pending

\* do_read(next_), for a span or for read_copy().
Poll(c) ==
  /\ cpc[c] = "poll"
  /\ \E i \in Readable(seen[c], StampOf(next[c])) :
       LET status == ReadStatus(hist[StampOf(next[c])][i].val, next[c])
       IN  /\ LoadAcquire(c, StampOf(next[c]), i)
           /\ \E mode \in {"view", "copy"} :
                cpc' = [cpc EXCEPT ![c] = CASE status = "ok"     -> mode
                                            [] status = "empty"  -> "poll"
                                            [] status = "lapped" -> "resync"]
           /\ readSeq' = [readSeq EXCEPT ![c] = IF status = "ok" THEN next[c] ELSE @]
           /\ unread' = [unread EXCEPT ![c] = IF status = "ok" THEN Parts ELSE {}]
  /\ view' = [view EXCEPT ![c] = Blank]
  /\ UNCHANGED <<next, delivered, prodVars>>

ReadPart(c, p) ==
  /\ cpc[c] \in {"view", "copy"}
  /\ p \in unread[c]
  /\ \E i \in Readable(seen[c], PartOf(readSeq[c], p)) :
       /\ LoadRelaxed(c, PartOf(readSeq[c], p), i)
       /\ view' = [view EXCEPT ![c][p] = hist[PartOf(readSeq[c], p)][i].val]
  /\ unread' = [unread EXCEPT ![c] = @ \ {p}]
  /\ UNCHANGED <<cpc, next, readSeq, delivered, prodVars>>

\* Variant: validate() without its fence.
AtFence_None(c) == seen[c]

\* What c knows once it has passed the acquire fence of validate().
AtFence(c) == Join(seen[c], pending[c])

\* The stores that the relaxed load of validate() may return.
Revalidation(c) == Readable(AtFence(c), StampOf(readSeq[c]))

\* validate(): the fence, the load, and what its caller does with the answer.
Validate(c) ==
  /\ cpc[c] \in {"view", "copy"}
  /\ unread[c] = {}
  /\ \E i \in Revalidation(c) :
       LET stamp == hist[StampOf(readSeq[c])][i]
       IN  /\ seen' = [seen EXCEPT ![c] =
                         [AtFence(c) EXCEPT ![StampOf(readSeq[c])] = i]]
           /\ pending' = [pending EXCEPT ![c] = stamp.knows]
           /\ IF stamp.val = readSeq[c]
                THEN /\ next' = [next EXCEPT ![c] = readSeq[c] + 1]
                     /\ cpc' = [cpc EXCEPT ![c] = "poll"]
                     /\ delivered' = [delivered EXCEPT ![c] = view[c]]
                ELSE /\ cpc' = [cpc EXCEPT ![c] =
                                  IF @ = "copy" THEN "torn" ELSE "poll"]
                     /\ UNCHANGED <<next, delivered>>
  /\ view' = [view EXCEPT ![c] = Blank]
  /\ UNCHANGED <<readSeq, unread, prodVars>>

\* resync(produced()), after a poll that said lapped or a torn read_copy().
Resync(c) ==
  /\ cpc[c] \in {"resync", "torn"}
  /\ \E i \in Readable(seen[c], NextPublish) :
       /\ LoadAcquire(c, NextPublish, i)
       /\ next' = [next EXCEPT ![c] = ResyncTarget(hist[NextPublish][i].val)]
  /\ cpc' = [cpc EXCEPT ![c] = "poll"]
  /\ UNCHANGED <<readSeq, unread, view, delivered, prodVars>>

ConsumerStep(c) ==
  \/ Poll(c) \/ (\E p \in Parts : ReadPart(c, p)) \/ Validate(c) \/ Resync(c)

Next ==
  \/ Mark \/ Write \/ Stamp \/ Advance
  \/ \E c \in Consumers : ConsumerStep(c)

Spec == Init /\ [][Next]_vars

(* A publish that was started finishes, a consumer keeps running, and a    *)
(* thread that loads a location for ever sees its newest store again and   *)
(* again: stores become visible in finite time.                            *)
PollNewest(c) ==
  Poll(c) /\ seen'[c][StampOf(next[c])] = Newest[StampOf(next[c])]
ResyncNewest(c) ==
  Resync(c) /\ seen'[c][NextPublish] = Newest[NextPublish]

FairSpec ==
  /\ Spec
  /\ WF_vars(Write \/ Stamp \/ Advance)
  /\ \A c \in Consumers : /\ WF_vars(ConsumerStep(c))
                          /\ SF_vars(PollNewest(c)) /\ SF_vars(ResyncNewest(c))

----------------------------------------------------------------------------
(* Properties. *)

\* The seqlock on any hardware: while validate() could still answer true, every
\* byte loaded since the poll belongs to the message that was asked for, however
\* late the producer's stores become visible and in whatever order.
ValidViewIsWhole ==
  \A c \in Consumers :
    /\ cpc[c] \in {"view", "copy"}
    /\ \E i \in Revalidation(c) : hist[StampOf(readSeq[c])][i].val = readSeq[c]
    => \A p \in Parts \ unread[c] : view[c][p] = readSeq[c]

\* A consumer goes back in the stream only out of a read_copy() that was torn,
\* where produced() may be older than the stamp validate() has seen, and then by
\* a lap at most.  A poll that says lapped has acquired a stamp, and with it a
\* count that is not behind.
FallsBackOnlyWhenTorn ==
  [][\A c \in Consumers :
       next'[c] < next[c] =>
         cpc[c] = "torn" /\ next[c] - next'[c] <= Capacity]_vars

\* The moment a message can be read is the store of its final stamp.
Published == IF ppc = "advance" THEN nextPublish + 1 ELSE nextPublish

\* What the ring promises on any hardware: every consumer gets whole messages of
\* the one stream.  It skips only what is a lap behind, and goes back only while
\* what it wants is a lap behind.
Fanout == INSTANCE StaleFanout WITH published <- Published
ImplementsStaleFanout == Fanout!StaleSpec

\* Whenever the producer pauses, a consumer reaches the end of the stream: it is
\* not sent back and forth by loads of different ages.
CatchUp == <>[](\A c \in Consumers : next[c] = nextPublish)
============================================================================
