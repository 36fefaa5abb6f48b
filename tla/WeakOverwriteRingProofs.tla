----------------------- MODULE WeakOverwriteRingProofs -----------------------
(* Proofs about WeakOverwriteRing: under the C++ memory model, for any number
   of slots, parts, consumers and messages, the two fences of the seqlock keep
   torn reads out, and resync() only goes back after a torn read_copy(). *)
EXTENDS WeakOverwriteRing, TLAPS

\* A sequence number maps to a slot of the ring.
LEMMA SlotType == ASSUME NEW q \in Nat PROVE SlotOf(q) \in Slots
  BY CapacityAssumption DEF SlotOf, Slots

\* Two messages that share a slot are at least a lap apart.
LEMMA LapApart ==
  ASSUME NEW a \in Nat, NEW b \in Nat, a < b, SlotOf(a) = SlotOf(b)
  PROVE  a + Capacity <= b
<1> DEFINE i == a \div Capacity
           j == b \div Capacity
<1>1. /\ i \in Int /\ j \in Int
      /\ a = Capacity * i + SlotOf(a)
      /\ b = Capacity * j + SlotOf(a)
  BY CapacityAssumption DEF SlotOf
<1>2. j > i
  <2> SUFFICES ASSUME j <= i PROVE FALSE
    BY <1>1
  <2> HIDE DEF i, j
  <2>1. Capacity * j <= Capacity * i
    BY <1>1, CapacityAssumption
  <2> QED BY <1>1, <2>1, CapacityAssumption DEF SlotOf
<1> HIDE DEF i, j
<1>3. Capacity * j >= Capacity * (i + 1)
  BY <1>1, <1>2, CapacityAssumption
<1>4. Capacity * (i + 1) = Capacity * i + Capacity
  BY <1>1, CapacityAssumption
<1> QED BY <1>1, <1>3, <1>4, CapacityAssumption DEF SlotOf

Messages == 0 .. MaxPublish - 1

StampAt(s) == <<s, "seq">>
PartAt(s, p) == <<s, p>>

Entries == [val : Stamps, knows : Views]
Histories == {h \in [Locations -> Seq(Entries)] : \A a \in Locations : Len(h[a]) >= 1}

\* v gives every location an index that is not before that of w.
NotBefore(v, w) == \A a \in Locations : w[a] <= v[a]

\* What a thread whose view is v can no longer load from the histories h: a part
\* of slot s of a message before q, a count of messages below q, a stamp of s
\* older than r.
Settled(h, v, s, q) ==
  \A p \in Parts : \A j \in v[PartAt(s, p)] .. Len(h[PartAt(s, p)]) :
    h[PartAt(s, p)][j].val \in q .. MaxPublish - 1
Counts(h, v, q) ==
  \A j \in v[NextPublish] .. Len(h[NextPublish]) : h[NextPublish][j].val >= q
Excludes(h, v, s, r) ==
  \A k \in v[StampAt(s)] .. Len(h[StampAt(s)]) :
    h[StampAt(s)][k].val \in Messages => h[StampAt(s)][k].val >= r

----------------------------------------------------------------------------
(* The invariant. *)

TypeInv ==
  /\ hist \in Histories
  /\ fenced \in Views
  /\ nextPublish \in Seqs
  /\ ppc \in {"idle", "write", "stamp", "advance"}
  /\ ppc # "idle" => nextPublish < MaxPublish
  /\ seen \in [Consumers -> Views] /\ pending \in [Consumers -> Views]
  /\ cpc \in [Consumers -> {"poll", "view", "copy", "torn", "resync"}]
  /\ next \in [Consumers -> Seqs] /\ readSeq \in [Consumers -> Seqs]
  /\ unread \in [Consumers -> SUBSET Parts]
  /\ view \in [Consumers -> [Parts -> Stamps]]

\* Acquiring the stamp of a message makes all of it visible, and the count of
\* the messages before it.
StampsRelease ==
  \A s \in Slots : \A i \in 1 .. Len(hist[StampAt(s)]) :
    LET e == hist[StampAt(s)][i]
    IN  /\ e.val \in Messages \cup {EmptySeq, WritingSeq}
        /\ e.val \in Messages =>
             /\ SlotOf(e.val) = s
             /\ e.val < Published
             /\ Settled(hist, e.knows, s, e.val)
             /\ Counts(hist, e.knows, e.val)

\* Whoever has seen a byte of a message knows, past a fence, that the stamps
\* before its marker are superseded.
PartsFenced ==
  \A s \in Slots, p \in Parts : \A j \in 1 .. Len(hist[PartAt(s, p)]) :
    LET e == hist[PartAt(s, p)][j]
    IN  e.val \in Messages => /\ e.val <= nextPublish
                              /\ Excludes(hist, e.knows, s, e.val)

CountsCount ==
  /\ \A j \in 1 .. Len(hist[NextPublish]) : hist[NextPublish][j].val \in 0 .. nextPublish
  /\ hist[NextPublish][Len(hist[NextPublish])].val = nextPublish

Writing ==
  /\ ppc = "write" => Excludes(hist, fenced, SlotOf(nextPublish), nextPublish)
  /\ ppc = "stamp" => \A p \in Parts :
       LET h == hist[PartAt(SlotOf(nextPublish), p)] IN h[Len(h)].val = nextPublish

\* Each byte looked at is of the message, or the fence will tell.
Reading(c) ==
  /\ Settled(hist, seen[c], SlotOf(next[c]), next[c])
  /\ \A p \in Parts \ unread[c] :
       \/ view[c][p] = next[c]
       \/ Excludes(hist, AtFence(c), SlotOf(next[c]), next[c] + 1)

ConsumerInv(c) ==
  /\ cpc[c] \in {"view", "copy"} => Reading(c)
  /\ cpc[c] \in {"view", "copy", "torn"} =>
       readSeq[c] = next[c] /\ next[c] < Published /\ Counts(hist, seen[c], next[c])
  /\ cpc[c] = "resync" =>
       next[c] + Capacity < Published /\ Counts(hist, seen[c], next[c] + Capacity)

IInv ==
  /\ TypeInv /\ StampsRelease /\ PartsFenced /\ CountsCount /\ Writing
  /\ \A c \in Consumers : ConsumerInv(c)

----------------------------------------------------------------------------
(* Locations, views and histories. *)

LEMMA Facts ==
  /\ Capacity \in Nat \ {0} /\ MaxPublish \in Nat
  /\ Seqs \subseteq Nat /\ Stamps \subseteq Nat /\ Seqs \subseteq Stamps
  /\ EmptySeq \in Stamps /\ WritingSeq \in Stamps
  /\ EmptySeq > MaxPublish /\ WritingSeq > MaxPublish
  /\ \A q \in Seqs : SlotOf(q) \in Slots
  /\ \A q : StampOf(q) = StampAt(SlotOf(q))
  /\ \A q, p : PartOf(q, p) = PartAt(SlotOf(q), p)
  BY CapacityAssumption, RangeAssumption
  DEF Slots, Seqs, Stamps, EmptySeq, WritingSeq, SlotOf, StampOf, PartOf, StampAt, PartAt

LEMMA Places ==
  /\ NextPublish \in Locations
  /\ \A s \in Slots : StampAt(s) \in Locations /\ StampAt(s) # NextPublish
  /\ \A s \in Slots, p \in Parts : PartAt(s, p) \in Locations /\ PartAt(s, p) # NextPublish
  /\ \A s, t \in Slots, p \in Parts : PartAt(s, p) # StampAt(t)
  /\ \A s, t : StampAt(s) = StampAt(t) => s = t
  /\ \A s, t, p, r : PartAt(s, p) = PartAt(t, r) => s = t
  BY CapacityAssumption, PartsAssumption
  DEF Locations, NextPublish, StampAt, PartAt, Slots

LEMMA AppendFacts ==
  ASSUME NEW S, NEW s \in Seq(S), NEW e \in S
  PROVE  /\ Append(s, e) \in Seq(S) /\ Len(Append(s, e)) = Len(s) + 1
         /\ \A i \in 1 .. Len(s) : Append(s, e)[i] = s[i]
         /\ Append(s, e)[Len(s) + 1] = e
  OBVIOUS

LEMMA EntryFacts ==
  ASSUME NEW h \in Histories, NEW a \in Locations
  PROVE  /\ Len(h[a]) \in Nat /\ Len(h[a]) >= 1
         /\ \A i \in 1 .. Len(h[a]) : h[a][i].val \in Stamps /\ h[a][i].knows \in Views
<1>1. h[a] \in Seq(Entries) /\ Len(h[a]) >= 1
  BY DEF Histories
<1>2. \A i \in 1 .. Len(h[a]) : h[a][i] \in Entries
  BY <1>1
<1> QED BY <1>1, <1>2 DEF Entries

LEMMA ViewFacts ==
  ASSUME NEW v \in Views, NEW a \in Locations
  PROVE  v[a] \in Nat /\ v[a] >= 1
  BY DEF Views

LEMMA JoinFacts ==
  ASSUME NEW v \in Views, NEW w \in Views
  PROVE  Join(v, w) \in Views /\ NotBefore(Join(v, w), v) /\ NotBefore(Join(v, w), w)
  BY DEF Join, Views, NotBefore

LEMMA LoadFacts ==
  ASSUME NEW v \in Views, NEW a \in Locations, NEW i \in Nat, v[a] <= i
  PROVE  [v EXCEPT ![a] = i] \in Views /\ NotBefore([v EXCEPT ![a] = i], v)
  BY DEF Views, NotBefore

LEMMA NotBeforeTransitive ==
  ASSUME NEW u \in Views, NEW v \in Views, NEW w \in Views,
         NotBefore(u, v), NotBefore(v, w)
  PROVE  NotBefore(u, w)
  BY DEF Views, NotBefore

\* A view that knows more can load less.
LEMMA KnowsMore ==
  ASSUME NEW h \in Histories, NEW v \in Views, NEW w \in Views, NotBefore(v, w),
         NEW s \in Slots, NEW q \in Nat, NEW r \in Nat, r <= q
  PROVE  /\ Settled(h, w, s, q) => Settled(h, v, s, q)
         /\ Counts(h, w, q) => Counts(h, v, r)
         /\ Excludes(h, w, s, q) => Excludes(h, v, s, r)
<1>1. \A a \in Locations : \A j \in v[a] .. Len(h[a]) :
        j \in w[a] .. Len(h[a]) /\ j \in 1 .. Len(h[a]) /\ h[a][j].val \in Nat
  <2> TAKE a \in Locations
  <2>1. v[a] \in Nat /\ v[a] >= 1 /\ w[a] \in Nat /\ w[a] <= v[a]
    BY ViewFacts DEF NotBefore
  <2>2. Len(h[a]) \in Nat /\ \A i \in 1 .. Len(h[a]) : h[a][i].val \in Nat
    BY EntryFacts, Facts
  <2> QED BY <2>1, <2>2
<1>2. Settled(h, w, s, q) => Settled(h, v, s, q)
  BY <1>1, Places DEF Settled
<1>3. Counts(h, w, q) => Counts(h, v, r)
  BY <1>1, Places DEF Counts
<1>4. Excludes(h, w, s, q) => Excludes(h, v, s, r)
  BY <1>1, Places DEF Excludes
<1> QED BY <1>2, <1>3, <1>4

----------------------------------------------------------------------------
(* A store. *)

\* The entry e is appended to the histories of the locations in A.
Grown(h, A, e) == [a \in Locations |-> IF a \in A THEN Append(h[a], e) ELSE h[a]]

LEMMA GrownFacts ==
  ASSUME NEW h \in Histories, NEW A \in SUBSET Locations, NEW e \in Entries
  PROVE  /\ Grown(h, A, e) \in Histories
         /\ \A a \in A : /\ Len(Grown(h, A, e)[a]) = Len(h[a]) + 1
                         /\ Grown(h, A, e)[a][Len(h[a]) + 1] = e
         /\ \A a \in Locations \ A : Grown(h, A, e)[a] = h[a]
<1> DEFINE g == Grown(h, A, e)
<1>0. \A a \in Locations : h[a] \in Seq(Entries) /\ Len(h[a]) \in Nat /\ Len(h[a]) >= 1
  BY DEF Histories
<1>1. \A a \in A : g[a] = Append(h[a], e)
  BY DEF Grown
<1>2. \A a \in Locations \ A : g[a] = h[a]
  BY DEF Grown
<1>3. \A a \in A :
        /\ g[a] \in Seq(Entries) /\ Len(g[a]) = Len(h[a]) + 1
        /\ \A i \in 1 .. Len(h[a]) : g[a][i] = h[a][i]
        /\ g[a][Len(h[a]) + 1] = e
  <2> TAKE a \in A
  <2>1. h[a] \in Seq(Entries) /\ g[a] = Append(h[a], e)
    BY <1>0, <1>1
  <2> HIDE DEF g
  <2> QED BY <2>1, AppendFacts
<1>4. g = [a \in Locations |-> g[a]]
  BY DEF Grown
<1> HIDE DEF g
<1>5. g \in Histories
  <2>1. \A a \in Locations : g[a] \in Seq(Entries) /\ Len(g[a]) >= 1
    BY <1>0, <1>2, <1>3
  <2> QED BY <1>4, <2>1 DEF Histories
<1> QED BY <1>2, <1>3, <1>5 DEF g

LEMMA OldOrNew ==
  ASSUME NEW h \in Histories, NEW A \in SUBSET Locations, NEW e \in Entries,
         NEW a \in Locations, NEW i \in 1 .. Len(Grown(h, A, e)[a])
  PROVE  \/ i \in 1 .. Len(h[a]) /\ Grown(h, A, e)[a][i] = h[a][i]
         \/ a \in A /\ Grown(h, A, e)[a][i] = e
<1>1. h[a] \in Seq(Entries)
  BY DEF Histories
<1>2. CASE a \in A
  <2>1. Grown(h, A, e)[a] = Append(h[a], e)
    BY <1>2 DEF Grown
  <2> QED BY <1>1, <1>2, <2>1, AppendFacts
<1>3. CASE a \notin A
  <2>1. Grown(h, A, e)[a] = h[a]
    BY <1>3 DEF Grown
  <2> QED BY <2>1
<1> QED BY <1>2, <1>3

\* What a store leaves true of a view.
LEMMA StillKnown ==
  ASSUME NEW h \in Histories, NEW A \in SUBSET Locations, NEW e \in Entries,
         NEW v \in Views, NEW s \in Slots, NEW q \in Nat
  PROVE  /\ /\ Settled(h, v, s, q)
            /\ (\E p \in Parts : PartAt(s, p) \in A) => e.val \in q .. MaxPublish - 1
            => Settled(Grown(h, A, e), v, s, q)
         /\ /\ Counts(h, v, q)
            /\ NextPublish \in A => e.val >= q
            => Counts(Grown(h, A, e), v, q)
         /\ /\ Excludes(h, v, s, q)
            /\ StampAt(s) \in A /\ e.val \in Messages => e.val >= q
            => Excludes(Grown(h, A, e), v, s, q)
<1> DEFINE g == Grown(h, A, e)
<1>1. \A a \in Locations : \A j \in v[a] .. Len(g[a]) :
        \/ j \in v[a] .. Len(h[a]) /\ g[a][j] = h[a][j]
        \/ a \in A /\ g[a][j] = e
  <2> TAKE a \in Locations
  <2>1. v[a] \in Nat /\ v[a] >= 1
    BY ViewFacts
  <2>2. g \in Histories /\ Len(g[a]) \in Nat /\ Len(h[a]) \in Nat
    BY GrownFacts, EntryFacts
  <2>3. \A i \in 1 .. Len(g[a]) :
          \/ i \in 1 .. Len(h[a]) /\ g[a][i] = h[a][i]
          \/ a \in A /\ g[a][i] = e
    BY OldOrNew
  <2> HIDE DEF g
  <2> QED BY <2>1, <2>2, <2>3
<1> HIDE DEF g
<1>2. ASSUME Settled(h, v, s, q),
             (\E p \in Parts : PartAt(s, p) \in A) => e.val \in q .. MaxPublish - 1
      PROVE  Settled(g, v, s, q)
  BY <1>1, <1>2, Places DEF Settled
<1>3. ASSUME Counts(h, v, q), NextPublish \in A => e.val >= q
      PROVE  Counts(g, v, q)
  BY <1>1, <1>3, Places DEF Counts
<1>4. ASSUME Excludes(h, v, s, q),
             StampAt(s) \in A /\ e.val \in Messages => e.val >= q
      PROVE  Excludes(g, v, s, q)
  BY <1>1, <1>4, Places DEF Excludes
<1> QED BY <1>2, <1>3, <1>4 DEF g

----------------------------------------------------------------------------
(* The producer. *)

LEMMA PublishedFacts ==
  ASSUME TypeInv
  PROVE  Published \in Seqs /\ nextPublish \in Seqs /\ nextPublish <= Published
  BY Facts DEF TypeInv, Published, Seqs

\* A store of nothing older than the message under way.
Fresh(A, e) ==
  /\ \A s \in Slots, p \in Parts : PartAt(s, p) \in A => e.val \in Published .. MaxPublish - 1
  /\ NextPublish \in A => e.val >= Published
  /\ \A s \in Slots : StampAt(s) \in A /\ e.val \in Messages => e.val >= Published

LEMMA FreshKeeps ==
  ASSUME TypeInv, NEW A \in SUBSET Locations, NEW e \in Entries, Fresh(A, e),
         NEW v \in Views, NEW s \in Slots, NEW q \in 0 .. Published
  PROVE  /\ Settled(hist, v, s, q) => Settled(Grown(hist, A, e), v, s, q)
         /\ Counts(hist, v, q) => Counts(Grown(hist, A, e), v, q)
         /\ Excludes(hist, v, s, q) => Excludes(Grown(hist, A, e), v, s, q)
<1>0. Published \in Nat /\ MaxPublish \in Nat
  BY PublishedFacts, Facts
<1>1. hist \in Histories /\ q \in Nat /\ Published \in Nat /\ e.val \in Nat
  <2>1. e.val \in Stamps
    BY DEF Entries
  <2>2. e.val \in Nat
    BY <2>1, Facts
  <2>3. q \in Nat
    BY <1>0
  <2>4. hist \in Histories
    BY DEF TypeInv
  <2> QED BY <1>0, <2>2, <2>3, <2>4
<1>2. /\ (\E p \in Parts : PartAt(s, p) \in A) => e.val \in q .. MaxPublish - 1
      /\ NextPublish \in A => e.val >= q
      /\ StampAt(s) \in A /\ e.val \in Messages => e.val >= q
  BY <1>0, <1>1 DEF Fresh
<1> QED BY <1>1, <1>2, StillKnown

LEMMA StampsKept ==
  ASSUME IInv, NEW A \in SUBSET Locations, NEW e \in Entries, Fresh(A, e),
         hist' = Grown(hist, A, e), Published' \in Nat, Published <= Published',
         \A s \in Slots : StampAt(s) \in A =>
           /\ e.val \in Messages \cup {EmptySeq, WritingSeq}
           /\ e.val \in Messages =>
                /\ SlotOf(e.val) = s
                /\ e.val < Published'
                /\ Settled(Grown(hist, A, e), e.knows, s, e.val)
                /\ Counts(Grown(hist, A, e), e.knows, e.val)
  PROVE  StampsRelease'
<1> DEFINE g == Grown(hist, A, e)
<1>1. SUFFICES ASSUME NEW s \in Slots, NEW i \in 1 .. Len(g[StampAt(s)])
      PROVE  LET f == g[StampAt(s)][i]
             IN  /\ f.val \in Messages \cup {EmptySeq, WritingSeq}
                 /\ f.val \in Messages =>
                      /\ SlotOf(f.val) = s
                      /\ f.val < Published'
                      /\ Settled(g, f.knows, s, f.val)
                      /\ Counts(g, f.knows, f.val)
  BY DEF StampsRelease
<1>2. TypeInv /\ hist \in Histories /\ Published \in Nat /\ StampAt(s) \in Locations
  BY PublishedFacts, Places, Facts DEF IInv, TypeInv
<1>3. \/ i \in 1 .. Len(hist[StampAt(s)]) /\ g[StampAt(s)][i] = hist[StampAt(s)][i]
      \/ StampAt(s) \in A /\ g[StampAt(s)][i] = e
  BY <1>2, OldOrNew
<1>4. CASE i \in 1 .. Len(hist[StampAt(s)]) /\ g[StampAt(s)][i] = hist[StampAt(s)][i]
  <2> DEFINE f == hist[StampAt(s)][i]
  <2>1. /\ f.val \in Messages \cup {EmptySeq, WritingSeq} /\ f.knows \in Views
        /\ f.val \in Messages =>
             /\ SlotOf(f.val) = s /\ f.val < Published
             /\ Settled(hist, f.knows, s, f.val) /\ Counts(hist, f.knows, f.val)
    BY <1>2, <1>4, EntryFacts DEF IInv, StampsRelease
  <2> HIDE DEF f
  <2>2. f.val \in Messages => f.val \in 0 .. Published /\ f.val < Published'
    BY <1>2, <2>1 DEF Messages
  <2>3. f.val \in Messages => Settled(g, f.knows, s, f.val) /\ Counts(g, f.knows, f.val)
    BY <1>2, <2>1, <2>2, FreshKeeps
  <2> QED BY <1>4, <2>1, <2>2, <2>3 DEF f
<1>5. CASE StampAt(s) \in A /\ g[StampAt(s)][i] = e
  BY <1>5
<1> QED BY <1>3, <1>4, <1>5

LEMMA PartsKept ==
  ASSUME IInv, NEW A \in SUBSET Locations, NEW e \in Entries, Fresh(A, e),
         hist' = Grown(hist, A, e), nextPublish' \in Nat, nextPublish <= nextPublish',
         \A s \in Slots, p \in Parts : PartAt(s, p) \in A /\ e.val \in Messages =>
           e.val <= nextPublish' /\ Excludes(Grown(hist, A, e), e.knows, s, e.val)
  PROVE  PartsFenced'
<1> DEFINE g == Grown(hist, A, e)
<1>1. SUFFICES ASSUME NEW s \in Slots, NEW p \in Parts, NEW i \in 1 .. Len(g[PartAt(s, p)]),
                      g[PartAt(s, p)][i].val \in Messages
      PROVE  LET f == g[PartAt(s, p)][i]
             IN  f.val <= nextPublish' /\ Excludes(g, f.knows, s, f.val)
  BY DEF PartsFenced
<1>2. /\ TypeInv /\ hist \in Histories /\ PartAt(s, p) \in Locations
      /\ nextPublish \in Nat /\ Published \in Nat /\ nextPublish <= Published
  BY PublishedFacts, Places, Facts DEF IInv, TypeInv
<1>3. \/ i \in 1 .. Len(hist[PartAt(s, p)]) /\ g[PartAt(s, p)][i] = hist[PartAt(s, p)][i]
      \/ PartAt(s, p) \in A /\ g[PartAt(s, p)][i] = e
  BY <1>2, OldOrNew
<1>4. CASE i \in 1 .. Len(hist[PartAt(s, p)]) /\ g[PartAt(s, p)][i] = hist[PartAt(s, p)][i]
  <2> DEFINE f == hist[PartAt(s, p)][i]
  <2>1. /\ f.val \in Messages /\ f.knows \in Views
        /\ f.val <= nextPublish /\ Excludes(hist, f.knows, s, f.val)
    BY <1>1, <1>2, <1>4, EntryFacts DEF IInv, PartsFenced
  <2> HIDE DEF f
  <2>2. f.val \in 0 .. Published /\ f.val <= nextPublish'
    BY <1>2, <2>1 DEF Messages
  <2>3. Excludes(g, f.knows, s, f.val)
    BY <1>2, <2>1, <2>2, FreshKeeps
  <2> QED BY <1>4, <2>2, <2>3 DEF f
<1>5. CASE PartAt(s, p) \in A /\ g[PartAt(s, p)][i] = e
  BY <1>1, <1>5
<1> QED BY <1>3, <1>4, <1>5

LEMMA ConsumersKept ==
  ASSUME IInv, NEW A \in SUBSET Locations, NEW e \in Entries, Fresh(A, e),
         hist' = Grown(hist, A, e), UNCHANGED consVars,
         Published' \in Nat, Published <= Published'
  PROVE  \A c \in Consumers : ConsumerInv(c)'
<1> DEFINE g == Grown(hist, A, e)
<1> TAKE c \in Consumers
<1> DEFINE q == next[c]
           s == SlotOf(next[c])
<1>1. /\ TypeInv /\ ConsumerInv(c) /\ q \in Nat /\ s \in Slots /\ Published \in Nat
      /\ seen[c] \in Views /\ AtFence(c) \in Views /\ Capacity \in Nat
  BY PublishedFacts, Facts, JoinFacts DEF IInv, TypeInv, AtFence
<1>2. /\ seen' = seen /\ cpc' = cpc /\ next' = next /\ readSeq' = readSeq
      /\ unread' = unread /\ view' = view /\ AtFence(c)' = AtFence(c)
  BY DEF consVars, AtFence
<1>3. ASSUME cpc[c] \in {"view", "copy", "torn"}
      PROVE  /\ readSeq[c] = q /\ q < Published'
             /\ Counts(g, seen[c], q)
  <2>1. readSeq[c] = q /\ q < Published /\ Counts(hist, seen[c], q)
    BY <1>1, <1>3 DEF ConsumerInv
  <2>2. q \in 0 .. Published /\ q < Published'
    BY <1>1, <2>1
  <2> HIDE DEF q, s, g
  <2> QED BY <1>1, <2>1, <2>2, FreshKeeps DEF g
<1>4. ASSUME cpc[c] = "resync"
      PROVE  q + Capacity < Published' /\ Counts(g, seen[c], q + Capacity)
  <2>1. q + Capacity < Published /\ Counts(hist, seen[c], q + Capacity)
    BY <1>1, <1>4 DEF ConsumerInv
  <2>2. q + Capacity \in 0 .. Published /\ q + Capacity < Published'
    BY <1>1, <2>1
  <2> HIDE DEF q, s, g
  <2> QED BY <1>1, <2>1, <2>2, FreshKeeps DEF g
<1>5. ASSUME cpc[c] \in {"view", "copy"}
      PROVE  /\ Settled(g, seen[c], s, q)
             /\ \A p \in Parts \ unread[c] :
                  view[c][p] = q \/ Excludes(g, AtFence(c), s, q + 1)
  <2>1. /\ q < Published /\ Settled(hist, seen[c], s, q)
        /\ \A p \in Parts \ unread[c] :
             view[c][p] = q \/ Excludes(hist, AtFence(c), s, q + 1)
    BY <1>1, <1>5 DEF ConsumerInv, Reading
  <2>2. q \in 0 .. Published /\ q + 1 \in 0 .. Published
    BY <1>1, <2>1
  <2> HIDE DEF q, s, g
  <2>3. Settled(g, seen[c], s, q)
    BY <1>1, <2>1, <2>2, FreshKeeps DEF g
  <2>4. Excludes(hist, AtFence(c), s, q + 1) => Excludes(g, AtFence(c), s, q + 1)
    BY <1>1, <2>2, FreshKeeps DEF g
  <2> QED BY <2>1, <2>3, <2>4
<1>6. ConsumerInv(c)' =
        /\ cpc[c] \in {"view", "copy"} =>
             /\ Settled(g, seen[c], s, q)
             /\ \A p \in Parts \ unread[c] :
                  view[c][p] = q \/ Excludes(g, AtFence(c), s, q + 1)
        /\ cpc[c] \in {"view", "copy", "torn"} =>
             readSeq[c] = q /\ q < Published' /\ Counts(g, seen[c], q)
        /\ cpc[c] = "resync" => q + Capacity < Published' /\ Counts(g, seen[c], q + Capacity)
  BY <1>2 DEF ConsumerInv, Reading
<1> HIDE DEF g, q, s
<1> QED BY <1>3, <1>4, <1>5, <1>6

LEMMA InitInv == Init => IInv
<1> SUFFICES ASSUME Init PROVE IInv
  OBVIOUS
<1>1. \A a \in Locations :
        /\ hist[a] = <<[val |-> IF a = NextPublish THEN 0 ELSE EmptySeq, knows |-> Oldest]>>
        /\ Len(hist[a]) = 1
        /\ \A i \in 1 .. Len(hist[a]) : i = 1
        /\ hist[a][1].val = IF a = NextPublish THEN 0 ELSE EmptySeq
  BY DEF Init
<1>2. Oldest \in Views /\ 0 \in Stamps /\ EmptySeq \in Stamps /\ 0 \in Seqs
  BY RangeAssumption, Facts DEF Oldest, Views, Seqs, Stamps
<1>3. EmptySeq \notin Messages
  BY Facts DEF Messages
<1>4. hist \in Histories
  <2>1. \A a \in Locations : hist[a] \in Seq(Entries) /\ Len(hist[a]) >= 1
    <3> TAKE a \in Locations
    <3>1. [val |-> IF a = NextPublish THEN 0 ELSE EmptySeq, knows |-> Oldest] \in Entries
      BY <1>2 DEF Entries
    <3> QED BY <1>1, <3>1
  <2>2. hist = [a \in Locations |-> hist[a]]
    BY DEF Init
  <2> QED BY <2>1, <2>2 DEF Histories
<1>5. TypeInv
  BY <1>2, <1>4 DEF Init, TypeInv, Blank
<1>10. \A a \in Locations \ {NextPublish} : \A i \in 1 .. Len(hist[a]) :
         hist[a][i].val = EmptySeq
  <2> TAKE a \in Locations \ {NextPublish}
  <2> TAKE i \in 1 .. Len(hist[a])
  <2>1. i = 1
    BY <1>1
  <2>2. hist[a][1].val = EmptySeq
    BY <1>1
  <2> QED BY <2>1, <2>2
<1>6. StampsRelease
  <2>1. \A s \in Slots : StampAt(s) \in Locations \ {NextPublish}
    BY Places
  <2>2. \A s \in Slots : \A i \in 1 .. Len(hist[StampAt(s)]) :
          hist[StampAt(s)][i].val = EmptySeq
    BY <1>10, <2>1
  <2> QED BY <1>3, <2>2 DEF StampsRelease
<1>7. PartsFenced
  <2>1. \A s \in Slots, p \in Parts : PartAt(s, p) \in Locations \ {NextPublish}
    BY Places
  <2>2. \A s \in Slots, p \in Parts : \A j \in 1 .. Len(hist[PartAt(s, p)]) :
          hist[PartAt(s, p)][j].val = EmptySeq
    BY <1>10, <2>1
  <2> QED BY <1>3, <2>2 DEF PartsFenced
<1>8. CountsCount
  BY <1>1, <1>2, Places DEF CountsCount, Init
<1>9. Writing /\ \A c \in Consumers : ConsumerInv(c)
  BY DEF Init, Writing, ConsumerInv
<1> QED BY <1>5, <1>6, <1>7, <1>8, <1>9 DEF IInv

LEMMA StoreGrows ==
  ASSUME TypeInv, NEW a \in Locations, NEW v, NEW k, Store(a, v, k)
  PROVE  hist' = Grown(hist, {a}, [val |-> v, knows |-> k])
  BY DEF Store, Grown, TypeInv, Histories

\* The view of the producer once it has stored to a.
LEMMA NewestFacts ==
  ASSUME TypeInv, NEW a \in Locations
  PROVE  /\ [Newest EXCEPT ![a] = @ + 1] \in Views
         /\ [Newest EXCEPT ![a] = @ + 1][a] = Len(hist[a]) + 1
         /\ \A b \in Locations \ {a} : [Newest EXCEPT ![a] = @ + 1][b] = Len(hist[b])
  BY EntryFacts DEF TypeInv, Newest, Views

LEMMA MarkKeeps ==
  ASSUME IInv, Mark
  PROVE  IInv'
<1> DEFINE N == nextPublish
           s == SlotOf(nextPublish)
           a == StampAt(s)
           k == [Newest EXCEPT ![a] = @ + 1]
           e == [val |-> WritingSeq, knows |-> k]
           g == Grown(hist, {a}, e)
<1>1. /\ TypeInv /\ N \in Seqs /\ N \in Nat /\ s \in Slots /\ a \in Locations
      /\ hist \in Histories /\ ppc = "idle" /\ N < MaxPublish
  BY Facts, Places DEF IInv, TypeInv, Mark
<1>2. /\ hist' = g /\ fenced' = k /\ ppc' = "write" /\ nextPublish' = N /\ UNCHANGED consVars
  BY <1>1, Facts, StoreGrows DEF Mark, StoreRelease
<1>3. k \in Views /\ k[a] = Len(hist[a]) + 1
  BY <1>1, NewestFacts
<1>4. Published = N /\ Published' = N
  BY <1>1, <1>2 DEF Published
<1> HIDE DEF k
<1>5. e \in Entries /\ e.val = WritingSeq /\ WritingSeq \notin Messages
  BY <1>3, Facts DEF Entries, Messages
<1> HIDE DEF e
<1>6. Fresh({a}, e)
  BY <1>1, <1>5, Places DEF Fresh
<1>7. g \in Histories /\ g[NextPublish] = hist[NextPublish]
      /\ Len(g[a]) = Len(hist[a]) + 1 /\ g[a][Len(hist[a]) + 1] = e
  BY <1>1, <1>5, Places, GrownFacts
<1>8. StampsRelease'
  BY <1>1, <1>2, <1>4, <1>5, <1>6, StampsKept
<1>9. PartsFenced'
  BY <1>1, <1>2, <1>5, <1>6, PartsKept
<1>10. \A c \in Consumers : ConsumerInv(c)'
  BY <1>1, <1>2, <1>4, <1>5, <1>6, ConsumersKept
<1> HIDE DEF g
<1>11. TypeInv'
  BY <1>1, <1>2, <1>3, <1>7 DEF TypeInv, consVars
<1>12. CountsCount'
  BY <1>2, <1>7 DEF IInv, CountsCount
<1>13. Excludes(g, k, s, N)
  <2>1. Len(hist[a]) \in Nat
    BY <1>1, EntryFacts
  <2> QED BY <1>3, <1>5, <1>7, <2>1 DEF Excludes
<1>14. Writing'
  BY <1>2, <1>13 DEF Writing
<1> QED BY <1>8, <1>9, <1>10, <1>11, <1>12, <1>14 DEF IInv

LEMMA WriteKeeps ==
  ASSUME IInv, Write
  PROVE  IInv'
<1> DEFINE N == nextPublish
           s == SlotOf(nextPublish)
           A == {PartAt(s, p) : p \in Parts}
           e == [val |-> N, knows |-> fenced]
           g == Grown(hist, A, e)
<1>1. /\ TypeInv /\ N \in Seqs /\ N \in Stamps /\ N \in Nat /\ s \in Slots
      /\ A \subseteq Locations
      /\ hist \in Histories /\ fenced \in Views /\ ppc = "write" /\ N < MaxPublish
  BY Facts, Places DEF IInv, TypeInv, Write
<1>2. /\ hist' = g /\ ppc' = "stamp" /\ nextPublish' = N /\ fenced' = fenced
      /\ UNCHANGED consVars
  BY Facts DEF Write, Grown
<1>3. Published = N /\ Published' = N
  BY <1>1, <1>2 DEF Published
<1>4. e \in Entries /\ e.val = N /\ e.knows = fenced
  BY <1>1 DEF Entries
<1> HIDE DEF e
<1>5. /\ \A t \in Slots : StampAt(t) \notin A
      /\ NextPublish \notin A
      /\ \A t \in Slots, p \in Parts : PartAt(t, p) \in A => t = s
  BY <1>1, Places
<1>6. \A p \in Parts : PartAt(s, p) \in A
  OBVIOUS
<1> HIDE DEF A
<1>7. Fresh(A, e)
  BY <1>1, <1>3, <1>4, <1>5, Facts DEF Fresh
<1>8. g \in Histories /\ g[NextPublish] = hist[NextPublish]
      /\ \A p \in Parts : g[PartAt(s, p)][Len(g[PartAt(s, p)])] = e
  <2>1. /\ g \in Histories
        /\ \A b \in A : Len(g[b]) = Len(hist[b]) + 1 /\ g[b][Len(hist[b]) + 1] = e
        /\ \A b \in Locations \ A : g[b] = hist[b]
    BY <1>1, <1>4, GrownFacts
  <2> HIDE DEF g
  <2>2. NextPublish \in Locations \ A
    BY <1>5, Places
  <2>3. \A b \in A : g[b][Len(g[b])] = e
    BY <2>1
  <2> QED BY <1>6, <2>1, <2>2, <2>3
<1>9. Excludes(g, fenced, s, N)
  <2>1. Excludes(hist, fenced, s, N) /\ N \in 0 .. Published
    BY <1>1, <1>3 DEF IInv, Writing
  <2> QED BY <1>1, <1>4, <1>7, <2>1, FreshKeeps
<1>10. StampsRelease'
  BY <1>1, <1>2, <1>3, <1>4, <1>5, <1>7, StampsKept
<1>11. PartsFenced'
  <2>1. \A t \in Slots, p \in Parts : PartAt(t, p) \in A /\ e.val \in Messages =>
          e.val <= nextPublish' /\ Excludes(g, e.knows, t, e.val)
    BY <1>1, <1>2, <1>4, <1>5, <1>9
  <2> QED BY <1>1, <1>2, <1>4, <1>7, <2>1, PartsKept
<1>12. \A c \in Consumers : ConsumerInv(c)'
  BY <1>1, <1>2, <1>3, <1>4, <1>7, ConsumersKept
<1> HIDE DEF g
<1>13. TypeInv'
  BY <1>1, <1>2, <1>8 DEF TypeInv, consVars
<1>14. CountsCount'
  BY <1>2, <1>8 DEF IInv, CountsCount
<1>15. Writing'
  BY <1>2, <1>4, <1>8 DEF Writing
<1> QED BY <1>10, <1>11, <1>12, <1>13, <1>14, <1>15 DEF IInv

LEMMA StampKeeps ==
  ASSUME IInv, Stamp
  PROVE  IInv'
<1> DEFINE N == nextPublish
           s == SlotOf(nextPublish)
           a == StampAt(s)
           k == [Newest EXCEPT ![a] = @ + 1]
           e == [val |-> N, knows |-> k]
           g == Grown(hist, {a}, e)
<1>1. /\ TypeInv /\ N \in Seqs /\ N \in Stamps /\ N \in Nat /\ s \in Slots /\ a \in Locations
      /\ hist \in Histories /\ ppc = "stamp" /\ N < MaxPublish /\ N \in Messages
  BY Facts, Places DEF IInv, TypeInv, Stamp, Messages
<1>2. /\ hist' = g /\ ppc' = "advance" /\ nextPublish' = N /\ fenced' = fenced
      /\ UNCHANGED consVars
  BY <1>1, Facts, StoreGrows DEF Stamp, StoreRelease
<1>3. k \in Views /\ k[a] = Len(hist[a]) + 1
      /\ \A b \in Locations \ {a} : k[b] = Len(hist[b])
  BY <1>1, NewestFacts
<1>4. Published = N /\ Published' = N + 1
  BY <1>1, <1>2 DEF Published
<1> HIDE DEF k
<1>5. e \in Entries /\ e.val = N /\ e.knows = k
  BY <1>1, <1>3, Facts DEF Entries
<1> HIDE DEF e
<1>6. Fresh({a}, e)
  BY <1>1, <1>4, <1>5, Places DEF Fresh
<1>7. g \in Histories /\ \A b \in Locations \ {a} : g[b] = hist[b]
  <2>1. {a} \in SUBSET Locations
    BY <1>1
  <2> QED BY <1>1, <1>5, <2>1, GrownFacts
<1>8. Settled(g, k, s, N)
  <2>1. \A p \in Parts :
          /\ g[PartAt(s, p)] = hist[PartAt(s, p)] /\ Len(hist[PartAt(s, p)]) \in Nat
          /\ k[PartAt(s, p)] = Len(hist[PartAt(s, p)])
          /\ hist[PartAt(s, p)][Len(hist[PartAt(s, p)])].val = N
    <3> TAKE p \in Parts
    <3>1. PartAt(s, p) \in Locations \ {a}
      BY <1>1, Places
    <3>2. hist[PartAt(s, p)][Len(hist[PartAt(s, p)])].val = N
      BY <1>1 DEF IInv, Writing
    <3> QED BY <1>1, <1>3, <1>7, <3>1, <3>2, EntryFacts
  <2> HIDE DEF g
  <2> QED BY <1>1, <2>1, Facts DEF Settled
<1>9. Counts(g, k, N)
  <2>1. NextPublish \in Locations \ {a}
    BY <1>1, Places
  <2>2. Len(hist[NextPublish]) \in Nat
    BY <1>1, <2>1, EntryFacts
  <2>3. hist[NextPublish][Len(hist[NextPublish])].val = N
    BY DEF IInv, CountsCount
  <2> HIDE DEF g
  <2> QED BY <1>1, <1>3, <1>7, <2>1, <2>2, <2>3 DEF Counts
<1>10. StampsRelease'
  <2>1. \A t \in Slots : StampAt(t) \in {a} => t = s
    BY Places
  <2>2. \A t \in Slots : StampAt(t) \in {a} =>
           /\ e.val \in Messages \cup {EmptySeq, WritingSeq}
           /\ e.val \in Messages =>
                /\ SlotOf(e.val) = t /\ e.val < Published'
                /\ Settled(g, e.knows, t, e.val) /\ Counts(g, e.knows, e.val)
    BY <1>1, <1>4, <1>5, <1>8, <1>9, <2>1
  <2> QED BY <1>1, <1>2, <1>4, <1>5, <1>6, <2>2, StampsKept
<1>11. PartsFenced'
  <2>1. \A t \in Slots, p \in Parts : PartAt(t, p) \notin {a}
    BY <1>1, Places
  <2> QED BY <1>1, <1>2, <1>5, <1>6, <2>1, PartsKept
<1>12. \A c \in Consumers : ConsumerInv(c)'
  <2>1. {a} \in SUBSET Locations /\ Published' \in Nat /\ Published <= Published'
    BY <1>1, <1>4
  <2> QED BY <1>2, <1>5, <1>6, <2>1, ConsumersKept
<1> HIDE DEF g
<1>13. TypeInv'
  BY <1>1, <1>2, <1>7 DEF TypeInv, consVars
<1>14. CountsCount'
  BY <1>1, <1>2, <1>7, Places DEF IInv, CountsCount
<1>15. Writing'
  BY <1>2 DEF Writing
<1> QED BY <1>10, <1>11, <1>12, <1>13, <1>14, <1>15 DEF IInv

LEMMA AdvanceKeeps ==
  ASSUME IInv, Advance
  PROVE  IInv'
<1> DEFINE N == nextPublish
           a == NextPublish
           e == [val |-> N + 1, knows |-> fenced]
           g == Grown(hist, {a}, e)
<1>1. /\ TypeInv /\ N \in Seqs /\ N \in Nat /\ N + 1 \in Seqs /\ N + 1 \in Stamps
      /\ a \in Locations /\ hist \in Histories /\ fenced \in Views /\ ppc = "advance"
  <2>1. TypeInv /\ ppc = "advance" /\ N \in Seqs /\ N < MaxPublish
    BY DEF IInv, TypeInv, Advance
  <2>2. N + 1 \in Seqs
    BY <2>1, Facts DEF Seqs
  <2> QED BY <2>1, <2>2, Facts, Places DEF TypeInv
<1>2. /\ hist' = g /\ ppc' = "idle" /\ nextPublish' = N + 1 /\ fenced' = fenced
      /\ UNCHANGED consVars
  BY <1>1, StoreGrows DEF Advance
<1>3. Published = N + 1 /\ Published' = N + 1
  BY <1>1, <1>2 DEF Published
<1>4. e \in Entries /\ e.val = N + 1
  BY <1>1 DEF Entries
<1> HIDE DEF e
<1>5. Fresh({a}, e)
  BY <1>1, <1>3, <1>4, Places DEF Fresh
<1>6. g \in Histories /\ Len(g[a]) = Len(hist[a]) + 1 /\ g[a][Len(hist[a]) + 1] = e
  BY <1>1, <1>4, GrownFacts
<1>7. StampsRelease'
  <2>1. \A t \in Slots : StampAt(t) \notin {a}
    BY Places
  <2> QED BY <1>1, <1>2, <1>3, <1>4, <1>5, <2>1, StampsKept
<1>8. PartsFenced'
  <2>1. \A t \in Slots, p \in Parts : PartAt(t, p) \notin {a}
    BY Places
  <2> QED BY <1>1, <1>2, <1>4, <1>5, <2>1, PartsKept
<1>9. \A c \in Consumers : ConsumerInv(c)'
  BY <1>1, <1>2, <1>3, <1>4, <1>5, ConsumersKept
<1>10. CountsCount'
  <2>1. \A j \in 1 .. Len(g[a]) : g[a][j].val \in 0 .. N + 1
    <3> TAKE j \in 1 .. Len(g[a])
    <3>1. \/ j \in 1 .. Len(hist[a]) /\ g[a][j] = hist[a][j]
          \/ g[a][j] = e
      BY <1>1, <1>4, OldOrNew
    <3> HIDE DEF g
    <3> QED BY <1>1, <1>4, <3>1 DEF IInv, CountsCount
  <2>2. g[a][Len(g[a])].val = N + 1
    BY <1>4, <1>6
  <2> QED BY <1>2, <2>1, <2>2 DEF CountsCount
<1> HIDE DEF g
<1>11. TypeInv'
  BY <1>1, <1>2, <1>6 DEF TypeInv, consVars
<1>12. Writing'
  BY <1>2 DEF Writing
<1> QED BY <1>7, <1>8, <1>9, <1>10, <1>11, <1>12 DEF IInv

----------------------------------------------------------------------------
(* The consumers. *)

\* Nothing changes but what belongs to consumer c.
OnlyMoves(c) ==
  /\ UNCHANGED prodVars
  /\ \A d \in Consumers \ {c} :
       /\ seen'[d] = seen[d] /\ pending'[d] = pending[d] /\ cpc'[d] = cpc[d]
       /\ next'[d] = next[d] /\ readSeq'[d] = readSeq[d]
       /\ unread'[d] = unread[d] /\ view'[d] = view[d]

LEMMA ConsumerMoves ==
  ASSUME IInv, NEW c \in Consumers, OnlyMoves(c), TypeInv', ConsumerInv(c)'
  PROVE  IInv'
<1>1. hist' = hist /\ fenced' = fenced /\ nextPublish' = nextPublish /\ ppc' = ppc
  BY DEF OnlyMoves, prodVars
<1>2. Published' = Published
  BY <1>1 DEF Published
<1>3. StampsRelease' /\ PartsFenced' /\ CountsCount' /\ Writing'
  BY <1>1, <1>2 DEF IInv, StampsRelease, PartsFenced, CountsCount, Writing
<1>4. ASSUME NEW d \in Consumers \ {c}
      PROVE  ConsumerInv(d)'
  <2>1. ConsumerInv(d)
    BY DEF IInv
  <2>2. /\ seen'[d] = seen[d] /\ pending'[d] = pending[d] /\ cpc'[d] = cpc[d]
        /\ next'[d] = next[d] /\ readSeq'[d] = readSeq[d]
        /\ unread'[d] = unread[d] /\ view'[d] = view[d]
    BY DEF OnlyMoves
  <2>3. AtFence(d)' = AtFence(d)
    BY <2>2 DEF AtFence
  <2> QED BY <1>1, <1>2, <2>1, <2>2, <2>3 DEF ConsumerInv, Reading
<1> QED BY <1>3, <1>4 DEF IInv

\* An acquire load gives the loader what the store released.
LEMMA AcquireFacts ==
  ASSUME TypeInv, NEW c \in Consumers, NEW a \in Locations,
         NEW i \in Readable(seen[c], a), LoadAcquire(c, a, i)
  PROVE  /\ seen' \in [Consumers -> Views] /\ pending' = pending
         /\ NotBefore(seen'[c], hist[a][i].knows)
         /\ \A d \in Consumers \ {c} : seen'[d] = seen[d]
         /\ i \in 1 .. Len(hist[a]) /\ hist[a][i].knows \in Views
<1>1. seen[c] \in Views /\ seen[c][a] \in Nat /\ seen[c][a] >= 1 /\ hist \in Histories
  BY ViewFacts DEF TypeInv
<1>2. Len(hist[a]) \in Nat
  BY <1>1, EntryFacts
<1>3. i \in 1 .. Len(hist[a]) /\ i \in Nat /\ seen[c][a] <= i
  BY <1>1, <1>2 DEF Readable
<1>4. hist[a][i].knows \in Views
  BY <1>1, <1>3, EntryFacts
<1>5. [seen[c] EXCEPT ![a] = i] \in Views
  BY <1>1, <1>3, LoadFacts
<1> DEFINE v == Join([seen[c] EXCEPT ![a] = i], hist[a][i].knows)
<1>6. v \in Views /\ NotBefore(v, hist[a][i].knows)
  BY <1>4, <1>5, JoinFacts
<1>7. seen' = [seen EXCEPT ![c] = v] /\ pending' = pending
  BY DEF LoadAcquire
<1> HIDE DEF v
<1> QED BY <1>3, <1>4, <1>6, <1>7 DEF TypeInv

LEMMA PollKeeps ==
  ASSUME IInv, NEW c \in Consumers, Poll(c)
  PROVE  IInv'
<1> DEFINE q == next[c]
           s == SlotOf(next[c])
           a == StampAt(s)
<1>1. /\ TypeInv /\ q \in Seqs /\ q \in Nat /\ s \in Slots /\ a \in Locations
      /\ hist \in Histories /\ cpc[c] = "poll" /\ Capacity \in Nat
  BY Facts, Places DEF IInv, TypeInv, Poll
<1>2. PICK i \in Readable(seen[c], a) :
        LET status == ReadStatus(hist[a][i].val, q)
        IN  /\ LoadAcquire(c, a, i)
            /\ \E mode \in {"view", "copy"} :
                 cpc' = [cpc EXCEPT ![c] = CASE status = "ok"     -> mode
                                             [] status = "empty"  -> "poll"
                                             [] status = "lapped" -> "resync"]
            /\ readSeq' = [readSeq EXCEPT ![c] = IF status = "ok" THEN q ELSE @]
            /\ unread' = [unread EXCEPT ![c] = IF status = "ok" THEN Parts ELSE {}]
  BY Facts DEF Poll
<1> DEFINE e == hist[a][i]
           m == hist[a][i].val
           status == ReadStatus(m, q)
<1>3. /\ seen' \in [Consumers -> Views] /\ pending' = pending /\ e.knows \in Views
      /\ NotBefore(seen'[c], e.knows) /\ seen'[c] \in Views
      /\ \A d \in Consumers \ {c} : seen'[d] = seen[d]
      /\ i \in 1 .. Len(hist[a])
  BY <1>1, <1>2, AcquireFacts
<1>4. /\ m \in Messages \cup {EmptySeq, WritingSeq}
      /\ m \in Messages =>
           /\ SlotOf(m) = s /\ m < Published
           /\ Settled(hist, e.knows, s, m) /\ Counts(hist, e.knows, m)
  BY <1>1, <1>3 DEF IInv, StampsRelease
<1>5. status \in {"ok", "empty", "lapped"}
  BY DEF ReadStatus
<1>6. /\ next' = next /\ view' = [view EXCEPT ![c] = Blank] /\ UNCHANGED prodVars
      /\ hist' = hist /\ Published' = Published
  BY DEF Poll, prodVars, Published
<1>7. status = "ok" => m = q
  BY DEF ReadStatus
<1>8. status = "lapped" => m \in Messages /\ q < m
  BY <1>1, <1>4, Facts DEF ReadStatus, Messages
<1> HIDE DEF status, m, e
<1>9. PICK mode \in {"view", "copy"} :
        cpc' = [cpc EXCEPT ![c] = CASE status = "ok"     -> mode
                                    [] status = "empty"  -> "poll"
                                    [] status = "lapped" -> "resync"]
  BY <1>2 DEF status, m
<1>10. /\ readSeq' = [readSeq EXCEPT ![c] = IF status = "ok" THEN q ELSE @]
       /\ unread' = [unread EXCEPT ![c] = IF status = "ok" THEN Parts ELSE {}]
  BY <1>2 DEF status, m
<1> HIDE DEF q, s, a
<1>11. /\ status = "ok" => cpc'[c] = mode
       /\ status = "empty" => cpc'[c] = "poll"
       /\ status = "lapped" => cpc'[c] = "resync"
       /\ cpc' \in [Consumers -> {"poll", "view", "copy", "torn", "resync"}]
       /\ \A d \in Consumers \ {c} : cpc'[d] = cpc[d]
  BY <1>1, <1>5, <1>9 DEF TypeInv
<1>12. OnlyMoves(c)
  BY <1>3, <1>6, <1>10, <1>11 DEF OnlyMoves, IInv, TypeInv
<1>13. TypeInv'
  <2>1. Blank \in [Parts -> Stamps]
    BY Facts DEF Blank
  <2>2. view' \in [Consumers -> [Parts -> Stamps]] /\ unread' \in [Consumers -> SUBSET Parts]
        /\ readSeq' \in [Consumers -> Seqs] /\ next' \in [Consumers -> Seqs]
    BY <1>1, <1>6, <1>10, <2>1 DEF TypeInv
  <2> QED BY <1>1, <1>3, <1>6, <1>11, <2>2 DEF TypeInv, prodVars
<1>14. ConsumerInv(c)'
  <2>0. next'[c] = q /\ SlotOf(q) = s
    BY <1>6 DEF q, s
  <2>1. CASE status = "ok"
    <3>1. m \in Messages /\ m = q
      BY <1>1, <1>4, <1>7, <2>1, Facts DEF Seqs, Messages
    <3>2. Settled(hist, seen'[c], s, q) /\ Counts(hist, seen'[c], q) /\ q < Published
      BY <1>1, <1>3, <1>4, <3>1, KnowsMore
    <3>3. unread'[c] = Parts /\ readSeq'[c] = q /\ cpc'[c] \in {"view", "copy"}
      BY <1>1, <1>10, <1>11, <2>1 DEF TypeInv
    <3> QED BY <1>6, <2>0, <3>2, <3>3 DEF ConsumerInv, Reading
  <2>2. CASE status = "empty"
    BY <1>11, <2>2 DEF ConsumerInv
  <2>3. CASE status = "lapped"
    <3>1. m \in Messages /\ q < m /\ m \in Nat
      BY <1>8, <2>3 DEF Messages
    <3>2. q + Capacity <= m /\ q + Capacity \in Nat
      BY <1>1, <1>4, <2>0, <3>1, LapApart
    <3>3. Counts(hist, seen'[c], q + Capacity)
      BY <1>1, <1>3, <1>4, <3>1, <3>2, KnowsMore
    <3>4. q + Capacity < Published
      <4>1. Published \in Nat /\ m < Published
        BY <1>1, <1>4, <3>1, PublishedFacts, Facts
      <4> QED BY <3>1, <3>2, <4>1
    <3> QED BY <1>6, <1>11, <2>0, <2>3, <3>3, <3>4 DEF ConsumerInv
  <2> QED BY <1>5, <2>1, <2>2, <2>3
<1> QED BY <1>12, <1>13, <1>14, ConsumerMoves

LEMMA ReadPartKeeps ==
  ASSUME IInv, NEW c \in Consumers, NEW p \in Parts, ReadPart(c, p)
  PROVE  IInv'
<1> DEFINE q == next[c]
           s == SlotOf(next[c])
           a == PartAt(s, p)
<1>1. /\ TypeInv /\ ConsumerInv(c) /\ cpc[c] \in {"view", "copy"} /\ Reading(c)
      /\ readSeq[c] = q /\ q \in Nat /\ s \in Slots /\ a \in Locations
      /\ hist \in Histories /\ seen[c] \in Views /\ pending[c] \in Views /\ p \in unread[c]
      /\ q < Published /\ Counts(hist, seen[c], q)
  BY Facts, Places DEF IInv, TypeInv, ReadPart, ConsumerInv
<1>2. PICK i \in Readable(seen[c], a) :
        LoadRelaxed(c, a, i) /\ view' = [view EXCEPT ![c][p] = hist[a][i].val]
  BY <1>1, Facts DEF ReadPart
<1> DEFINE m == hist[a][i].val
           k == hist[a][i].knows
           v == [seen[c] EXCEPT ![a] = i]
           w == Join(pending[c], k)
<1>3. i \in seen[c][a] .. Len(hist[a]) /\ i \in 1 .. Len(hist[a])
      /\ i \in Nat /\ seen[c][a] <= i
  <2>1. seen[c][a] \in Nat /\ seen[c][a] >= 1 /\ Len(hist[a]) \in Nat
    BY <1>1, ViewFacts, EntryFacts
  <2> QED BY <2>1 DEF Readable
<1>4. m \in Stamps /\ k \in Views
  BY <1>1, <1>3, EntryFacts
<1>5. m \in q .. MaxPublish - 1
  BY <1>1, <1>3 DEF Reading, Settled
<1>6. m \in Messages => Excludes(hist, k, s, m)
  BY <1>1, <1>3 DEF IInv, PartsFenced
<1>7. v \in Views /\ NotBefore(v, seen[c])
  BY <1>1, <1>3, LoadFacts
<1>8. w \in Views /\ NotBefore(w, pending[c]) /\ NotBefore(w, k)
  BY <1>1, <1>4, JoinFacts
<1>9. /\ seen' = [seen EXCEPT ![c] = v] /\ pending' = [pending EXCEPT ![c] = w]
      /\ view' = [view EXCEPT ![c][p] = m] /\ unread' = [unread EXCEPT ![c] = @ \ {p}]
      /\ cpc' = cpc /\ next' = next /\ readSeq' = readSeq /\ UNCHANGED prodVars
      /\ hist' = hist /\ Published' = Published
  BY <1>2 DEF ReadPart, LoadRelaxed, prodVars, Published
<1> HIDE DEF v, w, k, m, a, q, s
<1>10. /\ seen'[c] = v /\ pending'[c] = w /\ view'[c] = [view[c] EXCEPT ![p] = m]
       /\ unread'[c] = unread[c] \ {p}
  BY <1>1, <1>9 DEF TypeInv
<1>11. OnlyMoves(c) /\ TypeInv'
  <2>1. OnlyMoves(c)
    BY <1>1, <1>9 DEF OnlyMoves, TypeInv
  <2>2. /\ seen' \in [Consumers -> Views] /\ pending' \in [Consumers -> Views]
        /\ unread' \in [Consumers -> SUBSET Parts]
        /\ view' \in [Consumers -> [Parts -> Stamps]]
    BY <1>1, <1>4, <1>7, <1>8, <1>9 DEF TypeInv
  <2> QED BY <1>1, <1>9, <2>1, <2>2 DEF TypeInv, prodVars
<1>12. /\ AtFence(c)' = Join(v, w) /\ AtFence(c) = Join(seen[c], pending[c])
       /\ AtFence(c) \in Views /\ Join(v, w) \in Views
       /\ NotBefore(Join(v, w), AtFence(c)) /\ NotBefore(Join(v, w), k)
  <2>1. AtFence(c)' = Join(v, w) /\ AtFence(c) = Join(seen[c], pending[c])
    BY <1>10 DEF AtFence
  <2>2. /\ AtFence(c) \in Views /\ Join(v, w) \in Views
        /\ NotBefore(Join(v, w), v) /\ NotBefore(Join(v, w), w)
    BY <1>1, <1>7, <1>8, <2>1, JoinFacts
  <2>3. NotBefore(Join(v, w), k)
    BY <1>4, <1>8, <2>2, NotBeforeTransitive
  <2>4. NotBefore(Join(v, w), seen[c]) /\ NotBefore(Join(v, w), pending[c])
    BY <1>1, <1>7, <1>8, <2>2, NotBeforeTransitive
  <2>5. NotBefore(Join(v, w), Join(seen[c], pending[c]))
    BY <2>4 DEF NotBefore, Join
  <2> QED BY <2>1, <2>2, <2>3, <2>5
<1>13. /\ Settled(hist, v, s, q) /\ Counts(hist, v, q)
  BY <1>1, <1>7, KnowsMore DEF Reading, q, s
<1>14. \A r \in Parts \ unread'[c] :
         view'[c][r] = q \/ Excludes(hist, Join(v, w), s, q + 1)
  <2> TAKE r \in Parts \ unread'[c]
  <2>1. CASE r = p
    <3>1. view'[c][p] = m
      BY <1>1, <1>10 DEF TypeInv
    <3>2. CASE m # q
      <4>1. m \in Messages /\ m \in Nat /\ q + 1 <= m /\ q + 1 \in Nat
        BY <1>1, <1>5, <3>2, Facts DEF Messages
      <4>2. Excludes(hist, Join(v, w), s, q + 1)
        BY <1>1, <1>4, <1>6, <1>12, <4>1, KnowsMore
      <4> QED BY <4>2
    <3> QED BY <2>1, <3>1, <3>2
  <2>2. CASE r # p
    <3>1. view'[c][r] = view[c][r] /\ r \in Parts \ unread[c]
      BY <1>1, <1>10, <2>2 DEF TypeInv
    <3>2. view[c][r] = q \/ Excludes(hist, AtFence(c), s, q + 1)
      BY <1>1, <3>1 DEF Reading, q, s
    <3>3. q + 1 \in Nat
      BY <1>1
    <3>4. Excludes(hist, AtFence(c), s, q + 1) => Excludes(hist, Join(v, w), s, q + 1)
      BY <1>1, <1>12, <3>3, KnowsMore
    <3> QED BY <3>1, <3>2, <3>4
  <2> QED BY <2>1, <2>2
<1>15. ConsumerInv(c)'
  <2>1. next'[c] = q /\ SlotOf(q) = s /\ cpc'[c] = cpc[c] /\ readSeq'[c] = q
    BY <1>1, <1>9 DEF q, s
  <2> QED BY <1>1, <1>9, <1>10, <1>12, <1>13, <1>14, <2>1 DEF ConsumerInv, Reading
<1> QED BY <1>11, <1>15, ConsumerMoves

LEMMA ValidateKeeps ==
  ASSUME IInv, NEW c \in Consumers, Validate(c)
  PROVE  IInv'
<1> DEFINE q == next[c]
           a == StampAt(SlotOf(next[c]))
           u == AtFence(c)
<1>1. /\ TypeInv /\ cpc[c] \in {"view", "copy"} /\ readSeq[c] = q /\ q \in Nat
      /\ a \in Locations /\ hist \in Histories /\ seen[c] \in Views /\ pending[c] \in Views
      /\ q < Published /\ Counts(hist, seen[c], q)
  BY Facts, Places DEF IInv, TypeInv, Validate, ConsumerInv
<1>2. u \in Views /\ NotBefore(u, seen[c])
  BY <1>1, JoinFacts DEF AtFence
<1> HIDE DEF u
<1>3. PICK i \in Readable(u, a) :
        /\ seen' = [seen EXCEPT ![c] = [u EXCEPT ![a] = i]]
        /\ pending' = [pending EXCEPT ![c] = hist[a][i].knows]
        /\ IF hist[a][i].val = q
             THEN /\ next' = [next EXCEPT ![c] = q + 1]
                  /\ cpc' = [cpc EXCEPT ![c] = "poll"]
             ELSE /\ cpc' = [cpc EXCEPT ![c] = IF @ = "copy" THEN "torn" ELSE "poll"]
                  /\ UNCHANGED next
  BY <1>1, Facts DEF Validate, Revalidation, u
<1> DEFINE v == [u EXCEPT ![a] = i]
           k == hist[a][i].knows
<1>4. i \in 1 .. Len(hist[a]) /\ i \in Nat /\ u[a] <= i
  <2>1. u[a] \in Nat /\ u[a] >= 1 /\ Len(hist[a]) \in Nat
    BY <1>1, <1>2, ViewFacts, EntryFacts
  <2> QED BY <2>1 DEF Readable
<1>5. v \in Views /\ NotBefore(v, seen[c]) /\ k \in Views
  <2>1. v \in Views /\ NotBefore(v, u)
    BY <1>1, <1>2, <1>4, LoadFacts
  <2>2. k \in Views
    BY <1>1, <1>4, EntryFacts
  <2> QED BY <1>1, <1>2, <2>1, <2>2, NotBeforeTransitive
<1>6. /\ view' = [view EXCEPT ![c] = Blank] /\ readSeq' = readSeq /\ unread' = unread
      /\ UNCHANGED prodVars /\ hist' = hist /\ Published' = Published
  BY DEF Validate, prodVars, Published
<1>7. q + 1 \in Seqs
  BY <1>1, PublishedFacts, Facts DEF Seqs
<1> HIDE DEF v, k, a
<1>8. seen' = [seen EXCEPT ![c] = v] /\ pending' = [pending EXCEPT ![c] = k]
  BY <1>3 DEF v, k
<1>9. /\ cpc'[c] \in {"poll", "torn"}
      /\ cpc' \in [Consumers -> {"poll", "view", "copy", "torn", "resync"}]
      /\ next' \in [Consumers -> Seqs]
      /\ cpc'[c] = "torn" => next'[c] = q
      /\ \A d \in Consumers \ {c} : cpc'[d] = cpc[d] /\ next'[d] = next[d]
  BY <1>1, <1>3, <1>7 DEF TypeInv, q
<1>10. OnlyMoves(c)
  BY <1>1, <1>6, <1>8, <1>9 DEF OnlyMoves, TypeInv
<1>11. TypeInv'
  <2>1. Blank \in [Parts -> Stamps]
    BY Facts DEF Blank
  <2>2. /\ seen' \in [Consumers -> Views] /\ pending' \in [Consumers -> Views]
        /\ view' \in [Consumers -> [Parts -> Stamps]]
    BY <1>1, <1>5, <1>6, <1>8, <2>1 DEF TypeInv
  <2> QED BY <1>1, <1>6, <1>9, <2>2 DEF TypeInv, prodVars
<1>12. ConsumerInv(c)'
  <2>1. Counts(hist, v, q)
    <3>1. SlotOf(q) \in Slots
      BY <1>1, SlotType
    <3> QED BY <1>1, <1>5, <3>1, KnowsMore
  <2>2. seen'[c] = v /\ readSeq'[c] = q
    BY <1>1, <1>6, <1>8 DEF TypeInv
  <2> QED BY <1>1, <1>6, <1>9, <2>1, <2>2 DEF ConsumerInv
<1> QED BY <1>10, <1>11, <1>12, ConsumerMoves

\* What resync() may read as produced().
LEMMA ResyncCount ==
  ASSUME IInv, NEW c \in Consumers, NEW i \in Readable(seen[c], NextPublish)
  PROVE  /\ hist[NextPublish][i].val \in Seqs /\ hist[NextPublish][i].val <= nextPublish
         /\ ResyncTarget(hist[NextPublish][i].val) \in Seqs
         /\ \A q \in Nat : Counts(hist, seen[c], q) => hist[NextPublish][i].val >= q
<1>1. /\ seen[c][NextPublish] \in Nat /\ seen[c][NextPublish] >= 1
      /\ Len(hist[NextPublish]) \in Nat
  BY ViewFacts, EntryFacts, Places DEF IInv, TypeInv
<1>2. i \in 1 .. Len(hist[NextPublish]) /\ i \in seen[c][NextPublish] .. Len(hist[NextPublish])
  BY <1>1 DEF Readable
<1>3. hist[NextPublish][i].val \in Seqs /\ hist[NextPublish][i].val <= nextPublish
  <2>1. hist[NextPublish][i].val \in 0 .. nextPublish
    BY <1>2 DEF IInv, CountsCount
  <2>2. nextPublish \in Seqs
    BY DEF IInv, TypeInv
  <2> QED BY <2>1, <2>2, Facts DEF Seqs
<1>4. ResyncTarget(hist[NextPublish][i].val) \in Seqs
  BY <1>3, Facts DEF ResyncTarget, Seqs
<1> QED BY <1>2, <1>3, <1>4 DEF Counts

LEMMA ResyncKeeps ==
  ASSUME IInv, NEW c \in Consumers, Resync(c)
  PROVE  IInv'
<1> DEFINE a == NextPublish
<1>1. PICK i \in Readable(seen[c], a) :
        LoadAcquire(c, a, i) /\ next' = [next EXCEPT ![c] = ResyncTarget(hist[a][i].val)]
  BY DEF Resync
<1>2. TypeInv /\ a \in Locations
  BY Places DEF IInv
<1>3. /\ seen' \in [Consumers -> Views] /\ pending' = pending
      /\ \A d \in Consumers \ {c} : seen'[d] = seen[d]
  BY <1>1, <1>2, AcquireFacts
<1>4. ResyncTarget(hist[a][i].val) \in Seqs
  BY ResyncCount
<1>5. /\ cpc' = [cpc EXCEPT ![c] = "poll"] /\ readSeq' = readSeq /\ unread' = unread
      /\ view' = view /\ UNCHANGED prodVars
  BY DEF Resync
<1>6. OnlyMoves(c)
  BY <1>1, <1>2, <1>3, <1>5 DEF OnlyMoves, TypeInv
<1>7. TypeInv'
  BY <1>1, <1>2, <1>3, <1>4, <1>5 DEF TypeInv, prodVars
<1>8. ConsumerInv(c)'
  BY <1>2, <1>5 DEF ConsumerInv, TypeInv
<1> QED BY <1>6, <1>7, <1>8, ConsumerMoves

----------------------------------------------------------------------------
(* The theorems. *)

LEMMA StepInv == IInv /\ [Next]_vars => IInv'
<1> SUFFICES ASSUME IInv, [Next]_vars PROVE IInv'
  OBVIOUS
<1>1. CASE Mark
  BY <1>1, MarkKeeps
<1>2. CASE Write
  BY <1>2, WriteKeeps
<1>3. CASE Stamp
  BY <1>3, StampKeeps
<1>4. CASE Advance
  BY <1>4, AdvanceKeeps
<1>5. ASSUME NEW c \in Consumers, ConsumerStep(c)
      PROVE  IInv'
  <2>1. CASE Poll(c)
    BY <2>1, PollKeeps
  <2>2. ASSUME NEW p \in Parts, ReadPart(c, p) PROVE IInv'
    BY <2>2, ReadPartKeeps
  <2>3. CASE Validate(c)
    BY <2>3, ValidateKeeps
  <2>4. CASE Resync(c)
    BY <2>4, ResyncKeeps
  <2> QED BY <1>5, <2>1, <2>2, <2>3, <2>4 DEF ConsumerStep
<1>6. CASE UNCHANGED vars
  <2>1. UNCHANGED <<hist, fenced, nextPublish, ppc, seen, pending, cpc, next, readSeq, unread, view>>
    BY <1>6 DEF vars, prodVars, consVars
  <2> QED BY <2>1 DEF IInv, TypeInv, StampsRelease, PartsFenced, CountsCount, Writing,
                      ConsumerInv, Reading, Published, AtFence
<1> QED BY <1>1, <1>2, <1>3, <1>4, <1>5, <1>6 DEF Next

LEMMA WholeFromInv == IInv => ValidViewIsWhole
<1> SUFFICES ASSUME IInv, NEW c \in Consumers, cpc[c] \in {"view", "copy"},
                    NEW i \in Revalidation(c), hist[StampOf(readSeq[c])][i].val = readSeq[c],
                    NEW p \in Parts \ unread[c]
             PROVE  view[c][p] = readSeq[c]
  BY DEF ValidViewIsWhole
<1> DEFINE q == next[c]
           a == StampAt(SlotOf(next[c]))
<1>1. /\ readSeq[c] = q /\ q < Published /\ Reading(c) /\ q \in Nat /\ q \in Messages
      /\ Published \in Nat
  <2>1. /\ TypeInv /\ q \in Nat /\ readSeq[c] = q /\ q < Published /\ Reading(c)
    BY Facts DEF IInv, TypeInv, ConsumerInv
  <2>2. Published \in 0 .. MaxPublish /\ MaxPublish \in Nat
    BY <2>1, PublishedFacts, Facts DEF Seqs
  <2> QED BY <2>1, <2>2 DEF Messages
<1>2. i \in AtFence(c)[a] .. Len(hist[a]) /\ hist[a][i].val = q
  BY <1>1, Facts DEF Revalidation, Readable
<1>3. ~ Excludes(hist, AtFence(c), SlotOf(q), q + 1)
  BY <1>1, <1>2 DEF Excludes
<1> QED BY <1>1, <1>3 DEF Reading

\* For every ring, number of parts and consumers: on any hardware that the C++
\* memory model allows, validate() cannot answer true for a view of which a byte
\* belongs to another message (ring.hpp publish(), do_read(), validate()).
THEOREM WholeOnAnyHardware == Spec => []ValidViewIsWhole
<1>1. Spec => []IInv
  BY InitInv, StepInv, PTL DEF Spec
<1> QED BY <1>1, WholeFromInv, PTL

LEMMA FallsBackStep ==
  ASSUME IInv, [Next]_vars, NEW c \in Consumers, next'[c] < next[c]
  PROVE  cpc[c] = "torn" /\ next[c] - next'[c] <= Capacity
<1>1. TypeInv /\ next[c] \in Nat /\ Capacity \in Nat /\ ConsumerInv(c)
  BY Facts DEF IInv, TypeInv
<1>2. CASE UNCHANGED next
  BY <1>1, <1>2
<1>3. ASSUME NEW d \in Consumers, Validate(d)
      PROVE  FALSE
  <2>1. readSeq[d] = next[d]
    BY <1>3 DEF IInv, ConsumerInv, Validate
  <2> QED BY <1>1, <1>3, <2>1 DEF Validate, TypeInv
<1>4. ASSUME NEW d \in Consumers, Resync(d)
      PROVE  cpc[c] = "torn" /\ next[c] - next'[c] <= Capacity
  <2>1. PICK i \in Readable(seen[d], NextPublish) :
          next' = [next EXCEPT ![d] = ResyncTarget(hist[NextPublish][i].val)]
    BY <1>4 DEF Resync
  <2> DEFINE m == hist[NextPublish][i].val
  <2>2. m \in Nat /\ \A q \in Nat : Counts(hist, seen[d], q) => m >= q
    BY ResyncCount, Facts
  <2> HIDE DEF m
  <2>3. d = c /\ next'[c] = ResyncTarget(m)
    BY <1>1, <2>1 DEF TypeInv, m
  <2>4. cpc[c] \in {"torn", "resync"}
    BY <1>4, <2>3 DEF Resync
  <2>5. CASE cpc[c] = "resync"
    <3>1. m >= next[c] + Capacity
      BY <1>1, <2>2, <2>3, <2>5 DEF ConsumerInv
    <3> QED BY <1>1, <2>2, <2>3, <3>1 DEF ResyncTarget
  <2>6. CASE cpc[c] = "torn"
    <3>1. m >= next[c]
      BY <1>1, <2>2, <2>3, <2>6 DEF ConsumerInv
    <3> QED BY <1>1, <2>2, <2>3, <2>6, <3>1 DEF ResyncTarget
  <2> QED BY <2>4, <2>5, <2>6
<1>5. ~ UNCHANGED next => \E d \in Consumers : Validate(d) \/ Resync(d)
  BY DEF Next, ConsumerStep, Mark, Write, Stamp, Advance, Poll, ReadPart, consVars, vars
<1> QED BY <1>2, <1>3, <1>4, <1>5

\* Whatever the hardware, only a torn read_copy() can send a consumer back, and
\* by a lap at most (ring.hpp resync(), produced()).
THEOREM BackByALapAtMost == Spec => FallsBackOnlyWhenTorn
<1>1. IInv /\ [Next]_vars =>
        [\A c \in Consumers : next'[c] < next[c] =>
           cpc[c] = "torn" /\ next[c] - next'[c] <= Capacity]_vars
  BY FallsBackStep
<1>2. Spec => []IInv
  BY InitInv, StepInv, PTL DEF Spec
<1> QED BY <1>1, <1>2, PTL DEF Spec, FallsBackOnlyWhenTorn

----------------------------------------------------------------------------
(* WeakOverwriteRing implements StaleFanout.  A consumer that falls back    *)
(* has seen its stamp superseded, so what it wants is a lap behind.         *)

\* A stamp with a store after it is a lap old.
Superseded ==
  \A s \in Slots : \A i, j \in 1 .. Len(hist[StampAt(s)]) :
    i < j /\ hist[StampAt(s)][i].val \in Messages =>
      hist[StampAt(s)][i].val + Capacity <= Published

\* A consumer in a view has seen the stamp of its message.
StampSeen(c) ==
  LET a == StampAt(SlotOf(next[c]))
  IN  \E i \in 1 .. Len(hist[a]) : i <= seen[c][a] /\ hist[a][i].val = next[c]

Behind(c) ==
  /\ cpc[c] \in {"view", "copy"} => StampSeen(c)
  /\ cpc[c] = "torn" => next[c] + Capacity <= Published

LapInv == Superseded /\ \A c \in Consumers : Behind(c)

LEMMA OldEntry ==
  ASSUME NEW h \in Histories, NEW A \in SUBSET Locations, NEW e \in Entries,
         NEW a \in Locations, NEW i \in 1 .. Len(h[a])
  PROVE  i \in 1 .. Len(Grown(h, A, e)[a]) /\ Grown(h, A, e)[a][i] = h[a][i]
<1>1. h[a] \in Seq(Entries)
  BY DEF Histories
<1>2. CASE a \in A
  <2>1. Grown(h, A, e)[a] = Append(h[a], e)
    BY <1>2 DEF Grown
  <2>2. Len(h[a]) \in Nat
    BY <1>1
  <2> QED BY <1>1, <2>1, <2>2, AppendFacts
<1>3. CASE a \notin A
  BY <1>3 DEF Grown
<1> QED BY <1>2, <1>3

\* A store, to a stamp only that of the message under way.
LEMMA StoreKeepsLapInv ==
  ASSUME IInv, LapInv, NEW A \in SUBSET Locations, NEW e \in Entries,
         hist' = Grown(hist, A, e), UNCHANGED consVars,
         Published' \in Nat, Published <= Published',
         \A s \in Slots : StampAt(s) \in A =>
           Published = nextPublish /\ s = SlotOf(nextPublish)
  PROVE  LapInv'
<1>0. /\ TypeInv /\ hist \in Histories /\ Published \in Nat /\ Capacity \in Nat
      /\ nextPublish \in Nat
  BY PublishedFacts, Facts DEF IInv, TypeInv
<1>1. Superseded'
  <2>1. SUFFICES ASSUME NEW s \in Slots, NEW i \in 1 .. Len(hist'[StampAt(s)]),
                        NEW j \in 1 .. Len(hist'[StampAt(s)]), i < j,
                        hist'[StampAt(s)][i].val \in Messages
        PROVE  hist'[StampAt(s)][i].val + Capacity <= Published'
    BY DEF Superseded
  <2> DEFINE a == StampAt(s)
             m == hist[StampAt(s)][i].val
  <2>2. a \in Locations /\ Len(hist[a]) \in Nat
    BY <1>0, Places, EntryFacts
  <2>3. \/ a \in A /\ Len(hist'[a]) = Len(hist[a]) + 1
        \/ Len(hist'[a]) = Len(hist[a])
    BY <1>0, <2>2, GrownFacts
  <2>4. i \in 1 .. Len(hist[a])
    BY <2>1, <2>2, <2>3
  <2>5. hist'[a][i] = hist[a][i]
    BY <1>0, <2>2, <2>4, OldEntry
  <2>6. m \in Messages /\ m \in Nat /\ SlotOf(m) = s /\ m < Published
    <3>1. m \in Messages
      BY <2>1, <2>5
    <3> QED BY <2>4, <3>1 DEF IInv, StampsRelease, Messages
  <2>7. CASE j \in 1 .. Len(hist[a])
    <3>1. m + Capacity <= Published
      BY <2>1, <2>4, <2>6, <2>7 DEF LapInv, Superseded
    <3> QED BY <1>0, <2>5, <2>6, <3>1
  <2>8. CASE j \notin 1 .. Len(hist[a])
    <3>1. a \in A
      BY <2>1, <2>2, <2>3, <2>8
    <3>2. SlotOf(m) = SlotOf(nextPublish) /\ m < nextPublish /\ nextPublish = Published
      BY <2>6, <3>1
    <3>3. m + Capacity <= Published
      BY <1>0, <2>6, <3>2, LapApart
    <3> QED BY <1>0, <2>5, <2>6, <3>3
  <2> QED BY <2>7, <2>8
<1>2. ASSUME NEW c \in Consumers
      PROVE  Behind(c)'
  <2>1. /\ seen' = seen /\ cpc' = cpc /\ next' = next /\ Behind(c)
        /\ next[c] \in Nat /\ SlotOf(next[c]) \in Slots
    BY <1>0, Facts DEF consVars, LapInv, TypeInv
  <2> DEFINE a == StampAt(SlotOf(next[c]))
  <2>2. a \in Locations
    BY <2>1, Places
  <2>3. StampSeen(c) => StampSeen(c)'
    <3>1. SUFFICES ASSUME StampSeen(c) PROVE StampSeen(c)'
      OBVIOUS
    <3>2. PICK i \in 1 .. Len(hist[a]) : i <= seen[c][a] /\ hist[a][i].val = next[c]
      BY <3>1 DEF StampSeen
    <3>3. i \in 1 .. Len(hist'[a]) /\ hist'[a][i] = hist[a][i]
      BY <1>0, <2>2, OldEntry
    <3> QED BY <2>1, <3>2, <3>3 DEF StampSeen
  <2>4. next[c] + Capacity <= Published => next[c] + Capacity <= Published'
    BY <1>0, <2>1
  <2> QED BY <2>1, <2>3, <2>4 DEF Behind
<1> QED BY <1>1, <1>2 DEF LapInv

LEMMA ProducerKeepsLapInv ==
  ASSUME IInv, LapInv, Mark \/ Write \/ Stamp \/ Advance
  PROVE  LapInv'
<1> DEFINE N == nextPublish
           s == SlotOf(nextPublish)
<1>1. /\ TypeInv /\ N \in Nat /\ N \in Stamps /\ s \in Slots /\ StampAt(s) \in Locations
      /\ fenced \in Views /\ NextPublish \in Locations /\ MaxPublish \in Nat
      /\ WritingSeq \in Stamps /\ StampOf(N) = StampAt(s) /\ hist \in Histories
  BY Facts, Places DEF IInv, TypeInv
<1> HIDE DEF s
<1>2. CASE Mark \/ Stamp
  <2> DEFINE k == [Newest EXCEPT ![StampAt(s)] = @ + 1]
  <2>1. PICK v \in {WritingSeq, N} : Store(StampAt(s), v, k) /\ UNCHANGED consVars
    BY <1>1, <1>2 DEF Mark, Stamp, StoreRelease
  <2>2. k \in Views
    BY <1>1, NewestFacts
  <2> HIDE DEF k
  <2> DEFINE e == [val |-> v, knows |-> k]
  <2>3. e \in Entries /\ hist' = Grown(hist, {StampAt(s)}, e)
    BY <1>1, <2>1, <2>2, StoreGrows DEF Entries
  <2>4. Published = N /\ Published' \in Nat /\ Published <= Published'
    BY <1>1, <1>2 DEF Mark, Stamp, Published
  <2>5. \A t \in Slots : StampAt(t) \in {StampAt(s)} =>
          Published = nextPublish /\ t = SlotOf(nextPublish)
    BY <2>4, Places DEF s
  <2> HIDE DEF e
  <2> QED BY <1>1, <2>1, <2>3, <2>4, <2>5, StoreKeepsLapInv
<1>3. CASE Write
  <2> DEFINE A == {PartAt(s, p) : p \in Parts}
             e == [val |-> N, knows |-> fenced]
  <2>1. A \in SUBSET Locations /\ \A t \in Slots : StampAt(t) \notin A
    BY <1>1, Places
  <2>2. e \in Entries
    BY <1>1 DEF Entries
  <2>3. hist' = Grown(hist, A, e) /\ UNCHANGED consVars
    BY <1>1, <1>3, Facts DEF Write, Grown, s
  <2>4. Published' \in Nat /\ Published <= Published'
    BY <1>1, <1>3 DEF Write, Published
  <2> HIDE DEF A, e
  <2> QED BY <2>1, <2>2, <2>3, <2>4, StoreKeepsLapInv
<1>4. CASE Advance
  <2> DEFINE e == [val |-> N + 1, knows |-> fenced]
  <2>1. \A t \in Slots : StampAt(t) \notin {NextPublish}
    BY Places
  <2>2. e \in Entries
    <3>1. N < MaxPublish
      BY <1>1, <1>4 DEF Advance, TypeInv
    <3>2. N + 1 \in Seqs
      BY <1>1, <3>1 DEF Seqs
    <3> QED BY <1>1, <3>2, Facts DEF Entries
  <2>3. hist' = Grown(hist, {NextPublish}, e) /\ UNCHANGED consVars
    BY <1>1, <1>4, StoreGrows DEF Advance
  <2>4. Published' \in Nat /\ Published <= Published'
    BY <1>1, <1>4 DEF Advance, Published
  <2> HIDE DEF e
  <2> QED BY <1>1, <2>1, <2>2, <2>3, <2>4, StoreKeepsLapInv
<1> QED BY <1>2, <1>3, <1>4

LEMMA ConsumerKeepsLapInv ==
  ASSUME LapInv, NEW c \in Consumers, OnlyMoves(c), Behind(c)'
  PROVE  LapInv'
<1>1. hist' = hist /\ Published' = Published
  BY DEF OnlyMoves, prodVars, Published
<1>2. ASSUME NEW d \in Consumers \ {c}
      PROVE  Behind(d)'
  BY <1>1 DEF LapInv, OnlyMoves, Behind, StampSeen
<1> QED BY <1>1, <1>2 DEF LapInv, Superseded

LEMMA PollKeepsLapInv ==
  ASSUME IInv, LapInv, NEW c \in Consumers, Poll(c)
  PROVE  LapInv'
<1> DEFINE q == next[c]
           a == StampAt(SlotOf(next[c]))
<1>1. TypeInv /\ hist \in Histories /\ q \in Nat /\ a \in Locations /\ seen[c] \in Views
  BY Facts, Places DEF IInv, TypeInv
<1>2. PICK i \in Readable(seen[c], a), mode \in {"view", "copy"} :
        LET status == ReadStatus(hist[a][i].val, q)
        IN  /\ LoadAcquire(c, a, i)
            /\ cpc' = [cpc EXCEPT ![c] = CASE status = "ok"     -> mode
                                           [] status = "empty"  -> "poll"
                                           [] status = "lapped" -> "resync"]
            /\ readSeq' = [readSeq EXCEPT ![c] = IF status = "ok" THEN q ELSE @]
            /\ unread' = [unread EXCEPT ![c] = IF status = "ok" THEN Parts ELSE {}]
  BY Facts DEF Poll
<1> DEFINE status == ReadStatus(hist[a][i].val, q)
           w == [seen[c] EXCEPT ![a] = i]
           k == hist[a][i].knows
<1>3. /\ \A d \in Consumers \ {c} : seen'[d] = seen[d]
      /\ pending' = pending /\ i \in 1 .. Len(hist[a]) /\ k \in Views
  BY <1>1, <1>2, AcquireFacts
<1>4. i \in Nat /\ seen[c][a] <= i
  <2>1. seen[c][a] \in Nat /\ Len(hist[a]) \in Nat
    BY <1>1, ViewFacts, EntryFacts
  <2> QED BY <1>3, <2>1 DEF Readable
<1>5. seen'[c] = Join(w, k)
  BY <1>1, <1>2 DEF LoadAcquire, TypeInv
<1>6. w \in Views /\ NotBefore(Join(w, k), w) /\ w[a] = i
  <2>1. w \in Views
    BY <1>1, <1>4, LoadFacts
  <2>2. NotBefore(Join(w, k), w)
    BY <1>3, <2>1, JoinFacts
  <2> QED BY <1>1, <2>1, <2>2 DEF Views
<1>7. i <= seen'[c][a]
  BY <1>1, <1>5, <1>6 DEF NotBefore
<1>8. /\ next' = next /\ view' = [view EXCEPT ![c] = Blank] /\ UNCHANGED prodVars
      /\ hist' = hist
  BY DEF Poll, prodVars
<1>9. /\ status = "ok" => hist[a][i].val = q
      /\ status \in {"ok", "empty", "lapped"}
  BY DEF ReadStatus
<1>10. /\ cpc' = [cpc EXCEPT ![c] = CASE status = "ok"     -> mode
                                      [] status = "empty"  -> "poll"
                                      [] status = "lapped" -> "resync"]
       /\ readSeq' = [readSeq EXCEPT ![c] = IF status = "ok" THEN q ELSE @]
       /\ unread' = [unread EXCEPT ![c] = IF status = "ok" THEN Parts ELSE {}]
  BY <1>2
<1> HIDE DEF status, w, k
<1>11. OnlyMoves(c)
  BY <1>1, <1>3, <1>8, <1>10 DEF OnlyMoves, TypeInv
<1>12. cpc'[c] # "torn" /\ (cpc'[c] \in {"view", "copy"} => status = "ok")
  BY <1>1, <1>9, <1>10 DEF TypeInv
<1>13. Behind(c)'
  BY <1>3, <1>7, <1>8, <1>9, <1>12 DEF Behind, StampSeen
<1> QED BY <1>11, <1>13, ConsumerKeepsLapInv

LEMMA ReadPartKeepsLapInv ==
  ASSUME IInv, LapInv, NEW c \in Consumers, NEW p \in Parts, ReadPart(c, p)
  PROVE  LapInv'
<1> DEFINE a == StampAt(SlotOf(next[c]))
           b == PartAt(SlotOf(next[c]), p)
<1>1. /\ TypeInv /\ readSeq[c] = next[c] /\ next[c] \in Nat /\ a \in Locations
      /\ a # b /\ seen[c] \in Views /\ StampSeen(c)
      /\ PartOf(readSeq[c], p) = b /\ cpc[c] \in {"view", "copy"}
  BY Facts, Places DEF IInv, TypeInv, ConsumerInv, ReadPart, LapInv, Behind
<1>2. PICK i : LoadRelaxed(c, b, i) /\ view' = [view EXCEPT ![c][p] = hist[b][i].val]
  BY <1>1 DEF ReadPart
<1>3. /\ cpc' = cpc /\ next' = next /\ readSeq' = readSeq /\ UNCHANGED prodVars
      /\ hist' = hist /\ unread' = [unread EXCEPT ![c] = @ \ {p}]
  BY DEF ReadPart, prodVars
<1>4. OnlyMoves(c)
  BY <1>1, <1>2, <1>3 DEF OnlyMoves, LoadRelaxed, TypeInv
<1>5. seen'[c][a] = seen[c][a]
  BY <1>1, <1>2 DEF LoadRelaxed, TypeInv, Views
<1>6. Behind(c)'
  BY <1>1, <1>3, <1>5 DEF Behind, StampSeen
<1> QED BY <1>4, <1>6, ConsumerKeepsLapInv

\* validate() has answered false: what it saw is a store after the stamp.
LEMMA ValidateKeepsLapInv ==
  ASSUME IInv, LapInv, NEW c \in Consumers, Validate(c)
  PROVE  LapInv'
<1> DEFINE q == next[c]
           a == StampAt(SlotOf(next[c]))
<1>1. /\ TypeInv /\ cpc[c] \in {"view", "copy"} /\ readSeq[c] = q /\ q \in Nat
      /\ SlotOf(q) \in Slots /\ a \in Locations /\ hist \in Histories
      /\ seen[c] \in Views /\ pending[c] \in Views /\ StampSeen(c)
      /\ Published \in Nat /\ q < Published /\ StampOf(readSeq[c]) = a
  BY Facts, Places, PublishedFacts DEF IInv, TypeInv, Validate, ConsumerInv, LapInv, Behind
<1>2. PICK j \in Readable(AtFence(c), a) :
        /\ seen' = [seen EXCEPT ![c] = [AtFence(c) EXCEPT ![a] = j]]
        /\ pending' = [pending EXCEPT ![c] = hist[a][j].knows]
        /\ IF hist[a][j].val = q
             THEN /\ next' = [next EXCEPT ![c] = q + 1]
                  /\ cpc' = [cpc EXCEPT ![c] = "poll"]
             ELSE /\ cpc' = [cpc EXCEPT ![c] = IF @ = "copy" THEN "torn" ELSE "poll"]
                  /\ UNCHANGED next
  BY <1>1 DEF Validate, Revalidation
<1>3. /\ view' = [view EXCEPT ![c] = Blank] /\ readSeq' = readSeq /\ unread' = unread
      /\ UNCHANGED prodVars /\ Published' = Published
  BY DEF Validate, prodVars, Published
<1>4. OnlyMoves(c)
  BY <1>1, <1>2, <1>3 DEF OnlyMoves, TypeInv
<1>5. ASSUME hist[a][j].val # q
      PROVE  q + Capacity <= Published
  <2>1. PICK i \in 1 .. Len(hist[a]) : i <= seen[c][a] /\ hist[a][i].val = q
    BY <1>1 DEF StampSeen
  <2>2. /\ AtFence(c)[a] \in Nat /\ seen[c][a] <= AtFence(c)[a]
        /\ seen[c][a] \in Nat /\ Len(hist[a]) \in Nat
    BY <1>1, JoinFacts, ViewFacts, EntryFacts DEF AtFence, NotBefore
  <2>3. i < j /\ j \in 1 .. Len(hist[a])
    <3>1. i # j
      BY <1>5, <2>1
    <3> QED BY <1>2, <2>1, <2>2, <3>1 DEF Readable
  <2>4. q \in Messages
    BY <1>1, PublishedFacts, Facts DEF Messages, Seqs
  <2> QED BY <1>1, <2>1, <2>3, <2>4 DEF LapInv, Superseded
<1>6. cpc'[c] = "torn" => next'[c] = q /\ q + Capacity <= Published
  BY <1>1, <1>2, <1>5 DEF TypeInv
<1>7. cpc'[c] \in {"poll", "torn"}
  BY <1>1, <1>2 DEF TypeInv
<1>8. Behind(c)'
  BY <1>3, <1>6, <1>7 DEF Behind
<1> QED BY <1>4, <1>8, ConsumerKeepsLapInv

LEMMA LapStep == IInv /\ LapInv /\ [Next]_vars => LapInv'
<1> SUFFICES ASSUME IInv, LapInv, [Next]_vars PROVE LapInv'
  OBVIOUS
<1>1. CASE Mark \/ Write \/ Stamp \/ Advance
  BY <1>1, ProducerKeepsLapInv
<1>2. ASSUME NEW c \in Consumers, ConsumerStep(c)
      PROVE  LapInv'
  <2>1. CASE Poll(c)
    BY <2>1, PollKeepsLapInv
  <2>2. ASSUME NEW p \in Parts, ReadPart(c, p) PROVE LapInv'
    BY <2>2, ReadPartKeepsLapInv
  <2>3. CASE Validate(c)
    BY <2>3, ValidateKeepsLapInv
  <2>4. CASE Resync(c)
    <3>1. PICK i : LoadAcquire(c, NextPublish, i)
                   /\ next' = [next EXCEPT ![c] = ResyncTarget(hist[NextPublish][i].val)]
      BY <2>4 DEF Resync
    <3>2. /\ cpc' = [cpc EXCEPT ![c] = "poll"] /\ readSeq' = readSeq /\ unread' = unread
          /\ view' = view /\ UNCHANGED prodVars
      BY <2>4 DEF Resync
    <3>3. OnlyMoves(c) /\ cpc'[c] = "poll"
      BY <3>1, <3>2 DEF OnlyMoves, LoadAcquire, IInv, TypeInv
    <3>4. Behind(c)'
      BY <3>3 DEF Behind
    <3> QED BY <3>3, <3>4, ConsumerKeepsLapInv
  <2> QED BY <1>2, <2>1, <2>2, <2>3, <2>4 DEF ConsumerStep
<1>3. CASE UNCHANGED vars
  BY <1>3 DEF vars, prodVars, consVars, LapInv, Superseded, Behind, StampSeen, Published
<1> QED BY <1>1, <1>2, <1>3 DEF Next

LEMMA InitLapInv == Init => LapInv
<1> SUFFICES ASSUME Init PROVE LapInv
  OBVIOUS
<1>1. \A s \in Slots : Len(hist[StampAt(s)]) = 1
  BY Places DEF Init
<1>2. \A s \in Slots : \A i, j \in 1 .. Len(hist[StampAt(s)]) : i = 1 /\ j = 1
  <2> TAKE s \in Slots
  <2>1. Len(hist[StampAt(s)]) = 1
    BY <1>1
  <2> QED BY <2>1
<1>3. Superseded
  BY <1>2 DEF Superseded
<1> QED BY <1>3 DEF Init, LapInv, Behind

LEMMA ValidateRefines ==
  ASSUME IInv, NEW c \in Consumers, Validate(c)
  PROVE  Fanout!Deliver(c) \/ UNCHANGED Fanout!vars
<1>1. /\ TypeInv /\ cpc[c] \in {"view", "copy"} /\ readSeq[c] = next[c]
      /\ next[c] < Published /\ unread[c] = {} /\ view[c] \in [Parts -> Stamps]
  BY DEF IInv, TypeInv, Validate, ConsumerInv
<1>2. Published' = Published
  BY DEF Validate, prodVars, Published
<1>3. CASE UNCHANGED <<next, delivered>>
  BY <1>2, <1>3 DEF Fanout!vars
<1>4. CASE ~ UNCHANGED <<next, delivered>>
  <2>1. PICK j \in Revalidation(c) :
          /\ hist[StampOf(readSeq[c])][j].val = readSeq[c]
          /\ next' = [next EXCEPT ![c] = readSeq[c] + 1]
          /\ delivered' = [delivered EXCEPT ![c] = view[c]]
    BY <1>4 DEF Validate
  <2>2. \A p \in Parts : view[c][p] = next[c]
    BY <1>1, <2>1, WholeFromInv DEF ValidViewIsWhole
  <2>3. view[c] = Fanout!Message(next[c])
    BY <1>1, <2>2 DEF Fanout!Message
  <2>4. next' = [next EXCEPT ![c] = @ + 1]
    BY <1>1, <2>1
  <2> QED BY <1>1, <1>2, <2>1, <2>3, <2>4 DEF Fanout!Deliver
<1> QED BY <1>3, <1>4

LEMMA ResyncRefines ==
  ASSUME IInv, LapInv, NEW c \in Consumers, Resync(c)
  PROVE  Fanout!Lose(c) \/ Fanout!FallBack(c) \/ UNCHANGED Fanout!vars
<1>1. PICK i \in Readable(seen[c], NextPublish) :
        next' = [next EXCEPT ![c] = ResyncTarget(hist[NextPublish][i].val)]
  BY DEF Resync
<1> DEFINE m == hist[NextPublish][i].val
           k == ResyncTarget(m)
           q == next[c]
<1>2. /\ m \in Nat /\ m <= nextPublish /\ k \in Nat
      /\ \A r \in Nat : Counts(hist, seen[c], r) => m >= r
  BY ResyncCount, Facts
<1>3. /\ TypeInv /\ q \in Nat /\ Capacity \in Nat \ {0} /\ Published \in Nat
      /\ nextPublish <= Published /\ nextPublish \in Nat
      /\ cpc[c] \in {"torn", "resync"} /\ ConsumerInv(c)
  BY Facts, PublishedFacts DEF IInv, TypeInv, Resync
<1>4. /\ next' = [next EXCEPT ![c] = k] /\ Published' = Published /\ delivered' = delivered
  BY <1>1 DEF Resync, prodVars, Published
<1> HIDE DEF m
<1>5. k > q => k <= Published - Capacity
  BY <1>2, <1>3 DEF ResyncTarget
<1>6. k < q => q + Capacity <= Published /\ q - Capacity <= k
  <2>1. CASE cpc[c] = "resync"
    <3>1. m >= q + Capacity
      BY <1>2, <1>3, <2>1 DEF ConsumerInv
    <3> QED BY <1>2, <1>3, <3>1 DEF ResyncTarget
  <2>2. CASE cpc[c] = "torn"
    <3>1. m >= q /\ q + Capacity <= Published
      BY <1>2, <1>3, <2>2 DEF ConsumerInv, LapInv, Behind
    <3> QED BY <1>2, <1>3, <3>1 DEF ResyncTarget
  <2> QED BY <1>3, <2>1, <2>2
<1> HIDE DEF k
<1>7. CASE k > q
  <2>1. k \in q + 1 .. Published - Capacity
    BY <1>2, <1>3, <1>5, <1>7
  <2> QED BY <1>4, <2>1 DEF Fanout!Lose
<1>8. CASE k < q
  <2>1. k \in q - Capacity .. q - 1 /\ k >= 0 /\ q + Capacity <= Published
    BY <1>2, <1>3, <1>6, <1>8
  <2> QED BY <1>4, <2>1 DEF Fanout!FallBack
<1>9. CASE k = q
  BY <1>3, <1>4, <1>9 DEF Fanout!vars, TypeInv
<1> QED BY <1>2, <1>3, <1>7, <1>8, <1>9

LEMMA StepRefines == IInv /\ LapInv /\ [Next]_vars => [Fanout!StaleNext]_(Fanout!vars)
<1> SUFFICES ASSUME IInv, LapInv, [Next]_vars
             PROVE  Fanout!StaleNext \/ UNCHANGED Fanout!vars
  OBVIOUS
<1>1. CASE Mark \/ Write \/ Advance
  BY <1>1 DEF Mark, Write, Advance, Fanout!vars, Published, consVars
<1>2. CASE Stamp
  <2>1. nextPublish < MaxPublish /\ Published = nextPublish /\ Published' = nextPublish + 1
    BY <1>2 DEF IInv, TypeInv, Stamp, Published
  <2>2. Fanout!Publish
    BY <1>2, <2>1 DEF Stamp, consVars, Fanout!Publish
  <2> QED BY <2>2 DEF Fanout!StaleNext, Fanout!Next
<1>3. ASSUME NEW c \in Consumers, ConsumerStep(c)
      PROVE  Fanout!StaleNext \/ UNCHANGED Fanout!vars
  <2>1. CASE Poll(c) \/ \E p \in Parts : ReadPart(c, p)
    BY <2>1 DEF Poll, ReadPart, prodVars, Published, Fanout!vars
  <2>2. CASE Validate(c)
    BY <2>2, ValidateRefines DEF Fanout!StaleNext, Fanout!Next
  <2>3. CASE Resync(c)
    BY <2>3, ResyncRefines DEF Fanout!StaleNext, Fanout!Next
  <2> QED BY <1>3, <2>1, <2>2, <2>3 DEF ConsumerStep
<1>4. CASE UNCHANGED vars
  BY <1>4 DEF vars, prodVars, consVars, Fanout!vars, Published
<1> QED BY <1>1, <1>2, <1>3, <1>4 DEF Next

\* What the Overwrite ring promises on any hardware the C++ memory model allows:
\* whole messages of one stream, none skipped but what is a lap behind, and no
\* step back but from a message that is a lap behind, by a lap at most (ring.hpp
\* publish(), do_read(), validate(), read_copy(), resync()).
THEOREM Refinement == Spec => ImplementsStaleFanout
<1>1. Init => Fanout!Init
  BY DEF Init, Fanout!Init, Published
<1>2. Init => IInv /\ LapInv
  BY InitInv, InitLapInv
<1>3. IInv /\ LapInv /\ [Next]_vars => IInv' /\ LapInv'
  BY StepInv, LapStep
<1> QED BY <1>1, <1>2, <1>3, StepRefines, PTL
        DEF Spec, ImplementsStaleFanout, Fanout!StaleSpec
============================================================================
