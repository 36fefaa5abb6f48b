# shimmy in TLA+

Models, model-checking runs and proofs for shimmy, a header-only C++ library
that fans one stream of messages out from one producer to many consumers
through a fixed ring of slots, inside a process or through a POSIX
shared-memory segment. Every module is translated from the code under
`src/include/shimmy/` and `src/bench/`; `PROJECT.json` maps each
definition to its lines, lists the runs, the mutants that show each property
can fail, the hazards, the findings and the theorems.

## The system

| Part | Code | State | Operations |
|---|---|---|---|
| Slots and sequence numbers | `ring.hpp` | a 64-bit stamp, a length and a payload per slot; two sentinel stamps (never published, being written) | `seq & mask`, classification of a stamp by `do_read`, `resync` |
| Overwrite ring | `ring.hpp` | slots, `next_publish_` | `publish`: mark, write, stamp, advance; never waits |
| Backpressure ring | `ring.hpp` | slots, `next_publish_`, the table of consumer cursors | `publish`: scan the cursors until all are past the slot, write, stamp, advance |
| Cursor registry | `ring.hpp` | `in_use` and `value` per entry | `register_consumer` (CAS per entry), `set_cursor`, `unregister_consumer` |
| Consumer | `ring.hpp` | `next_`, `read_seq_`, cursor id | `read`, `read_blocking`, `read_copy`, `validate`, `commit`, `seek`, `resync`, construction, destruction |
| Wait strategies | `wait_strategy.hpp` | `waiters_`, kernel futex queues | `Spin`, `SpinThenYield` (poll again), `Futex` (`wait`, `notify`) |
| Segment | `shm_segment.hpp` | a name, a file, a header with a state word, the ring; fd, mapping and ownership per process | `create`, `open`, `validate_header`, hugepage path, `attach_consumer_at_current`, `release_name_ownership`, `reset` |
| Benchmarks | `bench/*.cpp`, `bench/*.py` | ready / start / stop flags, counters, histogram | the timed loops; a regression gate and plots over CSV files |

Producer and consumers share only atomic words: a consumer learns of a message
from the slot's stamp, a Backpressure producer learns of progress from the
cursor table, a parked consumer is woken through the stamp of its slot. There
are no locks, so every property is about loads and stores of several threads
falling between one another. `PROJECT.json` lists the hazards line by line. The
ones that shaped the models:

* a reader is lapped in the middle of its payload loads;
* `resync` trusts `next_publish_`, which lags the stamps;
* the producer's gate is a scan of non-atomic loads, under which consumers
  register, leave, and reuse entries that still hold an old cursor;
* attaching registers at cursor 0 and seeks later;
* the consumer's cursor stores, and the producer's stamps and count, may still be
  in a store buffer when the other side looks;
* on hardware weaker than x86-64 the fences of the seqlock decide whether a torn
  read can validate, and `produced()` may be older than a stamp already seen;
* the eventcount decides not to wake at the moment a consumer commits to sleep;
* creators and openers of one name race, crash and restart.

## Modules

| Module | Models | Extends / uses |
|---|---|---|
| `RingSeq` | sequence numbers, sentinels, `SlotOf`, `ReadStatus` (`do_read`), `ResyncTarget` (`resync`) | |
| `LossyFanout` | what an Overwrite ring promises | |
| `OverwriteRing` | `publish` and the seqlock read side | `RingSeq`; refines `LossyFanout` |
| `LosslessFanout` | what a Backpressure ring promises | |
| `CursorRegistry` | the cursor table | `RingSeq` |
| `BackpressureRing` | gate, publish, construct, attach, read, commit, leave | `CursorRegistry`; refines `LosslessFanout` |
| `StaleFanout` | what is left of that promise where a count of messages may be older than a stamp | `LossyFanout` |
| `WeakOverwriteRing` | the Overwrite protocol under the C++ memory model: histories, views, fences | `RingSeq`; refines `StaleFanout` |
| `AttachBuffered`, `MCAttachBuffered` | publish, gate, attach and the table with the stores of every thread in x86-TSO store buffers | `CursorRegistry` |
| `FutexRing` | `read_blocking` with `Futex`, either overflow policy, with and without a store buffer | `RingSeq`; refines `LossyFanout` |
| `ShmSegment`, `MCShmSegment` | the life of one name | |
| `SegmentRuns` | a run of either part of a segment: its name, or the ring consumers attach to | `MCShmSegment`, `MCAttachBuffered` |
| `ThroughputCell` | the threads of `run_cell` around a ring | an instance of `LossyFanout` |
| `LatencyRun` | the threads, the clock and the histogram of `run_latency` around a ring | an instance of `LosslessFanout` |
| `BenchRuns` | a run of either benchmark | `ThroughputCell`, an instance of `LatencyRun` |
| `OverwriteRingProofs`, `WeakOverwriteRingProofs` | proofs about the Overwrite ring, on sequentially consistent and on weaker hardware | `TLAPS` |
| `CursorRegistryProofs`, `BackpressureRingProofs`, `AttachBufferedProofs` | proofs about the table, about the ring that is built on it, and about both with stores in buffers | `TLAPS` |
| `FutexRingProofs`, `ShmSegmentProofs`, `BenchProofs` | proofs about the eventcount, the segment's name and the benchmarks | `TLAPS` |

### How state and actions correspond to the code

A message is its sequence number. A payload is a function from `Parts` (pieces
that are copied separately, in any order) to the number of the message each
piece belongs to, so a torn read is a function that is not constant. `SeqMod`
stands for 2^64: the sentinels are its two largest values, and the raw
comparisons of `do_read` and `Futex::wait` are kept as they are.

`OverwriteRing`: `Mark`, `WritePart`, `Stamp`, `Advance` are the stores of
`publish` in program order. `PollOk` and `PollLapped` are one call of `do_read`
(a poll that finds nothing changes nothing); `ReadPart` is a load by the holder
of a span or by `read_copy`; `Commit` and `Discard` are the two answers of
`validate` with what the caller then does; `Resync` is `resync(produced())`.
`commit()` after `validate()` is one step with it: between the two only the
consumer's own variables change.

`WeakOverwriteRing`: the same steps, with memory in full: `hist` holds every
store to a stamp, a payload part or `next_publish_`, and a load may return any of
them that is not older than the thread's view of that location. A release store
(the marker, the stamp) carries all that the producer has done; the release fence
behind the marker makes each payload store carry the marker; `next_publish_` is a
relaxed store. On the reading side `Poll` and `produced()` are acquire loads, the
payload loads keep what they learn pending, and the acquire fence of `validate()`
joins it in before the stamp is loaded again. The racing payload accesses are
taken as relaxed.

`CursorRegistry`: each compare-exchange, store and load of `register_consumer`
and `unregister_consumer` is a step; a consumer that finds the table full
carries on with `cursorId = MaxConsumers`, as the constructor does.

`BackpressureRing`: the gate is `LoadInUse` and `LoadValue` per entry; a cursor
that is not past the slot's message restarts the scan. Founders are constructed
before the `Capacity`-th message (`Contract`, the precondition stated at
`register_consumer`); all others, and all that come back, go through
`attach_consumer_at_current`: register (`Register`), `LoadProduced`, `Seek`.
A consumer may leave between two reads, with a span open or when it was told
lapped (`Depart`), and the same consumer may be constructed again. A consumer for
which the table had no entry goes through the same steps without a cursor; the
`Member`s are those that read and have one.

`AttachBuffered`: a consumer's `value.store()` goes to the end of its own FIFO
buffer, and `Drain` moves the first one to memory at any time. A compare-exchange
needs an empty buffer, as the hardware empties it first; the store that frees the
entry follows the parked cursor out of the buffer. The producer's buffer is kept as
counters: `nextPublish` messages have been stored, `stamped` of them are in memory
with payload and stamp, and `counted` is `next_publish_` there. `Publish` issues the
stores of one message, which follow one another without a load between; `DrainStamp`
and `DrainCount` move them to memory in that order while the producer may already be
scanning for the next messages. The gate, `do_read` and `produced()` load from
memory; the producer's own `next_publish_` is answered from its buffer. The slots are
left out: `Overrun` says that a later message has passed the gate into the slot the
consumer wants and that everything before it is in memory, so that its bytes may be.
Two history variables: `reused` (the entry claimed said `~0`) and `late` (a lap of
messages was not counted when `produced()` was loaded).

`FutexRing`: payloads and cursors are left out (the gate is `AllPast`), and
`policy` and `depth` are the ring's overflow policy and the length of the
producer's store buffer, fixed at the start. The producer's stores go through
the buffer in order; depth 0 is sequential consistency. `Wake` needs an empty
buffer because a system call drains it. `Reload` compares raw stamps and `Sleep`
is the kernel's atomic compare-and-queue on the low word, which is the stamp
modulo `WordMod` and may come round. `Local` is the set of consumers in the
producer's process. As a fan-out, a message has joined the stream when its stamp
is in memory (`Visible`, from the number of stores issued and drained).

`ShmSegment`: an inode has a size, a header (magic, fields, state) and a ring;
`dir` is what the name leads to. Each system call and each group of header
stores or loads is a step. `Fail` is any system call failing, `BusError` an
access to a file that was truncated, `Crash` a process that dies without its
destructors. A hugepage segment has no name and no file (`CreateHuge`). A moved
segment is the same object, so moves are not actions. Two history variables,
which no action reads: `leaked` (a crash or `release_name_ownership` left the
name) and `disturbed` (the processes whose file was re-created under them).

`ThroughputCell` takes the ring from its abstract specification, which
`OverwriteRing` implements, and models the threads around it: the readers' count,
the start and stop flags, warm-up, timed loop, join, and the next repetition.

`LatencyRun` takes the ring from `LosslessFanout`, which `BackpressureRing`
implements, and adds what the harness does around it: the ready flag, the pacing
by `next_send`, the time stamped into each message, the read of it through the
span, and `Histogram::record` with its clamp to 1 and its upper limit. Time is a
counter that every action may read.

## Runs

| Run | Question | Instance | Distinct states |
|---|---|---|---|
| `overwrite` | is the seqlock right, is every lap real, does everyone catch up? | 2 consumers, 2 slots, 5 messages, 2 parts | 175k |
| `weak` | do the two fences keep torn reads out when stores become visible late, does a consumer ever go back, and what does it then get? | 1 consumer, 2 slots, 7 messages, 2 parts | 43k |
| `backpressure` | no unread slot overwritten, no deadlock, lossless, whoever dies | 1 founder, 1 joiner, 2 entries, 2 slots, 5 messages, 2 parts | 46k |
| `futex` | no wakeup lost, sleepers really sleep, how long a wake can be missed with a store buffer, and is the stream still the one promised? | 2 consumers, 2 slots, 7 messages, words of 6 values, both policies, buffers of 0 and 3 | 430k |
| `bench` | do the benchmarks end and measure what they claim? | throughput: 2 readers, 2 repetitions; latency: 5 messages, 2 slots, 6 ticks | 205k |
| `segment` | the name: does an opener only use finished rings of its layout, does the name lead to its owner, is it ever leaked? the ring: is an entry held once, is nobody turned away but the one too many, whom can the producer overrun? | name: 2 creators in turn with different layouts, 1 opener, failures, crashes, re-creation; ring: 3 consumers, 2 entries, 2 slots, 4 messages, buffers of 2 and 3 | 4.0M (symmetry) |

Each property has a mutant in `PROJECT.json`: a plausible slip in one action (a
variant operator that stands beside the action it changes) under which the
property fails.

Bounds. Two slots are the smallest ring the code allows, and the one in which a
lap is shortest; five messages are two and a half laps, so a slot is written
first, overwritten and overwritten again, and a consumer can be lapped twice.
`weak` has seven because a reader there may still load what is three laps old.
Two parts are what a torn read needs. Two consumers interact only through the
producer and the cursor table; the table has three of them in `segment`, one more
than it has entries. `SeqMod` leaves a gap between the last message and the
sentinels (`RangeAssumption`). `SpinBeforeSyscall` is 1 instead of 64 (both
branches are taken). `WordMod` is half of `SeqMod`, so that within seven messages a
futex word comes round and the exceptions of the futex properties are reached. A
store buffer of 3 in `futex` holds all stores of one publish, and one of
2 in `segment` both stores of an attach; the producer's there holds 3, the fewest with
which a lap of two messages can be uncounted. Two creators of different layouts make any re-creation
under an opener possible, and `Inodes` holds one more inode than there are
processes, so `create` always finds a free one. `MaxTime` stops the clock of the
latency run; the producer then no longer paces itself, so that the end is reached
with samples below, in and above the histogram's range (`HistMax` 3). The proofs
lift the numbers of slots, messages, consumers, parts, entries, readers,
repetitions and processes, the length of the producer's store buffer and the width
of the futex word. The `backpressure` run has an entry for everyone;
`backpressure_full` shows what becomes of a consumer that finds none, and the
proofs cover tables of any size.

Deadlock checking is off where the producer may stop for good at `MaxPublish`,
which stands for an application that stops publishing (the ring and futex
runs), and in `bench`, which ends; the segment runs check it.

Fairness. A publish that was begun goes on, a thread in a consumer loop runs,
stores reach memory: weak fairness per thread, which any preemptive scheduler
gives. Nothing is assumed of the application: no fairness on starting a
publish, constructing, attaching or leaving, and none on signals. `CatchUp` and
`EveryMessageArrives` therefore say what holds once the producer pauses.

* `BackpressureRing` assumes nothing of its consumers: their processes may stop or
  die anywhere, and each property names the consumers whose running it rests on
  (`Running`). `PublishReturns` excludes only a consumer that is dead and behind,
  for which the code defers recovery, and consumers being constructed for ever
  under the scan (an attach that is always under way holds the producer at
  cursor 0).
* `WeakOverwriteRing` needs more than a thread that runs: a load that is repeated
  for ever must return the newest store again and again (strong fairness of
  `PollNewest` and `ResyncNewest`), which is the standard's "visible in a finite
  time".
* `FutexRing` has fairness on `Drain`.
* `BenchRuns` has fairness on each thread of the program that runs and on the
  clock.

Liveness is checked without symmetry; `segment` has symmetry and invariants only.

### Runs that fail: what they found

| Run | Violated | Finding |
|---|---|---|
| `futex_tso` | `EveryMessageArrives` | a release store followed by a seq_cst load is no store-load barrier: the wake can be skipped while the stamp is still in the store buffer |
| `futex_processes` | `EveryMessageArrives` | the futex calls are process-private although the ring is shared between processes |
| `backpressure_full` | `UnreadSlotsKept` | with the table full a Backpressure consumer is constructed without a cursor and loses messages |
| `attach_tso` | `AttachIsLossless` | a consumer that attaches on an entry another one left is overrun while its cursor is in its store buffer |
| `shm_restart` | `AdoptsBuiltRing` | READY is checked once; a restarted creator rebuilds the same inode under the opener |
| `shm_rivals` | `NameLeadsToOwner` | a `create()` that fails unlinks a name it never had |

Each is quoted against the comment, document or test it contradicts in
`PROJECT.json`. In the first, an Overwrite consumer is woken a lap late at most
(`OverlookedForALapAtMost`, which is proved); a Backpressure consumer and producer
can both stop.
`backpressure_full` shows why the theorems about the Backpressure ring speak of the
consumers with a cursor, and `futex_tso` why `NoLostWakeup` is claimed under
sequential consistency only.

### What the wording of the properties says

Some limits of the code are in a property's exceptions and not in a failing run.

* `ParksAfterFirstLap` starts at the first lap because `Futex::wait` compares raw
  stamps, and the stamp of a slot that was never published, `~0`, compares as
  "producer already caught up" (`wait_strategy.hpp:141-143`). A consumer in front
  of such a slot polls and never blocks.
* `FallsBackOnlyWhenTorn` allows a torn `read_copy()` to send the consumer back.
  After it the caller resyncs to `produced()`, which on hardware weaker than
  x86-64 may be older than the stamp `validate()` has just seen, as
  `next_publish_` is stored relaxed: up to a lap of messages is delivered again.
  `StaleFanout` is `LossyFanout` with that step (`FallBack`), allowed only while
  what the consumer wants is a lap behind; the `weak` run fails without it, and
  with either of its two bounds one message tighter.
  Torn bytes are never delivered (`ValidViewIsWhole`), but "correctness on weaker
  models is free" (`README.md:100-101`, `ring.hpp:41-42`) does not extend to
  reading each message once. On x86-64 it cannot happen.
* `OverrunNeedsReuseOrLateCount` has the two ways in which attach falls short of
  "lossless from the attach point forward" (`shm_segment.hpp:426-428`) on x86-64;
  the run fails without either. One is in `attach_tso`: the cursor stores of a consumer on
  an entry that another one left wait in its store buffer, and until they drain
  the gate sees the parked `~0`. The other needs no reuse: publishes wait in the
  producer's store buffer while its scan for a later message passes a free entry; a
  consumer that then claims the entry loads a `produced()` that is a lap behind
  the gate and seeks to a message whose slot is next. That takes a ring small beside the store
  buffer: `LosslessOnFreshEntry` rules it out where the buffer holds less than a
  lap (two stores per message in the model, at least four in the code).
  `BackpressureRing`, and what is proved of it, is sequentially consistent, where
  neither happens.
* `AllMeasured` speaks of the values up to `HistMax`: `Histogram::record` ignores
  that `hdr_record_value` refuses a sample above `kHistMaxNs`, so that the slowest
  samples are missing from the tail that is reported.
* `NoLostWakeup`, `OverlookedForALapAtMost` and `AllButASleepersLastLapArrives`
  except a futex word that came round (`SameWord`, `WordRepeats`): the kernel
  compares 32 bits of a 64-bit stamp, and when 2^32 messages pass between the
  re-load and the system call a consumer sleeps on a stamp that has moved on. Both
  exceptions are needed; without them the `futex` run fails. They also speak of
  consumers of the producer's process only (`futex_processes`).
* `NeverLapped`, `MembersSlotsKept` and `ImplementsLosslessFanout` speak of the
  consumers that have a cursor. `UnreadSlotsKept` is the documented promise, for
  everyone, and fails when the table is full (`backpressure_full`).
* `LatencyEnds` takes `read_blocking()` to return when there is a message. With
  `Futex` the wake of the last message can be skipped (`futex_tso`), and the join
  of the harness then waits for ever.

## Proofs

All proofs are checked by TLAPS with the SMT, Zenon and PTL backends. They
assume `CapacityAssumption` (at least two slots), `RangeAssumption` (no message
number reaches a sentinel), and per module `MaxConsumersAssumption` (at least one
entry), `ConsumersAssumption` (finitely many consumers), `BufferAssumption`, `FoundersAssumption`,
`PartsAssumption`, `FutexAssumption`, `ShmAssumption`, `CellAssumption` and
`RunAssumption`, which say what the constants are. What a theorem needs beyond
that it states itself.

The proofs about slots start from `SlotType`, and from `LapApart`: two messages
that share a slot are at least `Capacity` apart. Everything that follows about
which message a slot can hold rests on the second.

**`OverwriteRingProofs`.** The inductive invariant `IInv` is `TypeOK` with

* `ProducerInv`: while it writes, the slot of the running publish carries the
  marker, and the parts already written are its own;
* `SlotInv`: nothing but the running publish leaves a marker, and any other
  stamp vouches for the bytes of its slot;
* `ReaderInv`: the slot of a message being read carries that message's stamp, a
  marker or a later stamp, never an earlier one again;
* `ValidViewIsWhole` and `LappedIsReal`.

`ValidViewIsWhole` is not inductive alone: that a stamp which still matches
implies no load came too late needs `ReaderInv` (stamps of a slot only grow past
what is read) and `SlotInv` (a matching stamp means matching bytes). Theorems:
`TypeCorrect`, `NoTornRead`, `LapsAreReal`, and `Refinement` of `LossyFanout`, in
which `Stamp` is the moment a message joins the stream, `Commit` is a delivery
and a `Resync` that moves is a loss.

**`CursorRegistryProofs`.** `TableInv` (types, entries in range,
`CursorOwnership`) is inductive; each action has a lemma, which the Backpressure
proofs use again. `RoomForAll` needs counting. `Dwindling` says of every entry
`k` that the consumers at `k` or beyond, plus `k`, number no more than entries
and excess together. Only `SkipTaken` can put a consumer beyond an entry, and
then the holder of that entry is one that stayed behind
(`FS_RemoveElement`). Theorems: `OneHolder`, `FewTurnedAway`.

**`BackpressureRingProofs`.** The table may have any size. A consumer that finds it
full (`~Tracked`) goes on without a cursor and may be lapped or read torn bytes,
and what is to be shown is that it disturbs nobody else. The inductive invariant
adds to the table's

* `SlotInv`: the last `Capacity` messages are in their slots, whole, but for the
  oldest while it is being overwritten;
* `LifeInv`: what a consumer's entry carries in each phase of its life (0 until
  attach has sought, then `next`);
* `GateInv`: a member is at most a lap behind, and strictly less once the scan
  has passed its entry (`Cleared`). For a consumer between `produced()` and
  `seek` it says that the stream is at the message sought or one past it, or
  still in its first lap, where there is no gate: cursor 0 stops the producer
  after the one publish whose scan had already gone by;
* `ViewInv`: a span is of a published message, and what a member loaded from it
  belongs to the message wanted.

`GateInv` is the heart of it: the scan never sees the table at one instant, so
what holds is not about the scan's result but about each entry from the moment
it was passed. Theorems: `TypeCorrect`, `NobodyIsLapped`, `ZeroCopyIsStable`, and
`Refinement` of `LosslessFanout`, all of the consumers with a cursor. From these
and `Dwindling` follows `WithRoomForAll`: with no more consumers than entries,
which is its hypothesis, the documented promise (`UnreadSlotsKept`) holds of
everyone. `backpressure_full` shows that it does not without it.

**`AttachBufferedProofs`.** The lemmas about the table carry over, as a cursor
store that is put off changes neither who holds an entry nor where a consumer is
in its registration (`ValuesTable`, `StagesTable`). `AttachInv` adds to them

* `BufferOf`: only who holds an entry has stores underway, and the last store of a
  consumer that leaves parks the cursor, so that an entry that is given back says
  0 or `~0` (`FreeAt`);
* `FreshOf`: on an entry that said 0 when it was claimed, neither memory nor any
  store underway is ahead of the consumer's position;
* `GateOf`: hence the producer is at most a lap ahead of such a consumer, and less
  once the scan has passed its entry, if the count it loaded was less than a lap
  behind (`~late`).

A step of one consumer leaves the others' part alone (`ConsumerFrame`). Theorems,
for consumers' buffers of any length and a producer's of two stores or more:
`OneHolderBuffered`, `FewTurnedAwayBuffered`, `LosslessButFor`. `LosslessOnFreshEntry`
has the hypothesis that the producer's buffer holds less than a lap of messages
(`SmallBuffer`); then no count is ever late (`NeverLate`), and only the reuse of an
entry is left.

**`WeakOverwriteRingProofs`.** What a thread can still load is a range of a
history, so the invariant speaks of those ranges: `Settled` (no part of a slot
older than message q can be loaded), `Counts` (no count below q) and `Excludes`
(no stamp of the slot below r). `IInv` says

* `StampsRelease`: who acquires the stamp of a message has its parts settled and
  the count not behind it;
* `PartsFenced`: who has seen a byte of a message knows, past an acquire fence,
  that all earlier stamps of the slot are excluded. This is what the release fence
  behind the marker is for, and `Mark_Unfenced` is the mutant without it;
* `Reading`: of each byte looked at, either it is the message's, or the fence of
  `validate()` will exclude the message's stamp.

A store leaves `Settled`, `Counts` and `Excludes` of a view alone when it is fresh
(`Fresh`), a join of views inherits them (`NotBefore`), and each action has one
lemma. Theorems: `WholeOnAnyHardware`, `BackByALapAtMost`.

`Refinement` of `StaleFanout` needs one thing more. A consumer that resyncs after
a torn `read_copy()` may read a count that says nothing new, and that what it wants
is nevertheless a lap behind rests on what `validate()` saw. `LapInv` says that a
stamp with a store after it in its slot is a lap old (`Superseded`), and that who is
in a view has seen the stamp of its message (`StampSeen`), so that a re-load that
differs is of a later store. A `Stamp` is the moment a message joins the stream,
`Validate` a delivery, and a resync a loss, a step back, or nothing.

**`FutexRingProofs`.** `TypeCorrect` needs the count: `waiters_` is the number of
consumers between the increment and the decrement (`Counted`). `WakeupsNotLost`
adds that who is about to sleep has seen an old stamp (`SleepsOnOldStamp`) and, for
depth 0, that no sleeper is overlooked; nothing is assumed of the width of the
futex word or of where the consumers are.

The other theorems number the producer's stores (`Issued`, `StampNo`, `CountNo`).
`StoreInv` says that what is underway in the buffer is in order (`Underway`), what
has drained has arrived (`Arrived`), every stamp and every store underway is one
that `publish` made (`Authentic`), and `next_publish_` follows the stamps by one
store (`CountFollows`). From it

* `LateByALapAtMost`: a buffer of at most two stores per slot, the theorem's only
  hypothesis, is shorter than what is issued in a lap, so that a consumer cannot
  fall asleep on a message a lap old (`LapInv`);
* `NobodyIsLapped`, for a buffer of any length: the gate lets a slot's next stamp
  out only when its last one was read (`WithinALap`);
* `Refinement` of `LossyFanout`, for a buffer of any length: a `Drain` that moves a
  stamp is the moment its message joins the stream, a `ReadOk` a delivery, and a
  resync a loss of what is a lap behind, or nothing. That it never goes back is
  `ResyncAhead`: a stamp of a later lap is in memory only after `next_publish_` has
  counted every message before it.

**`ShmSegmentProofs`.** `BaseInv` (types, what a process at each place holds and
claims, `NameClaimed`) holds for rival creators too and gives `NamesNotLeaked`.
`TypeCorrect` includes that `create` finds a free inode, by counting holders.
For creators that follow one another (`~Contention`) `AloneInv` adds that the name
leads to the segment under construction or owned (`Leads`), that READY is stored
on a finished ring only (`NotReadyYet`, `ReadyMeansBuilt`), and that what an
opener has validated stays so unless it was disturbed (`Validated`). Theorems:
`OwnerHasTheName`, `OpenersAreSafe`. With rivals the first is false (`shm_rivals`).

**`BenchProofs`.** `TimingIsFair` counts the readers that have reported
(`Reported`) through the repetitions; it says that each is constructed and counted
ready, not that it has left the barrier.
`LatencyIsOfTheMessage` needs `Intact`: the slot of a message that is not a lap old
holds its time, and the consumer is a member of the ring before the first publish
(`Registered`). `HistogramIsOfTheMessages` is by counting: the messages measured
with a value, `Taken`, are a finite set to which `Commit` adds the message it
commits, and to no other value's set (`HistInv`, with `FS_AddElement`); before
that, that the message's time of receipt and of sending are those subtracted.

Only model-checked: all liveness (`CatchUp`, `PublishReturns`,
`AllButASleepersLastLapArrives`, `ParksAfterFirstLap`, `ThroughputEnds`,
`LatencyEnds`), which needs fairness and `ENABLED` and is out of the prover's
reach. Every safety property of a run that passes, and every refinement, is proved.

## Not modelled

* Recovery of a cursor whose process died: the code defers it. The models let a
  consumer die and say what still holds.
* Consumer crashes inside `Futex::wait`: a count that stays above zero costs a
  system call per publish.
* A consumer constructed late without attach: excluded by the documented
  precondition. A caller that commits twice, or commits after a failed poll, and
  a segment reset under its consumers: misuse that nothing in the code tracks.
* `seek` apart from attach, `resync` and `validate` on a Backpressure ring, which
  have no effect there when the ring keeps its promise; moves of a consumer or a
  segment, which are the same object under another name.
* Wrap-around of the 64-bit sequence; that of the 32-bit futex word is modelled.
* Compile-time parts (policy tags, cache-line constant, version). CPU detection,
  pinning, percentiles, argument parsing and CSV output of the benchmarks; the
  micro-benchmarks, which are single-threaded loops over what the ring modules
  have; the regression gate, one comparison of two files with fixed thresholds;
  plots, tests and CI.

## Plan

1. Done, models: `RingSeq`, `OverwriteRing`, `CursorRegistry` and
   `BackpressureRing` with their abstract specifications; `WeakOverwriteRing`;
   `AttachBuffered`; `FutexRing`; `ShmSegment`; both benchmarks.
2. Done, proofs: every safety property of the passing runs, and every refinement,
   from what the modules assume of their constants.
3. Left: an abstract specification of a segment's name, and `ShmSegment` shown to
   implement it; the Backpressure gate under the C++ memory model rather than x86-TSO.
   Liveness stays with TLC.
