----------------------------- MODULE FutexRing -----------------------------
(***************************************************************************)
(* read_blocking() with the Futex wait strategy: consumers that find       *)
(* nothing spin, announce themselves in waiters_, look again and sleep in  *)
(* the kernel on the stamp of the slot they want; the producer wakes a     *)
(* slot's sleepers after stamping it, unless waiters_ is zero.             *)
(*                                                                         *)
(* Payloads are left out: a consumer that finds its message commits it at  *)
(* once.  The producer's stores pass through a FIFO store buffer of        *)
(* depth entries (0: sequential consistency; x86-64 and C++ release stores *)
(* let a later load overtake them).  The kernel's futex queues are         *)
(* external; a private futex is only visible to the threads of one         *)
(* process, so a wake reaches the consumers in Local alone.                *)
(***************************************************************************)
EXTENDS RingSeq, Sequences, FiniteSets

CONSTANTS
  Consumers,
  Local,             \* the consumers in the producer's process
  Policies,          \* the values of Overflow considered
  Depths,            \* the depths of the producer's store buffer considered
  WordMod,           \* a futex word is the stamp modulo this (2^32)
  SpinBeforeSyscall  \* spin_before_syscall

ASSUME FutexAssumption ==
  /\ IsFiniteSet(Consumers)
  /\ Local \subseteq Consumers
  /\ Policies \subseteq {"Overwrite", "Backpressure"}
  /\ Depths \subseteq Nat
  /\ WordMod \in Nat \ {0}
  /\ SpinBeforeSyscall \in Nat

VARIABLES
  policy,   \* Overflow, fixed for the life of a ring
  depth,    \* the depth of the store buffer, fixed by the hardware
  word,     \* shared memory: the slots' stamps, and next_publish_
  buffer,   \* the producer's stores that are not in memory yet
  waiters,  \* waiters_
  ppc,      \* where the producer is inside publish()
  seq,      \* the number of messages the producer has begun to publish
  cpc,      \* where a consumer is inside read_blocking()
  next,     \* next_
  iter,     \* iter, no further than spin_before_syscall
  seen      \* what the re-load before the system call saw

prodVars == <<buffer, ppc, seq>>
consVars == <<cpc, next, iter, seen>>
fixed == <<policy, depth>>
vars == <<fixed, word, waiters, prodVars, consVars>>

NextPublish == Capacity                   \* the address of next_publish_
Addresses == Slots \cup {NextPublish}
CurSlot == SlotOf(seq)                    \* the slot of the running publish
Want(c) == word[SlotOf(next[c])]          \* the stamp c is waiting on
Low(stamp) == stamp % WordMod             \* the futex word of a stamp

Init ==
  /\ policy \in Policies
  /\ depth \in Depths
  /\ word = [a \in Addresses |-> IF a \in Slots THEN EmptySeq ELSE 0]
  /\ buffer = <<>>
  /\ waiters = 0
  /\ ppc = "idle"
  /\ seq = 0
  /\ cpc = [c \in Consumers |-> "read"]
  /\ next = [c \in Consumers |-> 0]
  /\ iter = [c \in Consumers |-> 0]
  /\ seen = [c \in Consumers |-> 0]

----------------------------------------------------------------------------
(* The producer. *)

Store(a, v) ==
  IF depth = 0
    THEN word' = [word EXCEPT ![a] = v] /\ UNCHANGED buffer
    ELSE /\ Len(buffer) < depth
         /\ buffer' = Append(buffer, [at |-> a, val |-> v])
         /\ UNCHANGED word

Drain ==
  /\ buffer # <<>>
  /\ word' = [word EXCEPT ![Head(buffer).at] = Head(buffer).val]
  /\ buffer' = Tail(buffer)
  /\ UNCHANGED <<fixed, waiters, ppc, seq, consVars>>

\* Variant: the gate opens a message early.
AllPast_OffByOne == seq >= Capacity => \A c \in Consumers : next[c] >= seq - Capacity

\* await_consumers_past() has returned.
AllPast == seq >= Capacity => \A c \in Consumers : next[c] > seq - Capacity

\* The slot is the producer's: marked under Overwrite, past every cursor
\* under Backpressure.
Begin ==
  /\ ppc = "idle"
  /\ seq < MaxPublish
  /\ IF policy = "Backpressure" THEN AllPast /\ UNCHANGED <<word, buffer>>
                                ELSE Store(CurSlot, WritingSeq)
  /\ ppc' = "stamp"
  /\ UNCHANGED <<fixed, waiters, seq, consVars>>

Stamp ==
  /\ ppc = "stamp"
  /\ Store(CurSlot, seq)
  /\ ppc' = "advance"
  /\ UNCHANGED <<fixed, waiters, seq, consVars>>

Advance ==
  /\ ppc = "advance"
  /\ Store(NextPublish, seq + 1)
  /\ ppc' = "notify"
  /\ UNCHANGED <<fixed, waiters, seq, consVars>>

\* Variant: a single waiter is taken for the caller itself.
LoadWaiters_OffByOne ==
  /\ ppc = "notify"
  /\ IF waiters <= 1 THEN ppc' = "idle" /\ seq' = seq + 1
                     ELSE ppc' = "wake" /\ UNCHANGED seq
  /\ UNCHANGED <<fixed, word, buffer, waiters, consVars>>

\* notify(): no system call when nobody waits.
LoadWaiters ==
  /\ ppc = "notify"
  /\ IF waiters = 0 THEN ppc' = "idle" /\ seq' = seq + 1
                    ELSE ppc' = "wake" /\ UNCHANGED seq
  /\ UNCHANGED <<fixed, word, buffer, waiters, consVars>>

Sleepers(s) == {c \in Consumers : cpc[c] = "asleep" /\ SlotOf(next[c]) = s}

\* Variants: the wake goes to the slot next_publish_ has moved on to; the
\* producer takes the consumers it wakes off the count.
Wake_NextSlot ==
  /\ ppc = "wake"
  /\ buffer = <<>>
  /\ cpc' = [c \in Consumers |->
               IF c \in Sleepers(SlotOf(seq + 1)) THEN "leave" ELSE cpc[c]]
  /\ ppc' = "idle"
  /\ seq' = seq + 1
  /\ UNCHANGED <<fixed, word, buffer, waiters, next, iter, seen>>
Wake_CountsDown ==
  /\ ppc = "wake"
  /\ \E c \in Sleepers(CurSlot) : cpc' = [cpc EXCEPT ![c] = "leave"]
  /\ waiters' = waiters - 1
  /\ ppc' = "idle"
  /\ seq' = seq + 1
  /\ UNCHANGED <<fixed, word, buffer, next, iter, seen>>

\* FUTEX_WAKE_PRIVATE on the slot just stamped; the kernel sees all stores.
Wake ==
  /\ ppc = "wake"
  /\ buffer = <<>>
  /\ cpc' = [c \in Consumers |->
               IF c \in Sleepers(CurSlot) \cap Local THEN "leave" ELSE cpc[c]]
  /\ ppc' = "idle"
  /\ seq' = seq + 1
  /\ UNCHANGED <<fixed, word, buffer, waiters, next, iter, seen>>

FinishPublish == Stamp \/ Advance \/ LoadWaiters \/ Wake

----------------------------------------------------------------------------
(* A consumer in read_blocking(). *)

Goto(c, where) == cpc' = [cpc EXCEPT ![c] = where]

\* do_read(next_) returns ok, and the message is committed.
ReadOk(c) ==
  /\ cpc[c] = "read"
  /\ ReadStatus(Want(c), next[c]) = "ok"
  /\ next' = [next EXCEPT ![c] = @ + 1]
  /\ iter' = [iter EXCEPT ![c] = 0]
  /\ UNCHANGED <<fixed, word, waiters, cpc, seen, prodVars>>

ReadLapped(c) ==
  /\ cpc[c] = "read"
  /\ ReadStatus(Want(c), next[c]) = "lapped"
  /\ Goto(c, "resync")
  /\ iter' = [iter EXCEPT ![c] = 0]
  /\ UNCHANGED <<fixed, word, waiters, next, seen, prodVars>>

Resync(c) ==
  /\ cpc[c] = "resync"
  /\ next' = [next EXCEPT ![c] = ResyncTarget(word[NextPublish])]
  /\ Goto(c, "read")
  /\ UNCHANGED <<fixed, word, waiters, iter, seen, prodVars>>

ReadEmpty(c) ==
  /\ cpc[c] = "read"
  /\ ReadStatus(Want(c), next[c]) = "empty"
  /\ Goto(c, "wait")
  /\ UNCHANGED <<fixed, word, waiters, next, iter, seen, prodVars>>

\* Variant: iter is forgotten between two polls.
SpinOnce_Forgets(c) ==
  /\ cpc[c] = "wait"
  /\ iter[c] < SpinBeforeSyscall
  /\ Goto(c, "read")
  /\ UNCHANGED <<fixed, word, waiters, next, iter, seen, prodVars>>

\* wait(): the first iterations only pause.
SpinOnce(c) ==
  /\ cpc[c] = "wait"
  /\ iter[c] < SpinBeforeSyscall
  /\ iter' = [iter EXCEPT ![c] = @ + 1]
  /\ Goto(c, "read")
  /\ UNCHANGED <<fixed, word, waiters, next, seen, prodVars>>

Announce(c) ==
  /\ cpc[c] = "wait"
  /\ iter[c] >= SpinBeforeSyscall
  /\ waiters' = waiters + 1
  /\ Goto(c, "reload")
  /\ UNCHANGED <<fixed, word, next, iter, seen, prodVars>>

\* The decisive re-load.  Both sentinels compare as "already caught up".
Reload(c) ==
  /\ cpc[c] = "reload"
  /\ seen' = [seen EXCEPT ![c] = Want(c)]
  /\ Goto(c, IF Want(c) >= next[c] THEN "leave" ELSE "sleep")
  /\ UNCHANGED <<fixed, word, waiters, next, iter, prodVars>>

\* FUTEX_WAIT_PRIVATE: the kernel compares the word and queues the thread in
\* one step, or returns EAGAIN.
Sleep(c) ==
  /\ cpc[c] = "sleep"
  /\ Goto(c, IF Low(Want(c)) = Low(seen[c]) THEN "asleep" ELSE "leave")
  /\ UNCHANGED <<fixed, word, waiters, next, iter, seen, prodVars>>

\* A signal ends the system call.
Interrupt(c) ==
  /\ cpc[c] = "asleep"
  /\ Goto(c, "leave")
  /\ UNCHANGED <<fixed, word, waiters, next, iter, seen, prodVars>>

Leave(c) ==
  /\ cpc[c] = "leave"
  /\ waiters' = waiters - 1
  /\ Goto(c, "read")
  /\ seen' = [seen EXCEPT ![c] = 0]
  /\ UNCHANGED <<fixed, word, next, iter, prodVars>>

ConsumerStep(c) ==
  \/ ReadOk(c) \/ ReadLapped(c) \/ Resync(c) \/ ReadEmpty(c)
  \/ SpinOnce(c) \/ Announce(c) \/ Reload(c) \/ Sleep(c) \/ Leave(c)

Next ==
  \/ Begin \/ FinishPublish \/ Drain
  \/ \E c \in Consumers : ConsumerStep(c) \/ Interrupt(c)

Spec == Init /\ [][Next]_vars

(* Stores reach memory, a publish that was begun goes on and a consumer     *)
(* that is awake runs; the next publish and signals are not promised.       *)
FairSpec ==
  /\ Spec
  /\ WF_vars(FinishPublish)
  /\ WF_vars(Drain)
  /\ \A c \in Consumers : WF_vars(ConsumerStep(c))

----------------------------------------------------------------------------
(* Properties. *)

TypeOK ==
  /\ policy \in Policies /\ depth \in Depths
  /\ word \in [Addresses -> Stamps]
  /\ buffer \in Seq([at : Addresses, val : Stamps]) /\ Len(buffer) <= depth
  /\ waiters \in Nat
  /\ ppc \in {"idle", "stamp", "advance", "notify", "wake"}
  /\ seq \in Seqs
  /\ cpc \in [Consumers -> {"read", "resync", "wait", "reload", "sleep",
                            "asleep", "leave"}]
  /\ next \in [Consumers -> Seqs]
  /\ iter \in [Consumers -> 0 .. SpinBeforeSyscall]
  /\ seen \in [Consumers -> Stamps]

\* The kernel takes the stamp in c's slot for the one c saw: a futex word is the
\* low half of a stamp, and comes again after WordMod messages.
SameWord(c) == Low(Want(c)) = Low(seen[c])

\* Some stamp c's slot has held by now, of a message c wants or the marker, has
\* the word of the one c saw, so that c may have gone to sleep on it.
WordRepeats(c) ==
  \/ Low(WritingSeq) = Low(seen[c])
  \/ \E n \in next[c] .. seq :
       SlotOf(n) = SlotOf(next[c]) /\ Low(n) = Low(seen[c])

\* Under sequential consistency a consumer of the producer's process never sleeps
\* on a slot that already holds its message, or a newer one, unless the producer
\* is still on its way to wake that slot; but for a word that came round between
\* the re-load and the system call.
NoLostWakeup ==
  \A c \in Local :
    depth = 0 /\ cpc[c] = "asleep" /\ Want(c) >= next[c] =>
      SameWord(c) \/ (ppc # "idle" /\ CurSlot = SlotOf(next[c]))

\* Whenever the producer pauses, every message has reached every consumer: no
\* one sleeps through the end of the stream.
EveryMessageArrives == <>[](\A c \in Consumers : next[c] = seq)

\* In the producer's process, under sequential consistency, the same but for a word
\* that came round; with a store buffer, whatever is left unread when the producer
\* pauses is the last lap of a sleeper.
AllButASleepersLastLapArrives ==
  <>[](\A c \in Local :
         \/ next[c] = seq
         \/ /\ cpc[c] = "asleep"
            /\ WordRepeats(c) \/ (depth > 0 /\ seq <= next[c] + Capacity))

\* However late the producer's stores reach memory, a sleeper of its process is
\* overlooked for a lap at most: the publish that reuses its slot wakes it.  (For
\* a store buffer shorter than a lap; but for a word that came round.)
OverlookedForALapAtMost ==
  \A c \in Local :
    cpc[c] = "asleep" => seq <= next[c] + Capacity \/ WordRepeats(c)

Interrupted == []<><<\E c \in Consumers : Interrupt(c)>>_vars

\* A consumer that waits in front of a paused producer ends up asleep in the
\* kernel: from the first lap on, because wait() takes the sentinel of a slot
\* that was never published for a message, and unless signals never cease.
ParksAfterFirstLap ==
  \A c \in Consumers :
    \/ Interrupted
    \/ <>[](ppc = "idle" /\ seq >= Capacity) => <>[](cpc[c] = "asleep")

\* The number of stores the producer has executed: under Overwrite a marker
\* precedes each stamp, and a count follows it under both policies.
Step ==
  IF ppc = "idle" THEN 0 ELSE IF ppc = "stamp" THEN 1 ELSE IF ppc = "advance" THEN 2 ELSE 3
Issued ==
  IF policy = "Overwrite" THEN 3 * seq + Step
                          ELSE 2 * seq + IF Step = 0 THEN 0 ELSE Step - 1
Drained == Issued - Len(buffer)

\* The number of messages whose stamp is in memory.
Visible == (Drained + 1) \div (IF policy = "Overwrite" THEN 3 ELSE 2)

\* However long its stores are underway and whatever the producer and the other
\* consumers do, a consumer reads the one stream in order, is never ahead of what
\* has reached memory, and a resync loses only what lies a lap behind and never
\* goes back, although the count it trusts lags the stamps.
Fanout == INSTANCE LossyFanout WITH
            Parts <- {}, NoMessage <- <<>>,
            published <- Visible, delivered <- [c \in Consumers |-> <<>>]
ImplementsLossyFanout == Fanout!Spec

\* Under Backpressure a stamp that is stored late laps nobody.
NoLapUnderBackpressure ==
  policy = "Backpressure" => \A c \in Consumers : cpc[c] # "resync"
============================================================================
