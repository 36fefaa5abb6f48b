----------------------------- MODULE LatencyRun -----------------------------
(***************************************************************************)
(* run_latency() of the latency benchmark: a producer that paces itself    *)
(* puts the time of sending into each message, one consumer takes the time *)
(* of receipt, reads the other out of the slot and records the difference. *)
(* The ring is the abstract fan-out that BackpressureRing is shown to      *)
(* implement, so that neither lapped nor a failing validate() occurs, and  *)
(* read_blocking() returns when there is a message.  `done' is stored and  *)
(* never loaded.  Time is an integer clock; it stands still at MaxTime,    *)
(* where the producer no longer waits for it.                              *)
(***************************************************************************)
EXTENDS Integers, FiniteSets

CONSTANTS
  Consumer, Parts, Capacity, NoMessage,
  Warmup,     \* warmup_msgs
  Measure,    \* measure_msgs
  Gap,        \* gap_ns
  Overhead,   \* oh
  HistMax,    \* kHistMaxNs
  MaxTime     \* bound: the clock stops here

Total == Warmup + Measure

VARIABLES
  published, member, next, delivered,   \* the ring
  slot,       \* the first 8 bytes of a slot's payload
  clock,      \* now_ns()
  ready,      \* consumer_ready
  ppc,        \* where the producer is
  msg,        \* send, the first 8 bytes of msg
  nextSend,   \* next_send
  cpc,        \* where the consumer thread is
  recv, send, \* recv and send of the consumer
  seen,       \* seen
  histOk,     \* hdr_init() succeeded
  hist,       \* how often the histogram holds a value
  sentAt,     \* history: when each message was sent
  recvAt      \* history: when each message was received

ringVars == <<published, member, next, delivered>>
prodVars == <<slot, ppc, msg, nextSend, sentAt>>
consVars == <<ready, cpc, recv, send, seen, hist, recvAt>>
vars == <<ringVars, prodVars, consVars, clock, histOk>>

Ring == INSTANCE LosslessFanout WITH
          Consumers <- {Consumer}, MaxPublish <- Total

SlotOf(seq) == seq % Capacity

Init ==
  /\ Ring!Init
  /\ slot = [s \in 0 .. Capacity - 1 |-> 0]
  /\ clock = 0
  /\ ready = FALSE
  /\ ppc = "await" /\ msg = 0 /\ nextSend = 0
  /\ cpc = "new" /\ recv = 0 /\ send = 0 /\ seen = 0
  /\ histOk \in BOOLEAN
  /\ hist = [v \in 1 .. HistMax |-> 0]
  /\ sentAt = [i \in 0 .. Total - 1 |-> 0]
  /\ recvAt = [i \in 0 .. Total - 1 |-> 0]

Tick ==
  /\ clock < MaxTime
  /\ clock' = clock + 1
  /\ UNCHANGED <<ringVars, prodVars, consVars, histOk>>

----------------------------------------------------------------------------
(* The producer. *)

\* Variant: the consumer is not waited for.
AwaitReady_Not ==
  /\ ppc = "await"
  /\ ppc' = "pace"
  /\ nextSend' = clock
  /\ UNCHANGED <<ringVars, slot, msg, sentAt, consVars, clock, histOk>>

AwaitReady ==
  /\ ppc = "await"
  /\ ready
  /\ ppc' = "pace"
  /\ nextSend' = clock
  /\ UNCHANGED <<ringVars, slot, msg, sentAt, consVars, clock, histOk>>

\* The busy wait for next_send is over; send = now_ns().
Stamp ==
  /\ ppc = "pace"
  /\ published < Total
  /\ clock >= nextSend \/ clock = MaxTime
  /\ msg' = clock
  /\ nextSend' = clock + Gap
  /\ sentAt' = [sentAt EXCEPT ![published] = clock]
  /\ ppc' = "publish"
  /\ UNCHANGED <<ringVars, slot, consVars, clock, histOk>>

\* Variant: an Overwrite ring.
Publish_Overwrite ==
  /\ ppc = "publish"
  /\ published' = published + 1
  /\ slot' = [slot EXCEPT ![SlotOf(published)] = msg]
  /\ ppc' = "pace"
  /\ UNCHANGED <<member, next, delivered>>
  /\ UNCHANGED <<msg, nextSend, sentAt, consVars, clock, histOk>>

Publish ==
  /\ ppc = "publish"
  /\ Ring!Publish
  /\ slot' = [slot EXCEPT ![SlotOf(published)] = msg]
  /\ ppc' = "pace"
  /\ UNCHANGED <<msg, nextSend, sentAt, consVars, clock, histOk>>

Join ==
  /\ ppc = "pace"
  /\ published = Total
  /\ cpc = "done"
  /\ ppc' = "finished"
  /\ UNCHANGED <<ringVars, slot, msg, nextSend, sentAt, consVars, clock, histOk>>

ProducerStep == AwaitReady \/ Stamp \/ Publish \/ Join

----------------------------------------------------------------------------
(* The consumer thread. *)

\* A constructed Consumer starts at message 0.
Construct ==
  /\ cpc = "new"
  /\ Ring!Join(Consumer) /\ next'[Consumer] = 0
  /\ ready' = TRUE
  /\ cpc' = IF Total > 0 THEN "read" ELSE "done"
  /\ UNCHANGED <<recv, send, seen, hist, recvAt, prodVars, clock, histOk>>

\* read_blocking() returns; recv = now_ns().
Receive ==
  /\ cpc = "read"
  /\ next[Consumer] < published
  /\ recv' = clock
  /\ recvAt' = [recvAt EXCEPT ![next[Consumer]] = clock]
  /\ cpc' = "copy"
  /\ UNCHANGED <<ready, send, seen, hist, ringVars, prodVars, clock, histOk>>

\* memcpy out of the view, and validate().
CopyStamp ==
  /\ cpc = "copy"
  /\ send' = slot[SlotOf(next[Consumer])]
  /\ cpc' = "commit"
  /\ UNCHANGED <<ready, recv, seen, hist, recvAt, ringVars, prodVars, clock, histOk>>

\* Histogram::record(); the histogram refuses what is beyond its range.
Record(lat) ==
  LET v == IF lat >= 1 THEN lat ELSE 1
  IN  hist' = IF histOk /\ v <= HistMax THEN [hist EXCEPT ![v] = @ + 1] ELSE hist

\* Variant: the warm-up takes one message too many.
Commit_WarmsUpLonger ==
  /\ cpc = "commit"
  /\ Ring!Deliver(Consumer)
  /\ IF seen > Warmup THEN Record(recv - send - Overhead)
                      ELSE UNCHANGED hist
  /\ seen' = seen + 1
  /\ cpc' = IF seen + 1 < Total THEN "read" ELSE "done"
  /\ UNCHANGED <<ready, recv, send, recvAt, prodVars, clock, histOk>>

\* commit(), then the sample is recorded unless it belongs to the warm-up.
Commit ==
  /\ cpc = "commit"
  /\ Ring!Deliver(Consumer)
  /\ IF seen >= Warmup THEN Record(recv - send - Overhead)
                       ELSE UNCHANGED hist
  /\ seen' = seen + 1
  /\ cpc' = IF seen + 1 < Total THEN "read" ELSE "done"
  /\ UNCHANGED <<ready, recv, send, recvAt, prodVars, clock, histOk>>

ConsumerStep == Construct \/ Receive \/ CopyStamp \/ Commit

Next == Tick \/ ProducerStep \/ ConsumerStep

Spec == Init /\ [][Next]_vars

(* Both threads keep running, and so does time. *)
FairSpec ==
  /\ Spec
  /\ WF_vars(Tick) /\ WF_vars(ProducerStep) /\ WF_vars(ConsumerStep)

----------------------------------------------------------------------------
(* Properties. *)

\* The consumer subtracts the time of the message it received: it reads the
\* slot through the span, however long after read_blocking() returned, and the
\* producer cannot have put a later message there.
OwnTimestamp == cpc = "commit" => send = sentAt[next[Consumer]] /\ send <= recv

\* What the message numbered i took, without the clock's own cost.
Sample(i) ==
  LET lat == recvAt[i] - sentAt[i] - Overhead IN IF lat >= 1 THEN lat ELSE 1

\* The histogram is the distribution of the samples of the messages after the
\* warm-up, each counted once and no other message, save those slower than its
\* range: these are missing from the tail.
AllMeasured ==
  /\ \A v \in 1 .. HistMax :
       hist[v] = IF histOk
                   THEN Cardinality({i \in Warmup .. seen - 1 : Sample(i) = v})
                   ELSE 0
  /\ ppc = "finished" => seen = Total

\* The run ends: the consumer has registered before the producer can lap it,
\* and a stalled producer resumes when the consumer commits.
RunEnds == <>(ppc = "finished")
============================================================================
