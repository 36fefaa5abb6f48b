--------------------------- MODULE ThroughputCell ---------------------------
(***************************************************************************)
(* run_cell() of the throughput benchmark: Reps repetitions of one timed   *)
(* loop, each with a fresh Overwrite ring, fresh flags and fresh reader    *)
(* threads.  The ring is the abstract fan-out that OverwriteRing is shown  *)
(* to implement; the readers never look at the bytes, so a torn message    *)
(* counts like any other.  Modelled here is the protocol around the ring:  *)
(* ready, start, stop and join.                                            *)
(***************************************************************************)
EXTENDS Integers, FiniteSets

CONSTANTS
  Readers, Parts, Capacity, NoMessage,
  Warmup,       \* warmup
  Messages,     \* messages
  Reps          \* reps

ASSUME CellAssumption ==
  /\ IsFiniteSet(Readers) /\ Capacity \in Nat \ {0}
  /\ Warmup \in Nat /\ Messages \in Nat /\ Reps \in Nat \ {0}

VARIABLES
  published, next, delivered,     \* the ring
  start, stop, ready,             \* start, stop, ready
  rpc,                            \* where a reader thread is
  mpc,                            \* where the main thread is
  rep                             \* rep

ringVars == <<published, next, delivered>>
flagVars == <<start, stop, ready>>
vars == <<ringVars, flagVars, rpc, mpc, rep>>

Ring == INSTANCE LossyFanout WITH
          Consumers <- Readers, MaxPublish <- Warmup + Messages

Init ==
  /\ Ring!Init
  /\ start = FALSE /\ stop = FALSE /\ ready = 0
  /\ rpc = [r \in Readers |-> "new"]
  /\ mpc = "await"
  /\ rep = 0

----------------------------------------------------------------------------
(* A reader thread. *)

\* The Consumer is constructed, then ready is counted up.
Report(r) ==
  /\ rpc[r] = "new"
  /\ ready' = ready + 1
  /\ rpc' = [rpc EXCEPT ![r] = "barrier"]
  /\ UNCHANGED <<ringVars, start, stop, mpc, rep>>

\* Variant: the barrier opens only while the cell is running.
PassBarrier_WhileRunning(r) ==
  /\ rpc[r] = "barrier"
  /\ start /\ ~stop
  /\ rpc' = [rpc EXCEPT ![r] = "loop"]
  /\ UNCHANGED <<ringVars, flagVars, mpc, rep>>

PassBarrier(r) ==
  /\ rpc[r] = "barrier"
  /\ start
  /\ rpc' = [rpc EXCEPT ![r] = "loop"]
  /\ UNCHANGED <<ringVars, flagVars, mpc, rep>>

LoadStop(r) ==
  /\ rpc[r] = "loop"
  /\ rpc' = [rpc EXCEPT ![r] = IF stop THEN "done" ELSE "poll"]
  /\ UNCHANGED <<ringVars, flagVars, mpc, rep>>

ReadOk(r) ==
  /\ rpc[r] = "poll"
  /\ Ring!Deliver(r)
  /\ rpc' = [rpc EXCEPT ![r] = "loop"]
  /\ UNCHANGED <<flagVars, mpc, rep>>

ReadLapped(r) ==
  /\ rpc[r] = "poll"
  /\ Ring!Lose(r)
  /\ rpc' = [rpc EXCEPT ![r] = "loop"]
  /\ UNCHANGED <<flagVars, mpc, rep>>

\* Nothing to read, or a slot that is being written.
ReadEmpty(r) ==
  /\ rpc[r] = "poll"
  /\ rpc' = [rpc EXCEPT ![r] = "loop"]
  /\ UNCHANGED <<ringVars, flagVars, mpc, rep>>

ReaderStep(r) ==
  \/ Report(r) \/ PassBarrier(r) \/ LoadStop(r)
  \/ ReadOk(r) \/ ReadLapped(r) \/ ReadEmpty(r)

----------------------------------------------------------------------------
(* The main thread. *)

\* Variant: the main thread counts itself among the ready.
AwaitReady_OneShort ==
  /\ mpc = "await"
  /\ ready + 1 >= Cardinality(Readers)
  /\ mpc' = "warmup"
  /\ UNCHANGED <<ringVars, flagVars, rpc, rep>>

AwaitReady ==
  /\ mpc = "await"
  /\ ready >= Cardinality(Readers)
  /\ mpc' = "warmup"
  /\ UNCHANGED <<ringVars, flagVars, rpc, rep>>

Publish ==
  /\ \/ mpc = "warmup" /\ published < Warmup
     \/ mpc = "timed"
  /\ Ring!Publish
  /\ UNCHANGED <<flagVars, rpc, mpc, rep>>

Start ==
  /\ mpc = "warmup"
  /\ published = Warmup
  /\ start' = TRUE
  /\ mpc' = "timed"
  /\ UNCHANGED <<ringVars, stop, ready, rpc, rep>>

Stop ==
  /\ mpc = "timed"
  /\ published = Warmup + Messages
  /\ stop' = TRUE
  /\ mpc' = "join"
  /\ UNCHANGED <<ringVars, start, ready, rpc, rep>>

\* Every thread has ended; the next repetition starts from nothing.
Join ==
  /\ mpc = "join"
  /\ \A r \in Readers : rpc[r] = "done"
  /\ rep' = rep + 1
  /\ IF rep + 1 < Reps
       THEN /\ mpc' = "await"
            /\ published' = 0
            /\ next' = [r \in Readers |-> 0]
            /\ delivered' = [r \in Readers |-> NoMessage]
            /\ start' = FALSE /\ stop' = FALSE /\ ready' = 0
            /\ rpc' = [r \in Readers |-> "new"]
       ELSE mpc' = "finished" /\ UNCHANGED <<ringVars, flagVars, rpc>>

MainStep == AwaitReady \/ Publish \/ Start \/ Stop \/ Join

Next == MainStep \/ \E r \in Readers : ReaderStep(r)

Spec == Init /\ [][Next]_vars

(* Every thread keeps running. *)
FairSpec ==
  /\ Spec
  /\ WF_vars(MainStep)
  /\ \A r \in Readers : WF_vars(ReaderStep(r))

----------------------------------------------------------------------------
(* Properties. *)

\* In every repetition the clock runs with every reader constructed and counted
\* ready, so that no thread is being started while publishes are timed.  A reader
\* may still be at the barrier.
TimedWithAllReaders ==
  mpc \in {"warmup", "timed"} => \A r \in Readers : rpc[r] # "new"

\* The cell ends: a reader that reaches the barrier late, or is lapped again
\* and again, still sees start and then stop, and is joined.
CellEnds == <>(mpc = "finished")
============================================================================
