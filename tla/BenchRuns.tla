----------------------------- MODULE BenchRuns -----------------------------
(***************************************************************************)
(* The two benchmark programs CI runs one after the other.  They share no  *)
(* state, so a behaviour is a run of either.                               *)
(***************************************************************************)
EXTENDS ThroughputCell

CONSTANTS Consumer, Measure, Gap, Overhead, HistMax, MaxTime

ASSUME RunAssumption ==
  Measure \in Nat /\ Overhead \in Nat /\ HistMax \in Nat

VARIABLES
  bench,      \* the program that runs
  lpublished, lmember, lnext, ldelivered, slot, clock, lready, ppc, msg,
  nextSend, cpc, recv, send, seen, histOk, hist, sentAt, recvAt

Latency == INSTANCE LatencyRun WITH
             published <- lpublished, member <- lmember, next <- lnext,
             delivered <- ldelivered, ready <- lready

latencyVars ==
  <<lpublished, lmember, lnext, ldelivered, slot, clock, lready, ppc, msg,
    nextSend, cpc, recv, send, seen, histOk, hist, sentAt, recvAt>>
benchVars == <<bench, vars, latencyVars>>

BenchInit == Init /\ Latency!Init /\ bench \in {"throughput", "latency"}

Cell(step) == bench = "throughput" /\ step /\ UNCHANGED <<bench, latencyVars>>
Run(step) == bench = "latency" /\ step /\ UNCHANGED <<bench, vars>>

BenchNext == Cell(Next) \/ Run(Latency!Next)

(* Every thread of the program that runs keeps running, and so does time. *)
BenchSpec ==
  /\ BenchInit /\ [][BenchNext]_benchVars
  /\ WF_benchVars(Cell(MainStep))
  /\ \A r \in Readers : WF_benchVars(Cell(ReaderStep(r)))
  /\ WF_benchVars(Run(Latency!Tick))
  /\ WF_benchVars(Run(Latency!ProducerStep))
  /\ WF_benchVars(Run(Latency!ConsumerStep))

----------------------------------------------------------------------------
(* The properties of both, in the run they are about. *)

OwnTimestamp == Latency!OwnTimestamp
AllMeasured == Latency!AllMeasured

\* main() of each program gets past its joins.
ThroughputEnds == bench = "throughput" => CellEnds
LatencyEnds == bench = "latency" => Latency!RunEnds
============================================================================
