---------------------------- MODULE SegmentRuns ----------------------------
(***************************************************************************)
(* A segment on x86-TSO in both its parts: the name and the header that    *)
(* processes create and open, and the ring consumers attach to.  They      *)
(* share no state once the ring is built, so a behaviour is one of either. *)
(***************************************************************************)
EXTENDS MCShmSegment, MCAttachBuffered

VARIABLE part   \* the part that is watched

segmentVars == <<part, vars, attachVars>>

SegmentInit == Init /\ AttachInit /\ part \in {"name", "ring"}

Lifecycle(step) == part = "name" /\ step /\ UNCHANGED <<part, attachVars>>
Attached(step) == part = "ring" /\ step /\ UNCHANGED <<part, vars>>

SegmentNext == Lifecycle(Next) \/ Attached(AttachNext)

SegmentSpec == SegmentInit /\ [][SegmentNext]_segmentVars
============================================================================
