---------------------------- MODULE MCShmSegment ----------------------------
(* A small instance of ShmSegment: two creators of one name, restarts or rivals
   of each other and compiled with different rings, and an opener that expects
   the ring of the first. *)
EXTENDS ShmSegment

CONSTANTS k1, k2, o1, ringA, ringB

MCLayout == [p \in {k1, k2, o1} |-> IF p = k2 THEN ringB ELSE ringA]
MCBytes == [l \in {ringA, ringB} |-> IF l = ringA THEN 3 ELSE 2]
============================================================================
