-------------------------- MODULE MCAttachBuffered --------------------------
(* AttachBuffered for TLC: its properties do not tell consumers apart.     *)
EXTENDS AttachBuffered, TLC

Symmetry == Permutations(Consumers)
============================================================================
