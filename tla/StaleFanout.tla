---------------------------- MODULE StaleFanout ----------------------------
(***************************************************************************)
(* What is left of the promise of LossyFanout where a count of messages    *)
(* may be read that is older than a stamp: still one stream, whole         *)
(* messages, none skipped but what is a lap behind.  But a consumer whose  *)
(* message is gone may also start again up to a lap before it, and then is *)
(* handed messages twice.                                                  *)
(***************************************************************************)
EXTENDS LossyFanout

\* Back to message k, while the stream has left what c wants a lap behind.
FallBack(c) ==
  /\ next[c] + Capacity <= published
  /\ \E k \in next[c] - Capacity .. next[c] - 1 :
       /\ k >= 0
       /\ next' = [next EXCEPT ![c] = k]
  /\ UNCHANGED <<published, delivered>>

StaleNext == Next \/ \E c \in Consumers : FallBack(c)

StaleSpec == Init /\ [][StaleNext]_vars
============================================================================
