---------------------------- MODULE LossyFanout ----------------------------
(***************************************************************************)
(* What an Overwrite ring promises: one stream, fanned out to every        *)
(* consumer in order and never torn.  A consumer may lose messages, but    *)
(* only ones the stream has left a full lap behind, and never goes back.   *)
(***************************************************************************)
EXTENDS Integers

CONSTANTS
  Consumers, Parts, Capacity, MaxPublish,
  NoMessage    \* what a consumer holds before its first message

VARIABLES
  published,   \* messages in the stream so far: 0 .. published-1
  next,        \* next[c]: the message c wants
  delivered    \* delivered[c]: the last message handed to c

vars == <<published, next, delivered>>

\* A whole message: every part of it carries the same sequence number.
Message(seq) == [p \in Parts |-> seq]

Init ==
  /\ published = 0
  /\ next = [c \in Consumers |-> 0]
  /\ delivered = [c \in Consumers |-> NoMessage]

Publish ==
  /\ published < MaxPublish
  /\ published' = published + 1
  /\ UNCHANGED <<next, delivered>>

Deliver(c) ==
  /\ next[c] < published
  /\ delivered' = [delivered EXCEPT ![c] = Message(next[c])]
  /\ next' = [next EXCEPT ![c] = @ + 1]
  /\ UNCHANGED published

\* Messages next[c] .. k-1 are skipped; all of them are a lap behind.
Lose(c) ==
  \E k \in next[c] + 1 .. published - Capacity :
    /\ next' = [next EXCEPT ![c] = k]
    /\ UNCHANGED <<published, delivered>>

Next ==
  \/ Publish
  \/ \E c \in Consumers : Deliver(c) \/ Lose(c)

Spec == Init /\ [][Next]_vars
============================================================================
