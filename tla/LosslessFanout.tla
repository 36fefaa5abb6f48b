--------------------------- MODULE LosslessFanout ---------------------------
(***************************************************************************)
(* What a Backpressure ring promises: the stream never runs more than      *)
(* Capacity ahead of a member, and a member receives every message from    *)
(* the one it joined at, whole and in order.  Members come and go.         *)
(***************************************************************************)
EXTENDS Integers

CONSTANTS
  Consumers, Parts, Capacity, MaxPublish,
  NoMessage    \* what a consumer holds before its first message

VARIABLES
  published,   \* messages in the stream so far: 0 .. published-1
  member,      \* the consumers that have joined
  next,        \* next[c]: the message member c wants, 0 for the others
  delivered    \* delivered[c]: the last message handed to c

vars == <<published, member, next, delivered>>

Message(seq) == [p \in Parts |-> seq]

Init ==
  /\ published = 0
  /\ member = {}
  /\ next = [c \in Consumers |-> 0]
  /\ delivered = [c \in Consumers |-> NoMessage]

Publish ==
  /\ published < MaxPublish
  /\ \A c \in member : published < next[c] + Capacity
  /\ published' = published + 1
  /\ UNCHANGED <<member, next, delivered>>

\* Join at a message that has not been overwritten.
Join(c) ==
  /\ c \notin member
  /\ \E k \in 0 .. published :
       /\ published <= k + Capacity
       /\ next' = [next EXCEPT ![c] = k]
  /\ member' = member \cup {c}
  /\ UNCHANGED <<published, delivered>>

Deliver(c) ==
  /\ c \in member
  /\ next[c] < published
  /\ delivered' = [delivered EXCEPT ![c] = Message(next[c])]
  /\ next' = [next EXCEPT ![c] = @ + 1]
  /\ UNCHANGED <<published, member>>

Leave(c) ==
  /\ c \in member
  /\ member' = member \ {c}
  /\ next' = [next EXCEPT ![c] = 0]
  /\ delivered' = [delivered EXCEPT ![c] = NoMessage]
  /\ UNCHANGED published

Next ==
  \/ Publish
  \/ \E c \in Consumers : Join(c) \/ Deliver(c) \/ Leave(c)

Spec == Init /\ [][Next]_vars
============================================================================
