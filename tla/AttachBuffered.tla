--------------------------- MODULE AttachBuffered ---------------------------
(***************************************************************************)
(* A Backpressure ring on x86-TSO: the stores of a thread wait in its FIFO *)
(* store buffer while it runs on, its own loads are answered from there,   *)
(* and a compare-exchange drains the buffer first.  Every consumer is      *)
(* constructed by attach_consumer_at_current() on a running ring, reads    *)
(* and leaves; the producer's gate loads the cursors, and a consumer the   *)
(* stamps and next_publish_, from memory.                                  *)
(*                                                                         *)
(* publish() makes only stores after its gate, so that they enter the      *)
(* buffer in one step; they reach memory one by one.  A message has two of *)
(* them there: payload with stamp, and next_publish_.                      *)
(***************************************************************************)
EXTENDS CursorRegistry, Sequences

CONSTANTS
  StoreBufferDepth,   \* stores the buffer of a consumer holds
  ProducerDepth       \* stores the buffer of the producer holds

ASSUME BufferAssumption ==
  /\ StoreBufferDepth \in Nat \ {0}
  /\ ProducerDepth \in Nat /\ ProducerDepth >= 2

VARIABLES
  buffer,       \* buffer[c]: cursor stores of c that are not in memory yet
  nextPublish,  \* next_publish_ as the producer has it: publishes executed
  stamped,      \* messages whose payload and stamp are in memory
  counted,      \* next_publish_ in memory
  ppc,          \* where the producer is inside publish()
  scan,         \* the cursor entry await_consumers_past() looks at
  cpc,          \* where a registered consumer is
  next,         \* next_
  reused,       \* history: c's entry carried a departed consumer's cursor
  late          \* history: a lap of publishes was not counted when c attached

memVars == <<stamped, counted>>
prodVars == <<nextPublish, memVars, ppc, scan>>
attachGhosts == <<reused, late>>
attachVars == <<regVars, buffer, prodVars, cpc, next, attachGhosts>>

AttachInit ==
  /\ RegInit
  /\ buffer = [c \in Consumers |-> <<>>]
  /\ nextPublish = 0
  /\ stamped = 0
  /\ counted = 0
  /\ ppc = "idle"
  /\ scan = 0
  /\ cpc = [c \in Consumers |-> "none"]
  /\ next = [c \in Consumers |-> 0]
  /\ reused = [c \in Consumers |-> FALSE]
  /\ late = [c \in Consumers |-> FALSE]

----------------------------------------------------------------------------
(* publish() *)

Begin ==
  /\ ppc = "idle"
  /\ nextPublish < MaxPublish
  /\ ppc' = IF nextPublish >= Capacity THEN "in_use" ELSE "write"
  /\ UNCHANGED <<nextPublish, memVars, scan, regVars, buffer, cpc, next, attachGhosts>>

ScanOn ==
  IF scan + 1 < MaxConsumers THEN ppc' = "in_use" /\ scan' = scan + 1
                             ELSE ppc' = "write" /\ scan' = 0

LoadInUse ==
  /\ ppc = "in_use"
  /\ IF inUse[scan] THEN ppc' = "value" /\ UNCHANGED scan ELSE ScanOn
  /\ UNCHANGED <<nextPublish, memVars, regVars, buffer, cpc, next, attachGhosts>>

\* Variant: a cursor still at the slot's message counts as past it.
LoadValue_OffByOne ==
  /\ ppc = "value"
  /\ IF value[scan] < nextPublish - Capacity
       THEN ppc' = "in_use" /\ scan' = 0
       ELSE ScanOn
  /\ UNCHANGED <<nextPublish, memVars, regVars, buffer, cpc, next, attachGhosts>>

LoadValue ==
  /\ ppc = "value"
  /\ IF value[scan] <= nextPublish - Capacity
       THEN ppc' = "in_use" /\ scan' = 0
       ELSE ScanOn
  /\ UNCHANGED <<nextPublish, memVars, regVars, buffer, cpc, next, attachGhosts>>

\* The stores of payload, stamp and next_publish_.
InBuffer(published) == (published - stamped) + (published - counted)

Publish ==
  /\ ppc = "write"
  /\ InBuffer(nextPublish + 1) <= ProducerDepth
  /\ nextPublish' = nextPublish + 1
  /\ ppc' = "idle"
  /\ UNCHANGED <<memVars, scan, regVars, buffer, cpc, next, attachGhosts>>

----------------------------------------------------------------------------
(* Store buffers. *)

DrainStamp ==
  /\ stamped = counted /\ stamped < nextPublish
  /\ stamped' = stamped + 1
  /\ UNCHANGED <<nextPublish, counted, ppc, scan, regVars, buffer, cpc, next, attachGhosts>>

DrainCount ==
  /\ counted < stamped
  /\ counted' = counted + 1
  /\ UNCHANGED <<nextPublish, stamped, ppc, scan, regVars, buffer, cpc, next, attachGhosts>>

\* value.store(v) on the entry of c; nothing is stored without an entry.
Buffer(c, v) ==
  IF cursorId[c] < MaxConsumers
    THEN /\ Len(buffer[c]) < StoreBufferDepth
         /\ buffer' = [buffer EXCEPT ![c] = Append(@, v)]
    ELSE UNCHANGED buffer

Drain(c) ==
  /\ buffer[c] # <<>>
  /\ value' = [value EXCEPT ![cursorId[c]] = Head(buffer[c])]
  /\ buffer' = [buffer EXCEPT ![c] = Tail(@)]
  /\ UNCHANGED <<inUse, stage, cursorId, prodVars, cpc, next, attachGhosts>>

----------------------------------------------------------------------------
(* attach_consumer_at_current(), reading and leaving. *)

Construct(c) ==
  /\ Enter(c)
  /\ UNCHANGED <<buffer, prodVars, cpc, next, attachGhosts>>

\* The compare-exchange needs an empty buffer, which a consumer that holds no
\* entry always has.
ClaimEntry(c) ==
  /\ buffer[c] = <<>>
  /\ Claim(c)
  /\ reused' = [reused EXCEPT ![c] = value[cursorId[c]] = Infinity]
  /\ UNCHANGED <<buffer, prodVars, cpc, next, late>>

TryNext(c) ==
  /\ SkipTaken(c)
  /\ cpc' = [cpc EXCEPT ![c] = IF stage'[c] = "in" THEN "produced" ELSE @]
  /\ UNCHANGED <<buffer, prodVars, next, attachGhosts>>

BufferZero(c) ==
  /\ stage[c] = "init"
  /\ Buffer(c, 0)
  /\ stage' = [stage EXCEPT ![c] = "in"]
  /\ cpc' = [cpc EXCEPT ![c] = "produced"]
  /\ UNCHANGED <<inUse, value, cursorId, prodVars, next, attachGhosts>>

\* produced() loads the count from memory, which may be behind the gate.
LoadProduced(c) ==
  /\ cpc[c] = "produced"
  /\ next' = [next EXCEPT ![c] = counted]
  /\ late' = [late EXCEPT ![c] = nextPublish >= counted + Capacity]
  /\ cpc' = [cpc EXCEPT ![c] = "seek"]
  /\ UNCHANGED <<regVars, buffer, prodVars, reused>>

Seek(c) ==
  /\ cpc[c] = "seek"
  /\ Buffer(c, next[c])
  /\ cpc' = [cpc EXCEPT ![c] = "member"]
  /\ UNCHANGED <<regVars, prodVars, next, attachGhosts>>

\* A later message is, or has been, on its way into the slot of the one c wants:
\* it has passed the gate, and everything before it is in memory.
Overrun(c) ==
  /\ cpc[c] = "member"
  /\ (IF ppc = "write" THEN nextPublish + 1 ELSE nextPublish) > next[c] + Capacity
  /\ counted >= next[c] + Capacity

\* do_read() returns ok, the stamp being that of the message, and commit().
Commit(c) ==
  /\ cpc[c] = "member"
  /\ next[c] < stamped /\ stamped <= next[c] + Capacity
  /\ next' = [next EXCEPT ![c] = @ + 1]
  /\ Buffer(c, next[c] + 1)
  /\ UNCHANGED <<regVars, prodVars, cpc, attachGhosts>>

\* The destructor.  Its store to in_use follows the one that parks the cursor
\* out of the buffer.
Depart(c) ==
  /\ \/ /\ cpc[c] = "member" /\ Tracked(c)
        /\ Buffer(c, Infinity)
        /\ stage' = [stage EXCEPT ![c] = "release"]
        /\ UNCHANGED <<inUse, value, cursorId>>
     \/ /\ cpc[c] \in {"none", "member"} /\ ~Tracked(c) /\ buffer[c] = <<>>
        /\ Unregister(c)
        /\ UNCHANGED buffer
  /\ cpc' = [cpc EXCEPT ![c] = "none"]
  /\ next' = [next EXCEPT ![c] = 0]
  /\ reused' = [reused EXCEPT ![c] = FALSE]
  /\ late' = [late EXCEPT ![c] = FALSE]
  /\ UNCHANGED prodVars

ConsumerStep(c) ==
  \/ Construct(c) \/ ClaimEntry(c) \/ TryNext(c) \/ BufferZero(c)
  \/ LoadProduced(c) \/ Seek(c) \/ Commit(c) \/ Depart(c)

AttachNext ==
  \/ Begin \/ LoadInUse \/ LoadValue \/ Publish \/ DrainStamp \/ DrainCount
  \/ \E c \in Consumers : Drain(c) \/ ConsumerStep(c)

AttachSpec == AttachInit /\ [][AttachNext]_attachVars

----------------------------------------------------------------------------
(* Properties. *)

\* A message a consumer has attached for is overwritten before it is read in two
\* cases only: the consumer was given the entry of one that left, whose ~0 the
\* gate sees until the new cursor is out of the buffer; or a whole lap of publishes
\* was still in the producer's buffer when produced() was loaded.
OverrunNeedsReuseOrLateCount ==
  \A c \in Consumers : Tracked(c) /\ Overrun(c) => reused[c] \/ late[c]

\* "The returned consumer is lossless from the attach point forward."
AttachIsLossless == \A c \in Consumers : Tracked(c) => ~Overrun(c)
============================================================================
