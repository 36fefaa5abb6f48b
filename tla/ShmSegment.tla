----------------------------- MODULE ShmSegment -----------------------------
(***************************************************************************)
(* The lifecycle of one named segment: processes create() it, open() it,   *)
(* validate its header, tear it down, fail half way and crash.  Each       *)
(* system call and each access to the shared header is a step, so an       *)
(* open() can run across another process's create() or teardown.           *)
(*                                                                         *)
(* POSIX shared memory is external: a directory entry, and inodes that     *)
(* live while they are named or held.  A layout stands for a RingT         *)
(* instantiation, every header field that identifies it, and its size.     *)
(***************************************************************************)
EXTENDS Naturals, FiniteSets

CONSTANTS
  Creators, Openers,   \* the processes, by the factory they call
  Layout,              \* Layout[p]: the RingT process p is compiled with
  Bytes,               \* Bytes[l]: segment_bytes() of a layout
  None,
  NamesLeft,           \* whether processes crash or release the name
  Contention,          \* whether create() is called on a name in use
  HeaderBytes          \* sizeof(SegmentHeader)

Procs == Creators \cup Openers
Layouts == {Layout[p] : p \in Procs}

ASSUME ShmAssumption ==
  /\ Creators \cap Openers = {} /\ IsFiniteSet(Procs)
  /\ None \notin Layouts
  /\ NamesLeft \in BOOLEAN /\ Contention \in BOOLEAN
  /\ HeaderBytes \in Nat \ {0}
  /\ \A l \in Layouts : Bytes[l] \in Nat /\ Bytes[l] > HeaderBytes

Inodes == 1 .. Cardinality(Procs) + 1
NoInode == 0

VARIABLES
  dir,       \* the inode the name leads to
  size,      \* size[i]: length of the file
  magic,     \* header.magic (and version)
  fields,    \* the header fields that describe the layout
  state,     \* header.state
  built,     \* the Ring that was constructed in the inode
  pc,        \* where a process is
  held,      \* the inode its fd_ and map_ refer to
  owns,      \* owns_name_
  fstatSize, \* st_size as open() saw it
  leaked,    \* history: a crash, or a release of ownership, left the name
  disturbed  \* history: processes whose inode was re-created under them

shmVars == <<dir, size>>
hdrVars == <<magic, fields, state, built>>
objVars == <<held, owns, fstatSize>>
ghostVars == <<leaked, disturbed>>
vars == <<shmVars, hdrVars, pc, objVars, ghostVars>>

Init ==
  /\ dir = NoInode
  /\ size = [i \in Inodes |-> 0]
  /\ magic = [i \in Inodes |-> FALSE]
  /\ fields = [i \in Inodes |-> None]
  /\ state = [i \in Inodes |-> "initializing"]
  /\ built = [i \in Inodes |-> None]
  /\ pc = [p \in Procs |-> "idle"]
  /\ held = [p \in Procs |-> NoInode]
  /\ owns = [p \in Procs |-> FALSE]
  /\ fstatSize = [p \in Procs |-> 0]
  /\ leaked = FALSE
  /\ disturbed = {}

Goto(p, where) == pc' = [pc EXCEPT ![p] = where]

\* The bytes of an inode become zero.
Zero(i) ==
  /\ magic' = [magic EXCEPT ![i] = FALSE]
  /\ fields' = [fields EXCEPT ![i] = None]
  /\ state' = [state EXCEPT ![i] = "initializing"]
  /\ built' = [built EXCEPT ![i] = None]

\* The pages of the file are still there; an access to a mapping of a file that
\* has been truncated to nothing is a SIGBUS.
Backed(p) == size[held[p]] > 0

Free == {i \in Inodes : i # dir /\ \A p \in Procs : held[p] # i}

----------------------------------------------------------------------------
(* create() *)

\* Variant: the object does not count itself the owner yet.
BeginCreate_NotOwner(p) ==
  /\ p \in Creators
  /\ pc[p] = "idle"
  /\ Contention \/ \A q \in Creators : pc[q] = "idle"
  /\ Goto(p, "shm_open")
  /\ UNCHANGED <<shmVars, hdrVars, objVars, ghostVars>>

\* The object claims the name before it has it.
BeginCreate(p) ==
  /\ p \in Creators
  /\ pc[p] = "idle"
  /\ Contention \/ \A q \in Creators : pc[q] = "idle"
  /\ owns' = [owns EXCEPT ![p] = TRUE]
  /\ Goto(p, "shm_open")
  /\ UNCHANGED <<shmVars, hdrVars, held, fstatSize, ghostVars>>

\* try_create_hugetlb() succeeds: an anonymous mapping, no name, no inode.
CreateHuge(p) ==
  /\ pc[p] = "shm_open" /\ p \in Creators
  /\ owns' = [owns EXCEPT ![p] = FALSE]
  /\ Goto(p, "anonymous")
  /\ UNCHANGED <<shmVars, hdrVars, held, fstatSize, ghostVars>>

\* shm_open(O_CREAT | O_RDWR | O_TRUNC)
CreateOpen(p) ==
  /\ pc[p] = "shm_open" /\ p \in Creators
  /\ LET i == IF dir # NoInode THEN dir
              ELSE CHOOSE j \in Free : TRUE
     IN  /\ dir' = i
         /\ held' = [held EXCEPT ![p] = i]
         /\ size' = [size EXCEPT ![i] = 0]
         /\ Zero(i)
         /\ disturbed' = disturbed \cup {q \in Procs : held[q] = i}
  /\ leaked' = FALSE
  /\ Goto(p, "ftruncate")
  /\ UNCHANGED <<owns, fstatSize>>

\* Variant: the file is sized for the header alone.
Truncate_HeaderOnly(p) ==
  /\ pc[p] = "ftruncate"
  /\ size' = [size EXCEPT ![held[p]] = HeaderBytes]
  /\ Goto(p, "mmap")
  /\ UNCHANGED <<dir, hdrVars, objVars, ghostVars>>

Truncate(p) ==
  /\ pc[p] = "ftruncate"
  /\ size' = [size EXCEPT ![held[p]] = Bytes[Layout[p]]]
  /\ Goto(p, "mmap")
  /\ UNCHANGED <<dir, hdrVars, objVars, ghostVars>>

\* mmap(), then the memset of the header.
MapAndClear(p) ==
  /\ pc[p] = "mmap" /\ p \in Creators
  /\ Backed(p)
  /\ magic' = [magic EXCEPT ![held[p]] = FALSE]
  /\ fields' = [fields EXCEPT ![held[p]] = None]
  /\ state' = [state EXCEPT ![held[p]] = "initializing"]
  /\ Goto(p, "header")
  /\ UNCHANGED <<shmVars, built, objVars, ghostVars>>

WriteHeader(p) ==
  /\ pc[p] = "header" /\ Backed(p)
  /\ magic' = [magic EXCEPT ![held[p]] = TRUE]
  /\ fields' = [fields EXCEPT ![held[p]] = Layout[p]]
  /\ state' = [state EXCEPT ![held[p]] = "initializing"]
  /\ Goto(p, "ring")
  /\ UNCHANGED <<shmVars, built, objVars, ghostVars>>

BuildRing(p) ==
  /\ pc[p] = "ring" /\ Backed(p)
  /\ built' = [built EXCEPT ![held[p]] = Layout[p]]
  /\ Goto(p, "ready")
  /\ UNCHANGED <<shmVars, magic, fields, state, objVars, ghostVars>>

PublishReady(p) ==
  /\ pc[p] = "ready" /\ Backed(p)
  /\ state' = [state EXCEPT ![held[p]] = "ready"]
  /\ Goto(p, "own")
  /\ UNCHANGED <<shmVars, magic, fields, built, objVars, ghostVars>>

\* A system call of create() or open() fails: the exception destroys the object.
Fail(p) ==
  /\ pc[p] \in {"shm_open", "ftruncate", "mmap", "fstat"}
  /\ Goto(p, "reset")
  /\ UNCHANGED <<shmVars, hdrVars, objVars, ghostVars>>

ReleaseName(p) ==
  /\ NamesLeft
  /\ pc[p] = "own" /\ owns[p]
  /\ owns' = [owns EXCEPT ![p] = FALSE]
  /\ leaked' = TRUE
  /\ UNCHANGED <<shmVars, hdrVars, pc, held, fstatSize, disturbed>>

----------------------------------------------------------------------------
(* open() *)

BeginOpen(p) ==
  /\ p \in Openers
  /\ pc[p] = "idle"
  /\ dir # NoInode                  \* otherwise ENOENT, and nothing changes
  /\ held' = [held EXCEPT ![p] = dir]
  /\ Goto(p, "fstat")
  /\ UNCHANGED <<shmVars, hdrVars, owns, fstatSize, ghostVars>>

Fstat(p) ==
  /\ pc[p] = "fstat"
  /\ fstatSize' = [fstatSize EXCEPT ![p] = size[held[p]]]
  /\ Goto(p, IF size[held[p]] < HeaderBytes THEN "reset" ELSE "magic")
  /\ UNCHANGED <<shmVars, hdrVars, held, owns, ghostVars>>

\* validate_header(): a check that fails throws.
Check(p, ok, then) ==
  /\ Backed(p)
  /\ Goto(p, IF ok THEN then ELSE "reset")

CheckMagic(p) ==
  /\ pc[p] = "magic"
  /\ Check(p, magic[held[p]], "state")
  /\ UNCHANGED <<shmVars, hdrVars, objVars, ghostVars>>

\* Variant: a segment that is not ready is taken like any other.
CheckState_Ignored(p) ==
  /\ pc[p] = "state"
  /\ Check(p, TRUE, "fields")
  /\ UNCHANGED <<shmVars, hdrVars, objVars, ghostVars>>

CheckState(p) ==
  /\ pc[p] = "state"
  /\ Check(p, state[held[p]] = "ready", "fields")
  /\ UNCHANGED <<shmVars, hdrVars, objVars, ghostVars>>

CheckFields(p) ==
  /\ pc[p] = "fields"
  /\ Check(p, /\ fields[held[p]] = Layout[p]
              /\ fstatSize[p] >= Bytes[Layout[p]], "use")
  /\ UNCHANGED <<shmVars, hdrVars, objVars, ghostVars>>

----------------------------------------------------------------------------
(* Teardown and crashes. *)

Destroy(p) ==
  /\ pc[p] \in {"own", "use", "anonymous"}
  /\ Goto(p, "reset")
  /\ UNCHANGED <<shmVars, hdrVars, objVars, ghostVars>>

\* Variant: every object unlinks the name, opener or creator.
Unmap_AlwaysUnlinks(p) ==
  /\ pc[p] = "reset"
  /\ held' = [held EXCEPT ![p] = NoInode]
  /\ fstatSize' = [fstatSize EXCEPT ![p] = 0]
  /\ disturbed' = disturbed \ {p}
  /\ Goto(p, "unlink")
  /\ UNCHANGED <<shmVars, hdrVars, owns, leaked>>

\* reset(): munmap and close, then unlink if this object owns the name.
Unmap(p) ==
  /\ pc[p] = "reset"
  /\ held' = [held EXCEPT ![p] = NoInode]
  /\ fstatSize' = [fstatSize EXCEPT ![p] = 0]
  /\ disturbed' = disturbed \ {p}
  /\ Goto(p, IF owns[p] THEN "unlink" ELSE "idle")
  /\ UNCHANGED <<shmVars, hdrVars, owns, leaked>>

Unlink(p) ==
  /\ pc[p] = "unlink"
  /\ dir' = NoInode
  /\ owns' = [owns EXCEPT ![p] = FALSE]
  /\ leaked' = FALSE
  /\ Goto(p, "idle")
  /\ UNCHANGED <<size, hdrVars, held, fstatSize, disturbed>>

\* A process touches the header or the ring after another create() truncated it.
BusError(p) ==
  /\ pc[p] \in {"mmap", "header", "ring", "ready", "own",
                "magic", "state", "fields", "use"}
  /\ ~Backed(p)
  /\ Goto(p, "killed")
  /\ UNCHANGED <<shmVars, hdrVars, objVars, ghostVars>>

\* The process is gone, by SIGBUS or otherwise, and its destructors never ran.
Crash(p) ==
  /\ pc[p] = "killed" \/ (NamesLeft /\ pc[p] # "idle")
  /\ leaked' = (leaked \/ (owns[p] /\ dir # NoInode))
  /\ disturbed' = disturbed \ {p}
  /\ held' = [held EXCEPT ![p] = NoInode]
  /\ owns' = [owns EXCEPT ![p] = FALSE]
  /\ fstatSize' = [fstatSize EXCEPT ![p] = 0]
  /\ Goto(p, "idle")
  /\ UNCHANGED <<shmVars, hdrVars>>

ProcStep(p) ==
  \/ BeginCreate(p) \/ CreateHuge(p) \/ CreateOpen(p) \/ Truncate(p)
  \/ MapAndClear(p) \/ WriteHeader(p) \/ BuildRing(p) \/ PublishReady(p)
  \/ ReleaseName(p)
  \/ BeginOpen(p) \/ Fstat(p) \/ CheckMagic(p) \/ CheckState(p) \/ CheckFields(p)
  \/ Fail(p) \/ Destroy(p) \/ Unmap(p) \/ Unlink(p)
  \/ BusError(p) \/ Crash(p)

Next == \E p \in Procs : ProcStep(p)

Spec == Init /\ [][Next]_vars

----------------------------------------------------------------------------
(* Properties. *)

TypeOK ==
  /\ dir \in Inodes \cup {NoInode}
  /\ size \in [Inodes -> {0} \cup {Bytes[l] : l \in Layouts}]
  /\ magic \in [Inodes -> BOOLEAN]
  /\ fields \in [Inodes -> Layouts \cup {None}]
  /\ state \in [Inodes -> {"initializing", "ready"}]
  /\ built \in [Inodes -> Layouts \cup {None}]
  /\ pc \in [Procs -> {"idle", "shm_open", "ftruncate", "mmap", "header",
                       "ring", "ready", "own", "anonymous", "fstat", "magic",
                       "state", "fields", "use", "reset", "unlink", "killed"}]
  /\ held \in [Procs -> Inodes \cup {NoInode}]
  /\ owns \in [Procs -> BOOLEAN]
  /\ fstatSize \in [Procs -> {0} \cup {Bytes[l] : l \in Layouts}]
  /\ leaked \in BOOLEAN
  /\ disturbed \in SUBSET Procs

\* A process that open() let through works on a fully constructed ring of
\* exactly its own layout for as long as it has it mapped, unless the name was
\* created anew, over the same file, after it had opened it.
OpenersUseBuiltRings ==
  \A p \in Openers : pc[p] = "use" =>
    built[held[p]] = Layout[p] \/ p \in disturbed

\* The ring an opener adopts is constructed when it adopts it: it saw READY,
\* so it sees a fully initialized header and ring.
AdoptsBuiltRing ==
  [][\A p \in Openers : pc[p] # "use" /\ pc'[p] = "use" =>
        built[held[p]] = Layout[p]]_vars

\* While a creator lives and owns the name, the name leads to its segment.
NameLeadsToOwner ==
  \A p \in Creators : pc[p] = "own" /\ owns[p] => dir = held[p]

\* Without a crash or a release of ownership, a name that exists has a live
\* object that will unlink it, on the error paths of create() too.
NoLeakedName ==
  dir # NoInode => leaked \/ \E p \in Creators : owns[p]
============================================================================
