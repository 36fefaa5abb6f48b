-------------------------- MODULE ShmSegmentProofs --------------------------
(* Proofs about ShmSegment: for any number of processes and layouts, names are
   not leaked, and, as long as create() is not called on a name in use, the name
   leads to its owner and openers use rings that are built. *)
EXTENDS ShmSegment, FiniteSetTheorems, TLAPS

Building == {"ftruncate", "mmap", "header", "ring", "ready"}
Holding == Building \cup {"own", "fstat", "magic", "state", "fields", "use"}

\* The object claims the name from the call of create() until it unlinks.
Claims ==
  /\ \A p \in Procs : pc[p] = "idle" => ~owns[p]
  /\ \A p \in Procs : pc[p] = "shm_open" => owns[p]
  /\ \A p \in Procs : pc[p] \in Holding => held[p] # NoInode

\* A name that exists belongs to somebody who is past shm_open(): the claim of a
\* create() that has not reached it may still be given up.
NameClaimed ==
  dir # NoInode =>
    leaked \/ \E p \in Creators : owns[p] /\ pc[p] # "shm_open"

BaseInv == TypeOK /\ Claims /\ NameClaimed

----------------------------------------------------------------------------
(* Type correctness. *)

LEMMA InodeFacts ==
  /\ Inodes \subseteq Nat \ {NoInode} /\ IsFiniteSet(Inodes) /\ IsFiniteSet(Procs)
  /\ Cardinality(Inodes) = Cardinality(Procs) + 1
  /\ Cardinality(Procs) \in Nat
<1>1. IsFiniteSet(Procs) /\ Cardinality(Procs) \in Nat
  BY ShmAssumption, FS_CardinalityType
<1> DEFINE n == Cardinality(Procs) + 1
<1>2. n \in Nat /\ n >= 1
  BY <1>1
<1>3. IsFiniteSet(1 .. n) /\ Cardinality(1 .. n) = n
  <2> HIDE DEF n
  <2>1. IsFiniteSet(1 .. n) /\ Cardinality(1 .. n) = IF 1 > n THEN 0 ELSE n - 1 + 1
    BY <1>2, FS_Interval
  <2> QED BY <1>2, <2>1
<1> QED BY <1>1, <1>2, <1>3 DEF Inodes, NoInode

\* There are more inodes than processes to hold them.
LEMMA SomeFree == ASSUME TypeOK, dir = NoInode PROVE Free # {}
<1> SUFFICES ASSUME Free = {} PROVE FALSE
  OBVIOUS
<1> DEFINE H == {held[p] : p \in Procs}
<1>1. IsFiniteSet(H) /\ Cardinality(H) <= Cardinality(Procs)
  <2>1. held \in [Procs -> H] /\ \A i \in H : \E p \in Procs : held[p] = i
    BY DEF TypeOK
  <2> HIDE DEF H
  <2>2. held \in Surjection(Procs, H)
    BY <2>1 DEF Surjection
  <2> QED BY <2>2, InodeFacts, FS_Surjection
<1>2. Inodes \in SUBSET H
  BY InodeFacts DEF Free
<1>3. Cardinality(Inodes) <= Cardinality(H)
  BY <1>1, <1>2, FS_Subset
<1>4. Cardinality(H) \in Nat
  BY <1>1, FS_CardinalityType
<1> HIDE DEF H
<1> QED BY <1>1, <1>3, <1>4, InodeFacts

LEMMA InitBase == Init => BaseInv
<1> SUFFICES ASSUME Init PROVE BaseInv
  OBVIOUS
<1>1. TypeOK
  BY InodeFacts DEF Init, TypeOK
<1>2. Claims /\ NameClaimed
  BY DEF Init, Claims, NameClaimed, Holding, Building
<1> QED BY <1>1, <1>2 DEF BaseInv

LEMMA ChosenInode ==
  ASSUME TypeOK
  PROVE  (IF dir # NoInode THEN dir ELSE CHOOSE j \in Free : TRUE) \in Inodes
<1>1. CASE dir # NoInode
  BY <1>1 DEF TypeOK
<1>2. CASE dir = NoInode
  <2>1. (CHOOSE j \in Free : TRUE) \in Free
    BY <1>2, SomeFree
  <2> QED BY <1>2, <2>1 DEF Free
<1> QED BY <1>1, <1>2

LEMMA TypeStep ==
  ASSUME BaseInv, NEW p \in Procs, ProcStep(p)
  PROVE  TypeOK'
<1> USE InodeFacts DEF BaseInv, TypeOK, shmVars, hdrVars, objVars, ghostVars, Goto
<1>1. CASE BeginCreate(p)
  BY <1>1 DEF BeginCreate
<1>2. CASE CreateHuge(p)
  BY <1>2 DEF CreateHuge
<1>3. CASE CreateOpen(p)
  <2> DEFINE i == IF dir # NoInode THEN dir ELSE CHOOSE j \in Free : TRUE
  <2>1. i \in Inodes
    BY ChosenInode
  <2>2. /\ dir' = i /\ held' = [held EXCEPT ![p] = i] /\ size' = [size EXCEPT ![i] = 0]
        /\ Zero(i) /\ disturbed' = disturbed \cup {q \in Procs : held[q] = i}
    BY <1>3 DEF CreateOpen
  <2> HIDE DEF i
  <2>3. /\ magic' \in [Inodes -> BOOLEAN] /\ fields' \in [Inodes -> Layouts \cup {None}]
        /\ state' \in [Inodes -> {"initializing", "ready"}]
        /\ built' \in [Inodes -> Layouts \cup {None}]
    BY <2>1, <2>2 DEF Zero
  <2>4. /\ dir' \in Inodes /\ held' \in [Procs -> Inodes \cup {NoInode}]
        /\ size' \in [Inodes -> {0} \cup {Bytes[l] : l \in Layouts}]
        /\ disturbed' \in SUBSET Procs
    BY <2>1, <2>2
  <2> QED BY <1>3, <2>3, <2>4 DEF CreateOpen
<1>4. CASE Truncate(p)
  <2>1. Layout[p] \in Layouts
    BY DEF Layouts
  <2> QED BY <1>4, <2>1 DEF Truncate
<1>5. CASE MapAndClear(p)
  BY <1>5 DEF MapAndClear
<1>6. CASE WriteHeader(p)
  BY <1>6 DEF WriteHeader, Layouts
<1>7. CASE BuildRing(p)
  BY <1>7 DEF BuildRing, Layouts
<1>8. CASE PublishReady(p)
  BY <1>8 DEF PublishReady
<1>9. CASE ReleaseName(p)
  BY <1>9 DEF ReleaseName
<1>10. CASE BeginOpen(p)
  BY <1>10 DEF BeginOpen
<1>11. CASE Fstat(p)
  <2>1. held[p] \in Inodes
    BY <1>11 DEF Fstat, Claims, Holding
  <2> QED BY <1>11, <2>1 DEF Fstat
<1>12. CASE CheckMagic(p) \/ CheckState(p) \/ CheckFields(p)
  BY <1>12 DEF CheckMagic, CheckState, CheckFields, Check
<1>13. CASE Fail(p) \/ Destroy(p) \/ BusError(p)
  BY <1>13 DEF Fail, Destroy, BusError
<1>14. CASE Unmap(p)
  BY <1>14 DEF Unmap
<1>15. CASE Unlink(p)
  BY <1>15 DEF Unlink
<1>16. CASE Crash(p)
  BY <1>16 DEF Crash
<1> QED BY <1>1, <1>2, <1>3, <1>4, <1>5, <1>6, <1>7, <1>8, <1>9, <1>10, <1>11, <1>12,
           <1>13, <1>14, <1>15, <1>16 DEF ProcStep

----------------------------------------------------------------------------
(* Names are not leaked. *)

\* Process p walks on and the name, its owners and its holders stay.
LEMMA WalkOn ==
  ASSUME BaseInv, NEW p \in Procs, NEW where, Goto(p, where),
         where \notin {"idle", "shm_open"}, where \in Holding => held[p] # NoInode,
         UNCHANGED <<dir, owns, leaked, held>>
  PROVE  Claims' /\ NameClaimed'
<1>1. /\ pc \in [Procs -> {"idle", "shm_open", "ftruncate", "mmap", "header",
                           "ring", "ready", "own", "anonymous", "fstat", "magic",
                           "state", "fields", "use", "reset", "unlink", "killed"}]
      /\ pc'[p] = where /\ \A q \in Procs \ {p} : pc'[q] = pc[q]
  BY DEF BaseInv, TypeOK, Goto
<1>2. Claims'
  BY <1>1 DEF BaseInv, Claims
<1>3. NameClaimed'
  BY <1>1 DEF BaseInv, NameClaimed, Procs
<1> QED BY <1>2, <1>3

LEMMA ClaimStep ==
  ASSUME BaseInv, NEW p \in Procs, ProcStep(p)
  PROVE  Claims' /\ NameClaimed'
<1>0. /\ TypeOK /\ Claims /\ NameClaimed /\ Creators \subseteq Procs /\ NoInode \notin Inodes
      /\ pc[p] \in Holding => held[p] # NoInode
  BY InodeFacts DEF BaseInv, Claims, Procs
<1>1. CASE BeginCreate(p)
  <2>1. /\ ~owns[p] /\ pc[p] = "idle" /\ owns' = [owns EXCEPT ![p] = TRUE]
        /\ Goto(p, "shm_open") /\ UNCHANGED <<dir, held, leaked>>
    BY <1>0, <1>1 DEF BeginCreate, Claims, shmVars, ghostVars
  <2> QED BY <1>0, <2>1 DEF Goto, TypeOK, Claims, NameClaimed, Holding, Building
<1>2. CASE CreateHuge(p)
  <2>1. /\ pc[p] = "shm_open" /\ owns' = [owns EXCEPT ![p] = FALSE]
        /\ Goto(p, "anonymous") /\ UNCHANGED <<dir, held, leaked>>
    BY <1>2 DEF CreateHuge, shmVars, ghostVars
  <2> QED BY <1>0, <2>1 DEF Goto, TypeOK, Claims, NameClaimed, Holding, Building
<1>3. CASE CreateOpen(p)
  <2>1. /\ p \in Creators /\ owns[p] /\ owns' = owns /\ Goto(p, "ftruncate")
    BY <1>0, <1>3 DEF CreateOpen, Claims
  <2>2. held' = [held EXCEPT ![p] = dir'] /\ dir' \in Inodes
    BY <1>0, <1>3, ChosenInode DEF CreateOpen
  <2> QED BY <1>0, <2>1, <2>2 DEF Goto, TypeOK, Claims, NameClaimed, Holding, Building
<1>4. CASE Truncate(p) \/ MapAndClear(p) \/ WriteHeader(p) \/ BuildRing(p) \/ PublishReady(p)
  <2>1. PICK where \in Building \cup {"own"} : Goto(p, where)
    BY <1>4 DEF Truncate, MapAndClear, WriteHeader, BuildRing, PublishReady, Building
  <2>2. pc[p] \in Building /\ UNCHANGED <<dir, owns, leaked, held>>
    BY <1>4 DEF Truncate, MapAndClear, WriteHeader, BuildRing, PublishReady, Building,
                objVars, ghostVars, shmVars
  <2> QED BY <1>0, <2>1, <2>2, WalkOn DEF Holding, Building
<1>5. CASE ReleaseName(p)
  BY <1>0, <1>5 DEF ReleaseName, TypeOK, Claims, NameClaimed, shmVars
<1>6. CASE BeginOpen(p)
  BY <1>0, <1>6 DEF BeginOpen, Goto, TypeOK, Claims, NameClaimed, Holding, Building,
                    shmVars, ghostVars
<1>7. CASE Fstat(p) \/ CheckMagic(p) \/ CheckState(p) \/ CheckFields(p)
  <2>1. PICK where \in {"reset", "magic", "state", "fields", "use"} : Goto(p, where)
    BY <1>7 DEF Fstat, CheckMagic, CheckState, CheckFields, Check
  <2>2. pc[p] \in Holding /\ UNCHANGED <<dir, owns, leaked, held>>
    BY <1>7 DEF Fstat, CheckMagic, CheckState, CheckFields, Holding,
                objVars, ghostVars, shmVars
  <2> QED BY <1>0, <2>1, <2>2, WalkOn
<1>8. CASE Fail(p) \/ Destroy(p) \/ BusError(p)
  <2>1. PICK where \in {"reset", "killed"} : Goto(p, where)
    BY <1>8 DEF Fail, Destroy, BusError
  <2>2. UNCHANGED <<dir, owns, leaked, held>>
    BY <1>8 DEF Fail, Destroy, BusError, objVars, ghostVars, shmVars
  <2> QED BY <2>1, <2>2, WalkOn DEF Holding, Building
<1>9. CASE Unmap(p)
  BY <1>0, <1>9 DEF Unmap, Goto, TypeOK, Claims, NameClaimed, Holding, Building, shmVars
<1>10. CASE Unlink(p)
  BY <1>0, <1>10 DEF Unlink, Goto, TypeOK, Claims, NameClaimed, Holding, Building
<1>11. CASE Crash(p)
  BY <1>0, <1>11 DEF Crash, Goto, TypeOK, Claims, NameClaimed, Holding, Building, shmVars
<1> QED BY <1>1, <1>2, <1>3, <1>4, <1>5, <1>6, <1>7, <1>8, <1>9, <1>10, <1>11 DEF ProcStep

LEMMA BaseStep == BaseInv /\ [Next]_vars => BaseInv'
<1> SUFFICES ASSUME BaseInv, [Next]_vars PROVE BaseInv'
  OBVIOUS
<1>1. ASSUME NEW p \in Procs, ProcStep(p) PROVE BaseInv'
  BY <1>1, TypeStep, ClaimStep DEF BaseInv
<1>2. CASE UNCHANGED vars
  BY <1>2 DEF vars, shmVars, hdrVars, objVars, ghostVars, BaseInv, TypeOK, Claims, NameClaimed
<1> QED BY <1>1, <1>2 DEF Next

\* The state of every process and inode is well formed.
THEOREM TypeCorrect == Spec => []TypeOK
<1>1. BaseInv => TypeOK
  BY DEF BaseInv
<1> QED BY <1>1, InitBase, BaseStep, PTL DEF Spec

\* Any number of creators and openers, rival ones too, failing wherever they
\* may: without a crash or a release of ownership no name outlives the objects
\* that would unlink it (shm_segment.hpp create(), reset()).
THEOREM NamesNotLeaked == Spec => []NoLeakedName
<1>1. BaseInv => NoLeakedName
  BY DEF BaseInv, NameClaimed, NoLeakedName
<1> QED BY <1>1, InitBase, BaseStep, PTL DEF Spec

----------------------------------------------------------------------------
(* One creator at a time. *)

Alone == \A p, q \in Creators : pc[p] # "idle" /\ pc[q] # "idle" => p = q

OpenersWalk ==
  \A p \in Openers :
    /\ ~owns[p]
    /\ pc[p] \in {"idle", "fstat", "magic", "state", "fields", "use", "reset", "killed"}

CreatorsWalk ==
  \A p \in Creators : pc[p] \notin {"fstat", "magic", "state", "fields", "use"}

Leads == \A p \in Creators : pc[p] \in Building \cup {"own"} => dir = held[p]

\* Nobody can take the segment under construction for a finished one.
NotReadyYet ==
  \A p \in Creators :
    /\ pc[p] \in Building => state[held[p]] = "initializing"
    /\ pc[p] \in {"ring", "ready"} => fields[held[p]] = Layout[p]
    /\ pc[p] = "ready" => built[held[p]] = Layout[p]

ReadyMeansBuilt == \A i \in Inodes : state[i] = "ready" => built[i] = fields[i]

\* What an opener has validated is still so, unless it was disturbed.
Validated ==
  \A q \in Openers \ disturbed :
    /\ pc[q] \in {"fields", "use"} => state[held[q]] = "ready"
    /\ pc[q] = "use" => fields[held[q]] = Layout[q]

AloneInv ==
  /\ BaseInv /\ Alone /\ OpenersWalk /\ CreatorsWalk /\ Leads
  /\ NotReadyYet /\ ReadyMeansBuilt /\ Validated

LEMMA InitAlone == Init => AloneInv
  BY InitBase, ShmAssumption
  DEF Init, AloneInv, Alone, OpenersWalk, CreatorsWalk, Leads, NotReadyYet,
      ReadyMeansBuilt, Validated, Building, Procs

LEMMA Sides ==
  /\ Creators \subseteq Procs /\ Openers \subseteq Procs /\ Creators \cap Openers = {}
  /\ \A p \in Procs : p \in Creators \/ p \in Openers
  /\ NoInode \notin Inodes
  BY ShmAssumption, InodeFacts DEF Procs

\* A process moves to a place that is neither of a creator at work nor of an
\* opener that has validated, and nothing of the segment changes.
LEMMA StepAside ==
  ASSUME AloneInv, NEW p \in Procs, NEW where, Goto(p, where),
         where \in {"anonymous", "fstat", "magic", "state", "reset", "killed", "unlink", "idle"},
         where = "unlink" => p \in Creators, where = "anonymous" => p \in Creators,
         where \in {"fstat", "magic", "state"} => p \in Openers,
         pc[p] = "idle" => p \in Openers,
         UNCHANGED <<dir, hdrVars>>,
         \A q \in Procs \ {p} : held'[q] = held[q] /\ (q \in disturbed' <=> q \in disturbed),
         \A q \in Openers : owns'[q] => owns[q]
  PROVE  /\ Alone' /\ OpenersWalk' /\ CreatorsWalk' /\ Leads'
         /\ NotReadyYet' /\ ReadyMeansBuilt' /\ Validated'
<1>1. /\ pc'[p] = where /\ \A q \in Procs \ {p} : pc'[q] = pc[q]
      /\ magic' = magic /\ fields' = fields /\ state' = state /\ built' = built /\ dir' = dir
  BY DEF AloneInv, BaseInv, TypeOK, Goto, hdrVars
<1>2. Alone'
  BY <1>1, Sides DEF AloneInv, Alone
<1>3. OpenersWalk' /\ CreatorsWalk'
  BY <1>1, Sides DEF AloneInv, OpenersWalk, CreatorsWalk
<1>4. Leads' /\ NotReadyYet'
  BY <1>1, Sides DEF AloneInv, Leads, NotReadyYet, Building
<1>5. ReadyMeansBuilt' /\ Validated'
  BY <1>1, Sides DEF AloneInv, ReadyMeansBuilt, Validated
<1> QED BY <1>2, <1>3, <1>4, <1>5

\* A creator at work: no undisturbed opener has validated its inode.
LEMMA NobodyValidated ==
  ASSUME AloneInv, NEW p \in Creators, pc[p] \in Building
  PROVE  /\ held[p] \in Inodes
         /\ \A q \in Openers \ disturbed : pc[q] \in {"fields", "use"} => held[q] # held[p]
         /\ \A q \in Creators \ {p} : pc[q] = "idle"
  BY Sides DEF AloneInv, BaseInv, TypeOK, Claims, Holding, NotReadyYet, Validated, Alone, Building

LEMMA BuildStep ==
  ASSUME AloneInv, NEW p \in Creators,
         Truncate(p) \/ MapAndClear(p) \/ WriteHeader(p) \/ BuildRing(p) \/ PublishReady(p)
  PROVE  /\ Alone' /\ OpenersWalk' /\ CreatorsWalk' /\ Leads'
         /\ NotReadyYet' /\ ReadyMeansBuilt' /\ Validated'
<1> DEFINE i == held[p]
<1>0. /\ pc[p] \in Building /\ p \in Procs
      /\ UNCHANGED <<dir, held, owns, disturbed>>
      /\ \E where \in Building \cup {"own"} : Goto(p, where)
      /\ \A q \in Procs \ {p} : pc'[q] = pc[q]
      /\ pc'[p] \in Building \cup {"own"}
  BY Sides DEF Truncate, MapAndClear, WriteHeader, BuildRing, PublishReady, Building, Goto,
               objVars, ghostVars, shmVars, AloneInv, BaseInv, TypeOK
<1>1. /\ i \in Inodes /\ TypeOK
      /\ \A q \in Openers \ disturbed :
           pc[q] \in {"fields", "use"} => held[q] # i /\ held[q] \in Inodes
      /\ \A q \in Creators \ {p} : pc[q] = "idle"
      /\ state[i] = "initializing"
  BY <1>0, NobodyValidated, Sides DEF AloneInv, NotReadyYet, BaseInv, TypeOK, Claims, Holding
<1>2. Alone' /\ OpenersWalk' /\ CreatorsWalk' /\ Leads'
  BY <1>0, <1>1, Sides DEF AloneInv, Alone, OpenersWalk, CreatorsWalk, Leads, Building
<1>3. \A j \in Inodes \ {i} : state'[j] = state[j] /\ fields'[j] = fields[j] /\ built'[j] = built[j]
  BY <1>1 DEF Truncate, MapAndClear, WriteHeader, BuildRing, PublishReady, hdrVars, TypeOK
<1>4. Validated'
  BY <1>0, <1>1, <1>3, Sides DEF AloneInv, Validated
<1>5. /\ pc'[p] \in Building => state'[i] = "initializing"
      /\ pc'[p] \in {"ring", "ready"} => fields'[i] = Layout[p]
      /\ pc'[p] = "ready" => built'[i] = Layout[p]
      /\ state'[i] = "ready" => built'[i] = fields'[i]
  <2>1. CASE Truncate(p)
    BY <1>0, <1>1, <2>1 DEF Truncate, Goto, TypeOK, hdrVars
  <2>2. CASE MapAndClear(p)
    BY <1>0, <1>1, <2>2 DEF MapAndClear, Goto, TypeOK
  <2>3. CASE WriteHeader(p)
    BY <1>0, <1>1, <2>3 DEF WriteHeader, Goto, TypeOK
  <2>4. CASE BuildRing(p)
    BY <1>0, <1>1, <2>4 DEF BuildRing, Goto, TypeOK, AloneInv, NotReadyYet
  <2>5. CASE PublishReady(p)
    BY <1>0, <1>1, <2>5 DEF PublishReady, Goto, TypeOK, AloneInv, NotReadyYet, Building
  <2> QED BY <2>1, <2>2, <2>3, <2>4, <2>5
<1>6. NotReadyYet'
  <2>1. \A q \in Creators \ {p} : pc'[q] = "idle"
    BY <1>0, <1>1, Sides
  <2> QED BY <1>0, <1>5, <2>1 DEF NotReadyYet, Building
<1>7. ReadyMeansBuilt'
  BY <1>1, <1>3, <1>5 DEF AloneInv, ReadyMeansBuilt
<1> QED BY <1>2, <1>4, <1>6, <1>7

LEMMA CreateOpenStep ==
  ASSUME AloneInv, NEW p \in Creators, CreateOpen(p)
  PROVE  /\ Alone' /\ OpenersWalk' /\ CreatorsWalk' /\ Leads'
         /\ NotReadyYet' /\ ReadyMeansBuilt' /\ Validated'
<1>1. /\ TypeOK /\ pc[p] = "shm_open" /\ p \in Procs /\ dir' \in Inodes
      /\ held' = [held EXCEPT ![p] = dir'] /\ Zero(dir')
      /\ disturbed' = disturbed \cup {q \in Procs : held[q] = dir'}
      /\ Goto(p, "ftruncate") /\ owns' = owns
  BY ChosenInode, Sides DEF CreateOpen, AloneInv, BaseInv
<1>2. /\ pc'[p] = "ftruncate" /\ \A q \in Procs \ {p} : pc'[q] = pc[q] /\ held'[q] = held[q]
      /\ held'[p] = dir'
      /\ \A q \in Creators \ {p} : pc[q] = "idle"
  BY <1>1 DEF Goto, TypeOK, AloneInv, Alone
<1>3. /\ state'[dir'] = "initializing"
      /\ \A j \in Inodes \ {dir'} :
           state'[j] = state[j] /\ fields'[j] = fields[j] /\ built'[j] = built[j]
  BY <1>1 DEF Zero, TypeOK
<1>4. Alone' /\ OpenersWalk' /\ CreatorsWalk' /\ Leads' /\ NotReadyYet'
  BY <1>1, <1>2, <1>3, Sides
  DEF AloneInv, Alone, OpenersWalk, CreatorsWalk, Leads, NotReadyYet, Building
<1>5. ReadyMeansBuilt'
  BY <1>1, <1>3 DEF AloneInv, ReadyMeansBuilt
<1>6. Validated'
  <2> SUFFICES ASSUME NEW q \in Openers \ disturbed', pc[q] \in {"fields", "use"}
               PROVE  /\ state'[held[q]] = "ready"
                      /\ pc[q] = "use" => fields'[held[q]] = Layout[q]
    BY <1>2, Sides DEF Validated
  <2>1. held[q] \in Inodes \ {dir'} /\ q \in Openers \ disturbed
    BY <1>1, Sides DEF TypeOK, AloneInv, BaseInv, Claims, Holding
  <2> QED BY <1>3, <2>1 DEF AloneInv, Validated
<1> QED BY <1>4, <1>5, <1>6

LEMMA ValidateStep ==
  ASSUME AloneInv, NEW p \in Openers, CheckState(p) \/ CheckFields(p)
  PROVE  /\ Alone' /\ OpenersWalk' /\ CreatorsWalk' /\ Leads'
         /\ NotReadyYet' /\ ReadyMeansBuilt' /\ Validated'
<1>1. /\ TypeOK /\ p \in Procs /\ p \notin Creators
      /\ UNCHANGED <<dir, hdrVars, held, owns, disturbed>>
      /\ \A q \in Procs \ {p} : pc'[q] = pc[q]
      /\ \/ pc'[p] = "reset"
         \/ pc'[p] = "fields" /\ state[held[p]] = "ready"
         \/ pc'[p] = "use" /\ pc[p] = "fields" /\ fields[held[p]] = Layout[p]
  BY Sides DEF CheckState, CheckFields, Check, Goto, shmVars, objVars, ghostVars,
               AloneInv, BaseInv, TypeOK
<1>2. Alone' /\ OpenersWalk' /\ CreatorsWalk' /\ Leads'
  BY <1>1, Sides DEF AloneInv, Alone, OpenersWalk, CreatorsWalk, Leads
<1>3. NotReadyYet' /\ ReadyMeansBuilt' /\ Validated'
  BY <1>1, Sides DEF AloneInv, NotReadyYet, ReadyMeansBuilt, Validated, hdrVars
<1> QED BY <1>2, <1>3

LEMMA AloneStep ==
  ASSUME ~Contention, AloneInv, NEW p \in Procs, ProcStep(p)
  PROVE  /\ Alone' /\ OpenersWalk' /\ CreatorsWalk' /\ Leads'
         /\ NotReadyYet' /\ ReadyMeansBuilt' /\ Validated'
<1>0. /\ TypeOK /\ Claims
      /\ p \in Openers =>
           /\ p \notin Creators /\ ~owns[p]
           /\ pc[p] \in {"idle", "fstat", "magic", "state", "fields", "use", "reset", "killed"}
      /\ p \notin Openers => p \in Creators
  BY Sides DEF AloneInv, BaseInv, OpenersWalk
<1>1. CASE BeginCreate(p)
  <2>1. /\ p \in Creators /\ \A q \in Creators : pc[q] = "idle"
        /\ Goto(p, "shm_open") /\ owns' = [owns EXCEPT ![p] = TRUE]
        /\ UNCHANGED <<dir, held, hdrVars, disturbed>>
    BY <1>1 DEF BeginCreate, shmVars, ghostVars
  <2>2. /\ pc'[p] = "shm_open" /\ \A q \in Procs \ {p} : pc'[q] = pc[q] /\ owns'[q] = owns[q]
    BY <1>0, <2>1 DEF Goto, TypeOK
  <2>3. Alone' /\ OpenersWalk' /\ CreatorsWalk' /\ Leads'
    BY <1>0, <2>1, <2>2, Sides DEF AloneInv, Alone, OpenersWalk, CreatorsWalk, Leads, Building
  <2>4. NotReadyYet' /\ ReadyMeansBuilt' /\ Validated'
    BY <1>0, <2>1, <2>2, Sides
    DEF AloneInv, NotReadyYet, ReadyMeansBuilt, Validated, Building, hdrVars
  <2> QED BY <2>3, <2>4
<1>2. CASE CreateHuge(p)
  <2>1. /\ p \in Creators /\ Goto(p, "anonymous") /\ UNCHANGED <<dir, hdrVars, held, disturbed>>
        /\ \A q \in Openers : owns'[q] => owns[q]
    BY <1>0, <1>2, Sides DEF CreateHuge, shmVars, ghostVars, TypeOK
  <2>2. pc[p] # "idle"
    BY <1>2 DEF CreateHuge
  <2> QED BY <2>1, <2>2, StepAside
<1>3. CASE CreateOpen(p)
  BY <1>3, CreateOpenStep DEF CreateOpen
<1>4. CASE Truncate(p) \/ MapAndClear(p) \/ WriteHeader(p) \/ BuildRing(p) \/ PublishReady(p)
  <2>1. p \in Creators
    BY <1>0, <1>4 DEF Truncate, MapAndClear, WriteHeader, BuildRing, PublishReady
  <2> QED BY <1>4, <2>1, BuildStep
<1>5. CASE ReleaseName(p)
  <2>1. UNCHANGED <<dir, hdrVars, held, disturbed, pc>> /\ owns' = [owns EXCEPT ![p] = FALSE]
    BY <1>5 DEF ReleaseName, shmVars
  <2>2. \A q \in Openers : ~owns'[q]
    BY <1>0, <2>1, Sides DEF AloneInv, OpenersWalk, TypeOK
  <2> QED BY <2>1, <2>2 DEF AloneInv, Alone, OpenersWalk, CreatorsWalk, Leads, NotReadyYet,
                            ReadyMeansBuilt, Validated, hdrVars
<1>6. CASE BeginOpen(p)
  <2>1. /\ p \in Openers /\ Goto(p, "fstat") /\ UNCHANGED <<dir, hdrVars, owns, disturbed>>
        /\ held' = [held EXCEPT ![p] = dir]
    BY <1>6 DEF BeginOpen, shmVars, ghostVars
  <2>2. \A q \in Procs \ {p} : held'[q] = held[q] /\ (q \in disturbed' <=> q \in disturbed)
    BY <1>0, <2>1 DEF TypeOK
  <2> QED BY <2>1, <2>2, StepAside
<1>7. CASE CheckState(p) \/ CheckFields(p)
  <2>1. CASE p \in Openers
    BY <1>7, <2>1, ValidateStep
  <2>2. CASE p \in Creators
    BY <1>0, <1>7, <2>2 DEF AloneInv, CreatorsWalk, CheckState, CheckFields
  <2> QED BY <1>0, <2>1, <2>2
<1>8. CASE Fstat(p) \/ CheckMagic(p)
  <2>1. CASE p \in Openers
    <3>1. PICK where \in {"reset", "magic", "state"} : Goto(p, where)
      BY <1>8 DEF Fstat, CheckMagic, Check
    <3>2. UNCHANGED <<dir, hdrVars, held, owns, disturbed>>
      BY <1>8 DEF Fstat, CheckMagic, shmVars, objVars, ghostVars
    <3> QED BY <2>1, <3>1, <3>2, StepAside
  <2>2. CASE p \in Creators
    BY <1>0, <1>8, <2>2 DEF AloneInv, CreatorsWalk, Fstat, CheckMagic
  <2> QED BY <1>0, <2>1, <2>2
<1>9. CASE Fail(p) \/ Destroy(p) \/ BusError(p)
  <2>1. PICK where \in {"reset", "killed"} : Goto(p, where)
    BY <1>9 DEF Fail, Destroy, BusError
  <2>2. UNCHANGED <<dir, hdrVars, held, owns, disturbed>> /\ pc[p] # "idle"
    BY <1>9 DEF Fail, Destroy, BusError, objVars, ghostVars, shmVars
  <2> QED BY <2>1, <2>2, StepAside
<1>10. CASE Unmap(p)
  <2>1. PICK where \in {"unlink", "idle"} : Goto(p, where) /\ (where = "unlink" => owns[p])
    BY <1>10 DEF Unmap
  <2>2. /\ UNCHANGED <<dir, hdrVars, owns>> /\ pc[p] # "idle"
        /\ \A q \in Procs \ {p} : held'[q] = held[q] /\ (q \in disturbed' <=> q \in disturbed)
    BY <1>0, <1>10 DEF Unmap, shmVars, TypeOK
  <2>3. where = "unlink" => p \in Creators
    BY <1>0, <2>1
  <2> QED BY <2>1, <2>2, <2>3, StepAside
<1>11. CASE Unlink(p)
  <2>1. /\ p \in Creators /\ pc[p] = "unlink" /\ Goto(p, "idle")
        /\ UNCHANGED <<hdrVars, held, disturbed>> /\ owns' = [owns EXCEPT ![p] = FALSE]
    BY <1>0, <1>11 DEF Unlink
  <2>2. /\ pc'[p] = "idle" /\ \A q \in Procs \ {p} : pc'[q] = pc[q]
        /\ \A q \in Openers : ~owns'[q]
        /\ \A q \in Creators \ {p} : pc[q] = "idle"
    BY <1>0, <2>1, Sides DEF Goto, TypeOK, AloneInv, OpenersWalk, Alone
  <2>3. Alone' /\ OpenersWalk' /\ CreatorsWalk' /\ Leads'
    BY <2>1, <2>2, Sides DEF AloneInv, Alone, OpenersWalk, CreatorsWalk, Leads, Building
  <2>4. NotReadyYet' /\ ReadyMeansBuilt' /\ Validated'
    BY <2>1, <2>2, Sides DEF AloneInv, NotReadyYet, ReadyMeansBuilt, Validated, Building, hdrVars
  <2> QED BY <2>3, <2>4
<1>12. CASE Crash(p)
  <2>1. /\ Goto(p, "idle") /\ UNCHANGED <<dir, hdrVars>> /\ pc[p] # "idle"
        /\ \A q \in Procs \ {p} : held'[q] = held[q] /\ (q \in disturbed' <=> q \in disturbed)
        /\ \A q \in Openers : owns'[q] => owns[q]
    BY <1>0, <1>12, Sides DEF Crash, shmVars, TypeOK
  <2> QED BY <2>1, StepAside
<1> QED BY <1>1, <1>2, <1>3, <1>4, <1>5, <1>6, <1>7, <1>8, <1>9, <1>10, <1>11, <1>12
        DEF ProcStep

LEMMA AloneAlways ==
  ASSUME ~Contention
  PROVE  Spec => []AloneInv
<1>1. AloneInv /\ [Next]_vars => AloneInv'
  <2> SUFFICES ASSUME AloneInv, [Next]_vars PROVE AloneInv'
    OBVIOUS
  <2>1. BaseInv'
    BY BaseStep DEF AloneInv
  <2>2. ASSUME NEW p \in Procs, ProcStep(p) PROVE AloneInv'
    BY <2>1, <2>2, AloneStep DEF AloneInv
  <2>3. CASE UNCHANGED vars
    BY <2>1, <2>3 DEF vars, shmVars, hdrVars, objVars, ghostVars, AloneInv, Alone, OpenersWalk,
                      CreatorsWalk, Leads, NotReadyYet, ReadyMeansBuilt, Validated
  <2> QED BY <2>2, <2>3 DEF Next
<1> QED BY <1>1, InitAlone, PTL DEF Spec

\* As long as no process calls create() on a name another creator still uses,
\* the name leads to the segment of its owner, through every crash, restart and
\* failing system call (shm_segment.hpp create(), reset()).
THEOREM OwnerHasTheName ==
  ASSUME ~Contention
  PROVE  Spec => []NameLeadsToOwner
<1>1. AloneInv => NameLeadsToOwner
  BY DEF AloneInv, Leads, NameLeadsToOwner
<1> QED BY <1>1, AloneAlways, PTL

\* Under the same restriction an opener that passed validate_header() works on a
\* ring that is built and of its own layout until the name is created anew
\* (shm_segment.hpp open(), validate_header()).
THEOREM OpenersAreSafe ==
  ASSUME ~Contention
  PROVE  Spec => []OpenersUseBuiltRings
<1>1. AloneInv => OpenersUseBuiltRings
  <2> SUFFICES ASSUME AloneInv, NEW q \in Openers, pc[q] = "use", q \notin disturbed
               PROVE  built[held[q]] = Layout[q]
    BY DEF OpenersUseBuiltRings
  <2>1. held[q] \in Inodes
    BY Sides DEF AloneInv, BaseInv, TypeOK, Claims, Holding
  <2>2. state[held[q]] = "ready" /\ fields[held[q]] = Layout[q]
    BY DEF AloneInv, Validated
  <2> QED BY <2>1, <2>2 DEF AloneInv, ReadyMeansBuilt
<1> QED BY <1>1, AloneAlways, PTL
============================================================================
