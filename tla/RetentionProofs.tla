----------------------------- MODULE RetentionProofs -----------------------------
(***************************************************************************)
(* What retention and the deletion of sources may take from the tables and *)
(* the blob store, for any number of sources, snapshots and deletions.     *)
(***************************************************************************)
EXTENDS Retention, WellFoundedInduction, TLAPS

-----------------------------------------------------------------------------
(* The inductive invariant. *)

\* An id names one row, be it committed or held by a run, and old rows exist.
IdInv ==
    /\ \A x \in snaps : x.id < nextId
    /\ \A x, y \in snaps : x.id = y.id => x = y
    /\ \A s \in Sources : \A x \in run[s].row :
          /\ x.src = s /\ x.id < nextId
          /\ \A y \in snaps : y.id # x.id
          /\ \A t \in Sources : \A y \in run[t].row : x.id = y.id => x = y
    /\ old \subseteq IdsOf(snaps)

\* A run found no baseline only if there is none, also later on; it writes initial
\* documentation only then.
RunInv ==
    \A s \in Sources :
        /\ run[s].phase = "idle" => run[s] = NoRun
        /\ run[s].phase # "idle" /\ run[s].base = {} => RowsOf(s) = {}
        /\ run[s].doc = "initial" => run[s].phase = "written" /\ run[s].base = {}

\* What the retention job deletes has left the window, whoever else deletes rows
\* meanwhile; what it read before its sweep misses only rows that are exposed.
SweepInv ==
    /\ ret.phase # "idle" =>
          /\ \A x \in snaps : x.id \in ret.expired => x.id \in old
          /\ \A i \in ret.expired : i < nextId
          /\ \A s \in Sources : \A x \in run[s].row : x.id \notin ret.expired
    /\ ret.phase = "listed" =>
          /\ \A x \in snaps : x.stored /\ x.id \notin old \cup exposed => x.id \in ret.known
          /\ \A s \in Sources : \A x \in run[s].row : x.id \in exposed

\* The blobs of rows that runs hold.
HeldInv ==
    \A s \in Sources : \A x \in run[s].row :
        x.stored /\ x.id \notin exposed => x.id \in blobs

IInv == TypeOK /\ IdInv /\ RunInv /\ SweepInv /\ HeldInv /\ FreshBlobsKept

-----------------------------------------------------------------------------
(* Lemmas. *)

\* A nonempty set of naturals has a least member.
LEMMA LeastNatural ==
    ASSUME NEW T, T \subseteq Nat, T # {}
    PROVE  \E n \in T : \A m \in T : n <= m
<1> DEFINE Less == {p \in Nat \X Nat : p[1] < p[2]}
<1>1. IsWellFoundedOn(Less, Nat)
  BY NatLessThanWellFounded DEF OpToRel
<1>2. \A m, n \in Nat : <<m, n>> \in Less <=> m < n
  OBVIOUS
<1> HIDE DEF Less
<1>3. PICK n \in T : \A m \in T : <<m, n>> \notin Less
  BY <1>1, WFMin
<1>4. \A m \in T : m \in Nat /\ n \in Nat /\ ~(m < n)
  BY <1>2, <1>3
<1>5. \A m \in T : n <= m
  BY <1>4
<1> QED BY <1>5

\* A source without a latest snapshot has no snapshot.
LEMMA LatestExists ==
    ASSUME TypeOK, NEW s \in Sources, Latest(s) = {}
    PROVE  RowsOf(s) = {}
<1> SUFFICES ASSUME RowsOf(s) # {} PROVE FALSE
  OBVIOUS
<1> DEFINE Left == {MaxSnaps - x.id : x \in RowsOf(s)}
<1>1. MaxSnaps \in Nat /\ \A x \in RowsOf(s) : x.id \in 1 .. MaxSnaps
  BY RetentionAssumption DEF TypeOK, RowsOf, Row, Ids
<1>2. Left \subseteq Nat /\ Left # {}
  BY <1>1
<1>3. PICK n \in Left : \A m \in Left : n <= m
  BY <1>2, LeastNatural
<1>4. PICK x \in RowsOf(s) : n = MaxSnaps - x.id
  OBVIOUS
<1>5. ASSUME NEW y \in RowsOf(s) PROVE y.id <= x.id
  <2>1. MaxSnaps - x.id <= MaxSnaps - y.id
    BY <1>3, <1>4
  <2>2. x.id \in Nat /\ y.id \in Nat /\ MaxSnaps \in Nat
    BY <1>1
  <2> QED BY <2>1, <2>2
<1> QED BY <1>5 DEF Latest

LEMMA NoneTakenType == NoneTaken \in Taken
BY DEF NoneTaken, Taken

LEMMA InitInv == Init => IInv
BY RetentionAssumption, NoneTakenType
   DEF Init, IInv, TypeOK, IdInv, RunInv, SweepInv, HeldInv, FreshBlobsKept, NoRun, NoSweep,
       Run, Sweep, DocState, Ids, RowsOf

-----------------------------------------------------------------------------
(* The steps of a run. *)

LEMMA PersistStep ==
    ASSUME IInv, NEW s \in Sources, NEW stored \in BOOLEAN, Persist(s, stored)
    PROVE  IInv'
<1> DEFINE x == [id |-> nextId, src |-> s, stored |-> stored]
           r == [phase |-> "held", base |-> Latest(s), doc |-> "none", row |-> {x}]
<1>1. /\ run' = [run EXCEPT ![s] = r] /\ nextId' = nextId + 1 /\ nextId \in Ids
      /\ run[s].phase = "idle" /\ run[s] = NoRun
      /\ UNCHANGED <<live, snaps, old, docs, ret, del, deletes, taken>>
      /\ x \in Row /\ x.id = nextId /\ x.src = s /\ x.stored = stored /\ Latest(s) \subseteq Row
  BY RetentionAssumption DEF Persist, IInv, TypeOK, RunInv, Ids, Row, Latest, RowsOf
<1>2. /\ blobs' = IF stored THEN blobs \cup {nextId} ELSE blobs
      /\ exposed' = IF ret.phase = "listed" THEN exposed \cup {nextId} ELSE exposed
  BY DEF Persist
<1>3. r \in Run /\ r.phase = "held" /\ r.base = Latest(s) /\ r.doc = "none" /\ r.row = {x}
  BY <1>1 DEF Run, DocState
<1> HIDE DEF x, r
<1>4. TypeOK'
  BY <1>1, <1>2, <1>3, RetentionAssumption DEF IInv, TypeOK, Ids
<1>5. IdInv'
  BY <1>1, <1>2, <1>3 DEF IInv, TypeOK, IdInv, IdsOf, Ids, Row, Run
<1>6. RunInv'
  <2>1. Latest(s) = {} => RowsOf(s) = {}
    BY LatestExists DEF IInv
  <2> QED BY <1>1, <1>3, <2>1 DEF IInv, TypeOK, RunInv, RowsOf
<1>7. SweepInv'
  <2>1. \A t \in Sources : run'[t].row = IF t = s THEN {x} ELSE run[t].row
    BY <1>1, <1>3 DEF IInv, TypeOK
  <2>2. nextId \in Nat /\ \A i \in ret.expired : i \in Nat
    BY <1>1 DEF IInv, TypeOK, Sweep, Ids
  <2> QED BY <1>1, <1>2, <2>1, <2>2 DEF IInv, SweepInv
<1>8. HeldInv' /\ FreshBlobsKept'
  BY <1>1, <1>2, <1>3 DEF IInv, TypeOK, IdInv, HeldInv, FreshBlobsKept, Ids, Row, Run
<1> QED BY <1>4, <1>5, <1>6, <1>7, <1>8 DEF IInv

\* A step that moves a run on and touches neither its row nor its baseline.
LEMMA MoveStep ==
    ASSUME IInv, NEW s \in Sources, NEW phase \in {"diffed", "written"}, NEW doc \in DocState,
           run[s].phase # "idle",
           doc = "initial" => phase = "written" /\ run[s].base = {},
           run' = [run EXCEPT ![s].phase = phase, ![s].doc = doc],
           UNCHANGED <<live, snaps, old, docs, blobs, nextId, ret, del, deletes, taken, exposed>>
    PROVE  IInv'
<1> DEFINE r == [run[s] EXCEPT !.phase = phase, !.doc = doc]
<1>1. run' = [run EXCEPT ![s] = r] /\ run \in [Sources -> Run]
  BY DEF IInv, TypeOK
<1>2. /\ r \in Run /\ r.row = run[s].row /\ r.base = run[s].base /\ r.phase = phase
      /\ r.doc = doc /\ r # NoRun
  BY <1>1 DEF Run, NoRun
<1> HIDE DEF r
<1>3. \A t \in Sources : run'[t].row = run[t].row /\ run'[t].base = run[t].base
  BY <1>1, <1>2
<1>4. TypeOK'
  BY <1>1, <1>2 DEF IInv, TypeOK
<1>5. RunInv'
  <2>1. r.phase # "idle" /\ (r.doc = "initial" => r.phase = "written" /\ r.base = {})
    BY <1>2
  <2>2. run[s].base = {} => RowsOf(s) = {}
    BY DEF IInv, RunInv
  <2> QED BY <1>1, <1>2, <2>1, <2>2 DEF IInv, RunInv, RowsOf
<1>6. IdInv'
  <2>1. ASSUME NEW t \in Sources, NEW x \in run'[t].row
        PROVE  /\ x.src = t /\ x.id < nextId'
               /\ \A y \in snaps' : y.id # x.id
               /\ \A u \in Sources : \A y \in run'[u].row : x.id = y.id => x = y
    <3>1. x \in run[t].row
      BY <1>3
    <3>2. /\ x.src = t /\ x.id < nextId /\ \A y \in snaps : y.id # x.id
          /\ \A u \in Sources : \A y \in run[u].row : x.id = y.id => x = y
      BY <3>1 DEF IInv, IdInv
    <3>3. ASSUME NEW u \in Sources, NEW y \in run'[u].row, x.id = y.id PROVE x = y
      BY <1>3, <3>2, <3>3
    <3> QED BY <3>2, <3>3
  <2>2. /\ \A x \in snaps : x.id < nextId
        /\ \A x, y \in snaps : x.id = y.id => x = y
        /\ old \subseteq IdsOf(snaps)
    BY DEF IInv, IdInv
  <2>3. IdsOf(snaps)' = IdsOf(snaps)
    BY DEF IdsOf
  <2> QED BY <2>1, <2>2, <2>3 DEF IdInv
<1>7. SweepInv' /\ HeldInv' /\ FreshBlobsKept'
  BY <1>3 DEF IInv, SweepInv, HeldInv, FreshBlobsKept
<1> QED BY <1>4, <1>5, <1>6, <1>7 DEF IInv

LEMMA CommitRunStep ==
    ASSUME IInv, NEW s \in Sources, CommitRun(s) PROVE IInv'
<1>1. /\ run \in [Sources -> Run] /\ run' = [run EXCEPT ![s] = NoRun]
      /\ snaps' = snaps \cup run[s].row /\ run[s].row \subseteq Row
      /\ UNCHANGED <<live, old, blobs, nextId, ret, del, deletes, exposed>>
      /\ taken' \in [Sources -> Taken]
      /\ docs' = [docs EXCEPT ![s] = IF run[s].doc = "none" THEN @ ELSE run[s].doc]
      /\ run[s].doc \in DocState
  BY DEF CommitRun, IInv, TypeOK, Run, Taken
<1>2. /\ NoRun \in Run /\ NoRun.row = {} /\ NoRun.doc = "none" /\ NoRun.phase = "idle"
  BY DEF NoRun, Run, DocState
<1>3. \A t \in Sources : run'[t] = IF t = s THEN NoRun ELSE run[t]
  BY <1>1
<1>4. TypeOK'
  BY <1>1, <1>2 DEF IInv, TypeOK
<1>5. IdInv'
  BY <1>1, <1>2, <1>3 DEF IInv, IdInv, IdsOf
<1>6. RunInv'
  BY <1>1, <1>2, <1>3 DEF IInv, RunInv, IdInv, RowsOf
<1>7. SweepInv' /\ HeldInv' /\ FreshBlobsKept'
  BY <1>1, <1>2, <1>3 DEF IInv, IdInv, SweepInv, HeldInv, FreshBlobsKept
<1> QED BY <1>4, <1>5, <1>6, <1>7 DEF IInv

LEMMA AbortRunStep ==
    ASSUME IInv, NEW s \in Sources, AbortRun(s) PROVE IInv'
<1>1. /\ run \in [Sources -> Run] /\ run' = [run EXCEPT ![s] = NoRun]
      /\ UNCHANGED <<live, snaps, old, docs, blobs, nextId, ret, del, deletes, exposed>>
      /\ taken' \in [Sources -> Taken]
  BY DEF AbortRun, IInv, TypeOK, Taken
<1>2. /\ NoRun \in Run /\ NoRun.row = {} /\ NoRun.doc = "none" /\ NoRun.phase = "idle"
  BY DEF NoRun, Run, DocState
<1>3. \A t \in Sources : run'[t] = IF t = s THEN NoRun ELSE run[t]
  BY <1>1
<1>4. TypeOK'
  BY <1>1, <1>2 DEF IInv, TypeOK
<1>5. IdInv' /\ RunInv' /\ SweepInv' /\ HeldInv' /\ FreshBlobsKept'
  BY <1>1, <1>2, <1>3 DEF IInv, RunInv, IdInv, SweepInv, HeldInv, FreshBlobsKept, IdsOf, RowsOf
<1> QED BY <1>4, <1>5 DEF IInv

-----------------------------------------------------------------------------
(* The steps of the retention job and of deletions. *)

LEMMA SelectStep ==
    ASSUME IInv, NEW kept \in SUBSET Ids, RetentionSelect(kept) PROVE IInv'
<1> DEFINE expired == {x \in snaps : x.id \in old}
<1>1. /\ ret' = [ret EXCEPT !.phase = "selected", !.expired = IdsOf(expired)]
      /\ ret \in Sweep /\ IdsOf(expired) \subseteq Ids
      /\ UNCHANGED <<live, snaps, old, docs, nextId, run, del, deletes, taken, exposed>>
  BY DEF RetentionSelect, IInv, TypeOK, IdsOf, Row
<1>2. blobs' \subseteq Ids /\ \A i \in blobs \ IdsOf(expired) : i \in blobs'
  BY DEF RetentionSelect, IInv, TypeOK, Stored, IdsOf
<1>3. \A i \in IdsOf(expired) : i \in old /\ i < nextId
  BY DEF IdsOf, IInv, IdInv
<1>4. \A x \in snaps : x.id \in IdsOf(expired) => x.id \in old
  BY <1>3
<1>5. \A t \in Sources : \A x \in run[t].row : x.id \notin IdsOf(expired)
  BY DEF IdsOf, IInv, IdInv
<1> HIDE DEF expired
<1>6. TypeOK'
  BY <1>1, <1>2 DEF IInv, TypeOK, Sweep
<1>7. IdInv' /\ RunInv'
  BY <1>1 DEF IInv, IdInv, RunInv, IdsOf, RowsOf
<1>8. SweepInv'
  BY <1>1, <1>3, <1>4, <1>5 DEF Sweep, SweepInv
<1>9. HeldInv' /\ FreshBlobsKept'
  BY <1>1, <1>2, <1>4, <1>5 DEF IInv, HeldInv, FreshBlobsKept
<1> QED BY <1>6, <1>7, <1>8, <1>9 DEF IInv

LEMMA ListStep ==
    ASSUME IInv, RetentionList PROVE IInv'
<1>1. /\ ret.phase = "selected" /\ ret \in Sweep
      /\ ret' = [ret EXCEPT !.phase = "listed", !.known = Stored(snaps) \ ret.expired]
      /\ exposed' = exposed \cup InFlight
      /\ UNCHANGED <<live, snaps, old, docs, blobs, nextId, run, del, deletes, taken>>
  BY DEF RetentionList, IInv, TypeOK
<1>2. \A t \in Sources : \A x \in run[t].row : x.id \in InFlight
  BY DEF InFlight, IdsOf
<1>3. InFlight \subseteq Ids /\ Stored(snaps) \subseteq Ids
  BY DEF InFlight, IdsOf, Stored, IInv, TypeOK, Run, Row
<1>4. TypeOK'
  BY <1>1, <1>3 DEF IInv, TypeOK, Sweep
<1>5. IdInv' /\ RunInv' /\ HeldInv' /\ FreshBlobsKept'
  BY <1>1 DEF IInv, IdInv, RunInv, HeldInv, FreshBlobsKept, IdsOf, RowsOf
<1>6. SweepInv'
  BY <1>1, <1>2 DEF IInv, SweepInv, Sweep, Stored
<1> QED BY <1>4, <1>5, <1>6 DEF IInv

LEMMA SweepStep ==
    ASSUME IInv, NEW kept \in SUBSET Ids, RetentionSweep(kept) PROVE IInv'
<1>1. /\ ret.phase = "listed" /\ ret \in Sweep /\ ret' = [ret EXCEPT !.phase = "swept"]
      /\ UNCHANGED <<live, snaps, old, docs, nextId, run, del, deletes, taken, exposed>>
      /\ blobs' \subseteq blobs /\ \A i \in blobs \cap ret.known : i \in blobs'
  BY DEF RetentionSweep, IInv, TypeOK
<1>2. TypeOK'
  BY <1>1 DEF IInv, TypeOK, Sweep
<1>3. IdInv' /\ RunInv' /\ SweepInv'
  BY <1>1 DEF IInv, IdInv, RunInv, SweepInv, Sweep, IdsOf, RowsOf
<1>4. HeldInv' /\ FreshBlobsKept'
  BY <1>1 DEF IInv, SweepInv, HeldInv, FreshBlobsKept
<1> QED BY <1>2, <1>3, <1>4 DEF IInv

\* A step that deletes rows and nothing that stays refers to.
LEMMA DropStep ==
    ASSUME IInv, NEW gone, snaps' = {x \in snaps : x.id \notin gone}, old' = old \ gone,
           UNCHANGED <<blobs, nextId, run, exposed>>, ret' \in {ret, NoSweep}
    PROVE  IdInv' /\ RunInv' /\ SweepInv' /\ HeldInv' /\ FreshBlobsKept'
<1>1. IdInv'
  BY DEF IInv, IdInv, IdsOf
<1>2. RunInv' /\ HeldInv' /\ FreshBlobsKept'
  BY DEF IInv, RunInv, HeldInv, FreshBlobsKept, RowsOf
<1>3. SweepInv'
  BY DEF IInv, SweepInv, NoSweep
<1> QED BY <1>1, <1>2, <1>3

LEMMA RetentionCommitStep ==
    ASSUME IInv, RetentionCommit PROVE IInv'
<1>1. NoSweep \in Sweep
  BY DEF NoSweep, Sweep
<1>2. TypeOK'
  BY <1>1 DEF RetentionCommit, IInv, TypeOK
<1> QED BY <1>2, DropStep DEF RetentionCommit, IInv

LEMMA RetentionFailsStep ==
    ASSUME IInv, RetentionFails PROVE IInv'
<1>1. NoSweep \in Sweep /\ NoSweep.phase = "idle"
  BY DEF NoSweep, Sweep
<1>2. TypeOK'
  BY <1>1 DEF RetentionFails, IInv, TypeOK
<1>3. IdInv' /\ RunInv' /\ SweepInv' /\ HeldInv' /\ FreshBlobsKept'
  BY <1>1 DEF RetentionFails, IInv, IdInv, RunInv, SweepInv, HeldInv, FreshBlobsKept, IdsOf, RowsOf
<1> QED BY <1>2, <1>3 DEF IInv

LEMMA PurgeStep ==
    ASSUME IInv, NEW s \in Sources, NEW kept \in SUBSET Ids, DeletePurge(s, kept) PROVE IInv'
<1>1. /\ deletes' = deletes + 1 /\ deletes < MaxDeletes /\ del' = [del EXCEPT ![s] = "purged"]
      /\ exposed' = exposed \cup Stored(RowsOf(s))
      /\ blobs' \subseteq blobs /\ \A i \in blobs \ Stored(RowsOf(s)) : i \in blobs'
      /\ UNCHANGED <<live, snaps, old, docs, nextId, run, ret, taken>>
  BY DEF DeletePurge
<1>2. Stored(RowsOf(s)) \subseteq Ids
  BY DEF Stored, RowsOf, IInv, TypeOK, Row
<1>3. TypeOK'
  BY <1>1, <1>2, RetentionAssumption DEF IInv, TypeOK
<1>4. IdInv' /\ RunInv' /\ SweepInv' /\ HeldInv' /\ FreshBlobsKept'
  BY <1>1 DEF IInv, IdInv, RunInv, SweepInv, HeldInv, FreshBlobsKept, IdsOf, RowsOf
<1> QED BY <1>3, <1>4 DEF IInv

LEMMA DeleteSourceStep ==
    ASSUME IInv, NEW s \in Sources, DeleteSource(s) PROVE IInv'
<1>1. \A x \in snaps : x \in RowsOf(s) <=> x.id \in IdsOf(RowsOf(s))
  BY DEF IInv, IdInv, IdsOf, RowsOf
<1>2. snaps' = {x \in snaps : x.id \notin IdsOf(RowsOf(s))}
  BY <1>1 DEF DeleteSource
<1>3. TypeOK'
  BY NoneTakenType DEF DeleteSource, IInv, TypeOK, DocState, Taken
<1> QED BY <1>2, <1>3, DropStep DEF DeleteSource, IInv

-----------------------------------------------------------------------------
LEMMA StepInv == IInv /\ [Next]_vars => IInv'
<1> SUFFICES ASSUME IInv, [Next]_vars PROVE IInv'
  OBVIOUS
<1> USE DEF Next
<1>1. ASSUME NEW x \in snaps, Age(x) PROVE IInv'
  <2>1. x.id \in Ids
    BY DEF IInv, TypeOK, Row
  <2> QED BY <1>1, <2>1 DEF Age, IInv, TypeOK, IdInv, RunInv, SweepInv, HeldInv, FreshBlobsKept,
                            IdsOf, RowsOf
<1>2. ASSUME NEW s \in Sources, Diff(s) \/ PublishInitial(s) \/ PublishUpdate(s) PROVE IInv'
  <2>1. run \in [Sources -> Run] /\ run[s].doc \in DocState
    BY DEF IInv, TypeOK, Run
  <2>2. CASE Diff(s)
    <3>1. /\ run[s].phase = "held" /\ run[s].doc # "initial"
          /\ run' = [run EXCEPT ![s].phase = "diffed", ![s].doc = run[s].doc]
      BY <2>1, <2>2 DEF Diff, Run, IInv, RunInv
    <3> QED BY <2>1, <2>2, <3>1, MoveStep DEF Diff
  <2>3. CASE PublishInitial(s)
    BY <2>3, MoveStep DEF PublishInitial, Publish, DocState
  <2>4. CASE PublishUpdate(s)
    BY <2>4, MoveStep DEF PublishUpdate, Publish, DocState
  <2> QED BY <1>2, <2>2, <2>3, <2>4
<1>3. ASSUME NEW s \in Sources, DeleteRows(s) \/ DeleteFails(s) PROVE IInv'
  <2>1. UNCHANGED <<live, snaps, old, docs, blobs, nextId, run, ret, deletes, exposed>>
    BY <1>3 DEF DeleteRows, DeleteFails
  <2>2. TypeOK'
    <3>1. IdsOf(RowsOf(s)) \subseteq Ids
      BY DEF IdsOf, RowsOf, IInv, TypeOK, Row
    <3>2. \A b, l \in BOOLEAN : [rows |-> IdsOf(RowsOf(s)), doc |-> b, log |-> l,
                                 missed |-> FALSE] \in Taken
      BY <3>1 DEF Taken
    <3>3. taken' \in [Sources -> Taken]
      BY <1>3, <3>2, NoneTakenType DEF DeleteRows, DeleteFails, IInv, TypeOK
    <3> QED BY <1>3, <3>3 DEF DeleteRows, DeleteFails, IInv, TypeOK
  <2> QED BY <2>1, <2>2 DEF IInv, IdInv, RunInv, SweepInv, HeldInv, FreshBlobsKept, IdsOf, RowsOf
<1>4. CASE UNCHANGED vars
  BY <1>4 DEF vars, IInv, TypeOK, IdInv, RunInv, SweepInv, HeldInv, FreshBlobsKept, IdsOf, RowsOf
<1> QED
  BY <1>1, <1>2, <1>3, <1>4, PersistStep, CommitRunStep, AbortRunStep, SelectStep, ListStep,
     SweepStep, RetentionCommitStep, RetentionFailsStep, PurgeStep, DeleteSourceStep
     DEF EndRun, EndDelete

LEMMA IInvariant == Spec => []IInv
BY InitInv, StepInv, PTL DEF Spec

-----------------------------------------------------------------------------
(* The theorems. *)

\* Every table, transaction and history of retention has its type.
THEOREM RetentionTypes == Spec => []TypeOK
<1>1. IInv => TypeOK
  BY DEF IInv
<1> QED BY <1>1, IInvariant, PTL

\* No interleaving of runs, sweeps and deletions loses the blob of a snapshot in
\* the window, but for the two kinds of exposed rows (cleanup_expired_data,
\* delete_source).
THEOREM BlobsAreKept == Spec => []FreshBlobsKept
<1>1. IInv => FreshBlobsKept
  BY DEF IInv
<1> QED BY <1>1, IInvariant, PTL

\* A snapshot row is deleted only past the window or with its source.
THEOREM RowsAreKept == Spec => RowsGoForAReason
<1> DEFINE Reason == \A x \in snaps \ snaps' : x.id \in old \/ x.src \notin live'
<1>1. ASSUME IInv, [Next]_vars PROVE [Reason]_snaps
  <2>1. CASE RetentionCommit
    BY <1>1, <2>1 DEF RetentionCommit, IInv, SweepInv
  <2>2. ASSUME NEW s \in Sources, DeleteSource(s) PROVE Reason
    BY <2>2 DEF DeleteSource, RowsOf
  <2>3. ASSUME NEW s \in Sources, CommitRun(s) PROVE Reason
    BY <2>3 DEF CommitRun
  <2>4. \/ UNCHANGED snaps \/ RetentionCommit
        \/ \E s \in Sources : DeleteSource(s) \/ CommitRun(s)
    BY <1>1 DEF Next, vars, Age, Persist, Diff, PublishInitial, PublishUpdate, Publish, EndRun,
       AbortRun, DeletePurge, EndDelete, DeleteRows, DeleteFails, RetentionSelect,
       RetentionSweep, RetentionList, RetentionFails
  <2> QED BY <2>1, <2>2, <2>3, <2>4
<1> QED BY <1>1, IInvariant, PTL DEF Spec, RowsGoForAReason

\* Documentation outlives its snapshots, and is started over only when none is left.
THEOREM DocsAreRetained == Spec => DocsRetained
<1> DEFINE Kept == \A s \in live' :
                     /\ docs[s] # "none" => docs'[s] # "none"
                     /\ docs[s] = "updated" /\ docs'[s] = "initial" => RowsOf(s) = {}
<1>1. ASSUME IInv, [Next]_vars PROVE [Kept]_docs
  <2>1. docs \in [Sources -> DocState] /\ live \subseteq Sources /\ run \in [Sources -> Run]
    BY <1>1 DEF IInv, TypeOK
  <2>2. ASSUME NEW s \in Sources, CommitRun(s) PROVE Kept
    <3>1. run[s].doc = "initial" => RowsOf(s) = {}
      BY <1>1 DEF IInv, RunInv
    <3> QED BY <2>1, <2>2, <3>1 DEF CommitRun
  <2>3. ASSUME NEW s \in Sources, DeleteSource(s) PROVE Kept
    BY <2>1, <2>3 DEF DeleteSource
  <2>4. UNCHANGED docs \/ \E s \in Sources : DeleteSource(s) \/ CommitRun(s)
    BY <1>1 DEF Next, vars, Age, Persist, Diff, PublishInitial, PublishUpdate, Publish, EndRun,
       AbortRun, DeletePurge, EndDelete, DeleteRows, DeleteFails, RetentionSelect,
       RetentionSweep, RetentionList, RetentionCommit, RetentionFails
  <2> QED BY <2>2, <2>3, <2>4
<1> QED BY <1>1, IInvariant, PTL DEF Spec, DocsRetained

\* A source that is being deleted is still there; its doc, if there is one, has been
\* taken by the deletion or was written after the DELETE.
TakenInv ==
    \A s \in Sources :
        /\ del[s] # "none" => s \in live
        /\ del[s] = "cleared" /\ docs[s] # "none" => taken[s].doc \/ taken[s].missed

LEMMA TakenStep == IInv /\ TakenInv /\ [Next]_vars => TakenInv'
<1> SUFFICES ASSUME IInv, TakenInv, [Next]_vars PROVE TakenInv'
  OBVIOUS
<1>0. /\ docs \in [Sources -> DocState] /\ taken \in [Sources -> Taken]
      /\ del \in [Sources -> {"none", "purged", "cleared"}]
  BY DEF IInv, TypeOK
<1> USE DEF TakenInv
<1>1. ASSUME NEW s \in Sources, CommitRun(s) PROVE TakenInv'
  BY <1>0, <1>1 DEF CommitRun, Taken
<1>2. ASSUME NEW s \in Sources, AbortRun(s) PROVE TakenInv'
  BY <1>0, <1>2 DEF AbortRun, Taken
<1>3. ASSUME NEW s \in Sources, NEW kept \in SUBSET Ids, DeletePurge(s, kept) PROVE TakenInv'
  BY <1>0, <1>3 DEF DeletePurge
<1>4. ASSUME NEW s \in Sources, DeleteRows(s) PROVE TakenInv'
  BY <1>0, <1>4 DEF DeleteRows, Taken
<1>5. ASSUME NEW s \in Sources, DeleteSource(s) \/ DeleteFails(s) PROVE TakenInv'
  BY <1>0, <1>5 DEF DeleteSource, DeleteFails
<1>6. CASE UNCHANGED <<live, docs, del, taken>>
  BY <1>6
<1> QED
  BY <1>1, <1>2, <1>3, <1>4, <1>5, <1>6
     DEF Next, vars, Age, Persist, Diff, PublishInitial, PublishUpdate, Publish, EndRun, EndDelete,
         RetentionSelect, RetentionSweep, RetentionList, RetentionCommit, RetentionFails

\* A deleted source has no snapshot, no run and no doc, but for a doc that came while it
\* was being deleted, and never gets one again, whatever runs do meanwhile.
THEOREM DeletionsAreFinal == Spec => []GoneIsGone
<1>1. Init => GoneIsGone /\ TakenInv
  BY DEF Init, GoneIsGone, TakenInv
<1>2. ASSUME IInv, TakenInv, GoneIsGone, [Next]_vars PROVE GoneIsGone'
  <2> USE DEF GoneIsGone, RowsOf
  <2>0. /\ run \in [Sources -> Run] /\ live \subseteq Sources
        /\ docs \in [Sources -> DocState] /\ taken \in [Sources -> Taken]
    BY <1>2 DEF IInv, TypeOK
  <2>1. ASSUME NEW s \in Sources, Persist(s, TRUE) \/ Persist(s, FALSE) \/ Diff(s) \/ PublishInitial(s) \/ PublishUpdate(s)
        PROVE  GoneIsGone'
    <3>1. UNCHANGED <<live, snaps, docs, taken>> /\ s \in live /\ \A t \in Sources \ {s} : run'[t] = run[t]
      BY <1>2, <2>0, <2>1 DEF Persist, Diff, PublishInitial, PublishUpdate, Publish, NoRun
    <3> QED BY <1>2, <2>0, <3>1
  <2>2. ASSUME NEW s \in Sources, CommitRun(s) PROVE GoneIsGone'
    <3>1. /\ s \in live /\ live' = live
          /\ \A t \in Sources \ {s} : run'[t] = run[t] /\ docs'[t] = docs[t] /\ taken'[t] = taken[t]
      BY <1>2, <2>0, <2>2 DEF CommitRun, NoRun
    <3>2. \A x \in snaps' \ snaps : x.src = s
      BY <1>2, <2>2 DEF CommitRun, IInv, IdInv
    <3> QED BY <1>2, <2>0, <3>1, <3>2
  <2>3. ASSUME NEW s \in Sources, AbortRun(s) PROVE GoneIsGone'
    <3>1. \A t \in Sources : taken'[t].missed = taken[t].missed
      BY <2>0, <2>3 DEF AbortRun, Taken
    <3> QED BY <1>2, <2>0, <2>3, <3>1 DEF AbortRun
  <2>4. ASSUME NEW s \in Sources, DeleteSource(s) PROVE GoneIsGone'
    <3>1. run' = run /\ run[s] = NoRun /\ live' = live \ {s} /\ snaps' = snaps \ RowsOf(s)
      BY <1>2, <2>4 DEF DeleteSource, IInv, RunInv
    <3>2. /\ \A t \in Sources \ {s} : docs'[t] = docs[t] /\ taken'[t] = taken[t]
          /\ docs'[s] = IF taken[s].doc THEN "none" ELSE docs[s]
          /\ taken'[s].missed = taken[s].missed
      BY <2>0, <2>4 DEF DeleteSource, Taken, NoneTaken
    <3>3. docs'[s] # "none" => taken'[s].missed
      BY <1>2, <2>4, <3>2 DEF DeleteSource, TakenInv
    <3> QED BY <1>2, <3>1, <3>2, <3>3
  <2>5. ASSUME NEW s \in Sources, DeleteRows(s) \/ DeleteFails(s) PROVE GoneIsGone'
    <3>1. /\ s \in live /\ UNCHANGED <<live, snaps, run, docs>>
          /\ \A t \in Sources \ {s} : taken'[t] = taken[t]
      BY <1>2, <2>0, <2>5 DEF DeleteRows, DeleteFails, TakenInv
    <3> QED BY <1>2, <3>1
  <2>6. CASE RetentionCommit
    BY <1>2, <2>6 DEF RetentionCommit
  <2>7. CASE UNCHANGED <<live, snaps, run, docs, taken>>
    BY <1>2, <2>7
  <2> QED
    BY <1>2, <2>1, <2>2, <2>3, <2>4, <2>5, <2>6, <2>7
       DEF Next, vars, Age, EndRun, EndDelete, DeletePurge, RetentionSelect, RetentionSweep,
           RetentionList, RetentionFails
<1> QED BY <1>1, <1>2, TakenStep, IInvariant, PTL DEF Spec
=============================================================================
