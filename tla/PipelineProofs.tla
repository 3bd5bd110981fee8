---------------------------- MODULE PipelineProofs ----------------------------
(***************************************************************************)
(* Theorems about Pipeline, for every value of its constants: any number   *)
(* of processes, tasks and sources, any mix of run-now requests and jobs.  *)
(*                                                                         *)
(* Most actions are local to a task: they change its record, move it to    *)
(* another phase of the same run, and leave the shared state alone.        *)
(* StepIsLocal shows it once, action by action; the invariants then need   *)
(* an argument only for the few actions that touch shared state.           *)
(*                                                                         *)
(* The sections: types, locks, the log, log and trail; the ledger on its   *)
(* own, its implementation by the interval jobs of one process, and what   *)
(* holds of docs and trails where runs overlap (PipelineOverlaps).         *)
(***************************************************************************)
EXTENDS PipelineOverlaps, FiniteSetTheorems, TLAPS

\* A busy task knows its source, and a run in progress owns a row of run_logs.
Owned ==
    /\ Len(logs) <= MaxRuns
    /\ \A t \in Tasks : pc[t] # "idle" => run[t].src \in Sources
    /\ \A t \in Tasks : Active(t) => run[t].log \in 1 .. Len(logs)

TypeInv == TypeOK /\ Owned

\* Task t moves to record r within its run; to finish it needs an outcome.
Moves(t, r) ==
    /\ Active(t)
    /\ r \in Run /\ r.src = run[t].src /\ r.log = run[t].log
    /\ run' = [run EXCEPT ![t] = r]
    /\ \E phase \in Phases \ {"idle", "loaded"} :
          Advance(t, phase) /\ (phase = "finish" => r.outcome # "running")
    /\ UNCHANGED <<world, logs, snaps, docs, audit, locked, lost>>
    /\ nextSnap' \in Nat

Local(t) == \E r \in Run : Moves(t, r)

InRun(t) ==
    \/ Fetch(t) \/ FetchFails(t)
    \/ \E c \in Contents : Persist(t, c)
    \/ \E c \in Contents, raw \in BOOLEAN : PersistFails(t, c, raw)
    \/ \E trivial \in BOOLEAN : Diff(t, trivial)
    \/ DiffFails(t) \/ RejectOverQuota(t) \/ SkipWithoutKey(t) \/ QueueLLM(t)
    \/ LLMAnswers(t) \/ LLMFails(t)
    \/ PublishInitial(t) \/ PublishSection(t) \/ PublishRefused(t)

-----------------------------------------------------------------------------
(* Records and rows that the actions build. *)

LEMMA NoRunType == NoRun \in Run
BY DEF NoRun, Run, NoDoc, Doc, Outcomes

LEMMA ResolvedDocType ==
    ASSUME TypeOK, NEW t \in Tasks, run[t].src \in Sources
    PROVE  ResolvedDoc(t) \in Doc
BY DEF TypeOK, ResolvedDoc, Run, Doc

LEMMA LatestType ==
    ASSUME TypeOK, NEW s \in Sources
    PROVE  Latest(s) \in SUBSET Snapshot
BY DEF TypeOK, Latest

\* A session's record with new snapshot fields.
LEMMA SnapRecord ==
    ASSUME NEW r \in Run, NEW b \in SUBSET Snapshot, NEW x \in Snapshot,
           NEW o \in Outcomes
    PROVE  [r EXCEPT !.base = b, !.snap = {x}, !.outcome = o] \in Run
BY DEF Run

\* A session's record with a new doc and outcome ...
LEMMA DocRecord ==
    ASSUME NEW r \in Run, NEW d \in Doc, NEW b \in BOOLEAN, NEW o \in Outcomes
    PROVE  [r EXCEPT !.doc = d, !.dirty = b, !.outcome = o] \in Run
BY DEF Run

\* ... and with a row of the audit trail.
LEMMA UpdateRecord ==
    ASSUME NEW r \in Run, NEW d \in Doc, NEW b \in BOOLEAN, NEW u \in DocUpdate,
           NEW o \in Outcomes
    PROVE  [r EXCEPT !.doc = d, !.dirty = b, !.update = <<u>>, !.outcome = o] \in Run
<1>1. <<u>> \in Seq(DocUpdate)
  OBVIOUS
<1> QED
  BY <1>1 DEF Run

LEMMA FailRecord ==
    ASSUME NEW r \in Run, NEW o \in Outcomes
    PROVE  [r EXCEPT !.outcome = o] \in Run
BY DEF Run

-----------------------------------------------------------------------------
(* Every action within a run is local to its task. *)

LEMMA MoveIsLocal ==
    ASSUME TypeInv, NEW t \in Tasks, NEW r \in Run, NEW phase \in Phases,
           Active(t), phase \notin {"idle", "loaded"},
           phase = "finish" => r.outcome # "running",
           r.src = run[t].src, r.log = run[t].log,
           run' = [run EXCEPT ![t] = r], Advance(t, phase),
           UNCHANGED <<world, logs, snaps, docs, audit, locked, lost>>,
           nextSnap' \in Nat
    PROVE  Local(t)
BY DEF Local, Moves

LEMMA StepIsLocal ==
    ASSUME TypeInv, NEW t \in Tasks, InRun(t)
    PROVE  Local(t)
<1>0. /\ Active(t) /\ run \in [Tasks -> Run] /\ run[t] \in Run
      /\ run[t].src \in Sources /\ run[t].log \in RunIds /\ nextSnap \in Nat
  <2>1. Active(t)
    BY DEF InRun, Active, Fetch, FetchFails, Finish, Persist, PersistFails, Diff, DiffFails,
       RejectOverQuota, SkipWithoutKey, QueueLLM, Resolve, LLMAnswers, LLMFails,
       PublishInitial, PublishSection, PublishRefused
  <2> QED
    BY <2>1, PipelineAssumption DEF TypeInv, TypeOK, Owned, RunIds, Active
<1>f. ASSUME NEW o \in Outcomes \ {"running"}, Finish(t, o), UNCHANGED quiet PROVE Local(t)
  <2> DEFINE r == [run[t] EXCEPT !.outcome = o]
  <2>1. r \in Run /\ r.src = run[t].src /\ r.log = run[t].log /\ r.outcome = o
    BY <1>0, FailRecord DEF Run
  <2>2. run' = [run EXCEPT ![t] = r] /\ Advance(t, "finish") /\ UNCHANGED quiet
    BY <1>f DEF Finish
  <2> HIDE DEF r
  <2> QED BY <1>0, <2>1, <2>2, MoveIsLocal DEF quiet, Phases
<1>1. CASE Fetch(t)
  <2> DEFINE got == {world[run[t].src]}
             r == [run[t] EXCEPT !.got = got]
  <2>0. got \in SUBSET Contents
    BY <1>0 DEF TypeInv, TypeOK
  <2>1. r \in Run /\ r.src = run[t].src /\ r.log = run[t].log
    BY <1>0, <2>0 DEF Run
  <2>2. run' = [run EXCEPT ![t] = r] /\ Advance(t, "snapshot") /\ UNCHANGED quiet
    BY <1>1 DEF Fetch
  <2> HIDE DEF r
  <2> QED BY <1>0, <2>1, <2>2, MoveIsLocal DEF quiet, Phases
<1>2. CASE FetchFails(t) \/ DiffFails(t) \/ LLMFails(t) \/ PublishRefused(t)
  BY <1>2, <1>f DEF FetchFails, DiffFails, LLMFails, PublishRefused, Outcomes
<1>3. ASSUME NEW c \in Contents, Persist(t, c) PROVE Local(t)
  <2> DEFINE same == \E x \in Latest(run[t].src) : x.hash = c
             x == [id |-> nextSnap, hash |-> c, stored |-> TRUE, by |-> run[t].log]
             o == IF ~run[t].force /\ same THEN "success_no_change" ELSE "running"
             r == [run[t] EXCEPT !.base = Latest(run[t].src), !.snap = {x},
                                 !.outcome = o]
  <2>1. x \in Snapshot /\ o \in Outcomes /\ Latest(run[t].src) \in SUBSET Snapshot
    BY <1>0, LatestType DEF Snapshot, Outcomes, TypeInv
  <2>2. run' = [run EXCEPT ![t] = r]
    BY <1>0, <1>3 DEF Persist
  <2>6. /\ UNCHANGED <<world, logs, snaps, docs, audit, locked, lost>>
        /\ nextSnap' \in Nat
    BY <1>0, <1>3 DEF Persist
  <2>3. PICK phase \in Phases \ {"idle", "loaded"} : Advance(t, phase)
    BY <1>3 DEF Persist, Phases
  <2>7. phase = "finish" => o # "running"
    BY <1>0, <1>3, <2>3 DEF Persist, Advance, TypeInv, TypeOK
  <2> HIDE DEF x, o
  <2>4. r \in Run
    BY <1>0, <2>1, SnapRecord
  <2>5. r.src = run[t].src /\ r.log = run[t].log /\ r.outcome = o
    BY <1>0 DEF Run
  <2> HIDE DEF r
  <2> QED BY <1>0, <2>2, <2>3, <2>4, <2>5, <2>6, <2>7, MoveIsLocal
<1>4. ASSUME NEW c \in Contents, NEW raw \in BOOLEAN, PersistFails(t, c, raw)
      PROVE  Local(t)
  <2> DEFINE x == [id |-> nextSnap, hash |-> c, stored |-> raw, by |-> run[t].log]
             r == [run[t] EXCEPT !.base = Latest(run[t].src), !.snap = {x},
                                 !.outcome = "failed"]
  <2>1. x \in Snapshot /\ "failed" \in Outcomes /\ Latest(run[t].src) \in SUBSET Snapshot
    BY <1>0, LatestType DEF Snapshot, Outcomes, TypeInv
  <2>2. run' = [run EXCEPT ![t] = r] /\ Advance(t, "finish")
    BY <1>0, <1>4 DEF PersistFails
  <2>6. /\ UNCHANGED <<world, logs, snaps, docs, audit, locked, lost>>
        /\ nextSnap' \in Nat
    BY <1>0, <1>4 DEF PersistFails
  <2> HIDE DEF x
  <2>4. r \in Run
    BY <1>0, <2>1, SnapRecord
  <2>5. r.src = run[t].src /\ r.log = run[t].log /\ r.outcome = "failed"
    BY <1>0 DEF Run
  <2> HIDE DEF r
  <2> QED BY <1>0, <2>2, <2>4, <2>5, <2>6, MoveIsLocal DEF Phases
<1>5. CASE \E trivial \in BOOLEAN : Diff(t, trivial)
  <2>1. PICK trivial \in BOOLEAN : Diff(t, trivial)
    BY <1>5
  <2>2. CASE trivial
    BY <1>f, <2>1, <2>2 DEF Diff, Outcomes
  <2>3. CASE ~trivial
    <3>1. run' = [run EXCEPT ![t] = run[t]] /\ Advance(t, "resolve") /\ UNCHANGED quiet
      BY <1>0, <2>1, <2>3 DEF Diff
    <3> QED BY <1>0, <3>1, MoveIsLocal DEF quiet, Phases
  <2> QED BY <2>2, <2>3
<1>6. ASSUME Resolve(t) PROVE ResolvedDoc(t) \in Doc /\ Creates(t) \in BOOLEAN
  BY <1>0, ResolvedDocType DEF TypeInv, Creates
<1>7. CASE RejectOverQuota(t)
  <2> DEFINE u == [by |-> run[t].log, status |-> "rejected"]
             r == [run[t] EXCEPT !.doc = ResolvedDoc(t), !.dirty = Creates(t),
                      !.update = <<u>>, !.outcome = "success_quota_rejected"]
  <2>1. u \in DocUpdate /\ "success_quota_rejected" \in Outcomes
    BY <1>0 DEF DocUpdate, Statuses, Outcomes
  <2>2. r \in Run
    BY <1>0, <1>6, <1>7, <2>1, UpdateRecord DEF RejectOverQuota
  <2>3. /\ r.src = run[t].src /\ r.log = run[t].log
        /\ r.outcome = "success_quota_rejected"
    BY <1>0 DEF Run
  <2>4. run' = [run EXCEPT ![t] = r] /\ Advance(t, "finish") /\ UNCHANGED quiet
    BY <1>7 DEF RejectOverQuota
  <2> HIDE DEF r
  <2> QED BY <1>0, <2>2, <2>3, <2>4, MoveIsLocal DEF quiet, Phases
<1>8. CASE SkipWithoutKey(t)
  <2> DEFINE r == [run[t] EXCEPT !.doc = ResolvedDoc(t), !.dirty = Creates(t),
                      !.outcome = "success_skipped"]
  <2>1. "success_skipped" \in Outcomes
    BY DEF Outcomes
  <2>2. r \in Run
    BY <1>0, <1>6, <1>8, <2>1, DocRecord DEF SkipWithoutKey
  <2>3. /\ r.src = run[t].src /\ r.log = run[t].log
        /\ r.outcome = "success_skipped"
    BY <1>0 DEF Run
  <2>4. run' = [run EXCEPT ![t] = r] /\ Advance(t, "finish") /\ UNCHANGED quiet
    BY <1>8 DEF SkipWithoutKey
  <2> HIDE DEF r
  <2> QED BY <1>0, <2>2, <2>3, <2>4, MoveIsLocal DEF quiet, Phases
<1>9. CASE QueueLLM(t)
  <2> DEFINE r == [run[t] EXCEPT !.doc = ResolvedDoc(t), !.dirty = Creates(t)]
  <2>1. ResolvedDoc(t) \in Doc /\ Creates(t) \in BOOLEAN
    BY <1>6, <1>9 DEF QueueLLM
  <2>2. r \in Run /\ r.src = run[t].src /\ r.log = run[t].log
    BY <1>0, <2>1 DEF Run
  <2>4. run' = [run EXCEPT ![t] = r] /\ Advance(t, "llm") /\ UNCHANGED quiet
    BY <1>9 DEF QueueLLM
  <2> HIDE DEF r
  <2> QED BY <1>0, <2>2, <2>4, MoveIsLocal DEF quiet, Phases
<1>10. CASE LLMAnswers(t)
  <2>1. run' = [run EXCEPT ![t] = run[t]] /\ Advance(t, "publish") /\ UNCHANGED quiet
    BY <1>0, <1>10 DEF LLMAnswers
  <2> QED BY <1>0, <2>1, MoveIsLocal DEF quiet, Phases
<1>11. CASE PublishInitial(t)
  <2> DEFINE u == [by |-> run[t].log, status |-> "initial"]
             d == [version |-> run[t].doc.version + 1, content |-> {run[t].log}]
             r == [run[t] EXCEPT !.doc = d, !.dirty = TRUE, !.update = <<u>>,
                      !.outcome = "success_initial_doc"]
  <2>1. u \in DocUpdate /\ d \in Doc /\ "success_initial_doc" \in Outcomes
    BY <1>0 DEF DocUpdate, Statuses, Applied, Outcomes, Doc, Run
  <2>2. r \in Run
    BY <1>0, <2>1, UpdateRecord
  <2>3. /\ r.src = run[t].src /\ r.log = run[t].log
        /\ r.outcome = "success_initial_doc"
    BY <1>0 DEF Run
  <2>4. run' = [run EXCEPT ![t] = r] /\ Advance(t, "finish") /\ UNCHANGED quiet
    BY <1>0, <1>11 DEF PublishInitial
  <2> HIDE DEF r
  <2> QED BY <1>0, <2>2, <2>3, <2>4, MoveIsLocal DEF quiet, Phases
<1>12. CASE PublishSection(t)
  <2> DEFINE u == [by |-> run[t].log, status |-> "published"]
             d == [version |-> run[t].doc.version + 1,
                   content |-> run[t].doc.content \cup {run[t].log}]
             r == [run[t] EXCEPT !.doc = d, !.dirty = TRUE, !.update = <<u>>,
                      !.outcome = "success"]
  <2>1. u \in DocUpdate /\ d \in Doc /\ "success" \in Outcomes
    BY <1>0 DEF DocUpdate, Statuses, Applied, Outcomes, Doc, Run
  <2>2. r \in Run
    BY <1>0, <2>1, UpdateRecord
  <2>3. /\ r.src = run[t].src /\ r.log = run[t].log
        /\ r.outcome = "success"
    BY <1>0 DEF Run
  <2>4. run' = [run EXCEPT ![t] = r] /\ Advance(t, "finish") /\ UNCHANGED quiet
    BY <1>0, <1>12 DEF PublishSection
  <2> HIDE DEF r
  <2> QED BY <1>0, <2>2, <2>3, <2>4, MoveIsLocal DEF quiet, Phases
<1> QED
  BY <1>1, <1>2, <1>3, <1>4, <1>5, <1>7, <1>8, <1>9, <1>10, <1>11, <1>12 DEF InRun
-----------------------------------------------------------------------------
(* Types. *)

LEMMA NextCases ==
    ASSUME [Next]_vars
    PROVE  \/ UNCHANGED vars
           \/ \E s \in Sources, c \in Contents : Change(s, c)
           \/ \E t \in Tasks, s \in Sources : LoadSourceWithDoc(t, s)
           \/ \E t \in Tasks, s \in Sources : Skip(t, s) \/ Begin(t, s)
           \/ \E t \in Tasks : InRun(t) \/ Commit(t) \/ FlushFails(t)
           \/ \E p \in Procs : Crash(p)
BY DEF Next, Step, InRun

\* A step of one task, whatever rows it appends, keeps the ownership facts.
LEMMA OwnedStep ==
    ASSUME TypeInv, NEW t \in Tasks, NEW r \in Run, NEW phase \in Phases,
           run' = [run EXCEPT ![t] = r], Advance(t, phase),
           phase # "idle" => r.src \in Sources,
           phase \notin {"idle", "loaded"} => r.log \in 1 .. Len(logs'),
           Len(logs') \in Nat, Len(logs) <= Len(logs'), Len(logs') <= MaxRuns
    PROVE  Owned' /\ run' \in [Tasks -> Run] /\ pc' \in [Tasks -> Phases]
<1>1. Len(logs) \in Nat /\ MaxRuns \in Nat
  BY PipelineAssumption DEF TypeInv, TypeOK
<1> QED
  BY <1>1 DEF TypeInv, TypeOK, Owned, Active, Advance

LEMMA TypeInit == Init => TypeInv
BY PipelineAssumption, NoRunType
   DEF Init, TypeInv, TypeOK, Owned, Active, NoDoc, Doc, Phases

LEMMA TypeNext == TypeInv /\ [Next]_vars => TypeInv'
<1> SUFFICES ASSUME TypeInv, [Next]_vars PROVE TypeInv'
    OBVIOUS
<1> USE PipelineAssumption
<1>0. CASE UNCHANGED vars
  BY <1>0 DEF TypeInv, TypeOK, Owned, Active, vars
<1>1. ASSUME NEW s \in Sources, NEW c \in Contents, Change(s, c) PROVE TypeInv'
  BY <1>1 DEF Change, db, TypeInv, TypeOK, Owned, Active
<1>2. ASSUME NEW t \in Tasks, NEW s \in Sources, LoadSourceWithDoc(t, s) PROVE TypeInv'
  <2> DEFINE empty == docs[s].content = {}
             r == [run[t] EXCEPT !.src = s, !.doc = docs[s], !.force = empty]
  <2>1. run[t] \in Run /\ docs[s] \in Doc /\ empty \in BOOLEAN
    BY DEF TypeInv, TypeOK
  <2> HIDE DEF empty
  <2>2. r \in Run /\ r.src = s
    BY <2>1 DEF Run
  <2>3. run' = [run EXCEPT ![t] = r]
    BY <1>2 DEF LoadSourceWithDoc, empty
  <2> HIDE DEF r
  <2> QED
    <3>1. Advance(t, "loaded") /\ "loaded" \in Phases /\ UNCHANGED quiet
      BY <1>2 DEF LoadSourceWithDoc, Phases
    <3>2. Len(logs') \in Nat /\ Len(logs) <= Len(logs') /\ Len(logs') <= MaxRuns
      BY <3>1 DEF quiet, TypeInv, TypeOK, Owned
    <3>3. Owned' /\ run' \in [Tasks -> Run] /\ pc' \in [Tasks -> Phases]
      BY <2>2, <2>3, <3>1, <3>2, OwnedStep
    <3> QED BY <3>1, <3>3 DEF quiet, TypeInv, TypeOK
<1>3. ASSUME NEW t \in Tasks, NEW s \in Sources, Skip(t, s) PROVE TypeInv'
  <2>1. logs' \in Seq(LogRow) /\ Len(logs') = Len(logs) + 1
    BY <1>3 DEF Skip, LogRow, Outcomes, TypeInv, TypeOK
  <2> QED
    BY <1>3, <2>1, NoRunType DEF Skip, CanTrigger, Advance, Phases, TypeInv, TypeOK,
       Owned, Active
<1>4. ASSUME NEW t \in Tasks, NEW s \in Sources, Begin(t, s) PROVE TypeInv'
  <2> DEFINE r == [run[t] EXCEPT !.src = s, !.log = Len(logs) + 1]
  <2>1. logs' \in Seq(LogRow) /\ Len(logs') = Len(logs) + 1 /\ Len(logs) \in Nat
    BY <1>4 DEF Begin, LogRow, Outcomes, TypeInv, TypeOK
  <2>2. r \in Run /\ r.src = s /\ r.log = Len(logs) + 1
    <3>1. run[t] \in Run /\ Len(logs) + 1 \in Nat
      BY <2>1 DEF TypeInv, TypeOK
    <3> QED BY <3>1 DEF Run
  <2>3. run' = [run EXCEPT ![t] = r]
    BY <1>4 DEF Begin
  <2>4. locked' \in SUBSET (Procs \X Sources)
    BY <1>4 DEF Begin, TypeInv, TypeOK
  <2> HIDE DEF r
  <2>5. Advance(t, "fetch") /\ "fetch" \in Phases /\ Len(logs) < MaxRuns
    BY <1>4 DEF Begin, CanTrigger, Phases
  <2>6. /\ Len(logs') \in Nat /\ Len(logs) <= Len(logs') /\ Len(logs') <= MaxRuns
        /\ r.log \in 1 .. Len(logs')
    BY <2>1, <2>2, <2>5
  <2>7. Owned' /\ run' \in [Tasks -> Run] /\ pc' \in [Tasks -> Phases]
    BY <2>2, <2>3, <2>5, <2>6, OwnedStep
  <2> QED
    BY <1>4, <2>1, <2>4, <2>7 DEF Begin, TypeInv, TypeOK
<1>5. ASSUME NEW t \in Tasks, InRun(t) PROVE TypeInv'
  <2>1. PICK r \in Run : Moves(t, r)
    BY <1>5, StepIsLocal DEF Local
  <2> QED
    BY <2>1 DEF Moves, Advance, TypeInv, TypeOK, Owned, Active
<1>6. ASSUME NEW t \in Tasks, Commit(t) PROVE TypeInv'
  <2> DEFINE s == run[t].src
             i == run[t].log
  <2>1. run[t] \in Run /\ s \in Sources /\ i \in 1 .. Len(logs)
    BY <1>6 DEF Commit, TypeInv, TypeOK, Owned, Active
  <2>2. logs' \in Seq(LogRow) /\ Len(logs') = Len(logs)
    <3> DEFINE row == [logs[i] EXCEPT !.outcome = run[t].outcome]
    <3>1. logs[i] \in LogRow /\ run[t].outcome \in Outcomes
      BY <2>1 DEF Run, TypeInv, TypeOK
    <3>2. row \in LogRow
      BY <3>1 DEF LogRow
    <3>3. logs' = [logs EXCEPT ![i] = row]
      BY <1>6 DEF Commit
    <3> HIDE DEF row, i
    <3> QED BY <2>1, <3>2, <3>3 DEF TypeInv, TypeOK
  <2>3. snaps' \in [Sources -> SUBSET Snapshot]
    BY <1>6, <2>1 DEF Commit, Run, TypeInv, TypeOK
  <2>4. docs' \in [Sources -> Doc]
    BY <1>6, <2>1 DEF Commit, Run, TypeInv, TypeOK
  <2>5. audit[s] \o run[t].update \in Seq(DocUpdate)
    BY <2>1 DEF Run, TypeInv, TypeOK
  <2>6. audit' \in [Sources -> Seq(DocUpdate)]
    BY <1>6, <2>1, <2>5 DEF Commit, TypeInv, TypeOK
  <2> HIDE DEF s, i
  <2> QED
    BY <1>6, <2>2, <2>3, <2>4, <2>6, NoRunType DEF Commit, Advance, Phases, TypeInv,
       TypeOK, Owned, Active
<1>7. ASSUME NEW t \in Tasks, FlushFails(t) PROVE TypeInv'
  <2>1. run[t].log \in Nat
    BY DEF TypeInv, TypeOK, Run
  <2> QED
    BY <1>7, <2>1, NoRunType DEF FlushFails, db, Advance, Phases, TypeInv, TypeOK,
       Owned, Active
<1>8. ASSUME NEW p \in Procs, Crash(p) PROVE TypeInv'
  <2>1. \A t \in Tasks : run[t].log \in Nat
    BY DEF TypeInv, TypeOK, Run
  <2>2. lost' \in SUBSET Nat
    <3> DEFINE gone == {u \in {t \in Tasks : ProcOf[t] = p /\ pc[t] # "idle"} : Active(u)}
    <3>1. lost' = lost \cup {run[t].log : t \in gone}
      BY <1>8 DEF Crash
    <3>2. gone \subseteq Tasks /\ lost \subseteq Nat
      BY DEF TypeInv, TypeOK
    <3> HIDE DEF gone
    <3> QED BY <2>1, <3>1, <3>2
  <2>3. run' \in [Tasks -> Run] /\ pc' \in [Tasks -> Phases]
    BY <1>8, NoRunType DEF Crash, Phases, TypeInv, TypeOK
  <2>4. locked' \in SUBSET (Procs \X Sources)
    BY <1>8 DEF Crash, TypeInv, TypeOK
  <2> QED
    BY <1>8, <2>2, <2>3, <2>4 DEF Crash, db, TypeInv, TypeOK, Owned, Active
<1> QED
  BY <1>0, <1>1, <1>2, <1>3, <1>4, <1>5, <1>6, <1>7, <1>8, NextCases

LEMMA TypeInvariant == Spec => []TypeInv
BY TypeInit, TypeNext, PTL DEF Spec

\* Type correctness: rows, sessions and phases stay what the code makes them,
\* and a run's rows name a run that run_logs knows.
THEOREM TypeCorrect == Spec => []TypeOK
BY TypeInvariant, PTL DEF TypeInv

-----------------------------------------------------------------------------
(* Locks. *)

LEMMA LockNext == TypeInv /\ LockHeldByRunner /\ [Next]_vars => LockHeldByRunner'
<1> SUFFICES ASSUME TypeInv, LockHeldByRunner, [Next]_vars PROVE LockHeldByRunner'
    OBVIOUS
<1> USE PipelineAssumption
<1>a. pc \in [Tasks -> Phases] /\ run \in [Tasks -> Run] /\ ProcOf \in [Tasks -> Procs]
  BY DEF TypeInv, TypeOK
<1>0. CASE UNCHANGED vars
  BY <1>0 DEF LockHeldByRunner, Running, Key, Active, vars
<1>1. ASSUME NEW s \in Sources, NEW c \in Contents, Change(s, c) PROVE LockHeldByRunner'
  BY <1>1 DEF Change, LockHeldByRunner, Running, Key, Active
<1>2. ASSUME NEW t \in Tasks, NEW s \in Sources, LoadSourceWithDoc(t, s)
      PROVE  LockHeldByRunner'
  BY <1>2, <1>a DEF LoadSourceWithDoc, Advance, quiet, LockHeldByRunner, Running,
     Key, Active
<1>3. ASSUME NEW t \in Tasks, NEW s \in Sources, Skip(t, s) PROVE LockHeldByRunner'
  BY <1>3, <1>a DEF Skip, CanTrigger, Advance, LockHeldByRunner, Running, Key, Active
<1>4. ASSUME NEW t \in Tasks, NEW s \in Sources, Begin(t, s) PROVE LockHeldByRunner'
  <2>1. ~Active(t) /\ Active(t)'
    BY <1>4, <1>a DEF Begin, CanTrigger, Advance, Active
  <2>2. Key(t)' = <<ProcOf[t], s>>
    BY <1>4, <1>a DEF Begin, Key, Run
  <2>3. \A u \in Tasks \ {t} : Key(u)' = Key(u) /\ Active(u)' = Active(u)
    BY <1>4, <1>a DEF Begin, Advance, Key, Active
  <2>4. locked' = locked \cup {Key(t)'} /\ Key(t)' \notin locked
    BY <1>4, <2>2 DEF Begin
  <2> QED BY <2>1, <2>3, <2>4 DEF LockHeldByRunner, Running
<1>5. ASSUME NEW t \in Tasks, InRun(t) PROVE LockHeldByRunner'
  <2>1. PICK r \in Run : Moves(t, r)
    BY <1>5, StepIsLocal DEF Local
  <2>2. \A u \in Tasks : Key(u)' = Key(u) /\ Active(u)' = Active(u)
    BY <1>a, <2>1 DEF Moves, Advance, Key, Active
  <2>3. locked' = locked
    BY <2>1 DEF Moves
  <2> QED BY <2>2, <2>3 DEF LockHeldByRunner, Running
<1>6. ASSUME NEW t \in Tasks, Commit(t) \/ FlushFails(t) PROVE LockHeldByRunner'
  <2>1. Active(t) /\ ~Active(t)' /\ locked' = locked \ {Key(t)}
    BY <1>6, <1>a DEF Commit, FlushFails, Advance, Active
  <2>2. \A u \in Tasks \ {t} : Key(u)' = Key(u) /\ Active(u)' = Active(u)
    BY <1>6, <1>a DEF Commit, FlushFails, Advance, Key, Active
  <2> QED BY <2>1, <2>2 DEF LockHeldByRunner, Running
<1>7. ASSUME NEW p \in Procs, Crash(p) PROVE LockHeldByRunner'
  <2>1. \A u \in Tasks : ProcOf[u] = p => ~Active(u)'
    BY <1>7, <1>a DEF Crash, Active
  <2>2. \A u \in Tasks : ProcOf[u] # p => Key(u)' = Key(u) /\ Active(u)' = Active(u)
    BY <1>7, <1>a DEF Crash, Key, Active
  <2>3. \A u \in Tasks : Key(u)[1] = ProcOf[u]
    BY DEF Key
  <2>4. locked' = {k \in locked : k[1] # p}
    BY <1>7 DEF Crash
  <2> QED BY <2>1, <2>2, <2>3, <2>4 DEF LockHeldByRunner, Running
<1> QED
  BY <1>0, <1>1, <1>2, <1>3, <1>4, <1>5, <1>6, <1>7, NextCases

\* The locks held are those of the runs in progress, one run per process and
\* source: no path out of a run, a crash included, leaves a source locked.
THEOREM LocksCorrect == Spec => []LockHeldByRunner
<1>1. Init => LockHeldByRunner
  BY DEF Init, LockHeldByRunner, Running, Active
<1> QED
  BY <1>1, TypeInvariant, LockNext, PTL DEF Spec
-----------------------------------------------------------------------------
(* Run logs. *)

\* A run in progress owns a row that says "running" until it commits with an
\* outcome, and lost rows exist: what RunningHasOwner needs to be inductive.
LogInv ==
    /\ RunningHasOwner
    /\ \A t \in Running : logs[run[t].log].outcome = "running"
    /\ lost \subseteq DOMAIN logs

\* A run reaches its last commit only with an outcome to write.
Concluded == \A t \in Tasks : pc[t] = "finish" => run[t].outcome # "running"

LEMMA ConcludedNext == TypeInv /\ Concluded /\ [Next]_vars => Concluded'
<1> SUFFICES ASSUME TypeInv, Concluded, [Next]_vars PROVE Concluded'
    OBVIOUS
<1>a. pc \in [Tasks -> Phases] /\ run \in [Tasks -> Run]
  BY DEF TypeInv, TypeOK
<1>1. ASSUME NEW t \in Tasks, InRun(t) PROVE Concluded'
  <2>1. PICK r \in Run : Moves(t, r)
    BY <1>1, StepIsLocal DEF Local
  <2> QED BY <1>a, <2>1 DEF Moves, Advance, Concluded
<1>2. ASSUME NEW t \in Tasks, Commit(t) \/ FlushFails(t) PROVE Concluded'
  BY <1>a, <1>2 DEF Commit, FlushFails, Advance, Concluded
<1>3. ASSUME NEW t \in Tasks, NEW s \in Sources,
             LoadSourceWithDoc(t, s) \/ Skip(t, s) \/ Begin(t, s)
      PROVE  Concluded'
  BY <1>a, <1>3 DEF LoadSourceWithDoc, Skip, Begin, Advance, Concluded
<1>4. ASSUME NEW p \in Procs, Crash(p) PROVE Concluded'
  BY <1>a, <1>4 DEF Crash, Concluded
<1>5. ASSUME UNCHANGED <<pc, run>> PROVE Concluded'
  BY <1>5 DEF Concluded
<1> QED
  BY <1>1, <1>2, <1>3, <1>4, <1>5, NextCases DEF vars, Change

LEMMA OneOwner ==
    ASSUME TypeInv, LogInv, NEW t \in Running, NEW u \in Running, run[t].log = run[u].log
    PROVE  t = u
BY DEF TypeInv, TypeOK, Owned, LogInv, RunningHasOwner, Owners, Running

\* The end of a run, in whatever way, leaves its row without owner and every
\* other row with its own.
LEMMA OwnersWithout ==
    ASSUME TypeInv, LogInv, NEW t \in Running, ~Active(t)',
           \A u \in Tasks \ {t} : Active(u)' = Active(u) /\ run'[u].log = run[u].log
    PROVE  \A i \in DOMAIN logs :
               Owners(i)' = IF i = run[t].log THEN {} ELSE Owners(i)
<1>1. Running' = Running \ {t}
  BY DEF Running
<1>2. \A i : Owners(i)' = Owners(i) \ {t}
  BY <1>1 DEF Owners, Running
<1>3. Owners(run[t].log) = {t}
  BY OneOwner DEF Owners
<1>4. \A i : i # run[t].log => t \notin Owners(i)
  BY DEF Owners
<1> QED BY <1>2, <1>3, <1>4

LEMMA LogNext == TypeInv /\ Concluded /\ LogInv /\ [Next]_vars => LogInv'
<1> SUFFICES ASSUME TypeInv, Concluded, LogInv, [Next]_vars PROVE LogInv'
    OBVIOUS
<1> USE PipelineAssumption
<1>a. /\ pc \in [Tasks -> Phases] /\ run \in [Tasks -> Run] /\ logs \in Seq(LogRow)
      /\ \A t \in Running : run[t].log \in DOMAIN logs
      /\ DOMAIN logs = 1 .. Len(logs) /\ Len(logs) \in Nat
  BY DEF TypeInv, TypeOK, Owned, Running
<1>s. ASSUME UNCHANGED <<logs, lost>>,
             \A u \in Tasks : Active(u)' = Active(u) /\ (Active(u) => run'[u].log = run[u].log)
      PROVE  LogInv'
  <2>1. Running' = Running /\ \A i \in DOMAIN logs : Owners(i)' = Owners(i)
    BY <1>s DEF Running, Owners
  <2> QED BY <1>s, <2>1 DEF LogInv, RunningHasOwner, Running
<1>0. CASE UNCHANGED vars
  BY <1>0, <1>s DEF vars, Active
<1>1. ASSUME NEW s \in Sources, NEW c \in Contents, Change(s, c) PROVE LogInv'
  BY <1>1, <1>s DEF Change, db, Active
<1>2. ASSUME NEW t \in Tasks, NEW s \in Sources, LoadSourceWithDoc(t, s) PROVE LogInv'
  <2>1. \A u \in Tasks : Active(u)' = Active(u) /\ (Active(u) => run'[u].log = run[u].log)
    BY <1>2, <1>a DEF LoadSourceWithDoc, Advance, Active
  <2> QED BY <1>2, <1>s, <2>1 DEF LoadSourceWithDoc, quiet
<1>3. ASSUME NEW t \in Tasks, NEW s \in Sources, Skip(t, s) PROVE LogInv'
  <2>1. \A u \in Tasks : Active(u)' = Active(u) /\ (Active(u) => run'[u].log = run[u].log)
    BY <1>3, <1>a DEF Skip, CanTrigger, Advance, Active
  <2>2. Running' = Running /\ \A i \in DOMAIN logs : Owners(i)' = Owners(i)
    BY <2>1 DEF Running, Owners
  <2>3. /\ DOMAIN logs' = DOMAIN logs \cup {Len(logs) + 1} /\ lost' = lost
        /\ \A i \in DOMAIN logs : logs'[i] = logs[i]
        /\ logs'[Len(logs) + 1].outcome = "skipped"
    BY <1>3, <1>a DEF Skip
  <2>4. \A i \in DOMAIN logs' : logs'[i].outcome = "running" => i \in DOMAIN logs
    BY <2>3
  <2>5. RunningHasOwner'
    BY <2>2, <2>3, <2>4 DEF LogInv, RunningHasOwner
  <2>6. \A u \in Running' : logs'[run'[u].log].outcome = "running"
    BY <1>a, <2>1, <2>2, <2>3 DEF LogInv, Running
  <2> QED BY <2>3, <2>5, <2>6 DEF LogInv
<1>4. ASSUME NEW t \in Tasks, NEW s \in Sources, Begin(t, s) PROVE LogInv'
  <2> DEFINE new == Len(logs) + 1
  <2>1. ~Active(t) /\ Active(t)' /\ run'[t].log = new
    BY <1>4, <1>a DEF Begin, CanTrigger, Advance, Active, Run
  <2>2. \A u \in Tasks \ {t} : Active(u)' = Active(u) /\ run'[u].log = run[u].log
    BY <1>4, <1>a DEF Begin, Advance, Active
  <2>3. /\ DOMAIN logs' = DOMAIN logs \cup {new} /\ lost' = lost
        /\ \A i \in DOMAIN logs : logs'[i] = logs[i]
        /\ logs'[new].outcome = "running"
        /\ new \notin DOMAIN logs
    BY <1>4, <1>a DEF Begin
  <2>4. Running' = Running \cup {t}
    BY <2>1, <2>2 DEF Running
  <2>5. \A i : i = new => Owners(i)' = {t}
    BY <1>a, <2>1, <2>2, <2>3, <2>4 DEF Owners, Running
  <2>6. \A i \in DOMAIN logs : Owners(i)' = Owners(i)
    BY <1>a, <2>1, <2>2, <2>3, <2>4 DEF Owners, Running
  <2> HIDE DEF new
  <2>7. RunningHasOwner'
    <3>1. \A i \in DOMAIN logs' : i \notin DOMAIN logs => i = new /\ i \notin lost
      BY <2>3 DEF LogInv
    <3> QED BY <2>3, <2>5, <2>6, <3>1 DEF LogInv, RunningHasOwner
  <2>8. \A u \in Running' : logs'[run'[u].log].outcome = "running"
    BY <1>a, <2>1, <2>2, <2>3, <2>4 DEF LogInv, Running
  <2> QED BY <2>3, <2>7, <2>8 DEF LogInv
<1>5. ASSUME NEW t \in Tasks, InRun(t) PROVE LogInv'
  <2>1. PICK r \in Run : Moves(t, r)
    BY <1>5, StepIsLocal DEF Local
  <2>2. \A u \in Tasks : Active(u)' = Active(u) /\ run'[u].log = run[u].log
    BY <1>a, <2>1 DEF Moves, Advance, Active
  <2> QED BY <1>s, <2>1, <2>2 DEF Moves
<1>6. ASSUME NEW t \in Tasks, Commit(t) \/ FlushFails(t) PROVE LogInv'
  <2>1. t \in Running /\ ~Active(t)'
    BY <1>6, <1>a DEF Commit, FlushFails, Advance, Active, Running
  <2>2. \A u \in Tasks \ {t} : Active(u)' = Active(u) /\ run'[u].log = run[u].log
    BY <1>6, <1>a DEF Commit, FlushFails, Advance, Active
  <2>3. Running' = Running \ {t}
    BY <2>1, <2>2 DEF Running
  <2>4. \A i \in DOMAIN logs :
            Owners(i)' = IF i = run[t].log THEN {} ELSE Owners(i)
    BY <2>1, <2>2, OwnersWithout
  <2>5. \A u \in Running' : run'[u].log = run[u].log /\ run[u].log # run[t].log
    BY <2>1, <2>2, <2>3, OneOwner DEF Running
  <2>6. CASE Commit(t)
    <3>1. /\ DOMAIN logs' = DOMAIN logs /\ lost' = lost
          /\ \A i \in DOMAIN logs \ {run[t].log} : logs'[i] = logs[i]
      BY <2>6 DEF Commit
    <3>2. RunningHasOwner'
      <4> SUFFICES ASSUME NEW i \in DOMAIN logs, logs'[i].outcome = "running"
                   PROVE  IF i \in lost THEN Owners(i)' = {}
                          ELSE \E u \in Tasks : Owners(i)' = {u}
        BY <3>1 DEF RunningHasOwner
      <4>1. CASE i # run[t].log
        BY <2>4, <3>1, <4>1 DEF LogInv, RunningHasOwner
      <4>2. CASE i = run[t].log
        <5>1. logs'[i].outcome = run[t].outcome /\ run[t].outcome # "running"
          BY <1>a, <2>1, <2>6, <4>2 DEF Commit, Concluded, Running
        <5> QED BY <5>1
      <4> QED BY <4>1, <4>2
    <3> QED BY <2>3, <2>5, <3>1, <3>2, <1>a DEF LogInv
  <2>7. CASE FlushFails(t)
    <3> DEFINE mine == run[t].log
    <3>1. logs' = logs /\ lost' = lost \cup {mine}
      BY <2>7 DEF FlushFails, db
    <3>2. RunningHasOwner'
      <4>1. \A i \in DOMAIN logs : Owners(i)' = IF i = mine THEN {} ELSE Owners(i)
        BY <2>4
      <4> HIDE DEF mine
      <4> QED BY <3>1, <4>1 DEF LogInv, RunningHasOwner
    <3> QED BY <1>a, <2>1, <2>3, <2>5, <3>1, <3>2 DEF LogInv
  <2> QED BY <1>6, <2>6, <2>7
<1>7. ASSUME NEW p \in Procs, Crash(p) PROVE LogInv'
  <2> DEFINE gone == {t \in Running : ProcOf[t] = p}
  <2>1. logs' = logs /\ lost' = lost \cup {run[t].log : t \in gone}
    <3>1. gone = {u \in {t \in Tasks : ProcOf[t] = p /\ pc[t] # "idle"} : Active(u)}
      BY DEF Running, Active
    <3> HIDE DEF gone
    <3> QED BY <1>7, <3>1 DEF Crash, db
  <2>2. Running' = Running \ gone /\ \A t \in Running' : run'[t] = run[t]
    BY <1>7, <1>a DEF Crash, Running, Active
  <2>3. \A i \in DOMAIN logs : Owners(i)' = Owners(i) \ gone
    BY <2>2 DEF Owners
  <2>4. RunningHasOwner'
    <3> SUFFICES ASSUME NEW i \in DOMAIN logs, logs[i].outcome = "running"
                 PROVE  IF i \in lost' THEN Owners(i)' = {}
                        ELSE \E u \in Tasks : Owners(i)' = {u}
      BY <2>1 DEF RunningHasOwner
    <3>1. CASE i \in lost
      BY <2>1, <2>3, <3>1 DEF LogInv, RunningHasOwner
    <3>2. CASE i \notin lost
      <4>1. PICK u \in Tasks : Owners(i) = {u}
        BY <3>2 DEF LogInv, RunningHasOwner
      <4>2. u \in Running /\ run[u].log = i
        BY <4>1 DEF Owners
      <4>3. CASE u \in gone
        BY <2>1, <2>3, <4>1, <4>2, <4>3
      <4>4. CASE u \notin gone
        <5>1. i \notin lost'
          BY <2>1, <3>2, <4>2, <4>4, OneOwner
        <5> QED BY <2>3, <4>1, <4>4, <5>1
      <4> QED BY <4>3, <4>4
    <3> QED BY <3>1, <3>2
  <2>5. lost' \subseteq DOMAIN logs'
    BY <1>a, <2>1 DEF LogInv
  <2> HIDE DEF gone
  <2> QED BY <2>1, <2>2, <2>4, <2>5 DEF LogInv
<1> QED
  BY <1>0, <1>1, <1>2, <1>3, <1>4, <1>5, <1>6, <1>7, NextCases

LEMMA LogInvariant == Spec => []LogInv
<1>1. Init => LogInv /\ Concluded
  BY DEF Init, LogInv, Concluded, RunningHasOwner, Running, Active
<1> QED
  BY <1>1, TypeInvariant, ConcludedNext, LogNext, PTL DEF Spec

\* Only a crash or a failed flush strands a "running" row, and a row that is
\* being worked on has one owner, across all processes.
THEOREM RunsAreOwned == Spec => []RunningHasOwner
BY LogInvariant, PTL DEF LogInv

\* No run, of whatever process, rewrites a row that has an outcome.
THEOREM OutcomesAreFinal == Spec => LogFinal
<1> DEFINE Final == \A i \in DOMAIN logs :
                       /\ i \in DOMAIN logs'
                       /\ logs[i].outcome # "running" => logs'[i] = logs[i]
<1>1. ASSUME TypeInv, LogInv, [Next]_vars PROVE Final \/ UNCHANGED logs
  <2> USE <1>1
  <2>a. logs \in Seq(LogRow) /\ DOMAIN logs = 1 .. Len(logs) /\ Len(logs) \in Nat
    BY DEF TypeInv, TypeOK
  <2>1. ASSUME NEW t \in Tasks, NEW s \in Sources, Skip(t, s) \/ Begin(t, s) PROVE Final
    <3>1. PICK row : logs' = Append(logs, row)
      BY <2>1 DEF Skip, Begin
    <3> QED BY <2>a, <3>1
  <2>2. ASSUME NEW t \in Tasks, Commit(t) PROVE Final
    <3>1. t \in Running
      BY <2>2 DEF Commit, Running, Active
    <3> QED BY <2>2, <3>1 DEF Commit, LogInv
  <2>3. ASSUME NEW t \in Tasks, InRun(t) PROVE UNCHANGED logs
    BY <2>3, StepIsLocal DEF Local, Moves
  <2> HIDE DEF Final
  <2> QED
    BY <2>1, <2>2, <2>3, NextCases DEF vars, Change, LoadSourceWithDoc, FlushFails,
       Crash, db, quiet
<1>2. TypeInv /\ LogInv /\ [Next]_vars => [Final]_logs
  BY <1>1
<1> QED
  BY <1>2, TypeInvariant, LogInvariant, PTL DEF Spec, LogFinal

-----------------------------------------------------------------------------
(* The log and the trail. *)

Plain(o) == o \notin {"success", "success_initial_doc", "success_quota_rejected"}

\* The outcome that goes with a row of the trail.
Fits(o, status) ==
    IF status = "rejected" THEN o = "success_quota_rejected"
                           ELSE o \in {"success", "success_initial_doc"}

\* What a session holds for the trail and for the log goes together, and there is
\* nothing of it before the run comes to its end.
Held(r, phase) ==
    /\ phase # "finish" => r.update = <<>>
    /\ \/ r.update = <<>> /\ Plain(r.outcome)
       \/ \E u \in DocUpdate : r.update = <<u>> /\ u.by = r.log /\ Fits(r.outcome, u.status)

\* Every row of the trail is its run's only one and fits what the log says of it;
\* an outcome that needs a row has one; and a run in progress logs its own source.
Goes(table, u, s) ==
    /\ u.by \in DOMAIN table
    /\ table[u.by].src = s
    /\ Fits(table[u.by].outcome, u.status)

RowsFit ==
    \A s \in Sources : \A k \in DOMAIN audit[s] :
        /\ Goes(logs, audit[s][k], s)
        /\ \A l \in DOMAIN audit[s] : audit[s][l].by = audit[s][k].by => l = k

TrailInv ==
    /\ \A t \in Tasks : Held(run[t], pc[t])
    /\ \A t \in Running : logs[run[t].log].src = run[t].src
    /\ RowsFit
    /\ \A i \in DOMAIN logs : Plain(logs[i].outcome) \/ Trail(i) # {}

LEMMA LogAt ==
    ASSUME TypeInv, NEW i \in DOMAIN logs
    PROVE  /\ logs[i] \in LogRow /\ logs[i].src \in Sources
           /\ audit[logs[i].src] \in Seq(DocUpdate)
<1>1. logs \in Seq(LogRow) /\ audit \in [Sources -> Seq(DocUpdate)]
  BY DEF TypeInv, TypeOK
<1>2. logs[i] \in LogRow
  BY <1>1
<1> QED BY <1>1, <1>2 DEF LogRow

LEMMA HeldInRun ==
    ASSUME TypeInv, NEW t \in Tasks, Held(run[t], pc[t]), InRun(t)
    PROVE  Held(run'[t], pc'[t])
<1> USE DEF Held
<1>0. /\ run \in [Tasks -> Run] /\ run[t] \in Run /\ pc \in [Tasks -> Phases]
      /\ run[t].log \in RunIds
  <2>1. Active(t)
    BY StepIsLocal DEF Local, Moves
  <2> QED BY <2>1, PipelineAssumption DEF TypeInv, TypeOK, Owned, RunIds
<1>1. CASE Fetch(t)
  BY <1>0, <1>1 DEF Fetch, Advance, Run
<1>2. CASE FetchFails(t) \/ DiffFails(t) \/ LLMFails(t) \/ PublishRefused(t)
  BY <1>0, <1>2 DEF FetchFails, DiffFails, LLMFails, PublishRefused, Finish, Advance, Plain, Run
<1>3. ASSUME NEW c \in Contents, Persist(t, c) PROVE Held(run'[t], pc'[t])
  BY <1>0, <1>3 DEF Persist, Advance, Plain, Run
<1>4. ASSUME NEW c \in Contents, NEW raw \in BOOLEAN, PersistFails(t, c, raw)
      PROVE  Held(run'[t], pc'[t])
  BY <1>0, <1>4 DEF PersistFails, Advance, Plain, Run
<1>5. ASSUME NEW trivial \in BOOLEAN, Diff(t, trivial) PROVE Held(run'[t], pc'[t])
  BY <1>0, <1>5 DEF Diff, Finish, Advance, Plain, Run
<1>6. CASE RejectOverQuota(t)
  <2> DEFINE u == [by |-> run[t].log, status |-> "rejected"]
  <2>1. u \in DocUpdate
    BY <1>0, <1>6 DEF RejectOverQuota, Resolve, DocUpdate, Statuses
  <2>2. /\ run'[t].update = <<u>> /\ run'[t].log = run[t].log
        /\ run'[t].outcome = "success_quota_rejected" /\ pc'[t] = "finish"
    BY <1>0, <1>6 DEF RejectOverQuota, Advance, Run
  <2> QED BY <2>1, <2>2 DEF Fits
<1>7. CASE SkipWithoutKey(t) \/ QueueLLM(t) \/ LLMAnswers(t)
  BY <1>0, <1>7 DEF SkipWithoutKey, QueueLLM, LLMAnswers, Resolve, Advance, Plain, Run
<1>8. CASE PublishInitial(t)
  <2> DEFINE u == [by |-> run[t].log, status |-> "initial"]
  <2>1. u \in DocUpdate
    BY <1>0, <1>8 DEF PublishInitial, DocUpdate, Statuses, Applied
  <2>2. /\ run'[t].update = <<u>> /\ run'[t].log = run[t].log
        /\ run'[t].outcome = "success_initial_doc" /\ pc'[t] = "finish"
    BY <1>0, <1>8 DEF PublishInitial, Advance, Run
  <2> QED BY <2>1, <2>2 DEF Fits
<1>9. CASE PublishSection(t)
  <2> DEFINE u == [by |-> run[t].log, status |-> "published"]
  <2>1. u \in DocUpdate
    BY <1>0, <1>9 DEF PublishSection, DocUpdate, Statuses, Applied
  <2>2. /\ run'[t].update = <<u>> /\ run'[t].log = run[t].log
        /\ run'[t].outcome = "success" /\ pc'[t] = "finish"
    BY <1>0, <1>9 DEF PublishSection, Advance, Run
  <2> QED BY <2>1, <2>2 DEF Fits
<1> QED
  BY <1>1, <1>2, <1>3, <1>4, <1>5, <1>6, <1>7, <1>8, <1>9 DEF InRun

\* A step that leaves log and trail alone only has to say what sessions hold.
LEMMA TrailStays ==
    ASSUME TrailInv, UNCHANGED <<logs, audit>>, \A t \in Tasks : Held(run'[t], pc'[t]),
           \A t \in Tasks : Active(t)' => Active(t) /\ run'[t].log = run[t].log /\ run'[t].src = run[t].src
    PROVE  TrailInv'
<1>1. \A i : Trail(i)' = Trail(i)
  BY DEF Trail
<1>2. RowsFit'
  BY DEF TrailInv, RowsFit, Goes
<1> QED BY <1>1, <1>2 DEF TrailInv, Running

\* A new row of the log, which says "skipped" or "running", has no row in the trail.
LEMMA TrailWhenLogged ==
    ASSUME TypeInv, TrailInv, NEW row \in LogRow, Plain(row.outcome), logs' = Append(logs, row),
           UNCHANGED audit, \A t \in Tasks : Held(run'[t], pc'[t]),
           \A t \in Tasks : Active(t)' =>
               \/ Active(t) /\ run'[t].log = run[t].log /\ run'[t].src = run[t].src
               \/ run'[t].log = Len(logs) + 1 /\ run'[t].src = row.src
    PROVE  TrailInv'
<1>1. /\ logs \in Seq(LogRow) /\ DOMAIN logs = 1 .. Len(logs) /\ Len(logs) \in Nat
      /\ \A t \in Tasks : Active(t) => run[t].log \in DOMAIN logs
  BY DEF TypeInv, TypeOK, Owned
<1>2. /\ DOMAIN logs' = DOMAIN logs \cup {Len(logs) + 1}
      /\ \A i \in DOMAIN logs : logs'[i] = logs[i]
      /\ logs'[Len(logs) + 1] = row
  BY <1>1
<1>3. \A i \in DOMAIN logs : Trail(i)' = Trail(i)
  BY <1>2 DEF Trail
<1>4. \A i \in DOMAIN logs' : Plain(logs'[i].outcome) \/ Trail(i)' # {}
  BY <1>2, <1>3 DEF TrailInv
<1>5. \A t \in Running' : logs'[run'[t].log].src = run'[t].src
  BY <1>1, <1>2 DEF TrailInv, Running
<1>6. RowsFit'
  <2>1. \A x \in Sources : \A k \in DOMAIN audit[x] : Goes(logs', audit[x][k], x)
    BY <1>2 DEF TrailInv, RowsFit, Goes
  <2> QED BY <2>1 DEF TrailInv, RowsFit
<1> QED BY <1>4, <1>5, <1>6 DEF TrailInv

\* A commit writes the outcome and its row of the trail at once.
LEMMA TrailCommit ==
    ASSUME TypeInv, LogInv, TrailInv, NEW t \in Tasks, Commit(t), NEW s, NEW i, NEW o, NEW up,
           s = run[t].src, i = run[t].log, o = run[t].outcome, up = run[t].update
    PROVE  TrailInv'
<1>0. /\ t \in Running /\ logs \in Seq(LogRow) /\ DOMAIN logs = 1 .. Len(logs)
      /\ audit \in [Sources -> Seq(DocUpdate)]
      /\ run \in [Tasks -> Run] /\ pc \in [Tasks -> Phases]
  BY DEF Commit, Running, Active, TypeInv, TypeOK
<1>1. /\ s \in Sources /\ i \in DOMAIN logs /\ logs[i].src = s /\ logs[i].outcome = "running"
      /\ logs[i] \in LogRow /\ audit[s] \in Seq(DocUpdate)
  <2>1. s \in Sources /\ i \in DOMAIN logs
    BY <1>0 DEF TypeInv, Owned, Running, Active
  <2>2. logs[i].src = s /\ logs[i].outcome = "running"
    BY <1>0 DEF LogInv, TrailInv
  <2> QED BY <1>0, <2>1, <2>2, LogAt
<1>2. /\ DOMAIN logs' = DOMAIN logs
      /\ \A j \in DOMAIN logs \ {i} : logs'[j] = logs[j]
      /\ logs'[i].outcome = o /\ logs'[i].src = s
  BY <1>0, <1>1 DEF Commit, LogRow
<1>3. /\ audit'[s] = audit[s] \o up
      /\ \A x \in Sources \ {s} : audit'[x] = audit[x]
  BY <1>0, <1>1 DEF Commit
<1>4. \A u \in Tasks : Held(run'[u], pc'[u])
  <2>1. Held(NoRun, "idle")
    BY DEF Held, NoRun, Plain
  <2>2. run' = [run EXCEPT ![t] = NoRun] /\ pc' = [pc EXCEPT ![t] = "idle"]
    BY DEF Commit, Advance
  <2> QED BY <1>0, <2>1, <2>2 DEF TrailInv
<1>5. \A u \in Running' : u \in Running /\ u # t /\ run'[u] = run[u]
  BY <1>0 DEF Commit, Advance, Running, Active
<1>6. \A u \in Running' : logs'[run'[u].log].src = run'[u].src
  <2>1. \A u \in Running' : run[u].log \in DOMAIN logs /\ run[u].log # i
    BY <1>0, <1>5, OneOwner DEF TypeInv, TypeOK, Owned, Running
  <2> QED BY <1>2, <1>5, <2>1 DEF TrailInv
<1>7. \A x \in Sources : \A k \in DOMAIN audit[x] : audit[x][k].by # i
  BY <1>1 DEF TrailInv, RowsFit, Goes, Fits
<1>8. Held(run[t], pc[t])
  BY DEF TrailInv
<1>9. \A x \in Sources : \A k \in DOMAIN audit[x] : Goes(logs', audit[x][k], x)
  BY <1>2, <1>7 DEF TrailInv, RowsFit, Goes
<1>12. \A j \in DOMAIN logs : logs'[j].src \in Sources /\ logs'[j].src = logs[j].src
  BY <1>1, <1>2, LogAt
<1>10. CASE up = <<>> /\ Plain(o)
  <2>1. \A x \in Sources : audit'[x] = audit[x]
    BY <1>1, <1>3, <1>10
  <2>3. \A j \in DOMAIN logs : Trail(j)' = Trail(j)
    BY <1>12, <2>1 DEF Trail
  <2>4. \A j \in DOMAIN logs' : Plain(logs'[j].outcome) \/ Trail(j)' # {}
    BY <1>2, <1>10, <2>3 DEF TrailInv
  <2>5. RowsFit'
    BY <1>9, <2>1 DEF TrailInv, RowsFit
  <2> QED BY <1>4, <1>6, <2>4, <2>5 DEF TrailInv
<1>11. ASSUME NEW u \in DocUpdate, up = <<u>>, u.by = i, Fits(o, u.status) PROVE TrailInv'
  <2> DEFINE n == Len(audit[s])
  <2>1. /\ n \in Nat /\ DOMAIN audit[s] = 1 .. n
        /\ DOMAIN audit'[s] = 1 .. n + 1
        /\ \A k \in 1 .. n : audit'[s][k] = audit[s][k]
        /\ audit'[s][n + 1] = u
    BY <1>1, <1>3, <1>11
  <2> HIDE DEF n
  <2>2. \A x \in Sources : \A k \in DOMAIN audit'[x] :
            \/ x = s /\ k = n + 1 /\ audit'[x][k] = u
            \/ k \in DOMAIN audit[x] /\ audit'[x][k] = audit[x][k]
    <3> SUFFICES ASSUME NEW x \in Sources, NEW k \in DOMAIN audit'[x]
                 PROVE  \/ x = s /\ k = n + 1 /\ audit'[x][k] = u
                        \/ k \in DOMAIN audit[x] /\ audit'[x][k] = audit[x][k]
      OBVIOUS
    <3>1. CASE x = s
      <4>1. k \in 1 .. n + 1
        BY <2>1, <3>1
      <4>2. k = n + 1 \/ k \in 1 .. n
        BY <2>1, <4>1
      <4> QED BY <2>1, <3>1, <4>2
    <3>2. CASE x # s
      BY <1>3, <3>2
    <3> QED BY <3>1, <3>2
  <2>3. Goes(logs', u, s)
    BY <1>1, <1>2, <1>11 DEF Goes
  <2>4. \A x \in Sources : \A k \in DOMAIN audit'[x] : Goes(logs', audit'[x][k], x)
    BY <1>9, <2>2, <2>3 DEF Goes
  <2>5. \A x \in Sources : \A k, l \in DOMAIN audit'[x] : audit'[x][l].by = audit'[x][k].by => l = k
    BY <1>7, <1>11, <2>2 DEF TrailInv, RowsFit
  <2>6. RowsFit'
    BY <2>4, <2>5 DEF RowsFit
  <2>7. \A j \in DOMAIN logs : Trail(j) \subseteq Trail(j)'
    <3>1. \A x \in Sources : \A k \in DOMAIN audit[x] :
              k \in DOMAIN audit'[x] /\ audit'[x][k] = audit[x][k]
      <4>1. \A k \in 1 .. n : k \in 1 .. n + 1
        BY <2>1
      <4>2. \A k \in DOMAIN audit[s] : k \in DOMAIN audit'[s] /\ audit'[s][k] = audit[s][k]
        BY <2>1, <4>1
      <4> QED BY <1>3, <4>2
    <3> QED BY <1>12, <3>1 DEF Trail
  <2>8. n + 1 \in Trail(i)'
    BY <1>2, <1>11, <2>1 DEF Trail
  <2>9. \A j \in DOMAIN logs' : Plain(logs'[j].outcome) \/ Trail(j)' # {}
    <3>1. \A j \in DOMAIN logs \ {i} : Plain(logs'[j].outcome) \/ Trail(j)' # {}
      BY <1>2, <2>7 DEF TrailInv
    <3> QED BY <1>2, <2>8, <3>1
  <2> QED BY <1>4, <1>6, <2>6, <2>9 DEF TrailInv
<1> QED BY <1>8, <1>10, <1>11 DEF Held

LEMMA TrailNext == TypeInv /\ LogInv /\ TrailInv /\ [Next]_vars => TrailInv'
<1> SUFFICES ASSUME TypeInv, LogInv, TrailInv, [Next]_vars PROVE TrailInv'
    OBVIOUS
<1>a. pc \in [Tasks -> Phases] /\ run \in [Tasks -> Run] /\ \A t \in Tasks : Held(run[t], pc[t])
  BY DEF TypeInv, TypeOK, TrailInv
<1>b. Held(NoRun, "idle")
  BY DEF Held, NoRun, Plain
<1>0. ASSUME UNCHANGED <<pc, run, logs, audit>> PROVE TrailInv'
  BY <1>a, <1>0, TrailStays DEF Active
<1>1. ASSUME NEW t \in Tasks, NEW s \in Sources, LoadSourceWithDoc(t, s) PROVE TrailInv'
  <2>1. \A u \in Tasks : Held(run'[u], pc'[u])
    BY <1>1, <1>a DEF LoadSourceWithDoc, Advance, Held, Run
  <2> QED BY <1>1, <1>a, <2>1, TrailStays DEF LoadSourceWithDoc, quiet, Advance, Active
<1>2. ASSUME NEW t \in Tasks, NEW s \in Sources, Skip(t, s) PROVE TrailInv'
  <2> DEFINE row == [src |-> s, outcome |-> "skipped"]
  <2>1. row \in LogRow /\ Plain(row.outcome) /\ logs' = Append(logs, row)
    BY <1>2 DEF Skip, LogRow, Outcomes, Plain
  <2>2. \A u \in Tasks : Held(run'[u], pc'[u])
    BY <1>2, <1>a, <1>b DEF Skip, Advance
  <2>3. \A u \in Tasks : Active(u)' => Active(u) /\ run'[u].log = run[u].log /\ run'[u].src = run[u].src
    BY <1>2, <1>a DEF Skip, Advance, Active
  <2> HIDE DEF row
  <2> QED BY <1>2, <2>1, <2>2, <2>3, TrailWhenLogged DEF Skip
<1>3. ASSUME NEW t \in Tasks, NEW s \in Sources, Begin(t, s) PROVE TrailInv'
  <2> DEFINE row == [src |-> s, outcome |-> "running"]
             r == [run[t] EXCEPT !.src = s, !.log = Len(logs) + 1]
  <2>1. row \in LogRow /\ Plain(row.outcome) /\ logs' = Append(logs, row) /\ row.src = s
    BY <1>3 DEF Begin, LogRow, Outcomes, Plain
  <2>2. /\ run' = [run EXCEPT ![t] = r] /\ r.src = s /\ r.log = Len(logs) + 1
        /\ r.update = run[t].update /\ r.outcome = run[t].outcome
    BY <1>3, <1>a DEF Begin, Run
  <2> HIDE DEF r, row
  <2>3. \A u \in Tasks : Held(run'[u], pc'[u])
    <3>1. pc' = [pc EXCEPT ![t] = "fetch"] /\ pc[t] \in {"idle", "loaded"}
      BY <1>3 DEF Begin, CanTrigger, Advance
    <3>2. Held(r, "fetch")
      <4>1. run[t].update = <<>> /\ Plain(run[t].outcome)
        <5>1. run[t].update = <<>>
          BY <1>a, <3>1 DEF Held
        <5>2. \A u : run[t].update # <<u>>
          BY <5>1
        <5> QED BY <1>a, <5>1, <5>2 DEF Held
      <4> QED BY <2>2, <4>1 DEF Held
    <3> QED BY <1>a, <2>2, <3>1, <3>2
  <2>4. \A u \in Tasks : Active(u)' =>
            \/ Active(u) /\ run'[u].log = run[u].log /\ run'[u].src = run[u].src
            \/ run'[u].log = Len(logs) + 1 /\ run'[u].src = row.src
    BY <1>3, <1>a, <2>1, <2>2 DEF Begin, Advance, Active
  <2> QED BY <1>3, <2>1, <2>3, <2>4, TrailWhenLogged DEF Begin
<1>4. ASSUME NEW t \in Tasks, InRun(t) PROVE TrailInv'
  <2>1. PICK r \in Run : Moves(t, r)
    BY <1>4, StepIsLocal DEF Local
  <2>2. \A u \in Tasks : Held(run'[u], pc'[u])
    <3>1. Held(run'[t], pc'[t])
      BY <1>4, <1>a, HeldInRun
    <3>2. \A u \in Tasks \ {t} : run'[u] = run[u] /\ pc'[u] = pc[u]
      BY <1>a, <2>1 DEF Moves, Advance
    <3> QED BY <1>a, <3>1, <3>2
  <2>3. \A u \in Tasks : Active(u)' => Active(u) /\ run'[u].log = run[u].log /\ run'[u].src = run[u].src
    BY <1>a, <2>1 DEF Moves, Advance, Active
  <2> QED BY <2>1, <2>2, <2>3, TrailStays DEF Moves
<1>5. ASSUME NEW t \in Tasks, FlushFails(t) PROVE TrailInv'
  <2>1. \A u \in Tasks : Held(run'[u], pc'[u])
    BY <1>5, <1>a, <1>b DEF FlushFails, Advance
  <2>2. \A u \in Tasks : Active(u)' => Active(u) /\ run'[u].log = run[u].log /\ run'[u].src = run[u].src
    BY <1>5, <1>a DEF FlushFails, Advance, Active
  <2> QED BY <1>5, <2>1, <2>2, TrailStays DEF FlushFails, db
<1>6. ASSUME NEW p \in Procs, Crash(p) PROVE TrailInv'
  <2>1. \A u \in Tasks : Held(run'[u], pc'[u])
    BY <1>6, <1>a, <1>b DEF Crash
  <2>2. \A u \in Tasks : Active(u)' => Active(u) /\ run'[u].log = run[u].log /\ run'[u].src = run[u].src
    BY <1>6, <1>a DEF Crash, Active
  <2> QED BY <1>6, <2>1, <2>2, TrailStays DEF Crash, db
<1>7. ASSUME NEW t \in Tasks, Commit(t) PROVE TrailInv'
  BY <1>7, TrailCommit
<1> QED
  BY <1>0, <1>1, <1>2, <1>3, <1>4, <1>5, <1>6, <1>7, NextCases DEF vars, Change, db

\* The log says of every run what the trail has of it, however runs overlap, fail
\* or die, in any number of processes: one commit writes both.
THEOREM LogsMatchTrails == Spec => []OutcomeMatchesAudit
<1>1. Init => TrailInv
  BY DEF Init, TrailInv, RowsFit, Held, NoRun, Plain, Running, Active
<1>2. TypeInv /\ TrailInv => OutcomeMatchesAudit
  <2> SUFFICES ASSUME TypeInv, TrailInv, NEW i \in DOMAIN logs
               PROVE  /\ Published(i) <=> TrailSays(i) \cap Applied # {}
                      /\ Rejected(i) <=> "rejected" \in TrailSays(i)
                      /\ Cardinality(Trail(i)) <= 1
    BY DEF OutcomeMatchesAudit
  <2> DEFINE s == logs[i].src
  <2>1. s \in Sources /\ audit[s] \in Seq(DocUpdate)
    BY LogAt
  <2>2. \A k \in Trail(i) : /\ k \in DOMAIN audit[s] /\ audit[s][k].by = i
                            /\ audit[s][k].status \in Statuses
                            /\ Fits(logs[i].outcome, audit[s][k].status)
    <3>1. \A k \in DOMAIN audit[s] : audit[s][k] \in DocUpdate
      BY <2>1
    <3> QED BY <2>1, <3>1 DEF Trail, TrailInv, RowsFit, Goes, DocUpdate
  <2>3. \A k, l \in Trail(i) : k = l
    BY <2>1, <2>2 DEF TrailInv, RowsFit
  <2>4. Plain(logs[i].outcome) \/ Trail(i) # {}
    BY DEF TrailInv
  <2>5. TrailSays(i) = {audit[s][k].status : k \in Trail(i)}
    BY DEF TrailSays
  <2> HIDE DEF s
  <2>6. Published(i) <=> TrailSays(i) \cap Applied # {}
    BY <2>2, <2>4, <2>5 DEF Published, Applied, Statuses, Fits, Plain
  <2>7. Rejected(i) <=> "rejected" \in TrailSays(i)
    BY <2>2, <2>4, <2>5 DEF Rejected, Applied, Statuses, Fits, Plain
  <2>8. Cardinality(Trail(i)) <= 1
    <3>1. CASE Trail(i) = {}
      BY <3>1, FS_EmptySet
    <3>2. CASE Trail(i) # {}
      <4>1. PICK k : Trail(i) = {k}
        BY <2>3, <3>2
      <4> QED BY <4>1, FS_Singleton
    <3> QED BY <3>1, <3>2
  <2> QED BY <2>6, <2>7, <2>8
<1> QED BY <1>1, <1>2, TypeInvariant, LogInvariant, TrailNext, PTL DEF Spec

-----------------------------------------------------------------------------
(* The ledger of docs: its theorems, for any set of sources. *)

\* A trail with an applied update belongs to a doc with text: what keeps a
\* second initial documentation out, and makes InitialOnce inductive.
LedgerInv ==
    /\ Ledger!TypeOK
    /\ Ledger!MaterializedView
    /\ Ledger!InitialOnce
    /\ \A s \in Sources : docs[s].content = {} =>
          \A k \in DOMAIN audit[s] : audit[s][k].status \notin Ledger!Applied

\* The view of a trail with one more row.
LEMMA ViewAppend ==
    ASSUME NEW trail \in Seq(Ledger!Update), NEW u \in Ledger!Update
    PROVE  /\ u.status = "rejected" => Ledger!View(Append(trail, u)) = Ledger!View(trail)
           /\ u.status = "published" => Ledger!View(Append(trail, u)) = Ledger!View(trail) \cup {u.by}
           /\ u.status = "initial" => Ledger!View(Append(trail, u)) = {u.by}
<1> DEFINE new == Append(trail, u)
           n == Len(trail)
           open(tr) == {i \in DOMAIN tr : /\ tr[i].status \in Ledger!Applied
                            /\ \A j \in DOMAIN tr : j > i => tr[j].status # "initial"}
<1>1. /\ n \in Nat /\ DOMAIN trail = 1 .. n /\ DOMAIN new = 1 .. n + 1
      /\ new[n + 1] = u /\ \A i \in 1 .. n : new[i] = trail[i]
  OBVIOUS
<1>2. Ledger!View(trail) = {trail[k].by : k \in open(trail)} /\ Ledger!View(new) = {new[k].by : k \in open(new)}
  BY DEF Ledger!View
<1> HIDE DEF new, n
<1>3. ASSUME u.status = "rejected" PROVE open(new) = open(trail)
  BY <1>1, <1>3 DEF Ledger!Applied
<1>4. ASSUME u.status = "published" PROVE open(new) = open(trail) \cup {n + 1}
  BY <1>1, <1>4 DEF Ledger!Applied
<1>5. ASSUME u.status = "initial" PROVE open(new) = {n + 1}
  BY <1>1, <1>5 DEF Ledger!Applied
<1>6. open(trail) \subseteq 1 .. n
  BY <1>1
<1> HIDE DEF open
<1>7. ASSUME u.status = "rejected" PROVE Ledger!View(new) = Ledger!View(trail)
  BY <1>1, <1>2, <1>3, <1>6, <1>7
<1>8. ASSUME u.status = "published" PROVE Ledger!View(new) = Ledger!View(trail) \cup {u.by}
  BY <1>1, <1>2, <1>4, <1>6, <1>8
<1>9. ASSUME u.status = "initial" PROVE Ledger!View(new) = {u.by}
  BY <1>1, <1>2, <1>5, <1>9
<1> QED
  BY <1>7, <1>8, <1>9 DEF new

LEMMA LedgerInit == Ledger!Init => LedgerInv
BY DEF Ledger!Init, LedgerInv, Ledger!TypeOK, Ledger!MaterializedView, Ledger!InitialOnce, Ledger!View, Ledger!NoDoc, Ledger!Doc

\* A recorded row, and a doc that holds the view of the longer trail.
LEMMA RecordKeeps ==
    ASSUME LedgerInv, NEW s \in Sources, NEW r \in RunIds,
           NEW status \in Ledger!Applied \cup {"rejected"}, NEW d \in Ledger!Doc,
           audit' = [audit EXCEPT ![s] = Append(@, [by |-> r, status |-> status])],
           docs' = [docs EXCEPT ![s] = d],
           status = "rejected" => d.content = docs[s].content,
           status = "published" => d.content = docs[s].content \cup {r},
           status = "initial" => docs[s].content = {} /\ d.content = {r}
    PROVE  LedgerInv'
<1> DEFINE u == [by |-> r, status |-> status]
           trail == audit[s]
<1>1. u \in Ledger!Update /\ trail \in Seq(Ledger!Update) /\ u.by = r /\ u.status = status
  BY DEF Ledger!Update, LedgerInv, Ledger!TypeOK
<1>2. /\ audit'[s] = Append(trail, u) /\ docs'[s] = d
      /\ \A x \in Sources \ {s} : audit'[x] = audit[x] /\ docs'[x] = docs[x]
  BY DEF LedgerInv, Ledger!TypeOK
<1>3. Ledger!TypeOK'
  <2>1. Append(trail, u) \in Seq(Ledger!Update)
    BY <1>1
  <2> HIDE DEF trail, u
  <2> QED BY <1>2, <2>1 DEF LedgerInv, Ledger!TypeOK, trail, u
<1>4. /\ DOMAIN trail = 1 .. Len(trail) /\ Len(trail) \in Nat
      /\ DOMAIN Append(trail, u) = 1 .. Len(trail) + 1
      /\ Append(trail, u)[Len(trail) + 1] = u
      /\ \A i \in 1 .. Len(trail) : Append(trail, u)[i] = trail[i]
  BY <1>1
<1> HIDE DEF trail, u
<1>5. Ledger!View(Append(trail, u)) = d.content
  <2>1. Ledger!View(trail) = docs[s].content
    BY DEF LedgerInv, Ledger!MaterializedView, trail
  <2> QED BY <1>1, <2>1, ViewAppend DEF Ledger!Applied
<1>6. Ledger!MaterializedView'
  <2>1. \A x \in Sources : docs'[x].content = Ledger!View(audit'[x])
    BY <1>2, <1>5 DEF LedgerInv, Ledger!MaterializedView
  <2> QED BY <2>1 DEF Ledger!MaterializedView
<1>7. docs[s].content = {} => \A k \in DOMAIN trail : trail[k].status \notin Ledger!Applied
  BY DEF LedgerInv, trail
<1>8. Ledger!InitialOnce'
  <2>1. \A i, j \in DOMAIN trail : trail[i].status = "initial" /\ trail[j].status = "initial" => i = j
    BY DEF LedgerInv, Ledger!InitialOnce, trail
  <2>2. \A i, j \in DOMAIN Append(trail, u) :
          Append(trail, u)[i].status = "initial" /\ Append(trail, u)[j].status = "initial" => i = j
    BY <1>1, <1>4, <1>7, <2>1 DEF Ledger!Applied
  <2> QED BY <1>2, <2>2 DEF LedgerInv, Ledger!InitialOnce
<1>9. d.content = {} => \A k \in DOMAIN Append(trail, u) : Append(trail, u)[k].status \notin Ledger!Applied
  BY <1>1, <1>4, <1>7 DEF Ledger!Applied
<1> QED
  BY <1>2, <1>3, <1>6, <1>8, <1>9 DEF LedgerInv

LEMMA LedgerNext == LedgerInv /\ [Ledger!Next]_(Ledger!vars) => LedgerInv'
<1> SUFFICES ASSUME LedgerInv, [Ledger!Next]_(Ledger!vars) PROVE LedgerInv'
    OBVIOUS
<1>0. CASE UNCHANGED Ledger!vars
  <2>1. docs' = docs /\ audit' = audit
    BY <1>0 DEF Ledger!vars
  <2>2. Ledger!MaterializedView'
    BY <2>1 DEF LedgerInv, Ledger!MaterializedView
  <2> QED BY <2>1, <2>2 DEF LedgerInv, Ledger!TypeOK, Ledger!InitialOnce
<1>d. ASSUME NEW s \in Sources
      PROVE  /\ docs[s] \in Ledger!Doc /\ Ledger!Opened(docs[s]) \in Ledger!Doc
             /\ Ledger!Opened(docs[s]).content = docs[s].content
  <2>1. docs[s] \in Ledger!Doc
    BY DEF LedgerInv, Ledger!TypeOK
  <2> QED BY <2>1 DEF Ledger!Opened, Ledger!NoDoc, Ledger!Doc
<1>w. ASSUME NEW s \in Sources, NEW r \in RunIds, Ledger!Write(s, r)
      PROVE  \E d \in Ledger!Doc : /\ docs' = [docs EXCEPT ![s] = d]
                            /\ d.content = docs[s].content \cup {r}
  <2> DEFINE d == [version |-> Ledger!Opened(docs[s]).version + 1,
                   content |-> docs[s].content \cup {r}]
  <2>1. d \in Ledger!Doc
    BY <1>d DEF Ledger!Doc
  <2>2. docs' = [docs EXCEPT ![s] = d] /\ d.content = docs[s].content \cup {r}
    BY <1>w DEF Ledger!Write
  <2> QED BY <2>1, <2>2
<1>1. ASSUME NEW s \in Sources, Ledger!Open(s) PROVE LedgerInv'
  <2>1. docs' = [docs EXCEPT ![s] = Ledger!Opened(docs[s])] /\ audit' = audit
    BY <1>1 DEF Ledger!Open
  <2>2. \A x \in Sources : docs'[x] \in Ledger!Doc /\ docs'[x].content = docs[x].content
    BY <2>1, <1>d DEF LedgerInv, Ledger!TypeOK
  <2>3. Ledger!MaterializedView'
    BY <2>1, <2>2 DEF LedgerInv, Ledger!MaterializedView
  <2>4. Ledger!TypeOK'
    BY <2>1, <1>d DEF LedgerInv, Ledger!TypeOK
  <2> QED BY <2>1, <2>2, <2>3, <2>4 DEF LedgerInv, Ledger!InitialOnce
<1>2. ASSUME NEW s \in Sources, NEW r \in RunIds, Ledger!Initial(s, r) PROVE LedgerInv'
  <2>1. PICK d \in Ledger!Doc : /\ docs' = [docs EXCEPT ![s] = d]
                         /\ d.content = docs[s].content \cup {r}
    BY <1>2, <1>w DEF Ledger!Initial
  <2>2. docs[s].content = {} /\ d.content = {r}
    BY <1>2, <2>1 DEF Ledger!Initial
  <2>3. audit' = [audit EXCEPT ![s] = Append(@, [by |-> r, status |-> "initial"])]
    BY <1>2 DEF Ledger!Initial, Ledger!Record
  <2>4. "initial" \in Ledger!Applied \cup {"rejected"}
    BY DEF Ledger!Applied
  <2> QED BY <2>1, <2>2, <2>3, <2>4, RecordKeeps
<1>3. ASSUME NEW s \in Sources, NEW r \in RunIds, Ledger!Publish(s, r) PROVE LedgerInv'
  <2>1. PICK d \in Ledger!Doc : /\ docs' = [docs EXCEPT ![s] = d]
                         /\ d.content = docs[s].content \cup {r}
    BY <1>3, <1>w DEF Ledger!Publish
  <2>2. audit' = [audit EXCEPT ![s] = Append(@, [by |-> r, status |-> "published"])]
    BY <1>3 DEF Ledger!Publish, Ledger!Record
  <2>3. "published" \in Ledger!Applied \cup {"rejected"}
    BY DEF Ledger!Applied
  <2> QED BY <2>1, <2>2, <2>3, RecordKeeps
<1>4. ASSUME NEW s \in Sources, NEW r \in RunIds, Ledger!Reject(s, r) PROVE LedgerInv'
  <2>1. docs' = [docs EXCEPT ![s] = Ledger!Opened(docs[s])]
    BY <1>4 DEF Ledger!Reject
  <2>2. audit' = [audit EXCEPT ![s] = Append(@, [by |-> r, status |-> "rejected"])]
    BY <1>4 DEF Ledger!Reject, Ledger!Record
  <2> QED BY <2>1, <2>2, <1>d, RecordKeeps DEF Ledger!Applied
<1> QED
  BY <1>0, <1>1, <1>2, <1>3, <1>4 DEF Ledger!Next

\* The text of every doc is the view of its trail, in everything that is a ledger.
THEOREM LedgerViews == Ledger!Spec => []Ledger!MaterializedView
BY LedgerInit, LedgerNext, PTL DEF Ledger!Spec, LedgerInv

\* Initial documentation is recorded at most once per source, in everything that
\* is a ledger.
THEOREM LedgerInitialOnce == Ledger!Spec => []Ledger!InitialOnce
BY LedgerInit, LedgerNext, PTL DEF Ledger!Spec, LedgerInv

-----------------------------------------------------------------------------
(***************************************************************************)
(* Interval jobs of one process implement DocLedger: the lock of a source  *)
(* covers every read a run makes of its snapshots and its doc, so what the *)
(* run publishes is built on what is committed.  For run-now requests, or  *)
(* for two processes, the statement is false (MCPipeline refutes it).      *)
(***************************************************************************)

\* The deployment the theorem is about.
JobsOfOneProcess ==
    /\ Manual = {}
    /\ \A t, u \in Tasks : ProcOf[t] = ProcOf[u]

\* The doc as publishing finds it: created with version 1 if it is not there.
Opened(s) == IF docs[s] = NoDoc THEN [version |-> 1, content |-> {}] ELSE docs[s]

\* The rows of the trail are those of runs with an outcome.
TrailLogged ==
    \A s \in Sources : \A k \in DOMAIN audit[s] :
        /\ audit[s][k].by \in DOMAIN logs
        /\ logs[audit[s][k].by].outcome # "running"

\* Snapshot ids come from the sequence, and a doc with text has a snapshot.
SnapsInv ==
    \A s \in Sources :
        /\ \A y \in snaps[s] : y.id < nextSnap
        /\ docs[s].content # {} => Latest(s) # {}

\* What the session of a run holds, phase by phase.
NewSnap(t) ==
    /\ run[t].base = Latest(run[t].src)
    /\ \E x \in Snapshot :
          /\ run[t].snap = {x}
          /\ x.id < nextSnap
          /\ \A y \in snaps[run[t].src] : y.id < x.id

Untouched(t) == run[t].doc = NoDoc /\ ~run[t].dirty /\ run[t].update = <<>>

Opening(t) ==
    /\ run[t].doc = Opened(run[t].src)
    /\ run[t].dirty <=> docs[run[t].src] = NoDoc

Row(t, status) == <<[by |-> run[t].log, status |-> status]>>

Published1(t) ==
    /\ run[t].dirty
    /\ run[t].doc = [version |-> Opened(run[t].src).version + 1,
                     content |-> docs[run[t].src].content \cup {run[t].log}]
    /\ \/ run[t].update = Row(t, "published")
       \/ run[t].update = Row(t, "initial") /\ docs[run[t].src].content = {}

Stage(t) ==
    /\ ~run[t].force
    /\ pc[t] \in {"fetch", "snapshot"} => Untouched(t) /\ run[t].snap = {}
    /\ pc[t] \in {"diff", "resolve"} => Untouched(t) /\ NewSnap(t)
    /\ pc[t] \in {"llm", "publish"} =>
          Opening(t) /\ run[t].update = <<>> /\ NewSnap(t)
    /\ pc[t] = "finish" =>
          \/ Untouched(t) /\ (run[t].snap = {} \/ NewSnap(t))
          \/ Opening(t) /\ NewSnap(t)
                /\ run[t].update \in {<<>>, Row(t, "rejected")}
          \/ Published1(t) /\ NewSnap(t)

JobInv ==
    /\ \A t \in Tasks : pc[t] # "loaded" /\ (pc[t] = "idle" => run[t] = NoRun)
    /\ \A t \in Running : Stage(t)
    /\ SnapsInv
    /\ TrailLogged

\* Two runs in progress are runs of different sources.
LEMMA OneRunPerSource ==
    ASSUME JobsOfOneProcess, TypeInv, LockHeldByRunner,
           NEW t \in Running, NEW u \in Running, run[t].src = run[u].src
    PROVE  t = u
BY DEF JobsOfOneProcess, LockHeldByRunner, Key, Running

LEMMA JobInit == Init => JobInv
BY DEF Init, JobInv, Running, Active, SnapsInv, TrailLogged, NoDoc

\* A run's stage depends only on its own record and its own source.
LEMMA StageFrame ==
    ASSUME TypeInv, NEW t \in Running, Stage(t),
           pc'[t] = pc[t], run'[t] = run[t],
           docs'[run[t].src] = docs[run[t].src],
           snaps'[run[t].src] = snaps[run[t].src],
           nextSnap' \in Nat, nextSnap <= nextSnap'
    PROVE  Stage(t)'
<1> DEFINE s == run[t].src
<1>1. NewSnap(t) => NewSnap(t)'
  BY DEF NewSnap, Latest, TypeInv, TypeOK, Snapshot
<1>2. Untouched(t)' = Untouched(t) /\ Opening(t)' = Opening(t) /\ Published1(t)' = Published1(t)
  BY DEF Untouched, Opening, Published1, Opened, Row
<1>3. \A status : Row(t, status)' = Row(t, status)
  BY DEF Row
<1> QED BY <1>1, <1>2, <1>3 DEF Stage, Row

\* Within a run the committed tables stay, so a stage is a matter of the record.
LEMMA StageStep ==
    ASSUME TypeInv, JobInv, NEW t \in Tasks, InRun(t)
    PROVE  Stage(t)' /\ nextSnap' \in Nat /\ nextSnap <= nextSnap'
<1> DEFINE s == run[t].src
<1>0. /\ t \in Running /\ Stage(t) /\ run[t] \in Run /\ run \in [Tasks -> Run]
      /\ pc \in [Tasks -> Phases] /\ nextSnap \in Nat
      /\ s \in Sources /\ run[t].log \in 1 .. Len(logs)
  <2>1. Active(t)
    BY StepIsLocal DEF Local, Moves
  <2>2. t \in Running /\ Stage(t)
    BY <2>1 DEF JobInv, Running
  <2>3. run[t] \in Run /\ s \in Sources /\ run[t].log \in 1 .. Len(logs)
    BY <2>1 DEF TypeInv, TypeOK, Owned, Active
  <2> QED BY <2>2, <2>3 DEF TypeInv, TypeOK
<1>1. PICK r \in Run : Moves(t, r)
  BY StepIsLocal DEF Local
<1>2. /\ docs' = docs /\ snaps' = snaps /\ logs' = logs /\ run'[t] = r
      /\ r.src = s /\ r.log = run[t].log
  BY <1>0, <1>1 DEF Moves
<1>3. \A status : Row(t, status)' = Row(t, status)
  BY <1>2 DEF Row
<1>4. Latest(s)' = Latest(s) /\ Opened(s)' = Opened(s)
  BY <1>2 DEF Latest, Opened
<1>k. ASSUME r.base = run[t].base, r.snap = run[t].snap, nextSnap' = nextSnap, NewSnap(t)
      PROVE  NewSnap(t)'
  BY <1>2, <1>4, <1>k DEF NewSnap
<1>5. CASE Fetch(t)
  <2>1. /\ pc[t] = "fetch" /\ pc'[t] = "snapshot" /\ nextSnap' = nextSnap
        /\ run' = [run EXCEPT ![t].got = {world[run[t].src]}]
    BY <1>0, <1>5 DEF Fetch, Advance, quiet
  <2>2. /\ r.doc = run[t].doc /\ r.dirty = run[t].dirty /\ r.update = run[t].update
        /\ r.snap = run[t].snap /\ r.force = run[t].force
    BY <1>0, <1>2, <2>1 DEF Run
  <2> QED BY <1>0, <1>2, <2>1, <2>2 DEF Stage, Untouched
<1>6. CASE FetchFails(t) \/ DiffFails(t) \/ LLMFails(t) \/ PublishRefused(t)
  <2>1. /\ pc[t] \in {"fetch", "diff", "llm", "publish"}
        /\ pc'[t] = "finish" /\ nextSnap' = nextSnap
        /\ run' = [run EXCEPT ![t].outcome = "failed"]
    BY <1>0, <1>6 DEF FetchFails, DiffFails, LLMFails, PublishRefused, Finish,
       Advance, quiet
  <2>2. /\ r.doc = run[t].doc /\ r.dirty = run[t].dirty /\ r.update = run[t].update
        /\ r.snap = run[t].snap /\ r.force = run[t].force /\ r.base = run[t].base
    BY <1>0, <1>2, <2>1 DEF Run
  <2>3. Untouched(t)' = Untouched(t) /\ Opening(t)' = Opening(t)
    BY <1>2, <1>4, <2>2 DEF Untouched, Opening
  <2> QED BY <1>0, <1>2, <1>k, <2>1, <2>2, <2>3 DEF Stage
<1>7. ASSUME NEW c \in Contents, NEW raw \in BOOLEAN,
             Persist(t, c) \/ PersistFails(t, c, raw)
      PROVE  Stage(t)' /\ nextSnap' \in Nat /\ nextSnap <= nextSnap'
  <2>1. /\ pc[t] = "snapshot" /\ pc'[t] \in {"resolve", "diff", "finish"}
        /\ nextSnap' = nextSnap + 1
    BY <1>0, <1>7 DEF Persist, PersistFails, Advance
  <2>2. PICK stored \in BOOLEAN, o \in Outcomes :
            run' = [run EXCEPT ![t].base = Latest(s),
                      ![t].snap = {[id |-> nextSnap, hash |-> c, stored |-> stored,
                                    by |-> run[t].log]},
                      ![t].outcome = o]
    BY <1>7 DEF Persist, PersistFails, Outcomes
  <2> DEFINE x == [id |-> nextSnap, hash |-> c, stored |-> stored, by |-> run[t].log]
  <2>3. /\ r.doc = run[t].doc /\ r.dirty = run[t].dirty /\ r.update = run[t].update
        /\ r.force = run[t].force /\ r.base = Latest(s) /\ r.snap = {x}
    BY <1>0, <1>2, <2>2 DEF Run
  <2>4. x \in Snapshot /\ x.id = nextSnap
    BY <1>0, PipelineAssumption DEF Snapshot, RunIds, TypeInv, Owned
  <2> HIDE DEF x
  <2>5. \A y \in snaps[s] : y.id < x.id
    BY <1>0, <2>4 DEF JobInv, SnapsInv
  <2>6. NewSnap(t)'
    BY <1>0, <1>2, <1>4, <2>1, <2>3, <2>4, <2>5 DEF NewSnap
  <2>7. Untouched(t)'
    BY <1>0, <1>2, <2>1, <2>3 DEF Stage, Untouched
  <2> QED BY <1>0, <1>2, <2>1, <2>3, <2>6, <2>7 DEF Stage
<1>8. CASE \E trivial \in BOOLEAN : Diff(t, trivial)
  <2>1. PICK o : /\ pc[t] = "diff" /\ pc'[t] \in {"resolve", "finish"}
                 /\ nextSnap' = nextSnap /\ run' = [run EXCEPT ![t].outcome = o]
    <3>1. PICK trivial \in BOOLEAN : Diff(t, trivial)
      BY <1>8
    <3>2. CASE trivial
      BY <1>0, <3>1, <3>2 DEF Diff, Finish, Advance, quiet
    <3>3. CASE ~trivial
      <4>1. run' = [run EXCEPT ![t].outcome = run[t].outcome]
        BY <1>0, <3>1, <3>3 DEF Diff, Run
      <4> QED BY <1>0, <3>1, <3>3, <4>1 DEF Diff, Advance, quiet
    <3> QED BY <3>2, <3>3
  <2>2. /\ r.doc = run[t].doc /\ r.dirty = run[t].dirty /\ r.update = run[t].update
        /\ r.snap = run[t].snap /\ r.force = run[t].force /\ r.base = run[t].base
    BY <1>0, <1>2, <2>1 DEF Run
  <2>3. Untouched(t)' = Untouched(t)
    BY <1>2, <2>2 DEF Untouched
  <2> QED BY <1>0, <1>2, <1>k, <2>1, <2>2, <2>3 DEF Stage
<1>9. ASSUME Resolve(t)
      PROVE  /\ pc[t] = "resolve" /\ ResolvedDoc(t) = Opened(s)
             /\ Creates(t) <=> docs[s] = NoDoc
  BY <1>0, <1>9 DEF Resolve, Stage, Untouched, ResolvedDoc, Opened, Creates
<1>10. CASE RejectOverQuota(t)
  <2>1. /\ Resolve(t) /\ pc'[t] = "finish" /\ nextSnap' = nextSnap
        /\ run' = [run EXCEPT ![t].doc = ResolvedDoc(t), ![t].dirty = Creates(t),
                      ![t].update = Row(t, "rejected"),
                      ![t].outcome = "success_quota_rejected"]
    BY <1>0, <1>10 DEF RejectOverQuota, Advance, quiet, Row
  <2>2. /\ r.doc = ResolvedDoc(t) /\ r.dirty = Creates(t) /\ r.update = Row(t, "rejected")
        /\ r.snap = run[t].snap /\ r.force = run[t].force /\ r.base = run[t].base
    BY <1>0, <1>2, <2>1 DEF Run
  <2>3. Opening(t)'
    BY <1>2, <1>4, <1>9, <2>1, <2>2 DEF Opening
  <2>4. run'[t].update \in {<<>>, Row(t, "rejected")'}
    BY <1>2, <1>3, <2>2
  <2> QED BY <1>0, <1>2, <1>9, <1>k, <2>1, <2>2, <2>3, <2>4 DEF Stage
<1>11. CASE SkipWithoutKey(t) \/ QueueLLM(t)
  <2>1. PICK o : /\ Resolve(t) /\ pc'[t] \in {"llm", "finish"} /\ nextSnap' = nextSnap
                 /\ run' = [run EXCEPT ![t].doc = ResolvedDoc(t),
                               ![t].dirty = Creates(t), ![t].outcome = o]
    <3>1. CASE SkipWithoutKey(t)
      BY <1>0, <3>1 DEF SkipWithoutKey, Advance, quiet
    <3>2. CASE QueueLLM(t)
      <4>1. run' = [run EXCEPT ![t].doc = ResolvedDoc(t), ![t].dirty = Creates(t),
                               ![t].outcome = run[t].outcome]
        BY <1>0, <3>2 DEF QueueLLM, Run
      <4> QED BY <1>0, <3>2, <4>1 DEF QueueLLM, Advance, quiet
    <3> QED BY <1>11, <3>1, <3>2
  <2>2. /\ r.doc = ResolvedDoc(t) /\ r.dirty = Creates(t) /\ r.update = run[t].update
        /\ r.snap = run[t].snap /\ r.force = run[t].force /\ r.base = run[t].base
    BY <1>0, <1>2, <2>1 DEF Run
  <2>3. Opening(t)'
    BY <1>2, <1>4, <1>9, <2>1, <2>2 DEF Opening
  <2>4. run'[t].update = <<>>
    BY <1>0, <1>2, <1>9, <2>1, <2>2 DEF Stage, Untouched
  <2> QED BY <1>0, <1>2, <1>9, <1>k, <2>1, <2>2, <2>3, <2>4 DEF Stage
<1>12. CASE LLMAnswers(t)
  <2>1. /\ pc[t] = "llm" /\ pc'[t] = "publish" /\ nextSnap' = nextSnap /\ r = run[t]
    BY <1>0, <1>2, <1>12 DEF LLMAnswers, Advance, quiet
  <2>2. Opening(t)' = Opening(t)
    BY <1>2, <1>4, <2>1 DEF Opening
  <2> QED BY <1>0, <1>2, <1>k, <2>1, <2>2 DEF Stage
<1>13. CASE PublishInitial(t)
  <2>1. /\ pc[t] = "publish" /\ IsInitial(t) /\ pc'[t] = "finish" /\ nextSnap' = nextSnap
        /\ run' = [run EXCEPT
                ![t].doc = [version |-> run[t].doc.version + 1, content |-> {run[t].log}],
                ![t].dirty = TRUE, ![t].update = Row(t, "initial"),
                ![t].outcome = "success_initial_doc"]
    BY <1>0, <1>13 DEF PublishInitial, Advance, quiet, Row
  <2>2. /\ r.doc = [version |-> run[t].doc.version + 1, content |-> {run[t].log}]
        /\ r.dirty = TRUE /\ r.update = Row(t, "initial")
        /\ r.snap = run[t].snap /\ r.force = run[t].force /\ r.base = run[t].base
    BY <1>0, <1>2, <2>1 DEF Run
  <2>3. docs[s].content = {}
    BY <1>0, <2>1 DEF IsInitial, Stage, NewSnap, JobInv, SnapsInv
  <2>4. r.doc = [version |-> Opened(s).version + 1, content |-> docs[s].content \cup {run[t].log}]
    BY <1>0, <2>1, <2>2, <2>3 DEF Stage, Opening
  <2>5. Published1(t)'
    BY <1>2, <1>3, <1>4, <2>2, <2>3, <2>4 DEF Published1
  <2> QED BY <1>0, <1>2, <1>k, <2>1, <2>2, <2>5 DEF Stage
<1>14. CASE PublishSection(t)
  <2>1. /\ pc[t] = "publish" /\ pc'[t] = "finish" /\ nextSnap' = nextSnap
        /\ run' = [run EXCEPT
                ![t].doc = [version |-> run[t].doc.version + 1,
                            content |-> run[t].doc.content \cup {run[t].log}],
                ![t].dirty = TRUE, ![t].update = Row(t, "published"),
                ![t].outcome = "success"]
    BY <1>0, <1>14 DEF PublishSection, Advance, quiet, Row
  <2>2. /\ r.doc = [version |-> run[t].doc.version + 1,
                    content |-> run[t].doc.content \cup {run[t].log}]
        /\ r.dirty = TRUE /\ r.update = Row(t, "published")
        /\ r.snap = run[t].snap /\ r.force = run[t].force /\ r.base = run[t].base
    BY <1>0, <1>2, <2>1 DEF Run
  <2>3. run[t].doc = Opened(s) /\ Opened(s).content = docs[s].content
    <3>1. run[t].doc = Opened(s)
      BY <1>0, <2>1 DEF Stage, Opening
    <3>2. Opened(s).content = docs[s].content
      BY DEF Opened, NoDoc
    <3> QED BY <3>1, <3>2
  <2>4. r.doc = [version |-> Opened(s).version + 1, content |-> docs[s].content \cup {run[t].log}]
    BY <2>2, <2>3
  <2>5. Published1(t)'
    BY <1>2, <1>3, <1>4, <2>2, <2>4 DEF Published1
  <2> QED BY <1>0, <1>2, <1>k, <2>1, <2>2, <2>5 DEF Stage
<1>15. (\/ \E c \in Contents : Persist(t, c)
        \/ \E c \in Contents, raw \in BOOLEAN : PersistFails(t, c, raw))
       => Stage(t)' /\ nextSnap' \in Nat /\ nextSnap <= nextSnap'
  BY <1>7
<1>16. ~(\/ \E c \in Contents : Persist(t, c)
         \/ \E c \in Contents, raw \in BOOLEAN : PersistFails(t, c, raw))
       => nextSnap' = nextSnap
  BY DEF InRun, Fetch, FetchFails, Diff, DiffFails, RejectOverQuota, SkipWithoutKey,
     QueueLLM, LLMAnswers, LLMFails, PublishInitial, PublishSection, PublishRefused,
     Finish, quiet
<1> QED
  BY <1>0, <1>5, <1>6, <1>8, <1>10, <1>11, <1>12, <1>13, <1>14, <1>15, <1>16 DEF InRun

-----------------------------------------------------------------------------
(* The commit of a run, seen from the ledger. *)

\* What the last commit of a run makes of the doc and the trail of its source.
Outcome(t) ==
    LET s == run[t].src
    IN \/ docs'[s] = docs[s] /\ audit'[s] = audit[s]
       \/ docs'[s] = Opened(s) /\ audit'[s] = audit[s]
       \/ docs'[s] = Opened(s) /\ audit'[s] = audit[s] \o Row(t, "rejected")
       \/ /\ docs'[s] = [version |-> Opened(s).version + 1,
                         content |-> docs[s].content \cup {run[t].log}]
          /\ \/ audit'[s] = audit[s] \o Row(t, "published")
             \/ audit'[s] = audit[s] \o Row(t, "initial") /\ docs[s].content = {}

LEMMA CommitOutcome ==
    ASSUME TypeInv, JobInv, NEW t \in Tasks, Commit(t)
    PROVE  /\ Outcome(t)
           /\ docs' = [docs EXCEPT ![run[t].src] = docs'[run[t].src]]
           /\ audit' = [audit EXCEPT ![run[t].src] = audit'[run[t].src]]
           /\ snaps' = [snaps EXCEPT ![run[t].src] = snaps'[run[t].src]]
           /\ \/ docs'[run[t].src] = docs[run[t].src] /\ snaps'[run[t].src] = snaps[run[t].src]
              \/ NewSnap(t) /\ snaps'[run[t].src] = snaps[run[t].src] \cup run[t].snap
<1> DEFINE s == run[t].src
<1>1. /\ pc[t] = "finish" /\ Stage(t) /\ s \in Sources
      /\ run[t].update \in Seq(DocUpdate) /\ audit[s] \in Seq(DocUpdate)
      /\ docs \in [Sources -> Doc] /\ audit \in [Sources -> Seq(DocUpdate)]
      /\ snaps \in [Sources -> SUBSET Snapshot]
  <2>1. pc[t] = "finish" /\ t \in Running
    BY DEF Commit, Running, Active
  <2>2. s \in Sources /\ run[t] \in Run
    BY <2>1 DEF TypeInv, TypeOK, Owned
  <2> QED BY <2>1, <2>2 DEF JobInv, TypeInv, TypeOK, Run
<1>2. /\ docs' = [docs EXCEPT ![s] = IF run[t].dirty THEN run[t].doc ELSE docs[s]]
      /\ audit' = [audit EXCEPT ![s] = audit[s] \o run[t].update]
      /\ snaps' = [snaps EXCEPT ![s] = snaps[s] \cup run[t].snap]
  BY DEF Commit
<1> HIDE DEF s
<1>3. /\ docs'[s] = IF run[t].dirty THEN run[t].doc ELSE docs[s]
      /\ audit'[s] = audit[s] \o run[t].update
      /\ snaps'[s] = snaps[s] \cup run[t].snap
  BY <1>1, <1>2
<1>4. audit[s] \o <<>> = audit[s]
  BY <1>1
<1>5. CASE Untouched(t) /\ (run[t].snap = {} \/ NewSnap(t))
  BY <1>2, <1>3, <1>4, <1>5 DEF Untouched, Outcome, s
<1>6. CASE Opening(t) /\ NewSnap(t) /\ run[t].update \in {<<>>, Row(t, "rejected")}
  <2>1. docs'[s] = Opened(s)
    BY <1>3, <1>6 DEF Opening, Opened, s
  <2> QED BY <1>2, <1>3, <1>4, <1>6, <2>1 DEF Outcome, s
<1>7. CASE Published1(t) /\ NewSnap(t)
  BY <1>2, <1>3, <1>7 DEF Published1, Outcome, s
<1> QED BY <1>1, <1>5, <1>6, <1>7 DEF Stage

\* The run's own row is not in the trail before it commits.
LEMMA NotYetRecorded ==
    ASSUME TypeInv, LogInv, JobInv, NEW t \in Running, NEW s \in Sources,
           NEW k \in DOMAIN audit[s]
    PROVE  audit[s][k].by # run[t].log
BY DEF LogInv, JobInv, TrailLogged

LEMMA CommitRecords ==
    ASSUME TypeInv, LogInv, JobInv, NEW t \in Tasks, Commit(t)
    PROVE  [Ledger!Next]_(Ledger!vars)
<1> DEFINE s == run[t].src
           i == run[t].log
<1>1. t \in Running /\ s \in Sources /\ i \in RunIds
  <2>1. t \in Running
    BY DEF Commit, Running, Active
  <2>2. s \in Sources /\ i \in 1 .. Len(logs)
    BY <2>1 DEF Running, TypeInv, Owned, Active
  <2> QED BY <2>1, <2>2, PipelineAssumption DEF TypeInv, TypeOK, Owned, RunIds
<1>2. Outcome(t) /\ docs' = [docs EXCEPT ![s] = docs'[s]] /\ audit' = [audit EXCEPT ![s] = audit'[s]]
  BY CommitOutcome
<1>3. \A k \in DOMAIN audit[s] : audit[s][k].by # i
  BY <1>1, NotYetRecorded
<1>4. audit[s] \in Seq(DocUpdate) /\ docs[s] \in Doc
  BY <1>1 DEF TypeInv, TypeOK
<1>5. \A status \in Statuses : audit[s] \o Row(t, status) = Append(audit[s], [by |-> i, status |-> status])
  <2> SUFFICES ASSUME NEW status \in Statuses
               PROVE  audit[s] \o Row(t, status) = Append(audit[s], [by |-> i, status |-> status])
    OBVIOUS
  <2> DEFINE u == [by |-> i, status |-> status]
  <2>1. u \in DocUpdate
    BY <1>1 DEF DocUpdate
  <2>2. Row(t, status) = <<u>>
    BY DEF Row
  <2> HIDE DEF u, s
  <2>3. audit[s] \o <<u>> = Append(audit[s], u)
    BY <1>4, <2>1
  <2> QED BY <2>2, <2>3 DEF u, s
<1>6. Opened(s) = Ledger!Opened(docs[s])
  BY DEF Opened, Ledger!Opened, NoDoc, Ledger!NoDoc
<1> HIDE DEF s, i
<1>7. CASE docs'[s] = docs[s] /\ audit'[s] = audit[s]
  BY <1>2, <1>7 DEF Ledger!vars, TypeInv, TypeOK
<1>8. CASE docs'[s] = Opened(s) /\ audit'[s] = audit[s]
  <2>1. CASE docs[s] = NoDoc
    <3>1. Ledger!Open(s)
      BY <1>2, <1>6, <1>8, <2>1 DEF Ledger!Open, NoDoc, Ledger!NoDoc, TypeInv, TypeOK
    <3> QED BY <1>1, <3>1 DEF Ledger!Next
  <2>2. CASE docs[s] # NoDoc
    <3>1. docs'[s] = docs[s]
      BY <1>8, <2>2 DEF Opened
    <3> QED BY <1>2, <1>8, <3>1 DEF Ledger!vars, TypeInv, TypeOK
  <2> QED BY <2>1, <2>2
<1>9. ASSUME NEW status \in Statuses, audit'[s] = audit[s] \o Row(t, status)
      PROVE  Ledger!Record(s, i, status)
  BY <1>2, <1>3, <1>5, <1>9 DEF Ledger!Record
<1>10. CASE docs'[s] = Opened(s) /\ audit'[s] = audit[s] \o Row(t, "rejected")
  <2>1. Ledger!Record(s, i, "rejected")
    BY <1>9, <1>10 DEF Statuses
  <2>2. Ledger!Reject(s, i)
    BY <1>2, <1>6, <1>10, <2>1 DEF Ledger!Reject
  <2> QED BY <1>1, <2>2 DEF Ledger!Next
<1>11. CASE /\ docs'[s] = [version |-> Opened(s).version + 1,
                            content |-> docs[s].content \cup {i}]
            /\ \/ audit'[s] = audit[s] \o Row(t, "published")
               \/ audit'[s] = audit[s] \o Row(t, "initial") /\ docs[s].content = {}
  <2>1. Ledger!Write(s, i)
    BY <1>2, <1>6, <1>11 DEF Ledger!Write
  <2>2. CASE audit'[s] = audit[s] \o Row(t, "published")
    <3>1. Ledger!Publish(s, i)
      BY <1>9, <2>1, <2>2 DEF Ledger!Publish, Statuses, Applied
    <3> QED BY <1>1, <3>1 DEF Ledger!Next
  <2>3. CASE audit'[s] = audit[s] \o Row(t, "initial") /\ docs[s].content = {}
    <3>1. Ledger!Initial(s, i)
      BY <1>9, <2>1, <2>3 DEF Ledger!Initial, Statuses, Applied
    <3> QED BY <1>1, <3>1 DEF Ledger!Next
  <2> QED BY <1>11, <2>2, <2>3
<1> QED BY <1>2, <1>7, <1>8, <1>10, <1>11 DEF Outcome, s, i

-----------------------------------------------------------------------------
(* The invariant. *)

LEMMA JobNext ==
    ASSUME JobsOfOneProcess, TypeInv, LogInv, Concluded, LockHeldByRunner, JobInv,
           [Next]_vars
    PROVE  JobInv'
<1>a. /\ pc \in [Tasks -> Phases] /\ run \in [Tasks -> Run] /\ nextSnap \in Nat
      /\ logs \in Seq(LogRow) /\ DOMAIN logs = 1 .. Len(logs) /\ Len(logs) \in Nat
  BY DEF TypeInv, TypeOK
<1>f. ASSUME UNCHANGED <<docs, snaps>>, nextSnap' \in Nat, nextSnap <= nextSnap',
             NEW u \in Running, pc'[u] = pc[u], run'[u] = run[u]
      PROVE  Active(u)' /\ Stage(u)'
  BY <1>f, StageFrame DEF JobInv, Running, Active
<1>q. ASSUME UNCHANGED <<docs, snaps>>, nextSnap' \in Nat, nextSnap <= nextSnap'
      PROVE  SnapsInv'
  <2>1. \A s : Latest(s)' = Latest(s)
    BY <1>q DEF Latest
  <2>2. \A s \in Sources : \A y \in snaps[s] : y.id \in Nat
    BY DEF TypeInv, TypeOK, Snapshot
  <2> QED BY <1>a, <1>q, <2>1, <2>2 DEF JobInv, SnapsInv
<1>0. CASE UNCHANGED vars
  <2>1. \A u \in Running : Stage(u)'
    BY <1>0, <1>a, <1>f DEF vars, Running
  <2> QED BY <1>0, <1>a, <1>q, <2>1 DEF JobInv, Running, Active, TrailLogged, vars
<1>1. ASSUME NEW s \in Sources, NEW c \in Contents, Change(s, c) PROVE JobInv'
  <2>1. \A u \in Running : Stage(u)'
    BY <1>1, <1>a, <1>f DEF Change, db, Running
  <2> QED BY <1>1, <1>a, <1>q, <2>1 DEF JobInv, Running, Active, TrailLogged, Change, db
<1>2. ASSUME NEW t \in Tasks, NEW s \in Sources, LoadSourceWithDoc(t, s) PROVE JobInv'
  BY <1>2 DEF LoadSourceWithDoc, JobsOfOneProcess
<1>3. ASSUME NEW t \in Tasks, NEW s \in Sources, Skip(t, s) PROVE JobInv'
  <2>1. pc[t] = "idle" /\ pc' = [pc EXCEPT ![t] = "idle"] /\ run' = [run EXCEPT ![t] = NoRun]
    BY <1>3 DEF Skip, CanTrigger, Advance, JobInv
  <2>2. \A u \in Tasks : pc'[u] = pc[u] /\ run'[u] = run[u]
    BY <1>a, <2>1 DEF JobInv
  <2>3. \A u \in Running : Stage(u)'
    BY <1>3, <1>a, <1>f, <2>2 DEF Skip, Running
  <2>4. \A i \in DOMAIN logs : i \in DOMAIN logs' /\ logs'[i] = logs[i]
    BY <1>3, <1>a DEF Skip
  <2>5. TrailLogged'
    BY <1>3, <2>4 DEF Skip, JobInv, TrailLogged
  <2> QED BY <1>3, <1>a, <1>q, <2>2, <2>3, <2>5 DEF JobInv, Running, Active, Skip
<1>4. ASSUME NEW t \in Tasks, NEW s \in Sources, Begin(t, s) PROVE JobInv'
  <2>1. /\ pc[t] = "idle" /\ run[t] = NoRun /\ pc' = [pc EXCEPT ![t] = "fetch"]
        /\ run' = [run EXCEPT ![t].src = s, ![t].log = Len(logs) + 1]
    BY <1>4 DEF Begin, CanTrigger, Advance, JobInv
  <2>2. \A u \in Tasks \ {t} : pc'[u] = pc[u] /\ run'[u] = run[u]
    BY <1>a, <2>1
  <2>3. \A u \in Running \ {t} : Stage(u)'
    BY <1>4, <1>a, <1>f, <2>2 DEF Begin, Running
  <2>4. Stage(t)'
    BY <1>a, <2>1 DEF Stage, Untouched, NoRun
  <2>5. \A i \in DOMAIN logs : i \in DOMAIN logs' /\ logs'[i] = logs[i]
    BY <1>4, <1>a DEF Begin
  <2>6. TrailLogged'
    BY <1>4, <2>5 DEF Begin, JobInv, TrailLogged
  <2> QED
    BY <1>4, <1>a, <1>q, <2>1, <2>2, <2>3, <2>4, <2>6 DEF JobInv, Running, Active, Begin
<1>5. ASSUME NEW t \in Tasks, InRun(t) PROVE JobInv'
  <2>1. PICK r \in Run : Moves(t, r)
    BY <1>5, StepIsLocal DEF Local
  <2>2. Stage(t)' /\ nextSnap' \in Nat /\ nextSnap <= nextSnap'
    BY <1>5, StageStep
  <2>3. \A u \in Tasks \ {t} : pc'[u] = pc[u] /\ run'[u] = run[u]
    BY <1>a, <2>1 DEF Moves, Advance
  <2>4. \A u \in Running \ {t} : Stage(u)'
    BY <1>f, <2>1, <2>2, <2>3 DEF Moves, Running
  <2>5. pc'[t] \notin {"idle", "loaded"}
    BY <1>a, <2>1 DEF Moves, Advance
  <2>6. TrailLogged'
    BY <2>1 DEF Moves, JobInv, TrailLogged
  <2> QED
    BY <1>q, <2>1, <2>2, <2>3, <2>4, <2>5, <2>6 DEF JobInv, Running, Active, Moves
<1>6. ASSUME NEW t \in Tasks, Commit(t) PROVE JobInv'
  <2> DEFINE s == run[t].src
             i == run[t].log
  <2>1. /\ t \in Running /\ s \in Sources /\ i \in DOMAIN logs
        /\ run[t].outcome # "running"
    BY <1>6, <1>a DEF Commit, Running, Active, TypeInv, Owned, Concluded
  <2>2. /\ Outcome(t)
        /\ docs' = [docs EXCEPT ![s] = docs'[s]]
        /\ audit' = [audit EXCEPT ![s] = audit'[s]]
        /\ snaps' = [snaps EXCEPT ![s] = snaps'[s]]
        /\ \/ docs'[s] = docs[s] /\ snaps'[s] = snaps[s]
           \/ NewSnap(t) /\ snaps'[s] = snaps[s] \cup run[t].snap
    BY <1>6, CommitOutcome
  <2>3. /\ pc' = [pc EXCEPT ![t] = "idle"] /\ run' = [run EXCEPT ![t] = NoRun]
        /\ nextSnap' = nextSnap
        /\ DOMAIN logs' = DOMAIN logs
        /\ \A j \in DOMAIN logs \ {i} : logs'[j] = logs[j]
        /\ logs'[i].outcome = run[t].outcome
    BY <1>6, <1>a, <2>1 DEF Commit, Advance
  <2>4. \A u \in Running \ {t} : Stage(u)'
    <3> SUFFICES ASSUME NEW u \in Running \ {t} PROVE Stage(u)'
      OBVIOUS
    <3>1. run[u].src # s
      BY <2>1, OneRunPerSource
    <3>2. docs'[run[u].src] = docs[run[u].src] /\ snaps'[run[u].src] = snaps[run[u].src]
      <4>1. run[u].src \in Sources
        BY DEF TypeInv, Owned, Running, Active
      <4>2. docs \in [Sources -> Doc] /\ snaps \in [Sources -> SUBSET Snapshot]
        BY DEF TypeInv, TypeOK
      <4> HIDE DEF s
      <4> QED BY <2>2, <3>1, <4>1, <4>2
    <3>3. pc'[u] = pc[u] /\ run'[u] = run[u] /\ nextSnap' \in Nat /\ nextSnap <= nextSnap'
      BY <1>a, <2>3 DEF Running
    <3> QED BY <3>2, <3>3, StageFrame DEF JobInv
  <2>5. SnapsInv'
    <3> SUFFICES ASSUME NEW x \in Sources
                 PROVE  /\ \A y \in snaps'[x] : y.id < nextSnap
                        /\ docs'[x].content # {} => Latest(x)' # {}
      BY <2>3 DEF SnapsInv
    <3>1. CASE docs'[x] = docs[x] /\ snaps'[x] = snaps[x]
      BY <3>1 DEF JobInv, SnapsInv, Latest
    <3>2. CASE x = s /\ NewSnap(t) /\ snaps'[s] = snaps[s] \cup run[t].snap
      <4>1. PICK y \in Snapshot : /\ run[t].snap = {y} /\ y.id < nextSnap
                                  /\ \A z \in snaps[s] : z.id < y.id
        BY <3>2 DEF NewSnap
      <4>2. \A z \in snaps'[s] : z.id <= y.id /\ z.id < nextSnap
        <5>1. \A z \in snaps[s] : z.id < nextSnap /\ z.id \in Nat
          BY <2>1 DEF JobInv, SnapsInv, TypeInv, TypeOK, Snapshot
        <5> QED BY <3>2, <4>1, <5>1 DEF Snapshot
      <4>3. y \in Latest(x)'
        BY <3>2, <4>1, <4>2 DEF Latest
      <4> QED BY <3>2, <4>2, <4>3
    <3> QED BY <2>1, <2>2, <3>1, <3>2 DEF TypeInv, TypeOK
  <2>6. TrailLogged'
    <3> SUFFICES ASSUME NEW x \in Sources, NEW k \in DOMAIN audit'[x]
                 PROVE  /\ audit'[x][k].by \in DOMAIN logs
                        /\ logs'[audit'[x][k].by].outcome # "running"
      BY <2>3 DEF TrailLogged
    <3>1. CASE k \in DOMAIN audit[x] /\ audit'[x][k] = audit[x][k]
      BY <2>1, <2>3, <3>1, NotYetRecorded DEF JobInv, TrailLogged
    <3>2. CASE audit'[x][k].by = i
      BY <2>1, <2>3, <3>2
    <3>3. ASSUME x = s, NEW status, audit'[s] = audit[s] \o Row(t, status)
          PROVE  \/ k \in DOMAIN audit[x] /\ audit'[x][k] = audit[x][k]
                 \/ audit'[x][k].by = i
      <4> DEFINE u == [by |-> i, status |-> status]
      <4>1. audit[s] \in Seq(DocUpdate) /\ Row(t, status) = <<u>> /\ u.by = i
        BY <2>1 DEF TypeInv, TypeOK, Row
      <4> HIDE DEF u, s, i
      <4>2. audit'[s] = audit[s] \o <<u>> /\ <<u>> \in Seq({u})
        BY <3>3, <4>1
      <4>3. \/ k \in 1 .. Len(audit[s]) /\ audit'[s][k] = audit[s][k]
            \/ audit'[s][k] = u
        BY <3>3, <4>1, <4>2
      <4> QED BY <3>3, <4>1, <4>3
    <3>4. CASE audit'[x] = audit[x]
      BY <3>1, <3>4
    <3> QED BY <2>1, <2>2, <3>1, <3>2, <3>3, <3>4 DEF Outcome, TypeInv, TypeOK
  <2>7. \A u \in Tasks \ {t} : pc'[u] = pc[u] /\ run'[u] = run[u]
    BY <1>a, <2>3
  <2> QED
    BY <1>a, <2>3, <2>4, <2>5, <2>6, <2>7 DEF JobInv, Running, Active
<1>7. ASSUME NEW t \in Tasks, FlushFails(t) PROVE JobInv'
  <2>1. /\ pc' = [pc EXCEPT ![t] = "idle"] /\ run' = [run EXCEPT ![t] = NoRun]
        /\ UNCHANGED db
    BY <1>7 DEF FlushFails, Advance
  <2>2. \A u \in Tasks \ {t} : pc'[u] = pc[u] /\ run'[u] = run[u]
    BY <1>a, <2>1
  <2>3. \A u \in Running \ {t} : Stage(u)'
    BY <1>a, <1>f, <2>1, <2>2 DEF db, Running
  <2> QED
    BY <1>a, <1>q, <2>1, <2>2, <2>3 DEF JobInv, Running, Active, TrailLogged, db
<1>8. ASSUME NEW p \in Procs, Crash(p) PROVE JobInv'
  <2> DEFINE dead == {t \in Tasks : ProcOf[t] = p /\ pc[t] # "idle"}
  <2>1. /\ UNCHANGED db /\ dead \subseteq Tasks
        /\ \A u \in dead : pc'[u] = "idle" /\ run'[u] = NoRun
        /\ \A u \in Tasks \ dead : pc'[u] = pc[u] /\ run'[u] = run[u]
    BY <1>8, <1>a DEF Crash
  <2> HIDE DEF dead
  <2>2. \A u \in Running \ dead : Stage(u)'
    BY <1>a, <1>f, <2>1 DEF db, Running
  <2> QED
    BY <1>a, <1>q, <2>1, <2>2 DEF JobInv, Running, Active, TrailLogged, db
<1> QED
  BY <1>0, <1>1, <1>2, <1>3, <1>4, <1>5, <1>6, <1>7, <1>8, NextCases

JobsInvariant == TypeInv /\ Concluded /\ LogInv /\ LockHeldByRunner /\ JobInv

LEMMA JobsInvariantHolds ==
    ASSUME JobsOfOneProcess
    PROVE  Spec => []JobsInvariant
<1>1. Init => Concluded /\ LogInv /\ LockHeldByRunner /\ JobInv
  BY JobInit DEF Init, LogInv, Concluded, RunningHasOwner, LockHeldByRunner, Running,
     Active
<1>2. TypeInv /\ Concluded /\ [Next]_vars => Concluded'
  BY ConcludedNext
<1>3. TypeInv /\ Concluded /\ LogInv /\ [Next]_vars => LogInv'
  BY LogNext
<1>4. TypeInv /\ LockHeldByRunner /\ [Next]_vars => LockHeldByRunner'
  BY LockNext
<1>5. JobsInvariant /\ [Next]_vars => JobInv'
  BY JobNext DEF JobsInvariant
<1> QED
  BY <1>1, <1>2, <1>3, <1>4, <1>5, TypeInvariant, PTL DEF Spec, JobsInvariant

-----------------------------------------------------------------------------
(* The theorems. *)

\* Interval jobs of one process implement the ledger: a commit publishes,
\* rejects or opens a doc, every other step (crashes and failed flushes
\* included) leaves the doc and its trail alone.
THEOREM JobsImplementLedger ==
    ASSUME JobsOfOneProcess
    PROVE  Spec => LedgerSpec
<1>1. Init => Ledger!Init
  BY DEF Init, Ledger!Init, NoDoc, Ledger!NoDoc
<1>2. JobsInvariant /\ [Next]_vars => [Ledger!Next]_(Ledger!vars)
  <2> SUFFICES ASSUME JobsInvariant, [Next]_vars PROVE [Ledger!Next]_(Ledger!vars)
    OBVIOUS
  <2>1. ASSUME NEW t \in Tasks, InRun(t) PROVE UNCHANGED <<docs, audit>>
    BY <2>1, StepIsLocal DEF Local, Moves, JobsInvariant
  <2>2. ASSUME NEW t \in Tasks, Commit(t) PROVE [Ledger!Next]_(Ledger!vars)
    BY <2>2, CommitRecords DEF JobsInvariant
  <2>3. \/ UNCHANGED <<docs, audit>>
        \/ \E t \in Tasks : Commit(t)
    BY <2>1, NextCases DEF vars, db, quiet, Change, LoadSourceWithDoc, Skip, Begin,
       FlushFails, Crash
  <2> QED BY <2>2, <2>3 DEF Ledger!vars
<1> QED
  BY <1>1, <1>2, JobsInvariantHolds, PTL DEF Spec, LedgerSpec, Ledger!Spec

\* While a job of a one-process deployment runs, what it has read is what the
\* database still holds, up to its commit.
THEOREM JobSessionsAreFresh ==
    ASSUME JobsOfOneProcess
    PROVE  Spec => []SessionFresh
<1>1. JobsInvariant => SessionFresh
  <2> SUFFICES ASSUME JobsInvariant, NEW t \in Running
               PROVE  /\ pc[t] \notin {"fetch", "snapshot"} /\ run[t].snap # {}
                           => run[t].base = Latest(run[t].src)
                      /\ ~run[t].dirty /\ run[t].doc # NoDoc
                           => run[t].doc = docs[run[t].src]
    BY DEF SessionFresh
  <2>1. Stage(t) /\ pc[t] \in Phases \ {"idle", "loaded"}
    BY DEF JobsInvariant, JobInv, Running, Active, TypeInv, TypeOK
  <2>2. NewSnap(t) => run[t].base = Latest(run[t].src)
    BY DEF NewSnap
  <2>3. Untouched(t) => run[t].doc = NoDoc
    BY DEF Untouched
  <2>4. Opening(t) /\ ~run[t].dirty => run[t].doc = docs[run[t].src]
    BY DEF Opening, Opened
  <2>5. Published1(t) => run[t].dirty
    BY DEF Published1
  <2> QED BY <2>1, <2>2, <2>3, <2>4, <2>5 DEF Stage, Phases
<1> QED BY <1>1, JobsInvariantHolds, PTL

\* No update published by an interval job is ever missing from the doc.
THEOREM JobsKeepDocAView ==
    ASSUME JobsOfOneProcess
    PROVE  Spec => []DocIsView
BY JobsImplementLedger, LedgerViews, PTL DEF LedgerSpec, DocIsView

\* Interval jobs never write initial documentation over documentation.
THEOREM JobsWriteInitialOnce ==
    ASSUME JobsOfOneProcess
    PROVE  Spec => []InitialOnce
BY JobsImplementLedger, LedgerInitialOnce, PTL DEF LedgerSpec, InitialOnce

-----------------------------------------------------------------------------
(***************************************************************************)
(* Overlapping runs, in any deployment: what the lock of a source and the  *)
(* row locks of its doc leave of the ledger's promise.  A session that     *)
(* nobody publishes under is a step of the ledger; PipelineOverlaps tells  *)
(* which one is not.                                                       *)
(***************************************************************************)

\* What the row of the trail that a session has flushed says, if it has.
Is(r, status) == \E u \in DocUpdate : r.update = <<u>> /\ u.status = status
Pub(r)        == Is(r, "initial") \/ Is(r, "published")

\* The runs that run_logs knows the end of, and the committed text of a task's doc.
Done    == {i \in DOMAIN logs : logs[i].outcome # "running"}
Text(t) == docs[run[t].src].content

\* What a session is, in which phase, whatever has become of the doc meanwhile: it
\* has a new snapshot once it compares, its text is that of runs that have ended and
\* its own, and what it holds of a doc it has created is empty until it publishes.
Sess(r, phase, text, done) ==
    /\ phase \in {"loaded", "fetch", "snapshot", "diff", "resolve"} => ~r.dirty
    /\ phase \in {"diff", "resolve", "llm", "publish"} => r.snap # {}
    /\ phase = "diff" => r.base # {}
    /\ phase \in {"llm", "publish"} => r.doc # NoDoc
    /\ \A x, y \in r.snap : x = y
    /\ r.dirty /\ ~Pub(r) => r.doc.content = {} /\ text = {}
    /\ Pub(r) => r.dirty /\ r.snap # {} /\ r.log \in r.doc.content
    /\ r.doc.content \subseteq done \cup (IF Pub(r) THEN {r.log} ELSE {})

\* What holds besides of a session that nobody has published under: its text is the
\* committed one with its own update, and it is initial documentation of a doc
\* without text only.
Fresh(r, phase, text) ==
    /\ phase # "finish" /\ r.doc # NoDoc => r.doc.content = text
    /\ phase # "finish" /\ r.force => text = {}
    /\ phase \in {"resolve", "llm", "publish"} /\ r.base = {} => text = {}
    /\ Is(r, "published") => r.doc.content = text \cup {r.log}
    /\ Is(r, "initial") => text = {} /\ r.doc.content = {r.log}

\* Rows of one doc are locked by one session, in whatever process.
OneWriter ==
    \A t, u \in Tasks : run[t].src = run[u].src /\ run[t].dirty /\ run[u].dirty => t = u

\* The text of a doc is that of runs that have ended, and a doc with text has a
\* snapshot.
TextHasSnapshot ==
    \A s \in Sources :
        /\ docs[s].content \subseteq Done
        /\ docs[s].content # {} => snaps[s] # {}
        /\ snaps[s] # {} => Latest(s) # {}

\* The trail of a doc that nobody has overwritten amounts to its text.
TrailTells(trail, text) ==
    /\ text = Ledger!View(trail)
    /\ \A i, j \in DOMAIN trail : trail[i].status = "initial" /\ trail[j].status = "initial" => i = j
    /\ text = {} => \A k \in DOMAIN trail : trail[k].status \notin Applied

\* What a task holds, between runs and in one.
Session(t) ==
    /\ pc[t] = "idle" => run[t] = NoRun
    /\ pc[t] # "idle" => Sess(run[t], pc[t], Text(t), Done)
    /\ pc[t] # "idle" /\ t \notin overtaken => Fresh(run[t], pc[t], Text(t))

\* What the three properties of PipelineOverlaps need to be inductive.
OverlapInv ==
    /\ overtaken \subseteq {t \in Tasks : pc[t] # "idle"}
    /\ OneWriter
    /\ TextHasSnapshot
    /\ \A t \in Tasks : Session(t)
    /\ \A s \in Sources \ overwritten : TrailTells(audit[s], docs[s].content)

\* A session without a row for the trail has published nothing; with one, its row
\* says what.
LEMMA NotPublished ==
    ASSUME NEW r, r.update = <<>>
    PROVE  ~Is(r, "initial") /\ ~Is(r, "published") /\ ~Pub(r)
<1>1. \A u : <<u>> # <<>>
  OBVIOUS
<1> QED BY <1>1 DEF Is, Pub

LEMMA PublishedAs ==
    ASSUME NEW r, NEW u \in DocUpdate, r.update = <<u>>, NEW status
    PROVE  Is(r, status) <=> u.status = status
<1>1. \A v : <<u>> = <<v>> => u = v
  OBVIOUS
<1> QED BY <1>1 DEF Is

\* Sets of snapshots that have a latest one keep having one as they grow by one.
LEMMA LatestGrows ==
    ASSUME TypeOK, TypeOK', NEW s \in Sources, snaps[s] # {} => Latest(s) # {},
           NEW new, new \subseteq Snapshot, \A x, y \in new : x = y,
           snaps'[s] = snaps[s] \cup new
    PROVE  snaps'[s] # {} => Latest(s)' # {}
<1>1. \A x \in snaps'[s] : x.id \in Nat
  BY DEF TypeOK, Snapshot
<1>2. CASE new = {}
  BY <1>2 DEF Latest
<1>3. CASE new # {}
  <2>1. PICK x \in Snapshot : new = {x}
    <3>1. PICK x \in new : TRUE
      BY <1>3
    <3>2. new = {x}
      BY <3>1
    <3> QED BY <3>2
  <2>2. CASE snaps[s] = {}
    <3>1. x \in Latest(s)'
      BY <1>1, <2>1, <2>2 DEF Latest
    <3> QED BY <3>1
  <2>3. CASE snaps[s] # {}
    <3>1. PICK y : y \in Latest(s)
      BY <2>3
    <3>2. y \in snaps'[s] /\ x \in snaps'[s] /\ \A z \in snaps'[s] : z = x \/ z.id <= y.id
      BY <2>1, <3>1 DEF Latest
    <3>3. CASE x.id <= y.id
      <4>1. y \in Latest(s)'
        BY <3>2, <3>3 DEF Latest
      <4> QED BY <4>1
    <3>4. CASE ~(x.id <= y.id)
      <4>1. \A z \in snaps'[s] : z.id <= x.id
        BY <1>1, <3>2, <3>4
      <4>2. x \in Latest(s)'
        BY <3>2, <4>1 DEF Latest
      <4> QED BY <4>2
    <3> QED BY <3>3, <3>4
  <2> QED BY <2>2, <2>3
<1> QED BY <1>2, <1>3

\* The trail of a doc that one more run has written.
LEMMA TrailTold ==
    ASSUME NEW trail \in Seq(DocUpdate), NEW text, TrailTells(trail, text),
           NEW u \in DocUpdate, NEW new,
           u.status = "rejected" => new = text,
           u.status = "published" => new = text \cup {u.by},
           u.status = "initial" => text = {} /\ new = {u.by}
    PROVE  TrailTells(trail \o <<u>>, new)
<1> DEFINE longer == Append(trail, u)
           n == Len(trail)
<1>1. /\ n \in Nat /\ DOMAIN trail = 1 .. n /\ DOMAIN longer = 1 .. n + 1
      /\ longer[n + 1] = u /\ \A i \in 1 .. n : longer[i] = trail[i]
      /\ trail \o <<u>> = longer
  OBVIOUS
<1>2. DocUpdate = Ledger!Update /\ u.status \in {"initial", "published", "rejected"}
  BY DEF DocUpdate, Statuses, Applied, Ledger!Update, Ledger!Applied
<1>3. Ledger!View(longer) = new
  BY <1>2, ViewAppend DEF TrailTells
<1> HIDE DEF longer, n
<1>a. \A i \in 1 .. n + 1 : i = n + 1 \/ i \in 1 .. n
  BY <1>1
<1>b. \A i \in DOMAIN longer : i = n + 1 \/ (i \in DOMAIN trail /\ longer[i] = trail[i])
  <2> SUFFICES ASSUME NEW i \in DOMAIN longer, i # n + 1
               PROVE  i \in DOMAIN trail /\ longer[i] = trail[i]
    OBVIOUS
  <2>1. i \in 1 .. n + 1
    BY <1>1
  <2>2. i \in 1 .. n
    BY <1>a, <2>1
  <2> QED BY <1>1, <2>2
<1>4. \A i, j \in DOMAIN longer : longer[i].status = "initial" /\ longer[j].status = "initial" => i = j
  <2>2. u.status = "initial" => \A i \in DOMAIN trail : trail[i].status # "initial"
    BY DEF TrailTells, Applied
  <2>3. \A i, j \in DOMAIN trail : trail[i].status = "initial" /\ trail[j].status = "initial" => i = j
    BY DEF TrailTells
  <2> QED BY <1>1, <1>b, <2>2, <2>3
<1>5. new = {} => \A k \in DOMAIN longer : longer[k].status \notin Applied
  BY <1>1, <1>2, <1>b DEF TrailTells, Applied
<1> QED BY <1>1, <1>3, <1>4, <1>5 DEF TrailTells

\* A task's own step within its run, seen from its record, and the lock it holds on
\* the doc: taken only when no other session has it.
LEMMA SessionInRun ==
    ASSUME TypeInv, TextHasSnapshot, NEW t \in Tasks, Session(t), Held(run[t], pc[t]), InRun(t)
    PROVE  /\ Sess(run'[t], pc'[t], Text(t), Done)
           /\ t \notin overtaken => Fresh(run'[t], pc'[t], Text(t))
           /\ run'[t].dirty => run[t].dirty \/ DocRowHolders(t, run[t].src) = {}
<1> DEFINE Keeps == /\ Sess(run'[t], pc'[t], Text(t), Done)
                    /\ t \notin overtaken => Fresh(run'[t], pc'[t], Text(t))
                    /\ run'[t].dirty => run[t].dirty \/ DocRowHolders(t, run[t].src) = {}
<1>0. /\ run \in [Tasks -> Run] /\ run[t] \in Run /\ pc \in [Tasks -> Phases] /\ Active(t)
      /\ run[t].log \in RunIds /\ run[t].src \in Sources
      /\ docs[run[t].src] \in Doc /\ docs[run[t].src].content \subseteq Done
  <2>1. Active(t)
    BY StepIsLocal DEF Local, Moves
  <2>2. run[t].log \in RunIds /\ run[t].src \in Sources
    BY <2>1, PipelineAssumption DEF TypeInv, TypeOK, Owned, RunIds, Active
  <2> QED BY <2>1, <2>2 DEF TypeInv, TypeOK, TextHasSnapshot
<1>1. /\ Sess(run[t], pc[t], Text(t), Done)
      /\ t \notin overtaken => Fresh(run[t], pc[t], Text(t))
  BY <1>0 DEF Session, Active
<1>2. pc[t] # "finish" => ~Is(run[t], "initial") /\ ~Is(run[t], "published") /\ ~Pub(run[t])
  BY NotPublished DEF Held
\* A step that leaves the doc and the choice of initial documentation alone.
<1>3. ASSUME pc[t] # "finish", pc'[t] = "finish", run'[t].update = <<>>,
             run'[t].doc = run[t].doc, run'[t].dirty = run[t].dirty,
             \A x, y \in run'[t].snap : x = y
      PROVE  Keeps
  <2>1. ~Is(run'[t], "initial") /\ ~Is(run'[t], "published") /\ ~Pub(run'[t])
    BY <1>3, NotPublished
  <2> QED BY <1>1, <1>2, <1>3, <2>1 DEF Sess, Fresh
<1>4. CASE Fetch(t)
  <2>1. /\ run'[t].update = <<>> /\ run'[t].doc = run[t].doc /\ run'[t].dirty = run[t].dirty
        /\ run'[t].snap = run[t].snap /\ run'[t].force = run[t].force
        /\ pc[t] = "fetch" /\ pc'[t] = "snapshot"
    BY <1>0, <1>4 DEF Fetch, Advance, Run, Held
  <2>2. ~Is(run'[t], "initial") /\ ~Is(run'[t], "published") /\ ~Pub(run'[t])
    BY <2>1, NotPublished
  <2> QED BY <1>1, <1>2, <2>1, <2>2 DEF Sess, Fresh
<1>5. CASE FetchFails(t) \/ DiffFails(t) \/ LLMFails(t) \/ PublishRefused(t)
  <2>1. /\ run'[t].update = <<>> /\ run'[t].doc = run[t].doc /\ run'[t].dirty = run[t].dirty
        /\ run'[t].snap = run[t].snap /\ pc[t] # "finish" /\ pc'[t] = "finish"
    BY <1>0, <1>5 DEF FetchFails, DiffFails, LLMFails, PublishRefused, Finish, Advance, Run, Held
  <2> QED BY <1>1, <1>3, <2>1 DEF Sess
<1>6. ASSUME NEW c \in Contents, Persist(t, c) PROVE Keeps
  <2>1. /\ pc[t] = "snapshot" /\ run'[t].update = <<>> /\ run'[t].doc = run[t].doc
        /\ run'[t].dirty = run[t].dirty /\ run'[t].force = run[t].force
        /\ run'[t].base = Latest(run[t].src) /\ \E x : run'[t].snap = {x}
    BY <1>0, <1>6 DEF Persist, Run, Held
  <2>2. /\ pc'[t] \in {"resolve", "finish", "diff"}
        /\ pc'[t] = "diff" => run'[t].base # {}
    BY <1>0, <1>6, <2>1 DEF Persist, Advance
  <2>3. ~Is(run'[t], "initial") /\ ~Is(run'[t], "published") /\ ~Pub(run'[t])
    BY <2>1, NotPublished
  <2>4. run'[t].base = {} => Text(t) = {}
    BY <1>0, <2>1 DEF TextHasSnapshot, Text
  <2> QED BY <1>1, <1>2, <2>1, <2>2, <2>3, <2>4 DEF Sess, Fresh
<1>7. ASSUME NEW c \in Contents, NEW raw \in BOOLEAN, PersistFails(t, c, raw) PROVE Keeps
  <2>1. /\ run'[t].update = <<>> /\ run'[t].doc = run[t].doc /\ run'[t].dirty = run[t].dirty
        /\ \E x : run'[t].snap = {x}
        /\ pc[t] = "snapshot" /\ pc'[t] = "finish"
    BY <1>0, <1>7 DEF PersistFails, Advance, Run, Held
  <2> QED BY <1>3, <2>1
<1>8. ASSUME NEW trivial \in BOOLEAN, Diff(t, trivial) PROVE Keeps
  <2>1. CASE trivial
    <3>1. /\ run'[t].update = <<>> /\ run'[t].doc = run[t].doc /\ run'[t].dirty = run[t].dirty
          /\ run'[t].snap = run[t].snap /\ pc[t] # "finish" /\ pc'[t] = "finish"
      BY <1>0, <1>8, <2>1 DEF Diff, Finish, Advance, Run, Held
    <3> QED BY <1>1, <1>3, <3>1 DEF Sess
  <2>2. CASE ~trivial
    <3>1. run'[t] = run[t] /\ pc[t] = "diff" /\ pc'[t] = "resolve"
      BY <1>0, <1>8, <2>2 DEF Diff, Advance
    <3> QED BY <1>1, <1>2, <3>1 DEF Sess, Fresh
  <2> QED BY <2>1, <2>2
\* What resolve_doc gives: the object the session has, the row, or a new one.
<1>9. ASSUME Resolve(t)
      PROVE  LET d == ResolvedDoc(t)
             IN /\ d # NoDoc /\ d.content \subseteq Done
                /\ Creates(t) => d.content = {} /\ Text(t) = {} /\ DocRowHolders(t, run[t].src) = {}
                /\ t \notin overtaken => d.content = Text(t)
  <2>1. pc[t] = "resolve"
    BY <1>9 DEF Resolve
  <2>2. /\ run[t].doc.content \subseteq Done
        /\ run[t].doc # NoDoc /\ t \notin overtaken => run[t].doc.content = Text(t)
    BY <1>1, <1>2, <2>1 DEF Sess, Fresh
  <2> QED BY <1>0, <1>9, <2>2 DEF Resolve, ResolvedDoc, Creates, NoDoc, Text
<1>10. CASE RejectOverQuota(t)
  <2> DEFINE u == [by |-> run[t].log, status |-> "rejected"]
  <2>1. u \in DocUpdate /\ u.status = "rejected"
    BY <1>0 DEF DocUpdate, Statuses
  <2>2. /\ run'[t].update = <<u>> /\ run'[t].snap = run[t].snap
        /\ run'[t].doc = ResolvedDoc(t) /\ (run'[t].dirty <=> Creates(t)) /\ pc'[t] = "finish"
    BY <1>0, <1>10 DEF RejectOverQuota, Advance, Run
  <2> HIDE DEF u
  <2>3. ~Is(run'[t], "initial") /\ ~Is(run'[t], "published") /\ ~Pub(run'[t])
    BY <2>1, <2>2, PublishedAs DEF Pub
  <2>4. Resolve(t)
    BY <1>10 DEF RejectOverQuota
  <2> QED BY <1>1, <1>9, <2>2, <2>3, <2>4 DEF Sess, Fresh
<1>11. CASE SkipWithoutKey(t) \/ QueueLLM(t)
  <2>1. /\ run'[t].update = <<>> /\ run'[t].snap = run[t].snap /\ pc[t] = "resolve"
        /\ run'[t].base = run[t].base /\ run'[t].force = run[t].force
        /\ run'[t].doc = ResolvedDoc(t) /\ (run'[t].dirty <=> Creates(t))
        /\ pc'[t] \in {"llm", "finish"}
    BY <1>0, <1>11 DEF SkipWithoutKey, QueueLLM, Resolve, Advance, Run, Held
  <2>2. ~Is(run'[t], "initial") /\ ~Is(run'[t], "published") /\ ~Pub(run'[t])
    BY <2>1, NotPublished
  <2>3. Resolve(t)
    BY <1>11 DEF SkipWithoutKey, QueueLLM
  <2> QED BY <1>1, <1>2, <1>9, <2>1, <2>2, <2>3 DEF Sess, Fresh
<1>12. CASE LLMAnswers(t)
  <2>1. run'[t] = run[t] /\ pc[t] = "llm" /\ pc'[t] = "publish"
    BY <1>0, <1>12 DEF LLMAnswers, Advance
  <2> QED BY <1>1, <1>2, <2>1 DEF Sess, Fresh
<1>13. CASE PublishInitial(t)
  <2> DEFINE u == [by |-> run[t].log, status |-> "initial"]
  <2>1. u \in DocUpdate /\ u.status = "initial"
    BY <1>0 DEF DocUpdate, Statuses, Applied
  <2>2. /\ run'[t].update = <<u>> /\ run'[t].snap = run[t].snap /\ run'[t].log = run[t].log
        /\ run'[t].doc.content = {run[t].log} /\ run'[t].dirty
        /\ pc[t] = "publish" /\ pc'[t] = "finish" /\ (run[t].force \/ run[t].base = {})
        /\ DocRowHolders(t, run[t].src) = {}
    BY <1>0, <1>13 DEF PublishInitial, IsInitial, Advance, Run
  <2> HIDE DEF u
  <2>3. Is(run'[t], "initial") /\ ~Is(run'[t], "published") /\ Pub(run'[t])
    BY <2>1, <2>2, PublishedAs DEF Pub
  <2> QED BY <1>1, <2>2, <2>3 DEF Sess, Fresh
<1>14. CASE PublishSection(t)
  <2> DEFINE u == [by |-> run[t].log, status |-> "published"]
  <2>1. u \in DocUpdate /\ u.status = "published"
    BY <1>0 DEF DocUpdate, Statuses, Applied
  <2>2. /\ run'[t].update = <<u>> /\ run'[t].snap = run[t].snap /\ run'[t].log = run[t].log
        /\ run'[t].doc.content = run[t].doc.content \cup {run[t].log} /\ run'[t].dirty
        /\ pc[t] = "publish" /\ pc'[t] = "finish"
        /\ DocRowHolders(t, run[t].src) = {}
    BY <1>0, <1>14 DEF PublishSection, Advance, Run, Doc
  <2> HIDE DEF u
  <2>3. Is(run'[t], "published") /\ ~Is(run'[t], "initial") /\ Pub(run'[t])
    BY <2>1, <2>2, PublishedAs DEF Pub
  <2> QED BY <1>1, <1>2, <2>2, <2>3 DEF Sess, Fresh
<1> QED
  BY <1>4, <1>5, <1>6, <1>7, <1>8, <1>10, <1>11, <1>12, <1>13, <1>14 DEF InRun

\* Nobody writes to a doc because another one does.
LEMMA WriterStays ==
    ASSUME OneWriter, \A t \in Tasks : run'[t].dirty => run[t].dirty /\ run'[t].src = run[t].src
    PROVE  OneWriter'
BY DEF OneWriter

\* A step that leaves the committed docs, snapshots and trails alone only has to say
\* what becomes of the sessions.
LEMMA OverlapStays ==
    ASSUME TypeInv, OverlapInv, OverlapNext, UNCHANGED <<docs, snaps, audit>>,
           Done \subseteq Done', OneWriter',
           \A t \in Tasks :
               /\ pc'[t] = "idle" => run'[t] = NoRun
               /\ pc'[t] # "idle" => Sess(run'[t], pc'[t], Text(t)', Done')
               /\ pc'[t] # "idle" /\ t \notin overtaken => Fresh(run'[t], pc'[t], Text(t)')
    PROVE  OverlapInv'
<1>1. ~ \E s \in Sources : Publishes(s)
  BY DEF Publishes
<1>2. /\ overtaken' = {t \in Tasks : pc'[t] # "idle" /\ t \in overtaken}
      /\ overwritten' = overwritten
  BY <1>1 DEF OverlapNext, Overtake
<1>3. \A t \in Tasks : Session(t)'
  BY <1>2 DEF Session
<1>4. TextHasSnapshot'
  BY DEF OverlapInv, TextHasSnapshot, Latest
<1>5. \A s \in Sources \ overwritten' : TrailTells(audit'[s], docs'[s].content)
  BY <1>2 DEF OverlapInv
<1> QED BY <1>2, <1>3, <1>4, <1>5 DEF OverlapInv

\* A session of which nothing has changed, while more runs have ended.
LEMMA SessFrame ==
    ASSUME NEW r, NEW phase, NEW text, NEW done, NEW more, Sess(r, phase, text, done),
           done \subseteq more
    PROVE  Sess(r, phase, text, more)
BY DEF Sess

\* A run that publishes: the doc it held was nobody else's, and only a session that
\* has read the doc before is built on something else now.
LEMMA OverlapCommit ==
    ASSUME TypeInv, TypeInv', Concluded, LogInv, TrailInv, OverlapInv, OverlapNext,
           NEW t \in Tasks, Commit(t), NEW s, NEW i, s = run[t].src, i = run[t].log
    PROVE  OverlapInv'
<1>a. /\ pc \in [Tasks -> Phases] /\ run \in [Tasks -> Run] /\ docs \in [Sources -> Doc]
      /\ snaps \in [Sources -> SUBSET Snapshot] /\ audit \in [Sources -> Seq(DocUpdate)]
      /\ logs \in Seq(LogRow) /\ DOMAIN logs = 1 .. Len(logs) /\ pc[t] = "finish"
      /\ run[t] \in Run
  BY DEF TypeInv, TypeOK, Commit
<1>b. /\ t \in Running /\ s \in Sources /\ i \in DOMAIN logs /\ logs[i].outcome = "running"
      /\ run[t].outcome # "running" /\ Session(t) /\ Held(run[t], pc[t])
      /\ audit[s] \in Seq(DocUpdate)
  <2>1. t \in Running
    BY <1>a DEF Running, Active
  <2> QED BY <1>a, <2>1 DEF Running, Active, TypeInv, Owned, LogInv, Concluded, OverlapInv, TrailInv
<1>1. /\ docs'[s] = IF run[t].dirty THEN run[t].doc ELSE docs[s]
      /\ snaps'[s] = snaps[s] \cup run[t].snap
      /\ audit'[s] = audit[s] \o run[t].update
      /\ \A x \in Sources \ {s} : docs'[x] = docs[x] /\ snaps'[x] = snaps[x] /\ audit'[x] = audit[x]
  BY <1>a, <1>b DEF Commit
<1>2. /\ pc'[t] = "idle" /\ run'[t] = NoRun
      /\ \A u \in Tasks \ {t} : pc'[u] = pc[u] /\ run'[u] = run[u]
  BY <1>a DEF Commit, Advance
<1>3. Done' = Done \cup {i} /\ i \notin Done
  <2>1. /\ DOMAIN logs' = DOMAIN logs /\ \A j \in DOMAIN logs \ {i} : logs'[j] = logs[j]
        /\ logs'[i].outcome = run[t].outcome
    BY <1>a, <1>b DEF Commit
  <2> QED BY <1>b, <2>1 DEF Done
<1>4. Sess(run[t], "finish", docs[s].content, Done) /\ docs[s].content \subseteq Done
  BY <1>a, <1>b DEF Session, Text, OverlapInv, TextHasSnapshot
<1>5. OneWriter'
  BY <1>2, WriterStays DEF OverlapInv, NoRun
\* Another writer of the doc there is not.
<1>6. \A u \in Tasks \ {t} : run[t].dirty /\ run[u].src = s => ~run[u].dirty
  BY DEF OverlapInv, OneWriter
<1>7. Pub(run[t]) <=> Publishes(s)
  <2>1. ASSUME Pub(run[t]) PROVE Publishes(s)
    BY <1>1, <1>3, <1>4, <2>1 DEF Sess, Publishes
  <2>2. ASSUME ~Pub(run[t]) PROVE ~Publishes(s)
    BY <1>1, <1>4, <2>2 DEF Sess, Publishes
  <2> QED BY <2>1, <2>2
<1>8. \A x \in Sources \ {s} : ~Publishes(x)
  BY <1>1 DEF Publishes
<1>9. ASSUME NEW u \in Tasks \ {t}, pc[u] # "idle"
      PROVE  /\ Text(u)' = docs'[run[u].src].content /\ run[u].src \in Sources
             /\ run[u].src # s \/ ~Pub(run[t]) => Text(u)' = Text(u)
  <2>1. run[u].src \in Sources
    BY <1>9 DEF TypeInv, Owned
  <2>2. Text(u)' = docs'[run[u].src].content
    BY <1>2 DEF Text
  <2> QED BY <1>7, <1>8, <2>1, <2>2 DEF Publishes, Text
<1>10. ASSUME NEW u \in Tasks \ {t}, pc[u] # "idle"
       PROVE  Sess(run'[u], pc'[u], Text(u)', Done')
  <2>1. Sess(run[u], pc[u], Text(u), Done')
    BY <1>3, <1>10, SessFrame DEF OverlapInv, Session
  <2>2. Text(u)' = Text(u) \/ ~run[u].dirty
    BY <1>4, <1>6, <1>9, <1>10 DEF Sess
  <2> QED BY <1>2, <2>1, <2>2 DEF Sess
<1>11. ASSUME NEW u \in Tasks \ {t}, pc[u] # "idle", u \notin overtaken'
       PROVE  Fresh(run'[u], pc'[u], Text(u)')
  <2>1. u \notin overtaken /\ ~Overtake(u)
    BY <1>2, <1>11 DEF OverlapNext
  <2>2. Sess(run[u], pc[u], Text(u), Done) /\ Fresh(run[u], pc[u], Text(u))
    BY <1>11, <2>1 DEF OverlapInv, Session
  <2>3. CASE run[u].src # s \/ ~Pub(run[t])
    BY <1>2, <1>9, <1>11, <2>2, <2>3
  <2>4. CASE run[u].src = s /\ Pub(run[t])
    <3>1. ~HasRead(u)
      BY <1>7, <1>b, <2>1, <2>4 DEF Overtake
    <3>2. ~Pub(run[u])
      BY <1>4, <1>6, <2>2, <2>4 DEF Sess
    <3> QED BY <1>2, <1>11, <3>1, <3>2 DEF HasRead, Fresh, Pub
  <2> QED BY <2>3, <2>4
<1>12. \A u \in Tasks : Session(u)'
  <2>1. \A u \in Tasks \ {t} : pc[u] = "idle" => run[u] = NoRun
    BY DEF OverlapInv, Session
  <2> QED BY <1>2, <1>10, <1>11, <2>1 DEF Session
<1>13. TextHasSnapshot'
  <2> SUFFICES ASSUME NEW x \in Sources
               PROVE  /\ docs'[x].content \subseteq Done'
                      /\ docs'[x].content # {} => snaps'[x] # {}
                      /\ snaps'[x] # {} => Latest(x)' # {}
    BY DEF TextHasSnapshot
  <2>1. /\ docs[x].content \subseteq Done
        /\ docs[x].content # {} => snaps[x] # {}
        /\ snaps[x] # {} => Latest(x) # {}
    BY DEF OverlapInv, TextHasSnapshot
  <2>2. CASE x # s
    BY <1>1, <1>3, <2>1, <2>2 DEF Latest
  <2>3. CASE x = s
    <3>1. docs'[s].content \subseteq Done'
      BY <1>1, <1>3, <1>4 DEF Sess
    <3>2. docs'[s].content # {} => snaps'[s] # {}
      BY <1>1, <1>4, <2>1, <2>3 DEF Sess
    <3>3. snaps'[s] # {} => Latest(s)' # {}
      <4>1. run[t].snap \subseteq Snapshot /\ \A y, z \in run[t].snap : y = z
        BY <1>a, <1>4 DEF Run, Sess
      <4> QED BY <1>1, <1>b, <2>1, <2>3, <4>1, LatestGrows DEF TypeInv
    <3> QED BY <2>3, <3>1, <3>2, <3>3
  <2> QED BY <2>2, <2>3
<1>14. ASSUME NEW x \in Sources \ overwritten' PROVE TrailTells(audit'[x], docs'[x].content)
  <2>1. x \notin overwritten /\ TrailTells(audit[x], docs[x].content)
    BY <1>14 DEF OverlapNext, OverlapInv
  <2>2. CASE x # s
    BY <1>1, <2>1, <2>2
  <2>3. CASE x = s /\ run[t].update = <<>>
    <3>1. ~Pub(run[t])
      BY <2>3, NotPublished
    <3>2. audit'[s] = audit[s]
      BY <1>1, <1>b, <2>3
    <3>3. docs'[s].content = docs[s].content
      BY <1>7, <3>1 DEF Publishes
    <3> QED BY <2>1, <2>3, <3>2, <3>3
  <2>4. ASSUME x = s, NEW u \in DocUpdate, run[t].update = <<u>>, u.by = i
        PROVE  TrailTells(audit'[x], docs'[x].content)
    <3>1. \A status : Is(run[t], status) <=> u.status = status
      BY <2>4, PublishedAs
    <3>2. ASSUME Pub(run[t]) PROVE Fresh(run[t], "finish", docs[s].content) /\ run[t].dirty
      <4>1. Publishes(s) /\ Ends(t)
        BY <1>2, <1>7, <1>a, <3>2 DEF Ends
      <4>2. t \notin overtaken
        BY <1>14, <1>b, <2>4, <4>1 DEF OverlapNext
      <4> QED BY <1>4, <1>a, <1>b, <3>2, <4>2 DEF Session, Text, Sess
    <3>3. /\ u.status = "rejected" => docs'[s].content = docs[s].content
          /\ u.status = "published" => docs'[s].content = docs[s].content \cup {i}
          /\ u.status = "initial" => docs[s].content = {} /\ docs'[s].content = {i}
      <4>1. u.status = "rejected" => ~Pub(run[t])
        BY <3>1 DEF Pub
      <4>2. u.status \in {"published", "initial"} => Pub(run[t])
        BY <3>1 DEF Pub
      <4>3. u.status = "rejected" => docs'[s].content = docs[s].content
        BY <1>7, <4>1 DEF Publishes
      <4> QED BY <1>1, <3>1, <3>2, <4>2, <4>3 DEF Fresh
    <3>4. TrailTells(audit[s], docs[s].content) /\ audit'[s] = audit[s] \o <<u>>
      BY <1>1, <2>1, <2>4
    <3>5. TrailTells(audit[s] \o <<u>>, docs'[s].content)
      BY <1>b, <2>4, <3>3, <3>4, TrailTold
    <3> QED BY <2>4, <3>4, <3>5
  <2> QED BY <1>b, <2>2, <2>3, <2>4 DEF Held
<1>15. overtaken' \subseteq {u \in Tasks : pc'[u] # "idle"}
  BY DEF OverlapNext
<1> QED BY <1>5, <1>12, <1>13, <1>14, <1>15 DEF OverlapInv

LEMMA OverlapInvInit == OverlapInit => OverlapInv
<1> SUFFICES ASSUME OverlapInit PROVE OverlapInv
  OBVIOUS
<1>1. \A s \in Sources : docs[s].content = {} /\ snaps[s] = {} /\ audit[s] = <<>>
  BY DEF OverlapInit, Init, NoDoc
<1>2. \A t \in Tasks : pc[t] = "idle" /\ run[t] = NoRun
  BY DEF OverlapInit, Init
<1>3. TrailTells(<<>>, {})
  BY DEF TrailTells, Ledger!View
<1>4. overtaken = {} /\ OneWriter /\ TextHasSnapshot
  BY <1>1, <1>2 DEF OverlapInit, OneWriter, NoRun, TextHasSnapshot
<1>5. \A t \in Tasks : Session(t)
  BY <1>2 DEF Session
<1> QED BY <1>1, <1>3, <1>4, <1>5 DEF OverlapInv

LEMMA OverlapStep ==
    TypeInv /\ TypeInv' /\ Concluded /\ LogInv /\ TrailInv /\ OverlapInv
        /\ [OverlapNext]_overlapVars => OverlapInv'
<1> SUFFICES ASSUME TypeInv, TypeInv', Concluded, LogInv, TrailInv, OverlapInv,
                    [OverlapNext]_overlapVars
             PROVE  OverlapInv'
    OBVIOUS
<1>a. /\ pc \in [Tasks -> Phases] /\ run \in [Tasks -> Run] /\ OneWriter
      /\ \A t \in Tasks : Session(t) /\ Held(run[t], pc[t])
      /\ logs \in Seq(LogRow) /\ DOMAIN logs = 1 .. Len(logs) /\ Len(logs) \in Nat
  BY DEF TypeInv, TypeOK, OverlapInv, TrailInv
\* A task that a step leaves alone, or ends.
<1>b. ASSUME UNCHANGED docs, Done \subseteq Done', NEW u \in Tasks,
             \/ pc'[u] = pc[u] /\ run'[u] = run[u]
             \/ pc'[u] = "idle" /\ run'[u] = NoRun
      PROVE  /\ pc'[u] = "idle" => run'[u] = NoRun
             /\ pc'[u] # "idle" => Sess(run'[u], pc'[u], Text(u)', Done')
             /\ pc'[u] # "idle" /\ u \notin overtaken => Fresh(run'[u], pc'[u], Text(u)')
  BY <1>a, <1>b, SessFrame DEF Session, Text
<1>0. CASE UNCHANGED overlapVars
  <2>1. Done' = Done /\ \A t : Text(t)' = Text(t)
    BY <1>0 DEF overlapVars, vars, Done, Text
  <2>2. \A t \in Tasks : Session(t)'
    BY <1>0, <1>a, <2>1 DEF overlapVars, vars, Session
  <2>3. OneWriter' /\ TextHasSnapshot'
    BY <1>0, <2>1 DEF OverlapInv, overlapVars, vars, OneWriter, TextHasSnapshot, Latest
  <2> QED BY <1>0, <2>2, <2>3 DEF OverlapInv, overlapVars, vars
<1> SUFFICES ASSUME OverlapNext PROVE OverlapInv'
  BY <1>0
\* Steps that end some tasks and leave the others alone.
<1>1. ASSUME UNCHANGED <<docs, snaps, audit>>, Done \subseteq Done',
             \A u \in Tasks : \/ pc'[u] = pc[u] /\ run'[u] = run[u]
                              \/ pc'[u] = "idle" /\ run'[u] = NoRun
      PROVE  OverlapInv'
  <2>1. OneWriter'
    BY <1>1, <1>a, WriterStays DEF NoRun
  <2> QED BY <1>1, <1>b, <2>1, OverlapStays
<1>2. CASE UNCHANGED vars
  BY <1>1, <1>2 DEF vars, Done
<1>3. ASSUME NEW s \in Sources, NEW c \in Contents, Change(s, c) PROVE OverlapInv'
  BY <1>1, <1>3 DEF Change, db, Done
<1>4. ASSUME NEW t \in Tasks, NEW s \in Sources, LoadSourceWithDoc(t, s) PROVE OverlapInv'
  <2>1. UNCHANGED <<docs, snaps, audit>> /\ Done' = Done
    BY <1>4 DEF LoadSourceWithDoc, quiet, Done
  <2>2. /\ run[t] = NoRun /\ pc'[t] = "loaded" /\ run'[t].src = s /\ run'[t].doc = docs[s]
        /\ (run'[t].force <=> docs[s].content = {}) /\ ~run'[t].dirty
        /\ run'[t].snap = {} /\ run'[t].update = <<>>
    BY <1>4, <1>a DEF LoadSourceWithDoc, Advance, Session, Run, NoRun
  <2>3. \A u \in Tasks \ {t} : pc'[u] = pc[u] /\ run'[u] = run[u]
    BY <1>4, <1>a DEF LoadSourceWithDoc, Advance
  <2>4. ~Is(run'[t], "initial") /\ ~Is(run'[t], "published") /\ ~Pub(run'[t])
    BY <2>2, NotPublished
  <2>5. Text(t)' = docs[s].content /\ docs[s].content \subseteq Done
    BY <2>1, <2>2 DEF Text, OverlapInv, TextHasSnapshot
  <2>6. Sess(run'[t], pc'[t], Text(t)', Done') /\ Fresh(run'[t], pc'[t], Text(t)')
    BY <2>1, <2>2, <2>4, <2>5 DEF Sess, Fresh
  <2>7. OneWriter'
    BY <1>a, <2>2, <2>3, WriterStays
  <2> QED BY <1>b, <2>1, <2>2, <2>3, <2>6, <2>7, OverlapStays
<1>5. ASSUME NEW t \in Tasks, NEW s \in Sources, Skip(t, s) PROVE OverlapInv'
  <2>1. \A i \in DOMAIN logs : i \in DOMAIN logs' /\ logs'[i] = logs[i]
    BY <1>5, <1>a DEF Skip
  <2>2. Done \subseteq Done'
    BY <2>1 DEF Done
  <2> QED BY <1>5, <1>1, <1>a, <2>2 DEF Skip, Advance
<1>6. ASSUME NEW t \in Tasks, NEW s \in Sources, Begin(t, s) PROVE OverlapInv'
  <2>1. \A i \in DOMAIN logs : i \in DOMAIN logs' /\ logs'[i] = logs[i]
    BY <1>6, <1>a DEF Begin
  <2>2. Done \subseteq Done' /\ UNCHANGED <<docs, snaps, audit>>
    BY <1>6, <2>1 DEF Done, Begin
  <2>3. /\ pc[t] = "idle" \/ (pc[t] = "loaded" /\ run[t].src = s)
        /\ pc'[t] = "fetch"
        /\ run'[t].src = s /\ run'[t].doc = run[t].doc /\ run'[t].force = run[t].force
        /\ run'[t].dirty = run[t].dirty /\ run'[t].snap = run[t].snap
        /\ run'[t].update = run[t].update
    BY <1>6, <1>a DEF Begin, CanTrigger, Advance, Run
  <2>4. \A u \in Tasks \ {t} : pc'[u] = pc[u] /\ run'[u] = run[u]
    BY <1>6, <1>a DEF Begin, Advance
  <2>5. ~Is(run'[t], "initial") /\ ~Is(run'[t], "published") /\ ~Pub(run'[t])
    BY <1>a, <2>3, NotPublished DEF Held
  <2>6. Text(t)' = docs[s].content
    BY <2>2, <2>3 DEF Text
  <2>7. CASE pc[t] = "idle"
    <3>1. /\ run'[t].doc = NoDoc /\ ~run'[t].force /\ ~run'[t].dirty /\ run'[t].snap = {}
      BY <1>a, <2>3, <2>7 DEF Session, NoRun
    <3>2. Sess(run'[t], pc'[t], Text(t)', Done') /\ Fresh(run'[t], pc'[t], Text(t)')
      BY <2>3, <2>5, <3>1 DEF Sess, Fresh, NoDoc
    <3>3. OneWriter'
      BY <1>a, <2>4, <3>1, WriterStays
    <3> QED BY <1>b, <2>2, <2>3, <2>4, <3>2, <3>3, OverlapStays
  <2>8. CASE pc[t] = "loaded" /\ run[t].src = s
    <3>1. /\ Sess(run[t], "loaded", docs[s].content, Done)
          /\ t \notin overtaken => Fresh(run[t], "loaded", docs[s].content)
      BY <1>a, <2>8 DEF Session, Text
    <3>2. Sess(run'[t], pc'[t], Text(t)', Done')
      BY <2>2, <2>3, <2>5, <2>6, <3>1 DEF Sess
    <3>3. t \notin overtaken => Fresh(run'[t], pc'[t], Text(t)')
      BY <2>3, <2>5, <2>6, <3>1 DEF Fresh
    <3>4. OneWriter'
      BY <1>a, <2>3, <2>4, <2>8, WriterStays
    <3> QED BY <1>b, <2>2, <2>3, <2>4, <3>2, <3>3, <3>4, OverlapStays
  <2> QED BY <2>3, <2>7, <2>8
<1>7. ASSUME NEW t \in Tasks, InRun(t) PROVE OverlapInv'
  <2>1. PICK r \in Run : Moves(t, r)
    BY <1>7, StepIsLocal DEF Local
  <2>2. UNCHANGED <<docs, snaps, audit>> /\ Done' = Done
    BY <2>1 DEF Moves, Done
  <2>3. /\ pc'[t] # "idle" /\ run'[t].src = run[t].src
        /\ \A u \in Tasks \ {t} : pc'[u] = pc[u] /\ run'[u] = run[u]
    BY <1>a, <2>1 DEF Moves, Advance
  <2>4. /\ Sess(run'[t], pc'[t], Text(t)', Done')
        /\ t \notin overtaken => Fresh(run'[t], pc'[t], Text(t)')
        /\ run'[t].dirty => run[t].dirty \/ DocRowHolders(t, run[t].src) = {}
    BY <1>7, <1>a, <2>2, <2>3, SessionInRun DEF OverlapInv, Text
  <2>5. OneWriter'
    BY <1>a, <2>3, <2>4 DEF OneWriter, DocRowHolders
  <2> QED BY <1>b, <2>2, <2>3, <2>4, <2>5, OverlapStays
<1>8. ASSUME NEW t \in Tasks, FlushFails(t) PROVE OverlapInv'
  BY <1>8, <1>1, <1>a DEF FlushFails, db, Advance, Done
<1>9. ASSUME NEW p \in Procs, Crash(p) PROVE OverlapInv'
  BY <1>9, <1>1, <1>a DEF Crash, db, Done
<1>10. ASSUME NEW t \in Tasks, Commit(t) PROVE OverlapInv'
  BY <1>10, OverlapCommit
<1>11. [Next]_vars
  BY DEF OverlapNext
<1> QED
  BY <1>2, <1>3, <1>4, <1>5, <1>6, <1>7, <1>8, <1>9, <1>10, <1>11, NextCases

\* The history is one of Pipeline: whatever holds of its behaviours holds here.
LEMMA OverlapIsPipeline == OverlapSpec => Spec
<1>1. OverlapInit => Init
  BY DEF OverlapInit
<1>2. [OverlapNext]_overlapVars => [Next]_vars
  BY DEF OverlapNext, overlapVars
<1> QED BY <1>1, <1>2, PTL DEF OverlapSpec, Spec

LEMMA RunsInvariant == Spec => [](TypeInv /\ Concluded /\ LogInv /\ TrailInv)
<1>1. Init => Concluded /\ LogInv /\ TrailInv
  BY DEF Init, LogInv, Concluded, RunningHasOwner, TrailInv, RowsFit, Held, NoRun,
     Plain, Running, Active
<1> QED
  BY <1>1, TypeInvariant, ConcludedNext, LogNext, TrailNext, PTL DEF Spec

LEMMA OverlapInvariant == OverlapSpec => []OverlapInv
BY OverlapInvInit, OverlapStep, OverlapIsPipeline, RunsInvariant, PTL DEF OverlapSpec

-----------------------------------------------------------------------------
(* The theorems about overlapping runs. *)

\* In any deployment, a doc that lacks a published update is one that a run has
\* published to from what it read before another one published.
THEOREM LossesAreOverwrites == OverlapSpec => []LossIsOverwrite
<1>1. OverlapInv => LossIsOverwrite
  BY DEF OverlapInv, LossIsOverwrite, TrailTells
<1> QED BY <1>1, OverlapInvariant, PTL

\* In any deployment, initial documentation is written twice only by such a run.
THEOREM SecondInitialsAreOverwrites == OverlapSpec => []SecondInitialIsOverwrite
<1>1. OverlapInv => SecondInitialIsOverwrite
  BY DEF OverlapInv, SecondInitialIsOverwrite, TrailTells
<1> QED BY <1>1, OverlapInvariant, PTL

\* In any deployment, a run that waits for a doc waits for one that does not.
THEOREM RunsDoNotDeadlock == OverlapSpec => []NoCircularWait
<1>1. OverlapInv => NoCircularWait
  <2> SUFFICES ASSUME OverlapInv, NEW t \in Tasks, Waiting(t)
               PROVE  \E u \in DocRowHolders(t, run[t].src) : ~Waiting(u)
    BY DEF NoCircularWait
  <2>1. PICK u \in DocRowHolders(t, run[t].src) : TRUE
    BY DEF Waiting
  <2>2. DocRowHolders(u, run[u].src) = {}
    BY <2>1 DEF OverlapInv, OneWriter, DocRowHolders
  <2> QED BY <2>1, <2>2 DEF Waiting
<1> QED BY <1>1, OverlapInvariant, PTL

-----------------------------------------------------------------------------
(* Progress: the safety half of RunEnds, for any deployment. *)

\* The phases of a run in the order it takes them.
Rank == [fetch |-> 1, snapshot |-> 2, diff |-> 3, resolve |-> 4, llm |-> 5,
         publish |-> 6, finish |-> 7, idle |-> 8]

\* A run only moves forward, whatever fails on the way and whoever ends it: every
\* step of its task takes it to a later phase, so a run has at most seven.
THEOREM RunsMoveForward ==
    Spec => [][\A t \in Tasks : Active(t) /\ (Step(t) \/ pc'[t] # pc[t])
                  => Rank[pc[t]] < Rank[pc'[t]]]_vars
<1> DEFINE Forward == \A t \in Tasks : Active(t) /\ (Step(t) \/ pc'[t] # pc[t])
                         => Rank[pc[t]] < Rank[pc'[t]]
<1>1. ASSUME TypeInv, [Next]_vars PROVE Forward \/ UNCHANGED vars
  <2> SUFFICES ASSUME NEW t \in Tasks, Active(t), Step(t) \/ pc'[t] # pc[t], Next
               PROVE  Rank[pc[t]] < Rank[pc'[t]]
    BY <1>1
  <2>a. pc \in [Tasks -> Phases] /\ pc[t] \in Phases \ {"idle", "loaded"}
    BY <1>1 DEF TypeInv, TypeOK, Active
  <2>b. \A phase \in Phases \ {"idle", "loaded"} : Rank[phase] < Rank["idle"]
    BY DEF Rank, Phases
  <2>1. CASE InRun(t)
    <3>1. CASE Fetch(t) \/ FetchFails(t)
      BY <2>a, <3>1 DEF Fetch, FetchFails, Finish, Advance, Rank
    <3>2. CASE \E c \in Contents : Persist(t, c) \/ \E raw \in BOOLEAN : PersistFails(t, c, raw)
      <4>1. pc[t] = "snapshot" /\ pc'[t] \in {"diff", "resolve", "finish"}
        BY <2>a, <3>2 DEF Persist, PersistFails, Advance
      <4> QED BY <4>1 DEF Rank
    <3>3. CASE (\E trivial \in BOOLEAN : Diff(t, trivial)) \/ DiffFails(t)
      BY <2>a, <3>3 DEF Diff, DiffFails, Finish, Advance, Rank
    <3>4. CASE RejectOverQuota(t) \/ SkipWithoutKey(t) \/ QueueLLM(t)
      BY <2>a, <3>4 DEF RejectOverQuota, SkipWithoutKey, QueueLLM, Resolve, Advance, Rank
    <3>5. CASE LLMAnswers(t) \/ LLMFails(t)
      BY <2>a, <3>5 DEF LLMAnswers, LLMFails, Finish, Advance, Rank
    <3>6. CASE PublishInitial(t) \/ PublishSection(t) \/ PublishRefused(t)
      BY <2>a, <3>6 DEF PublishInitial, PublishSection, PublishRefused, Finish, Advance, Rank
    <3> QED BY <2>1, <3>1, <3>2, <3>3, <3>4, <3>5, <3>6 DEF InRun
  <2>2. CASE Commit(t) \/ FlushFails(t)
    <3>1. pc'[t] = "idle"
      BY <2>a, <2>2 DEF Commit, FlushFails, Advance
    <3> QED BY <2>a, <2>b, <3>1
  <2>3. CASE \E s \in Sources : Skip(t, s) \/ Begin(t, s)
    BY <2>a, <2>3 DEF Skip, Begin, CanTrigger
  <2>4. CASE pc'[t] # pc[t] /\ ~Step(t)
    <3>1. ASSUME NEW u \in Tasks \ {t}, Step(u) PROVE pc'[t] = pc[t]
      <4>1. ASSUME InRun(u) PROVE pc'[t] = pc[t]
        BY <1>1, <2>a, <4>1, StepIsLocal DEF Local, Moves, Advance
      <4> QED BY <2>a, <3>1, <4>1 DEF Step, InRun, Skip, Begin, Commit, FlushFails, Advance
    <3>2. ASSUME NEW u \in Tasks, NEW s \in Sources, LoadSourceWithDoc(u, s) PROVE pc'[t] = pc[t]
      BY <2>a, <3>2 DEF LoadSourceWithDoc, Advance
    <3>3. ASSUME NEW p \in Procs, Crash(p) PROVE pc'[t] = "idle" \/ pc'[t] = pc[t]
      BY <2>a, <3>3 DEF Crash
    <3>4. pc'[t] = "idle"
      BY <2>4, <3>1, <3>2, <3>3 DEF Next, Change
    <3> QED BY <2>a, <2>b, <3>4
  <2> QED BY <2>1, <2>2, <2>3, <2>4 DEF Step, InRun
<1>2. TypeInv /\ [Next]_vars => [Forward]_vars
  BY <1>1
<1> QED BY <1>2, TypeInvariant, PTL DEF Spec
=============================================================================
