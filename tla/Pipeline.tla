------------------------------- MODULE Pipeline -------------------------------
(***************************************************************************)
(* The fetch -> snapshot -> diff -> LLM -> publish pipeline of one source  *)
(* (app/scheduler/pipeline.py), run by asyncio tasks in one or several OS  *)
(* processes against one database.                                         *)
(*                                                                         *)
(* Each task owns an AsyncSession.  Whatever the code adds or modifies and *)
(* flushes stays in the task's record run[t] until session.commit(), when  *)
(* all of it reaches the committed tables at once; a rollback or a crash   *)
(* drops it.  One action is the code between two awaits that other tasks   *)
(* can interleave with.  An optional value is a set of at most one member. *)
(* Texts are abstracted to what is told apart: a source's content is a     *)
(* member of Contents, and the markdown of a doc is the set of runs whose  *)
(* update went into it (in its text, or under a later update of the same   *)
(* section).                                                               *)
(***************************************************************************)
EXTENDS Naturals, Sequences, FiniteSets

CONSTANTS
    Procs,      \* OS processes: API workers and the scheduler, one event loop each
    Tasks,      \* asyncio tasks that can run the pipeline
    ProcOf,     \* the process of a task
    Manual,     \* tasks that serve POST run-now; the others are interval jobs
    Sources,
    NoSource,   \* src of an idle task
    Contents,   \* normalized contents a source can serve; hashes are injective
    MaxRuns     \* bound: rows ever inserted in run_logs

ASSUME PipelineAssumption ==
    /\ ProcOf \in [Tasks -> Procs]
    /\ Manual \subseteq Tasks
    /\ NoSource \notin Sources
    /\ MaxRuns \in Nat

VARIABLES
    world,      \* what each source serves now (external)
    logs,       \* table run_logs, in id order
    snaps,      \* table snapshots, per source; id is also the fetched_at order
    docs,       \* table docs, per source; version 0 stands for no row
    audit,      \* table doc_updates, per source, in id order
    nextSnap,   \* the snapshots identity sequence (not transactional)
    locked,     \* _SOURCE_LOCKS of every process that are held
    pc,         \* where a task is
    run,        \* the session and local variables of a task
    lost        \* history: run_logs ids whose session died without committing

vars == <<world, logs, snaps, docs, audit, nextSnap, locked, pc, run, lost>>

-----------------------------------------------------------------------------
RunIds    == 1 .. MaxRuns
Applied   == {"initial", "published"}
Statuses  == Applied \cup {"rejected"}
Outcomes  == {"running", "skipped", "failed", "success", "success_no_change",
              "success_trivial", "success_skipped", "success_quota_rejected",
              "success_initial_doc"}
Phases    == {"idle", "loaded", "fetch", "snapshot", "diff", "resolve", "llm",
              "publish", "finish"}

LogRow    == [src : Sources, outcome : Outcomes]
Snapshot  == [id : Nat, hash : Contents, stored : BOOLEAN, by : RunIds]
Doc       == [version : Nat, content : SUBSET RunIds]
DocUpdate == [by : RunIds, status : Statuses]

NoDoc == [version |-> 0, content |-> {}]

Run == [src     : Sources \cup {NoSource},
        log     : Nat,                \* id of this run's run_logs row
        force   : BOOLEAN,            \* force_initial_doc
        got     : SUBSET Contents,    \* AdapterResult.normalized
        base    : SUBSET Snapshot,    \* latest
        snap    : SUBSET Snapshot,    \* new_snapshot, flushed
        doc     : Doc,                \* the Doc object of the identity map
        dirty   : BOOLEAN,            \* the Doc object was created or modified
        update  : Seq(DocUpdate),      \* the DocUpdate row, flushed
        outcome : Outcomes]

NoRun == [src |-> NoSource, log |-> 0, force |-> FALSE, got |-> {}, base |-> {},
          snap |-> {}, doc |-> NoDoc, dirty |-> FALSE, update |-> <<>>,
          outcome |-> "running"]

TypeOK ==
    /\ world \in [Sources -> Contents]
    /\ logs \in Seq(LogRow)
    /\ snaps \in [Sources -> SUBSET Snapshot]
    /\ docs \in [Sources -> Doc]
    /\ audit \in [Sources -> Seq(DocUpdate)]
    /\ nextSnap \in Nat
    /\ locked \in SUBSET (Procs \X Sources)
    /\ pc \in [Tasks -> Phases]
    /\ run \in [Tasks -> Run]
    /\ lost \in SUBSET Nat

Init ==
    /\ world \in [Sources -> Contents]
    /\ logs = <<>>
    /\ snaps = [s \in Sources |-> {}]
    /\ docs = [s \in Sources |-> NoDoc]
    /\ audit = [s \in Sources |-> <<>>]
    /\ nextSnap = 1
    /\ locked = {}
    /\ pc = [t \in Tasks |-> "idle"]
    /\ run = [t \in Tasks |-> NoRun]
    /\ lost = {}

-----------------------------------------------------------------------------
Active(t) == pc[t] \notin {"idle", "loaded"}
Key(t)    == <<ProcOf[t], run[t].src>>
\* Mutant of Latest: a strict comparison.
LatestStrict(s) == {x \in snaps[s] : \A y \in snaps[s] : y.id < x.id}

Latest(s) == {x \in snaps[s] : \A y \in snaps[s] : y.id <= x.id}

\* The other tasks whose open transaction holds a docs row of source s.
DocRowHolders(t, s) ==
    {u \in Tasks \ {t} : run[u].src = s /\ run[u].dirty}

db    == <<logs, snaps, docs, audit, nextSnap>>
quiet == <<world, logs, snaps, docs, audit, nextSnap, locked, lost>>

Advance(t, phase) == pc' = [pc EXCEPT ![t] = phase]

\* Leave _execute_pipeline: the try block or the except block is about to commit.
Finish(t, outcome) ==
    /\ run' = [run EXCEPT ![t].outcome = outcome]
    /\ Advance(t, "finish")

-----------------------------------------------------------------------------
(* External: the tracked page or spec changes. *)
Change(s, c) ==
    /\ c # world[s]
    /\ world' = [world EXCEPT ![s] = c]
    /\ UNCHANGED <<db, locked, pc, run, lost>>

(* run_source_now reads the source and its doc before it enters the pipeline. *)
LoadSourceWithDoc(t, s) ==
    /\ t \in Manual
    /\ pc[t] = "idle"
    /\ Len(logs) < MaxRuns
    /\ run' = [run EXCEPT ![t].src = s, ![t].doc = docs[s],
                          ![t].force = docs[s].content = {}]
    /\ Advance(t, "loaded")
    /\ UNCHANGED quiet

CanTrigger(t, s) ==
    /\ Len(logs) < MaxRuns
    /\ \/ t \notin Manual /\ pc[t] = "idle"
       \/ t \in Manual /\ pc[t] = "loaded" /\ run[t].src = s

(* trigger_pipeline_run, lock already held: a "skipped" row and nothing else. *)
Skip(t, s) ==
    /\ CanTrigger(t, s)
    /\ <<ProcOf[t], s>> \in locked
    /\ logs' = Append(logs, [src |-> s, outcome |-> "skipped"])
    /\ run' = [run EXCEPT ![t] = NoRun]
    /\ Advance(t, "idle")
    /\ UNCHANGED <<world, snaps, docs, audit, nextSnap, locked, lost>>

\* Mutant of Begin: the lock is taken without looking whether it is held.
BeginUnlocked(t, s) ==
    /\ CanTrigger(t, s)
    /\ locked' = locked \cup {<<ProcOf[t], s>>}
    /\ logs' = Append(logs, [src |-> s, outcome |-> "running"])
    /\ run' = [run EXCEPT ![t].src = s, ![t].log = Len(logs) + 1]
    /\ Advance(t, "fetch")
    /\ UNCHANGED <<world, snaps, docs, audit, nextSnap, lost>>

(* trigger_pipeline_run, lock free: take it and commit a "running" row. *)
Begin(t, s) ==
    /\ CanTrigger(t, s)
    /\ <<ProcOf[t], s>> \notin locked
    /\ locked' = locked \cup {<<ProcOf[t], s>>}
    /\ logs' = Append(logs, [src |-> s, outcome |-> "running"])
    /\ run' = [run EXCEPT ![t].src = s, ![t].log = Len(logs) + 1]
    /\ Advance(t, "fetch")
    /\ UNCHANGED <<world, snaps, docs, audit, nextSnap, lost>>

(* adapter.fetch returns what the source serves ... *)
Fetch(t) ==
    /\ pc[t] = "fetch"
    /\ run' = [run EXCEPT ![t].got = {world[run[t].src]}]
    /\ Advance(t, "snapshot")
    /\ UNCHANGED quiet

(* ... or raises: HTTP error, unparsable spec, refused URL. *)
FetchFails(t) ==
    /\ pc[t] = "fetch"
    /\ Finish(t, "failed")
    /\ UNCHANGED quiet

(* _get_latest_snapshot, then _persist_snapshot: the row is flushed with an  *)
(* empty ref, the blob written, the ref filled in.  The branch that follows  *)
(* picks initial documentation, "no change" or a diff.                       *)
Persist(t, c) ==
    LET latest == Latest(run[t].src)
        same   == \E x \in latest : x.hash = c
    IN /\ pc[t] = "snapshot"
       /\ c \in run[t].got
       /\ run' = [run EXCEPT
               ![t].base = latest,
               ![t].snap = {[id |-> nextSnap, hash |-> c, stored |-> TRUE,
                             by |-> run[t].log]},
               ![t].outcome = IF ~run[t].force /\ same
                              THEN "success_no_change" ELSE "running"]
       /\ nextSnap' = nextSnap + 1
       /\ Advance(t, IF run[t].force \/ latest = {} THEN "resolve"
                     ELSE IF same THEN "finish" ELSE "diff")
       /\ UNCHANGED <<world, logs, snaps, docs, audit, locked, lost>>

(* store.write_raw raises, for the raw content (the row stays flushed without *)
(* its blob) or for the screenshot.                                           *)
PersistFails(t, c, raw) ==
    /\ pc[t] = "snapshot"
    /\ c \in run[t].got
    /\ run' = [run EXCEPT
            ![t].base = Latest(run[t].src),
            ![t].snap = {[id |-> nextSnap, hash |-> c, stored |-> raw,
                          by |-> run[t].log]},
            ![t].outcome = "failed"]
    /\ nextSnap' = nextSnap + 1
    /\ Advance(t, "finish")
    /\ UNCHANGED <<world, logs, snaps, docs, audit, locked, lost>>

(* _compute_diff reads both blobs and judges the change. *)
Diff(t, trivial) ==
    /\ pc[t] = "diff"
    /\ \A x \in run[t].base : x.stored
    /\ IF trivial THEN Finish(t, "success_trivial")
                  ELSE Advance(t, "resolve") /\ UNCHANGED run
    /\ UNCHANGED quiet

\* Mutant of DiffFails: the except block does not set the outcome.
DiffFailsSilently(t) ==
    /\ pc[t] = "diff"
    /\ Advance(t, "finish")
    /\ UNCHANGED <<quiet, run>>

DiffFails(t) ==
    /\ pc[t] = "diff"
    /\ Finish(t, "failed")
    /\ UNCHANGED quiet

\* Mutant of ResolvedDoc: a doc is created without looking for the row.
ResolvedDocBlank(t) == [version |-> 1, content |-> {}]

(* resolve_doc: the Doc object already in the identity map wins over the row *)
(* the SELECT returns; without any, a row is inserted (and waits for another *)
(* transaction inserting the same slug).                                     *)
ResolvedDoc(t) ==
    LET s == run[t].src
    IN IF run[t].doc # NoDoc THEN run[t].doc
       ELSE IF docs[s] # NoDoc THEN docs[s]
       ELSE [version |-> 1, content |-> {}]

Creates(t) == run[t].doc = NoDoc /\ docs[run[t].src] = NoDoc

Resolve(t) ==
    /\ pc[t] = "resolve"
    /\ Creates(t) => DocRowHolders(t, run[t].src) = {}

\* Mutant of RejectOverQuota: the audit row keeps the default status.
RejectAsPublished(t) ==
    /\ Resolve(t)
    /\ run' = [run EXCEPT
            ![t].doc = ResolvedDoc(t), ![t].dirty = Creates(t),
            ![t].update = <<[by |-> run[t].log, status |-> "published"]>>,
            ![t].outcome = "success_quota_rejected"]
    /\ Advance(t, "finish")
    /\ UNCHANGED quiet

(* Over quota: an audit row with status "rejected", and no LLM call. *)
RejectOverQuota(t) ==
    /\ Resolve(t)
    /\ run' = [run EXCEPT
            ![t].doc = ResolvedDoc(t), ![t].dirty = Creates(t),
            ![t].update = <<[by |-> run[t].log, status |-> "rejected"]>>,
            ![t].outcome = "success_quota_rejected"]
    /\ Advance(t, "finish")
    /\ UNCHANGED quiet

(* No NVIDIA key configured: the run ends without calling the LLM. *)
SkipWithoutKey(t) ==
    /\ Resolve(t)
    /\ run' = [run EXCEPT ![t].doc = ResolvedDoc(t), ![t].dirty = Creates(t),
                          ![t].outcome = "success_skipped"]
    /\ Advance(t, "finish")
    /\ UNCHANGED quiet

\* Mutant of QueueLLM: the row found is written too, without waiting for it.
QueueLLMTouching(t) ==
    /\ Resolve(t)
    /\ run' = [run EXCEPT ![t].doc = ResolvedDoc(t), ![t].dirty = TRUE]
    /\ Advance(t, "llm")
    /\ UNCHANGED quiet

QueueLLM(t) ==
    /\ Resolve(t)
    /\ run' = [run EXCEPT ![t].doc = ResolvedDoc(t), ![t].dirty = Creates(t)]
    /\ Advance(t, "llm")
    /\ UNCHANGED quiet

(* The queued LLM call returns an update, or raises once its retry is spent. *)
LLMAnswers(t) ==
    /\ pc[t] = "llm"
    /\ Advance(t, "publish")
    /\ UNCHANGED <<quiet, run>>

\* Mutant of LLMFails: a failed call is queued again, without end.
LLMFailsRequeues(t) ==
    /\ pc[t] = "llm"
    /\ Advance(t, "resolve")
    /\ UNCHANGED <<quiet, run>>

LLMFails(t) ==
    /\ pc[t] = "llm"
    /\ Finish(t, "failed")
    /\ UNCHANGED quiet

IsInitial(t) == run[t].force \/ run[t].base = {}

(* publish_initial_doc replaces the whole content, publish_to_db one section *)
(* of the content the session holds; both bump the version and flush, which  *)
(* waits for the row lock.                                                   *)
PublishInitial(t) ==
    /\ pc[t] = "publish"
    /\ IsInitial(t)
    /\ DocRowHolders(t, run[t].src) = {}
    /\ run' = [run EXCEPT
            ![t].doc = [version |-> @.version + 1, content |-> {run[t].log}],
            ![t].dirty = TRUE,
            ![t].update = <<[by |-> run[t].log, status |-> "initial"]>>,
            ![t].outcome = "success_initial_doc"]
    /\ Advance(t, "finish")
    /\ UNCHANGED quiet

PublishSection(t) ==
    /\ pc[t] = "publish"
    /\ ~IsInitial(t)
    /\ DocRowHolders(t, run[t].src) = {}
    /\ run' = [run EXCEPT
            ![t].doc = [version |-> @.version + 1,
                        content |-> @.content \cup {run[t].log}],
            ![t].dirty = TRUE,
            ![t].update = <<[by |-> run[t].log, status |-> "published"]>>,
            ![t].outcome = "success"]
    /\ Advance(t, "finish")
    /\ UNCHANGED quiet

\* Mutant of PublishRefused: the audit row is added before the section check.
PublishRefusedLate(t) ==
    /\ pc[t] = "publish"
    /\ ~IsInitial(t)
    /\ run' = [run EXCEPT
            ![t].update = <<[by |-> run[t].log, status |-> "published"]>>,
            ![t].outcome = "failed"]
    /\ Advance(t, "finish")
    /\ UNCHANGED quiet

(* apply_section_update raises FullDocumentReplacementError before the Doc   *)
(* object is touched.                                                        *)
PublishRefused(t) ==
    /\ pc[t] = "publish"
    /\ ~IsInitial(t)
    /\ Finish(t, "failed")
    /\ UNCHANGED quiet

\* Mutant of Commit: the outcome goes to the newest row of the log.
CommitNewestRow(t) ==
    LET s == run[t].src
    IN /\ pc[t] = "finish"
       /\ logs' = [logs EXCEPT ![Len(logs)].outcome = run[t].outcome]
       /\ snaps' = [snaps EXCEPT ![s] = @ \cup run[t].snap]
       /\ docs' = [docs EXCEPT ![s] = IF run[t].dirty THEN run[t].doc ELSE @]
       /\ audit' = [audit EXCEPT ![s] = @ \o run[t].update]
       /\ locked' = locked \ {Key(t)}
       /\ run' = [run EXCEPT ![t] = NoRun]
       /\ Advance(t, "idle")
       /\ UNCHANGED <<world, nextSnap, lost>>

(* The commit that ends a run, successful or failed: everything flushed so   *)
(* far becomes visible with the outcome, then the lock is released.          *)
Commit(t) ==
    LET s == run[t].src
    IN /\ pc[t] = "finish"
       /\ logs' = [logs EXCEPT ![run[t].log].outcome = run[t].outcome]
       /\ snaps' = [snaps EXCEPT ![s] = @ \cup run[t].snap]
       /\ docs' = [docs EXCEPT ![s] = IF run[t].dirty THEN run[t].doc ELSE @]
       /\ audit' = [audit EXCEPT ![s] = @ \o run[t].update]
       /\ locked' = locked \ {Key(t)}
       /\ run' = [run EXCEPT ![t] = NoRun]
       /\ Advance(t, "idle")
       /\ UNCHANGED <<world, nextSnap, lost>>

\* Mutant of FlushFails: the lock is not released on the error path.
FlushFailsKeepsLock(t) ==
    /\ pc[t] \in {"snapshot", "diff", "resolve", "publish", "finish"}
    /\ lost' = lost \cup {run[t].log}
    /\ run' = [run EXCEPT ![t] = NoRun]
    /\ Advance(t, "idle")
    /\ UNCHANGED <<world, db, locked>>

(* A flush fails (connection, constraint): the transaction is rolled back and *)
(* the except block's own commit raises, so the "running" row is left as is.  *)
FlushFails(t) ==
    /\ pc[t] \in {"snapshot", "diff", "resolve", "publish", "finish"}
    /\ lost' = lost \cup {run[t].log}
    /\ locked' = locked \ {Key(t)}
    /\ run' = [run EXCEPT ![t] = NoRun]
    /\ Advance(t, "idle")
    /\ UNCHANGED <<world, db>>

(* A process dies (restarted by systemd): its tasks, their transactions and  *)
(* its in-memory locks are gone.                                             *)
Crash(p) ==
    LET dead == {t \in Tasks : ProcOf[t] = p /\ pc[t] # "idle"}
    IN /\ dead # {}
       /\ lost' = lost \cup {run[t].log : t \in {u \in dead : Active(u)}}
       /\ locked' = {k \in locked : k[1] # p}
       /\ pc' = [t \in Tasks |-> IF t \in dead THEN "idle" ELSE pc[t]]
       /\ run' = [t \in Tasks |-> IF t \in dead THEN NoRun ELSE run[t]]
       /\ UNCHANGED <<world, db>>

-----------------------------------------------------------------------------
Step(t) ==
    \/ \E s \in Sources : Skip(t, s) \/ Begin(t, s)
    \/ Fetch(t) \/ FetchFails(t)
    \/ \E c \in Contents : Persist(t, c)
    \/ \E c \in Contents, raw \in BOOLEAN : PersistFails(t, c, raw)
    \/ \E trivial \in BOOLEAN : Diff(t, trivial)
    \/ DiffFails(t)
    \/ RejectOverQuota(t) \/ SkipWithoutKey(t) \/ QueueLLM(t)
    \/ LLMAnswers(t) \/ LLMFails(t)
    \/ PublishInitial(t) \/ PublishSection(t) \/ PublishRefused(t)
    \/ Commit(t) \/ FlushFails(t)

Next ==
    \/ \E s \in Sources, c \in Contents : Change(s, c)
    \/ \E t \in Tasks, s \in Sources : LoadSourceWithDoc(t, s)
    \/ \E t \in Tasks : Step(t)
    \/ \E p \in Procs : Crash(p)

Spec == Init /\ [][Next]_vars

\* Every await of a run ends: fetches and LLM calls have timeouts, a flush
\* waits only for a transaction that ends.
FairSpec == Spec /\ \A t \in Tasks : WF_vars(Active(t) /\ Step(t))

-----------------------------------------------------------------------------
Running == {t \in Tasks : Active(t)}

\* The in-memory locks are exactly those of the runs in progress, one run to
\* a lock: no two runs of a source overlap in a process (async with lock), and
\* no path out of a run leaves its source locked, or every later run would be
\* "skipped" (trigger_pipeline_run, the lock of get_source_lock).
LockHeldByRunner ==
    /\ locked = {Key(t) : t \in Running}
    /\ \A t, u \in Running : Key(t) = Key(u) => t = u

\* What a run read at its start is still what the database holds when it
\* commits: the snapshot it compares with is the latest one, and the Doc object
\* it modifies was read from the current row.  True of interval jobs in one
\* process, where the lock covers every read.
SessionFresh ==
    \A t \in Running :
        LET s == run[t].src
        IN /\ pc[t] \notin {"fetch", "snapshot"} /\ run[t].snap # {}
                => run[t].base = Latest(s)
           /\ ~run[t].dirty /\ run[t].doc # NoDoc => run[t].doc = docs[s]

\* The trail and the log tell the same story: a run has an applied update iff
\* its log says it published, and a rejected one iff it says over quota, however
\* runs overlap, fail or die (one commit for the run's rows and its outcome).
Published(i) == logs[i].outcome \in {"success", "success_initial_doc"}
Rejected(i)  == logs[i].outcome = "success_quota_rejected"
Trail(i)     == LET trail == audit[logs[i].src]
                IN {k \in DOMAIN trail : trail[k].by = i}
TrailSays(i) == {audit[logs[i].src][k].status : k \in Trail(i)}

OutcomeMatchesAudit ==
    \A i \in DOMAIN logs :
        /\ Published(i) <=> TrailSays(i) \cap Applied # {}
        /\ Rejected(i) <=> "rejected" \in TrailSays(i)
        /\ Cardinality(Trail(i)) <= 1

\* A row left "running" is one whose run is in progress, in one task only, or
\* whose session died: nothing else strands a run_logs row.
Owners(i) == {t \in Running : run[t].log = i}

RunningHasOwner ==
    \A i \in DOMAIN logs : logs[i].outcome = "running" =>
        IF i \in lost THEN Owners(i) = {} ELSE \E t \in Tasks : Owners(i) = {t}

\* Once a run_logs row has an outcome it never changes, and rows stay in order.
LogFinal ==
    [][\A i \in DOMAIN logs :
          /\ i \in DOMAIN logs'
          /\ logs[i].outcome # "running" => logs'[i] = logs[i]]_logs

\* Every run ends, whatever fails on the way.
RunEnds == \A t \in Tasks : Active(t) ~> ~Active(t)

\* Interval jobs of one process keep the ledger's promise: each step is a step
\* of DocLedger or leaves the doc and its trail alone.
Ledger == INSTANCE DocLedger
    WITH Sources <- Sources, RunIds <- RunIds, docs <- docs, audit <- audit
LedgerSpec == Ledger!Spec

\* design_spec.md, 6.2: doc_updates is the append-only trail of which the
\* markdown is the materialized view: no published update is missing from it.
DocIsView == Ledger!MaterializedView

\* Initial documentation is written once per source, and so never over sections
\* published since (_execute_pipeline: latest is None).
InitialOnce == Ledger!InitialOnce

\* design_spec.md, 7.4: a job run is fetch -> hash compare -> (if changed)
\* diff -> LLM call -> publish.  A run that reports no change follows one that
\* dealt with the content it saw.
UnchangedMeansHandled ==
    \A i \in DOMAIN logs : logs[i].outcome = "success_no_change" =>
        \E j \in 1 .. i - 1 :
            /\ logs[j].src = logs[i].src
            /\ logs[j].outcome \notin {"running", "skipped", "failed"}
=============================================================================
