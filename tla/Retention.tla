------------------------------- MODULE Retention -------------------------------
(***************************************************************************)
(* The life of snapshot rows and of their blobs: runs of the pipeline add  *)
(* them, the daily retention job (app/jobs/retention.py) expires them and  *)
(* sweeps orphaned blobs, and the deletion of a source                     *)
(* (app/routers/sources.py) purges what it owns.  The three work in        *)
(* transactions of their own while the blob store has none.                *)
(*                                                                         *)
(* A transaction's rows become visible at its commit; its row locks make   *)
(* others wait (a waiting statement is a disabled action), and a deadlock  *)
(* ends, as in PostgreSQL, with the failure of one of the two.  The run is *)
(* the scheduler's (force_initial_doc is False), one of a source at a      *)
(* time: that of Pipeline, reduced to what touches snapshots, blobs and    *)
(* the doc.                                                                *)
(***************************************************************************)
EXTENDS Naturals

CONSTANTS
    Sources,
    MaxSnaps,   \* bound: snapshot ids ever drawn
    MaxDeletes  \* bound: requests to delete a source, failed ones included

ASSUME RetentionAssumption == MaxSnaps \in Nat /\ MaxDeletes \in Nat

VARIABLES
    live,       \* table sources
    snaps,      \* table snapshots; ids grow with fetched_at
    old,        \* ids of the rows fetched before the retention cutoff
    docs,       \* table docs: what each source's doc was last written by
    blobs,      \* ids whose raw content is in the store
    nextId,     \* the snapshots identity sequence
    run,        \* the transaction of each source's run
    ret,        \* the transaction of the retention job
    del,        \* how far the deletion of each source is
    deletes,    \* requests to delete a source so far
    taken,      \* what the deletion of each source has deleted and not committed
    exposed     \* history: rows a sweep did not see, rows of a purged source

vars == <<live, snaps, old, docs, blobs, nextId, run, ret, del, deletes, taken,
          exposed>>

-----------------------------------------------------------------------------
Ids      == 1 .. MaxSnaps
Row      == [id : Ids, src : Sources, stored : BOOLEAN]
DocState == {"none", "initial", "updated"}
NoRun    == [phase |-> "idle", row |-> {}, base |-> {}, doc |-> "none"]
NoSweep  == [phase |-> "idle", expired |-> {}, known |-> {}]
NoneTaken == [rows |-> {}, doc |-> FALSE, log |-> FALSE, missed |-> FALSE]

Run   == [phase : {"idle", "held", "diffed", "written"},
          row   : SUBSET Row,       \* the new snapshot, flushed
          base  : SUBSET Row,       \* latest
          doc   : DocState]         \* what the flushed doc row is, if any
Sweep == [phase : {"idle", "selected", "listed", "swept"},
          expired : SUBSET Ids, known : SUBSET Ids]
Taken == [rows : SUBSET Ids,        \* of snapshots
          doc : BOOLEAN,            \* the doc
          log : BOOLEAN,            \* the run_logs row of a run in progress
          missed : BOOLEAN]         \* history: a run has written the doc since

TypeOK ==
    /\ live \subseteq Sources
    /\ snaps \subseteq Row
    /\ old \subseteq Ids
    /\ docs \in [Sources -> DocState]
    /\ blobs \subseteq Ids
    /\ nextId \in 1 .. MaxSnaps + 1
    /\ run \in [Sources -> Run]
    /\ ret \in Sweep
    /\ del \in [Sources -> {"none", "purged", "cleared"}]
    /\ deletes \in 0 .. MaxDeletes
    /\ taken \in [Sources -> Taken]
    /\ exposed \subseteq Ids

Init ==
    /\ live = Sources
    /\ snaps = {}
    /\ old = {}
    /\ docs = [s \in Sources |-> "none"]
    /\ blobs = {}
    /\ nextId = 1
    /\ run = [s \in Sources |-> NoRun]
    /\ ret = NoSweep
    /\ del = [s \in Sources |-> "none"]
    /\ deletes = 0
    /\ taken = [s \in Sources |-> NoneTaken]
    /\ exposed = {}

IdsOf(rows)   == {x.id : x \in rows}
Stored(rows)  == {x.id : x \in {y \in rows : y.stored}}
RowsOf(s)     == {x \in snaps : x.src = s}
Latest(s)     == {x \in RowsOf(s) : \A y \in RowsOf(s) : y.id <= x.id}
InFlight      == UNION {IdsOf(run[s].row) : s \in Sources}

\* Rows that another transaction has deleted and not committed.
DeletedRows ==
    {x \in snaps : \/ ret.phase \in {"listed", "swept"} /\ x.id \in ret.expired
                   \/ x.id \in taken[x.src].rows}

\* Committed rows that a run's diff refers to, and so keeps from deletion.
ReferredRows == UNION {run[s].base : s \in {t \in Sources : run[t].phase \in {"diffed", "written"}}}

-----------------------------------------------------------------------------
(* Time: the oldest snapshot that is not old yet leaves the window. *)
Age(x) ==
    /\ x \in snaps /\ x.id \notin old
    /\ \A y \in snaps : y.id < x.id => y.id \in old
    /\ old' = old \cup {x.id}
    /\ UNCHANGED <<live, snaps, docs, blobs, nextId, run, ret, del, deletes, taken, exposed>>

(* _persist_snapshot: flush the row, write the blob; `stored` is FALSE when *)
(* the write fails, and the run goes on to commit as failed.                *)
Persist(s, stored) ==
    /\ run[s].phase = "idle"
    /\ s \in live
    /\ nextId <= MaxSnaps
    /\ run' = [run EXCEPT ![s] =
                  [phase |-> "held", base |-> Latest(s), doc |-> "none",
                   row |-> {[id |-> nextId, src |-> s, stored |-> stored]}]]
    /\ nextId' = nextId + 1
    /\ blobs' = IF stored THEN blobs \cup {nextId} ELSE blobs
    /\ exposed' = IF ret.phase = "listed" THEN exposed \cup {nextId} ELSE exposed
    /\ UNCHANGED <<live, snaps, old, docs, ret, del, deletes, taken>>

(* _compute_diff: both blobs are read, the diff row refers to both snapshots *)
(* and waits for whoever is deleting the older one.                          *)
Diff(s) ==
    /\ run[s].phase = "held"
    /\ run[s].base # {}
    /\ \A x \in run[s].base \cup run[s].row : x.stored /\ x.id \in blobs
    /\ run[s].base \subseteq snaps \ DeletedRows
    /\ run' = [run EXCEPT ![s].phase = "diffed"]
    /\ UNCHANGED <<live, snaps, old, docs, blobs, nextId, ret, del, deletes, taken, exposed>>

(* Publishing flushes the doc row, unless a deletion holds it. *)
Publish(s, doc) ==
    /\ ~taken[s].doc
    /\ run' = [run EXCEPT ![s].phase = "written", ![s].doc = doc]
    /\ UNCHANGED <<live, snaps, old, docs, blobs, nextId, ret, del, deletes, taken, exposed>>

PublishInitial(s) ==
    /\ run[s].phase = "held"
    /\ run[s].base = {}
    /\ \A x \in run[s].row : x.stored
    /\ Publish(s, "initial")

PublishUpdate(s) == run[s].phase = "diffed" /\ Publish(s, "updated")

(* The run's commit: published, unchanged, trivial, rejected or failed.  It   *)
(* updates the run's row of run_logs, and waits for a deletion that has it.  *)
CommitRun(s) ==
    /\ run[s].phase # "idle"
    /\ ~taken[s].log
    /\ snaps' = snaps \cup run[s].row
    /\ docs' = [docs EXCEPT ![s] = IF run[s].doc = "none" THEN @ ELSE run[s].doc]
    /\ run' = [run EXCEPT ![s] = NoRun]
    /\ taken' = [taken EXCEPT ![s].missed = @ \/ (del[s] = "cleared" /\ run[s].doc # "none")]
    /\ UNCHANGED <<live, old, blobs, nextId, ret, del, deletes, exposed>>

(* A failed flush or a crash: the rows are rolled back, the blob stays. *)
AbortRun(s) ==
    /\ run[s].phase # "idle"
    /\ run' = [run EXCEPT ![s] = NoRun]
    /\ taken' = [taken EXCEPT ![s].log = FALSE]
    /\ UNCHANGED <<live, snaps, old, docs, blobs, nextId, ret, del, deletes, exposed>>

-----------------------------------------------------------------------------
\* Mutant: the blobs of every row are deleted, not those of the expired ones.
SelectAllBlobs(kept) ==
    /\ ret.phase = "idle"
    /\ ret' = [ret EXCEPT !.phase = "selected", !.expired = IdsOf(snaps) \cap old]
    /\ blobs' = (blobs \ Stored(snaps)) \cup (kept \cap blobs)
    /\ UNCHANGED <<live, snaps, old, docs, nextId, run, del, deletes, taken, exposed>>

(* cleanup_expired_data: select the expired snapshots and delete their blobs; *)
(* a blob whose deletion raises stays.                                        *)
RetentionSelect(kept) ==
    LET expired == {x \in snaps : x.id \in old}
    IN /\ ret.phase = "idle"
       /\ kept \subseteq Stored(expired) \cap blobs
       /\ ret' = [ret EXCEPT !.phase = "selected", !.expired = IdsOf(expired)]
       /\ blobs' = (blobs \ Stored(expired)) \cup kept
       /\ UNCHANGED <<live, snaps, old, docs, nextId, run, del, deletes, taken, exposed>>

(* Delete the expired rows (and wait for a run that refers to one), then read *)
(* the refs of the rows that remain: those of committed transactions.         *)
RetentionList ==
    /\ ret.phase = "selected"
    /\ \A x \in snaps : x.id \in ret.expired => x \notin ReferredRows /\ x.id \notin taken[x.src].rows
    /\ ret' = [ret EXCEPT !.phase = "listed", !.known = Stored(snaps) \ ret.expired]
    /\ exposed' = exposed \cup InFlight
    /\ UNCHANGED <<live, snaps, old, docs, blobs, nextId, run, del, deletes, taken>>

\* Mutant: the sweep is inside `if expired`.
SweepWhenExpired(kept) ==
    /\ ret.phase = "listed"
    /\ kept \subseteq blobs
    /\ blobs' = IF ret.expired = {} THEN blobs ELSE (blobs \cap ret.known) \cup kept
    /\ ret' = [ret EXCEPT !.phase = "swept"]
    /\ UNCHANGED <<live, snaps, old, docs, nextId, run, del, deletes, taken, exposed>>

(* Delete every stored blob that no known ref names. *)
RetentionSweep(kept) ==
    /\ ret.phase = "listed"
    /\ kept \subseteq blobs \ ret.known
    /\ blobs' = (blobs \cap ret.known) \cup kept
    /\ ret' = [ret EXCEPT !.phase = "swept"]
    /\ UNCHANGED <<live, snaps, old, docs, nextId, run, del, deletes, taken, exposed>>

\* Mutant: no commit, the session's end rolls the deletions back.
CommitForgotten ==
    /\ ret.phase = "swept"
    /\ ret' = NoSweep
    /\ UNCHANGED <<live, snaps, old, docs, blobs, nextId, run, del, deletes, taken, exposed>>

\* Mutant: docs go with the last snapshot of their source.
CommitTakesDocs ==
    /\ ret.phase = "swept"
    /\ snaps' = {x \in snaps : x.id \notin ret.expired}
    /\ docs' = [s \in Sources |-> IF \E x \in snaps' : x.src = s THEN docs[s] ELSE "none"]
    /\ old' = old \ ret.expired
    /\ ret' = NoSweep
    /\ UNCHANGED <<live, blobs, nextId, run, del, deletes, taken, exposed>>

(* The one commit of the job. *)
RetentionCommit ==
    /\ ret.phase = "swept"
    /\ snaps' = {x \in snaps : x.id \notin ret.expired}
    /\ old' = old \ ret.expired
    /\ ret' = NoSweep
    /\ UNCHANGED <<live, docs, blobs, nextId, run, del, deletes, taken, exposed>>

(* The job dies or a statement fails: its rows come back, its blobs do not. *)
RetentionFails ==
    /\ ret.phase # "idle"
    /\ ret' = NoSweep
    /\ UNCHANGED <<live, snaps, old, docs, blobs, nextId, run, del, deletes, taken, exposed>>

-----------------------------------------------------------------------------
(* delete_source: first the blobs that committed rows refer to. *)
DeletePurge(s, kept) ==
    /\ s \in live /\ del[s] = "none"
    /\ deletes < MaxDeletes
    /\ deletes' = deletes + 1
    /\ kept \subseteq Stored(RowsOf(s)) \cap blobs
    /\ blobs' = (blobs \ Stored(RowsOf(s))) \cup kept
    /\ del' = [del EXCEPT ![s] = "purged"]
    /\ exposed' = exposed \cup Stored(RowsOf(s))
    /\ UNCHANGED <<live, snaps, old, docs, nextId, run, ret, taken>>

\* Mutant: the dependent rows are committed before the source is deleted.
DeleteRowsCommits(s) ==
    /\ del[s] = "purged"
    /\ RowsOf(s) \cap (ReferredRows \cup DeletedRows) = {}
    /\ docs[s] # "none" => run[s].phase # "written"
    /\ del' = [del EXCEPT ![s] = "cleared"]
    /\ snaps' = snaps \ RowsOf(s)
    /\ old' = old \ IdsOf(RowsOf(s))
    /\ UNCHANGED <<live, docs, blobs, nextId, run, ret, deletes, taken, exposed>>

(* Then the dependent rows it can see, the log of a run in progress included, *)
(* and the doc; a row that a run or the retention job holds is waited for.    *)
DeleteRows(s) ==
    /\ del[s] = "purged"
    /\ RowsOf(s) \cap (ReferredRows \cup DeletedRows) = {}
    /\ docs[s] # "none" => run[s].phase # "written"
    /\ del' = [del EXCEPT ![s] = "cleared"]
    /\ taken' = [taken EXCEPT ![s] = [rows |-> IdsOf(RowsOf(s)), doc |-> docs[s] # "none",
                                      log |-> run[s].phase # "idle", missed |-> FALSE]]
    /\ UNCHANGED <<live, snaps, old, docs, blobs, nextId, run, ret, deletes, exposed>>

\* Mutant of DeleteSource: nothing ties the rows of a run to the source.
DeleteSourceAtOnce(s) ==
    /\ del[s] = "cleared"
    /\ live' = live \ {s}
    /\ snaps' = snaps \ RowsOf(s)
    /\ old' = old \ IdsOf(RowsOf(s))
    /\ docs' = [docs EXCEPT ![s] = IF taken[s].doc THEN "none" ELSE @]
    /\ del' = [del EXCEPT ![s] = "none"]
    /\ taken' = [taken EXCEPT ![s] = [NoneTaken EXCEPT !.missed = taken[s].missed]]
    /\ UNCHANGED <<blobs, nextId, run, ret, deletes, exposed>>

(* Then the source itself, which waits for a run with rows that refer to it *)
(* and cascades to the snapshots; docs.source_id has no foreign key.        *)
DeleteSource(s) ==
    /\ del[s] = "cleared"
    /\ run[s].phase = "idle"
    /\ live' = live \ {s}
    /\ snaps' = snaps \ RowsOf(s)
    /\ old' = old \ IdsOf(RowsOf(s))
    /\ docs' = [docs EXCEPT ![s] = IF taken[s].doc THEN "none" ELSE @]
    /\ del' = [del EXCEPT ![s] = "none"]
    /\ taken' = [taken EXCEPT ![s] = [NoneTaken EXCEPT !.missed = taken[s].missed]]
    /\ UNCHANGED <<blobs, nextId, run, ret, deletes, exposed>>

DeleteFails(s) ==
    /\ del[s] # "none"
    /\ del' = [del EXCEPT ![s] = "none"]
    /\ taken' = [taken EXCEPT ![s] = NoneTaken]
    /\ UNCHANGED <<live, snaps, old, docs, blobs, nextId, run, ret, deletes, exposed>>

-----------------------------------------------------------------------------
EndRun(s)    == CommitRun(s) \/ AbortRun(s)
EndDelete(s) == DeleteRows(s) \/ DeleteSource(s) \/ DeleteFails(s)

Next ==
    \/ \E x \in snaps : Age(x)
    \/ \E s \in Sources :
          \/ \E stored \in BOOLEAN : Persist(s, stored)
          \/ Diff(s) \/ PublishInitial(s) \/ PublishUpdate(s) \/ EndRun(s)
          \/ \E kept \in SUBSET Ids : DeletePurge(s, kept)
          \/ EndDelete(s)
    \/ \E kept \in SUBSET Ids : RetentionSelect(kept) \/ RetentionSweep(kept)
    \/ RetentionList \/ RetentionCommit \/ RetentionFails

Spec == Init /\ [][Next]_vars

\* Runs and deletions end (their awaits have timeouts).  The retention job is
\* started every day, and none of its steps fails every day.
FairSpec ==
    /\ Spec
    /\ \A s \in Sources : WF_vars(EndRun(s)) /\ WF_vars(EndDelete(s))
    /\ WF_vars(RetentionSelect({}))
    /\ SF_vars(RetentionList) /\ SF_vars(RetentionSweep({})) /\ SF_vars(RetentionCommit)

-----------------------------------------------------------------------------
\* A snapshot in the window has its blob, with two exceptions: its run was in
\* progress when a sweep read the refs (known_refs holds committed rows only), or
\* its source was purged by a deletion that then failed.
FreshBlobsKept ==
    \A x \in snaps : x.stored /\ x.id \notin old \cup exposed => x.id \in blobs

\* A snapshot row goes for one of two reasons only: it is past the window, or
\* its source is deleted, however the two transactions interleave.
RowsGoForAReason ==
    [][\A x \in snaps \ snaps' : x.id \in old \/ x.src \notin live']_snaps

\* retention.py:25: a doc outlives its snapshots: only the deletion of its source
\* removes it, and initial documentation is written over published updates only
\* when every snapshot of its source has expired.
DocsRetained ==
    [][\A s \in live' :
          /\ docs[s] # "none" => docs'[s] # "none"
          /\ docs[s] = "updated" /\ docs'[s] = "initial" => RowsOf(s) = {}]_docs

\* sources.py:157: "a deleted source leaves nothing behind: docs (and their
\* doc_updates audit trail), diffs, snapshots and run logs".  Whatever comes while
\* it is being deleted, no snapshot is left, no run, and the doc only if a run wrote
\* it after the DELETE of the docs (delete_source, the foreign keys on sources).
GoneIsGone ==
    \A s \in Sources \ live :
        /\ RowsOf(s) = {}
        /\ run[s] = NoRun
        /\ docs[s] # "none" => taken[s].missed

\* No blob stays in the store for ever without a row: what failed runs, failed
\* deletions and deleted sources leave behind is swept.
Orphan(i) == i \in blobs \ (IdsOf(snaps) \cup InFlight)
OrphansSwept == \A i \in Ids : Orphan(i) ~> i \notin blobs

\* Every snapshot past the window is deleted in the end.
ExpiredGo == \A i \in Ids : i \in old ~> i \notin IdsOf(snaps)
=============================================================================
