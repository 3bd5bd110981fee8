----------------------------- MODULE SchedulerJobs -----------------------------
(***************************************************************************)
(* A DocVersionScheduler (app/scheduler/scheduler.py): its registry of the *)
(* sources' jobs, which the routes of app/routers/sources.py know nothing  *)
(* of, and its start, which cannot store a job.  With a database URL it    *)
(* hands the job store a bound method of this object; the store pickles    *)
(* the object with the scheduler that it holds, and APScheduler refuses to *)
(* be pickled.  So no job is ever stored or run, and the model has none.   *)
(***************************************************************************)
EXTENDS Integers, FiniteSets

CONSTANTS
    Sources,
    Callers,        \* calls of sync_source_jobs, which nothing serializes
    MaxInterval     \* fetch_interval_seconds

ASSUME SchedulerAssumption == MaxInterval \in Nat \ {0}

VARIABLES
    source,     \* table sources: status and interval
    url,        \* database_url is given
    scheduler,  \* _scheduler, which is never more than "stopped"
    running,    \* _running
    jobs,       \* _jobs: source -> interval, 0 if it has no entry
    found,      \* what each sync under way has read of the active sources
    synced,     \* history: a sync has ended since the registry was cleared
    touched,    \* history: sources changed since that sync has read them,
    since,      \* and since each sync under way has
    raised      \* history: start has raised in this object since its last shutdown

state   == <<source, url, scheduler, running, jobs, found>>
history == <<synced, touched, since, raised>>
vars    == <<state, history>>

Intervals == 1 .. MaxInterval
NoSync    == [s \in Sources |-> -1]     \* no sync is under way
Registry  == [Sources -> 0 .. MaxInterval]

TypeOK ==
    /\ source \in [Sources -> [status : {"none", "active", "inactive", "deleted"},
                               every : Intervals]]
    /\ url \in BOOLEAN /\ scheduler \in {"none", "stopped"} /\ running \in BOOLEAN
    /\ jobs \in Registry /\ found \in [Callers -> {NoSync} \cup Registry]
    /\ synced \in BOOLEAN /\ raised \in BOOLEAN
    /\ touched \subseteq Sources /\ since \in [Callers -> SUBSET Sources]

Init ==
    /\ source = [s \in Sources |-> [status |-> "none", every |-> 1]]
    /\ url \in BOOLEAN /\ scheduler = "none" /\ running = FALSE
    /\ jobs = [s \in Sources |-> 0] /\ found = [c \in Callers |-> NoSync]
    /\ synced = FALSE /\ raised = FALSE
    /\ touched = {} /\ since = [c \in Callers |-> {}]

Wanted(s) == IF source[s].status = "active" THEN source[s].every ELSE 0

-----------------------------------------------------------------------------
(* create_source, update_source, delete_source: none of them tells the *)
(* scheduler.                                                          *)
Write(s, status, every) ==
    /\ source' = [source EXCEPT ![s] = [status |-> status, every |-> every]]
    /\ touched' = touched \cup {s} /\ since' = [c \in Callers |-> since[c] \cup {s}]
    /\ UNCHANGED <<url, scheduler, running, jobs, found, synced, raised>>

CreateSource(s, every) == source[s].status = "none" /\ Write(s, "active", every)

UpdateSource(s, status, every) ==
    /\ source[s].status \in {"active", "inactive"}
    /\ status \in {"active", "inactive"}
    /\ Write(s, status, every)

DeleteSource(s) ==
    /\ source[s].status \in {"active", "inactive"}
    /\ Write(s, "deleted", source[s].every)

-----------------------------------------------------------------------------
\* Mutant of StartRaises: the flag is set before the scheduler is started.
StartRaisesRunning ==
    /\ url /\ scheduler = "none"
    /\ scheduler' \in {"none", "stopped"} /\ raised' = TRUE /\ running' = TRUE
    /\ UNCHANGED <<source, url, jobs, found, synced, touched, since>>

(* start with a database URL: the job store cannot be made; or the scheduler *)
(* is made, the retention job is added to it, and its start raises.          *)
StartRaises ==
    /\ url /\ scheduler = "none"
    /\ scheduler' \in {"none", "stopped"} /\ raised' = TRUE
    /\ UNCHANGED <<source, url, running, jobs, found, synced, touched, since>>

(* start without one, or with a scheduler that was made before. *)
Start ==
    /\ ~url \/ scheduler # "none"
    /\ running' = TRUE
    /\ UNCHANGED <<source, url, scheduler, jobs, found, history>>

(* shutdown; a sync under way goes on.  (One that raises changes nothing.) *)
shutdown ==
    /\ scheduler' = "none" /\ running' = FALSE /\ raised' = FALSE
    /\ jobs' = [s \in Sources |-> 0] /\ synced' = FALSE
    /\ UNCHANGED <<source, url, found, touched, since>>

(* The process ends, and another one makes another object. *)
Restart ==
    /\ url' \in BOOLEAN /\ scheduler' = "none" /\ running' = FALSE /\ raised' = FALSE
    /\ jobs' = [s \in Sources |-> 0] /\ found' = [c \in Callers |-> NoSync] /\ synced' = FALSE
    /\ UNCHANGED <<source, touched, since>>

(* sync_source_jobs, started or not: the active sources are read. *)
SyncReads(c) ==
    /\ found[c] = NoSync
    /\ found' = [found EXCEPT ![c] = [s \in Sources |-> Wanted(s)]]
    /\ since' = [since EXCEPT ![c] = {}]
    /\ UNCHANGED <<source, url, scheduler, running, jobs, synced, touched, raised>>

\* Mutant of Registered: no job is removed.
RegisteredToo(c) == [s \in Sources |-> IF found[c][s] > 0 THEN found[c][s] ELSE jobs[s]]

(* The entries of other sources are deleted, theirs are set.  What is added *)
(* to a scheduler that is stopped waits for a start that never comes.       *)
Registered(c) == found[c]

SyncEnds(c) ==
    /\ found[c] # NoSync
    /\ jobs' = Registered(c)
    /\ found' = [found EXCEPT ![c] = NoSync]
    /\ synced' = TRUE /\ touched' = since[c]
    /\ UNCHANGED <<source, url, scheduler, running, since, raised>>

Next ==
    \/ \E s \in Sources :
          \/ \E every \in Intervals :
                \/ CreateSource(s, every)
                \/ \E status \in {"active", "inactive"} : UpdateSource(s, status, every)
          \/ DeleteSource(s)
    \/ \E c \in Callers : SyncReads(c) \/ SyncEnds(c)
    \/ StartRaises \/ Start \/ shutdown \/ Restart

Spec == Init /\ [][Next]_vars

-----------------------------------------------------------------------------
\* Once a sync has ended the registry has the active sources with their intervals,
\* except those changed since the sync that ended last has read them: which need not
\* be the one that read last (sync_source_jobs holds nothing while it waits).
JobsMatchSources ==
    synced => \A s \in Sources \ touched : jobs[s] = Wanted(s)

\* is_running is true of an object with a database only after its start has raised and
\* was called again, and then of a scheduler that is stopped: whoever takes the
\* exception for a failure is never told that sources are being fetched.
RunningAfterRaise == url /\ running => raised /\ scheduler = "stopped"
=============================================================================
