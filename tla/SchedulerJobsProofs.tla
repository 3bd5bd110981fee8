-------------------------- MODULE SchedulerJobsProofs --------------------------
(***************************************************************************)
(* The properties of SchedulerJobs for any sources, intervals and calls.   *)
(***************************************************************************)
EXTENDS SchedulerJobs, TLAPS

\* What a sync has read is what the sources are, and what one leaves in the registry
\* is what they were, except for those that have changed since.
SyncInv ==
    /\ \A c \in Callers : found[c] # NoSync =>
          \A s \in Sources \ since[c] : found[c][s] = Wanted(s)
    /\ JobsMatchSources

\* A scheduler that was made has raised; without one only an object without a
\* database is running.
StartInv ==
    /\ scheduler # "none" => raised
    /\ RunningAfterRaise

IInv == TypeOK /\ SyncInv /\ StartInv

LEMMA InitInv == Init => IInv
<1> SUFFICES ASSUME Init PROVE IInv
  OBVIOUS
<1>1. TypeOK
  <2>1. 1 \in Intervals /\ 0 \in 0 .. MaxInterval
    BY SchedulerAssumption DEF SchedulerAssumption, Intervals
  <2>2. source \in [Sources -> [status : {"none", "active", "inactive", "deleted"},
                                every : Intervals]]
    BY <2>1 DEF Init
  <2>3. jobs \in Registry /\ found \in [Callers -> {NoSync} \cup Registry]
    BY <2>1 DEF Init, Registry
  <2> QED BY <2>2, <2>3 DEF Init, TypeOK
<1>2. SyncInv /\ StartInv
  BY DEF Init, SyncInv, JobsMatchSources, StartInv, RunningAfterRaise
<1> QED BY <1>1, <1>2 DEF IInv

\* The routes change a source: the registry and the syncs under way miss it.
LEMMA WriteStep ==
    ASSUME IInv, NEW s \in Sources, NEW every \in Intervals,
           NEW status \in {"active", "inactive", "deleted"}, Write(s, status, every)
    PROVE  IInv'
<1>1. TypeOK'
  BY DEF Write, IInv, TypeOK
<1>2. \A p \in Sources \ {s} : Wanted(p)' = Wanted(p)
  BY DEF Write, IInv, TypeOK, Wanted
<1>3. SyncInv'
  <2>1. \A c \in Callers : since'[c] = since[c] \cup {s}
    BY DEF Write
  <2> QED BY <1>2, <2>1 DEF Write, IInv, SyncInv, JobsMatchSources
<1>4. StartInv'
  BY DEF Write, IInv, StartInv, RunningAfterRaise
<1> QED BY <1>1, <1>3, <1>4 DEF IInv

LEMMA SyncReadsStep ==
    ASSUME IInv, NEW c \in Callers, SyncReads(c)
    PROVE  IInv'
<1>1. \A s \in Sources : Wanted(s) \in 0 .. MaxInterval /\ Wanted(s)' = Wanted(s)
  BY SchedulerAssumption DEF SchedulerAssumption, SyncReads, IInv, TypeOK, Wanted, Intervals
<1>2. /\ found' = [found EXCEPT ![c] = [s \in Sources |-> Wanted(s)]]
      /\ since' = [since EXCEPT ![c] = {}]
  BY DEF SyncReads
<1>3. TypeOK'
  <2>1. [s \in Sources |-> Wanted(s)] \in Registry
    BY <1>1 DEF Registry
  <2> QED BY <1>2, <2>1 DEF SyncReads, IInv, TypeOK
<1>4. SyncInv'
  <2>1. ASSUME NEW d \in Callers, found'[d] # NoSync, NEW s \in Sources \ since'[d]
        PROVE  found'[d][s] = Wanted(s)
    <3>1. CASE d = c
      BY <1>2, <2>1, <3>1 DEF IInv, TypeOK
    <3>2. CASE d # c
      <4>1. found'[d] = found[d] /\ since'[d] = since[d]
        BY <1>2, <3>2 DEF IInv, TypeOK
      <4> QED BY <2>1, <4>1 DEF IInv, SyncInv
    <3> QED BY <3>1, <3>2
  <2>2. JobsMatchSources'
    BY <1>1 DEF SyncReads, IInv, SyncInv, JobsMatchSources
  <2> QED BY <1>1, <2>1, <2>2 DEF SyncInv, NoSync
<1>5. StartInv'
  BY DEF SyncReads, IInv, StartInv, RunningAfterRaise
<1> QED BY <1>3, <1>4, <1>5 DEF IInv

LEMMA SyncEndsStep ==
    ASSUME IInv, NEW c \in Callers, SyncEnds(c)
    PROVE  IInv'
<1>1. /\ jobs' = found[c] /\ synced' = TRUE /\ touched' = since[c] /\ found[c] # NoSync
      /\ found' = [found EXCEPT ![c] = NoSync]
      /\ UNCHANGED <<source, url, scheduler, running, since, raised>>
  BY DEF SyncEnds, Registered
<1>2. TypeOK'
  BY <1>1 DEF IInv, TypeOK
<1>3. SyncInv'
  <2>1. \A s \in Sources : Wanted(s)' = Wanted(s)
    BY <1>1 DEF Wanted
  <2>2. ASSUME NEW d \in Callers, found'[d] # NoSync PROVE found'[d] = found[d]
    BY <1>1, <2>2 DEF IInv, TypeOK
  <2>3. \A d \in Callers : found'[d] # NoSync =>
           \A s \in Sources \ since'[d] : found'[d][s] = Wanted(s)'
    BY <1>1, <2>1, <2>2 DEF IInv, SyncInv
  <2>4. JobsMatchSources'
    BY <1>1, <2>1 DEF IInv, SyncInv, JobsMatchSources
  <2> QED BY <2>3, <2>4 DEF SyncInv, NoSync
<1>4. StartInv'
  BY <1>1 DEF IInv, StartInv, RunningAfterRaise
<1> QED BY <1>2, <1>3, <1>4 DEF IInv

\* start, shutdown and a new process leave the sources alone, and the registry as it
\* is or empty.
LEMMA LifeStep ==
    ASSUME IInv, StartRaises \/ Start \/ shutdown \/ Restart
    PROVE  IInv'
<1>1. source' = source /\ touched' = touched /\ since' = since
  <2>1. CASE StartRaises BY <2>1 DEF StartRaises
  <2>2. CASE Start BY <2>2 DEF Start, history
  <2>3. CASE shutdown BY <2>3 DEF shutdown
  <2>4. CASE Restart BY <2>4 DEF Restart
  <2> QED BY <2>1, <2>2, <2>3, <2>4
<1>2. /\ \/ jobs' = jobs /\ synced' = synced
         \/ jobs' = [s \in Sources |-> 0] /\ synced' = FALSE
      /\ found' = found \/ found' = [c \in Callers |-> NoSync]
  <2>1. CASE StartRaises BY <2>1 DEF StartRaises
  <2>2. CASE Start BY <2>2 DEF Start, history
  <2>3. CASE shutdown BY <2>3 DEF shutdown
  <2>4. CASE Restart BY <2>4 DEF Restart
  <2> QED BY <2>1, <2>2, <2>3, <2>4
<1>3. StartInv' /\ url' \in BOOLEAN /\ scheduler' \in {"none", "stopped"} /\ running' \in BOOLEAN
      /\ raised' \in BOOLEAN
  <2> USE DEF IInv, TypeOK, StartInv, RunningAfterRaise
  <2>1. CASE StartRaises BY <2>1 DEF StartRaises
  <2>2. CASE Start BY <2>2 DEF Start, history
  <2>3. CASE shutdown BY <2>3 DEF shutdown
  <2>4. CASE Restart BY <2>4 DEF Restart
  <2> QED BY <2>1, <2>2, <2>3, <2>4
<1>4. TypeOK'
  <2>1. [s \in Sources |-> 0] \in Registry /\ NoSync' = NoSync
    BY SchedulerAssumption DEF Registry, SchedulerAssumption, NoSync
  <2>2. jobs' \in Registry /\ found' \in [Callers -> {NoSync} \cup Registry]
        /\ synced' \in BOOLEAN
    BY <1>2, <2>1 DEF IInv, TypeOK
  <2> QED BY <1>1, <1>3, <2>2 DEF IInv, TypeOK, Registry
<1>5. SyncInv'
  <2>1. \A s \in Sources : Wanted(s)' = Wanted(s)
    BY <1>1 DEF Wanted
  <2> QED BY <1>1, <1>2, <2>1 DEF IInv, SyncInv, JobsMatchSources, NoSync
<1> QED BY <1>3, <1>4, <1>5 DEF IInv

LEMMA StepInv == IInv /\ [Next]_vars => IInv'
<1> SUFFICES ASSUME IInv, [Next]_vars PROVE IInv'
  OBVIOUS
<1>1. CASE UNCHANGED vars
  BY <1>1 DEF vars, state, history, IInv, TypeOK, SyncInv, JobsMatchSources, StartInv,
     RunningAfterRaise, Wanted, NoSync, Registry
<1>2. ASSUME NEW s \in Sources, NEW every \in Intervals, NEW status \in {"active", "inactive"},
             CreateSource(s, every) \/ UpdateSource(s, status, every)
      PROVE  IInv'
  BY <1>2, WriteStep DEF CreateSource, UpdateSource
<1>3. ASSUME NEW s \in Sources, DeleteSource(s)
      PROVE  IInv'
  BY <1>3, WriteStep DEF DeleteSource, IInv, TypeOK
<1>4. ASSUME NEW c \in Callers, SyncReads(c) \/ SyncEnds(c)
      PROVE  IInv'
  BY <1>4, SyncReadsStep, SyncEndsStep
<1>5. CASE StartRaises \/ Start \/ shutdown \/ Restart
  BY <1>5, LifeStep
<1> QED BY <1>1, <1>2, <1>3, <1>4, <1>5 DEF Next

\* The strengthened invariant holds in every state of every behaviour.
THEOREM IInvariant == Spec => []IInv
BY InitInv, StepInv, PTL DEF Spec

\* sync_source_jobs for any sources, intervals and number of calls, however the syncs,
\* the routes' changes, shutdowns and restarts interleave: after a sync the registry
\* has the active sources, except those changed since it has read them.
THEOREM JobsFollowSources == Spec => []JobsMatchSources
<1>1. IInv => JobsMatchSources
  BY DEF IInv, SyncInv
<1> QED BY <1>1, IInvariant, PTL

\* An object with a database is running only after its start has raised, with a
\* scheduler that is stopped (start).
THEOREM RunsAfterItRaised == Spec => []RunningAfterRaise
<1>1. IInv => RunningAfterRaise
  BY DEF IInv, StartInv
<1> QED BY <1>1, IInvariant, PTL
=============================================================================
