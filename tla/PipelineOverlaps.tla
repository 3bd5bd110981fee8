--------------------------- MODULE PipelineOverlaps ---------------------------
(***************************************************************************)
(* Pipeline with a history of which runs wrote over what they had not      *)
(* seen.  The lock of a source is one process's, and run_source_now reads  *)
(* the doc before it takes any, so two sessions can hold the doc of one    *)
(* source; this module says what that can and cannot do to the doc.        *)
(*                                                                         *)
(* The history follows from each step of Pipeline and restricts none.      *)
(***************************************************************************)
EXTENDS Pipeline

VARIABLES
    overtaken,      \* tasks whose doc another run has published to since they read it
    overwritten     \* sources whose doc such a task has published to

overlapVars == <<vars, overtaken, overwritten>>

-----------------------------------------------------------------------------
\* What a session writes will rest on the doc it has read, or on the decision
\* for initial documentation it has made.
HasRead(t) ==
    /\ pc[t] \notin {"idle", "finish"}
    /\ \/ run[t].doc # NoDoc
       \/ run[t].force
       \/ pc[t] \in {"resolve", "llm", "publish"} /\ run[t].base = {}

\* A step that publishes to the doc of s, and one that ends a task's session.
Publishes(s) == docs'[s].content # docs[s].content
Ends(t)      == pc[t] # "idle" /\ pc'[t] = "idle"

Overtake(t) == HasRead(t) /\ \E s \in Sources : s = run[t].src /\ Publishes(s)

OverlapInit == Init /\ overtaken = {} /\ overwritten = {}

OverlapNext ==
    /\ Next
    /\ overtaken' = {t \in Tasks : pc'[t] # "idle" /\ (t \in overtaken \/ Overtake(t))}
    /\ overwritten' = overwritten \cup
           {s \in Sources : Publishes(s) /\ \E t \in overtaken : run[t].src = s /\ Ends(t)}

OverlapSpec == OverlapInit /\ [][OverlapNext]_overlapVars

-----------------------------------------------------------------------------
\* A flush of t waits for the transaction of another session: to insert a doc of
\* the slug that one has inserted, or to update the row that one has written.
Waiting(t) ==
    /\ DocRowHolders(t, run[t].src) # {}
    /\ \/ pc[t] = "resolve" /\ Creates(t)
       \/ pc[t] = "publish"

\* Sessions that wait for the row of a doc wait for one that goes on: a run writes
\* to one doc, and holds nothing of it while it waits (resolve_doc flushes at once,
\* the publishers flush after it), so no two runs deadlock on docs, in whatever
\* processes they are.
NoCircularWait ==
    \A t \in Tasks : Waiting(t) =>
        \E u \in DocRowHolders(t, run[t].src) : ~Waiting(u)

\* An update is missing from a doc only where a run has published from a doc that
\* another one had published to meanwhile: not because runs fail, die, are skipped,
\* are rejected or create the doc side by side (publish_to_db, get_source_lock).
LossIsOverwrite ==
    \A s \in Sources \ overwritten : docs[s].content = Ledger!View(audit[s])

\* Likewise for initial documentation written a second time.
SecondInitialIsOverwrite ==
    \A s \in Sources \ overwritten : \A i, j \in DOMAIN audit[s] :
        audit[s][i].status = "initial" /\ audit[s][j].status = "initial" => i = j
=============================================================================
