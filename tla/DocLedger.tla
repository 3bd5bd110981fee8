------------------------------- MODULE DocLedger -------------------------------
(***************************************************************************)
(* What publishing promises, whatever the pipeline does on the way: each   *)
(* source has at most one doc, the markdown of the doc is exactly the      *)
(* outcome of the applied updates of the audit trail (design_spec.md, 6.2: *)
(* "docs.current_content_md is the materialized latest view"), and initial *)
(* documentation never overwrites documentation that is already there.     *)
(***************************************************************************)
EXTENDS Naturals, Sequences, FiniteSets

CONSTANTS
    Sources,
    RunIds      \* runs of the pipeline; each writes the trail at most once

VARIABLES
    docs,       \* per source: version (0: no doc yet) and the runs in its text
    audit       \* per source: doc_updates in id order, who and what status

vars == <<docs, audit>>

Applied == {"initial", "published"}
Doc     == [version : Nat, content : SUBSET RunIds]
Update  == [by : RunIds, status : Applied \cup {"rejected"}]
NoDoc   == [version |-> 0, content |-> {}]

Init ==
    /\ docs = [s \in Sources |-> NoDoc]
    /\ audit = [s \in Sources |-> <<>>]

Opened(d) == IF d = NoDoc THEN [version |-> 1, content |-> {}] ELSE d

Record(s, r, status) ==
    /\ \A k \in DOMAIN audit[s] : audit[s][k].by # r
    /\ audit' = [audit EXCEPT ![s] = Append(@, [by |-> r, status |-> status])]

Write(s, r) ==
    docs' = [docs EXCEPT ![s] = [version |-> Opened(@).version + 1,
                                 content |-> @.content \cup {r}]]

Open(s) ==
    /\ docs[s] = NoDoc
    /\ docs' = [docs EXCEPT ![s] = Opened(@)]
    /\ UNCHANGED audit

Initial(s, r) ==
    /\ docs[s].content = {}
    /\ Record(s, r, "initial")
    /\ Write(s, r)

Publish(s, r) == Record(s, r, "published") /\ Write(s, r)

Reject(s, r) ==
    /\ Record(s, r, "rejected")
    /\ docs' = [docs EXCEPT ![s] = Opened(@)]

Next == \E s \in Sources :
    \/ Open(s)
    \/ \E r \in RunIds : Initial(s, r) \/ Publish(s, r) \/ Reject(s, r)

Spec == Init /\ [][Next]_vars

-----------------------------------------------------------------------------
\* Ledger entries and docs have their types.
TypeOK ==
    /\ docs \in [Sources -> Doc]
    /\ audit \in [Sources -> Seq(Update)]

\* The text a trail amounts to: its last initial documentation and every
\* update published after it.
View(trail) ==
    {trail[k].by : k \in {i \in DOMAIN trail :
        /\ trail[i].status \in Applied
        /\ \A j \in DOMAIN trail : j > i => trail[j].status # "initial"}}

\* The text of a doc is the view of its trail: no update is lost, none is in
\* the text without a row (publish_to_db and publish_initial_doc write both).
MaterializedView == \A s \in Sources : docs[s].content = View(audit[s])

\* At most one row of a source's trail is its initial documentation.
InitialOnce ==
    \A s \in Sources : \A i, j \in DOMAIN audit[s] :
        audit[s][i].status = "initial" /\ audit[s][j].status = "initial" => i = j
=============================================================================
