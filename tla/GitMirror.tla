-------------------------------- MODULE GitMirror --------------------------------
(***************************************************************************)
(* The git export of one organization's docs (app/publish/git_export.py):  *)
(* one working copy for all of them, in which a run commits the text of    *)
(* its doc before its own database transaction commits.  git runs as       *)
(* synchronous subprocesses, so within a process an export is one step;    *)
(* each command of it may fail, and leaves what the ones before did.       *)
(***************************************************************************)
EXTENDS Organization

CONSTANTS
    Remotes,
    NoRemote,
    RemoteOf    \* git_export_path of each source's doc, NoRemote if NULL

VARIABLES
    repo,       \* the working copy: origin, index, commits
    pushed,     \* per remote: the commits it has
    texts,      \* docs.current_content_md; 0 is the empty text
    refs,       \* docs.last_git_export_commit; 0 for NULL
    draft,      \* what a run's session has flushed into its doc
    drift       \* history: sources whose last run or last export failed, or that
                \* were published with the export switched off

mirror == <<repo, pushed, texts, refs, draft, drift>>

NoText  == [s \in Sources |-> 0]
NoDraft == [text |-> 0, ref |-> 0, dirty |-> FALSE]
Empty   == [init |-> FALSE, origin |-> NoRemote, index |-> NoText, commits |-> <<>>]

MirrorTypes ==
    /\ repo \in [init : BOOLEAN, origin : Remotes \cup {NoRemote},
                 index : [Sources -> Nat], commits : Seq([Sources -> Nat])]
    /\ pushed \in [Remotes -> Nat]
    /\ texts \in [Sources -> Nat] /\ refs \in [Sources -> Nat]
    /\ draft \in [Sources -> [text : Nat, ref : Nat, dirty : BOOLEAN]]
    /\ drift \subseteq Sources

MirrorInit ==
    /\ repo = Empty
    /\ pushed = [r \in Remotes |-> 0]
    /\ texts = NoText /\ refs = NoText
    /\ draft = [s \in Sources |-> NoDraft]
    /\ drift = {}

-----------------------------------------------------------------------------
\* publish_to_db, publish_initial_doc: the new text is flushed.
FlushText(s, text) ==
    /\ draft' = [draft EXCEPT ![s] = [text |-> text, ref |-> refs[s], dirty |-> TRUE]]
    /\ UNCHANGED <<repo, pushed, texts, refs>>

(* _ensure_repo: the remote is added only with the repository. *)
EnsureRepo(r, remote) ==
    IF r.init THEN r ELSE [r EXCEPT !.init = TRUE, !.origin = remote]

\* git add; then git commit, which refuses an index that changes nothing.
\* Mutant of Staged: the file holds the text the database still has.
StagedBefore(s, r) == [r EXCEPT !.index[s] = texts[s]]

Staged(s, r) == [r EXCEPT !.index[s] = draft[s].text]
Nothing(r)   == IF r.commits = <<>> THEN r.index = NoText ELSE r.index = r.commits[Len(r.commits)]
Committed(r) == [r EXCEPT !.commits = Append(@, r.index)]

ExportStops(s, r) ==
    /\ repo' = r
    /\ drift' = drift \cup {s}
    /\ UNCHANGED <<pushed, texts, refs, draft>>

(* The file cannot be written, or git cannot run. *)
ExportFailsEarly(s) == ExportStops(s, repo)

(* init, add or commit fails: a repository without origin may be left, or a  *)
(* staged file; so does a text the mirror already has.                       *)
ExportFailsLocally(s, step) ==
    LET ready == EnsureRepo(repo, IF step = "remote" THEN NoRemote ELSE RemoteOf[s])
    IN /\ step \in {"remote", "add", "commit"}
       /\ step = "remote" => ~repo.init /\ RemoteOf[s] # NoRemote
       /\ ExportStops(s, IF step = "commit" THEN Staged(s, ready) ELSE ready)

(* The push fails: the remote is down, or there is no origin. *)
ExportFailsToPush(s) ==
    LET staged == Staged(s, EnsureRepo(repo, RemoteOf[s]))
    IN /\ RemoteOf[s] # NoRemote
       /\ ~Nothing(staged)
       /\ ExportStops(s, Committed(staged))

\* Mutant of Export: rev-parse before the commit.
ExportNamesParent(s) ==
    LET done == Committed(Staged(s, EnsureRepo(repo, RemoteOf[s])))
    IN /\ repo' = done
       /\ draft' = [draft EXCEPT ![s].ref = Len(repo.commits)]
       /\ UNCHANGED <<pushed, texts, refs, drift>>

(* All of it succeeds: the commit is pushed and the doc remembers it. *)
Export(s) ==
    LET staged == Staged(s, EnsureRepo(repo, RemoteOf[s]))
        done   == Committed(staged)
    IN /\ ~Nothing(staged)
       /\ RemoteOf[s] # NoRemote => done.origin # NoRemote
       /\ repo' = done
       /\ pushed' = IF RemoteOf[s] = NoRemote THEN pushed
                    ELSE [pushed EXCEPT ![done.origin] = Len(done.commits)]
       /\ draft' = [draft EXCEPT ![s].ref = Len(done.commits)]
       /\ UNCHANGED <<texts, refs, drift>>

\* The run's database transaction ends after the export.
CommitDoc(s) ==
    LET d == draft[s]
    IN /\ texts' = IF d.dirty THEN [texts EXCEPT ![s] = d.text] ELSE texts
       /\ refs' = IF d.dirty THEN [refs EXCEPT ![s] = d.ref] ELSE refs
       /\ drift' = IF d.dirty /\ d.ref # refs[s] THEN drift \ {s} ELSE drift
       /\ draft' = [draft EXCEPT ![s] = NoDraft]
       /\ UNCHANGED <<repo, pushed>>

RollbackDoc(s) ==
    /\ drift' = IF draft[s].dirty THEN drift \cup {s} ELSE drift
    /\ draft' = [draft EXCEPT ![s] = NoDraft]
    /\ UNCHANGED <<repo, pushed, texts, refs>>

-----------------------------------------------------------------------------
\* The mirror shows another text than the database only for a doc whose last
\* export or whose last run failed, or that was published with its export switched
\* off since, although the mirror is written before the database.
DriftExplained ==
    \A s \in Sources \ drift : ~draft[s].dirty /\ refs[s] # 0 =>
        repo.commits[Len(repo.commits)][s] = texts[s]

\* design_spec.md:220: last_git_export_commit tracks the last successful export: it
\* names a commit with the text it is stored with, which origin has if the doc has a
\* remote.  Origin is its remote, or that of the first doc exported (_ensure_repo).
RefNamesExport ==
    [][\A s \in Sources : refs'[s] # refs[s] =>
          /\ repo.commits[refs'[s]][s] = texts'[s]
          /\ RemoteOf[s] # NoRemote =>
                repo.origin # NoRemote /\ pushed[repo.origin] >= refs'[s]]_refs
=============================================================================
