------------------------------- MODULE RunEffects -------------------------------
(***************************************************************************)
(* What a run of the pipeline does besides its snapshot, its diff and its  *)
(* audit row (_generate_and_publish, _generate_initial_doc of              *)
(* app/scheduler/pipeline.py): it checks and spends the organization's LLM *)
(* quota, waits in the LLM queue, and exports the doc to git.  The         *)
(* composition of Metering, FifoServer (which LLMQueue implements) and     *)
(* GitMirror, for the runs of one organization in one process.             *)
(***************************************************************************)
EXTENDS Metering, GitMirror

CONSTANTS
    Concurrency,    \* max_concurrency
    MaxCalls        \* bound: runs that get as far as the quota check

ASSUME EffectsAssumption ==
    /\ Quota \in Nat \ {0} /\ MaxTokens \in Nat \ {0} /\ MaxPeriod \in Nat \ {0}
    /\ Concurrency \in Nat \ {0} /\ MaxCalls \in Nat
    /\ NoRemote \notin Remotes /\ RemoteOf \in [Sources -> Remotes \cup {NoRemote}]

VARIABLES
    pc,         \* where the run of a source is
    line,       \* sources whose runs wait for the LLM queue
    serving,    \* sources whose calls are in progress
    calls       \* runs so far

queue == <<line, serving>>
vars  == <<metering, mirror, pc, queue, calls>>

Queue == INSTANCE FifoServer
    WITH Clients <- Sources, Capacity <- Concurrency, line <- line, serving <- serving

TypeOK ==
    /\ MeteringTypes
    /\ MirrorTypes
    /\ pc \in [Sources -> {"idle", "queued", "counting", "publishing", "exporting", "ending"}]
    /\ Queue!PlacesExact
    /\ calls \in 0 .. MaxCalls

Init ==
    /\ MeteringInit /\ MirrorInit /\ Queue!Init
    /\ pc = [s \in Sources |-> "idle"]
    /\ calls = 0

Go(s, from, to) == pc[s] = from /\ pc' = [pc EXCEPT ![s] = to]

-----------------------------------------------------------------------------
\* Start: the quota check.
CheckQuota(s, next, over) ==
    /\ Go(s, "idle", next)
    /\ calls < MaxCalls
    /\ calls' = calls + 1
    /\ \E got \in GetPeriodUsage(s) : (IsOverQuota(got.use) <=> over) /\ Open(s, got)
    /\ UNCHANGED mirror

(* Over quota, or no key configured: the run goes to its commit. *)
Reject(s)         == CheckQuota(s, "ending", TRUE) /\ UNCHANGED queue
SkipWithoutKey(s) == CheckQuota(s, "ending", FALSE) /\ UNCHANGED queue

(* The call is queued. *)
QueueLLM(s) == CheckQuota(s, "queued", FALSE) /\ Queue!Arrive(s)

(* It returns an update and its tokens, or raises. *)
LLMAnswers(s) ==
    /\ Go(s, "queued", "counting")
    /\ Queue!Depart(s)
    /\ calls' = calls
    /\ UNCHANGED <<metering, mirror>>

LLMFails(s) ==
    /\ Go(s, "queued", "ending")
    /\ Queue!Depart(s)
    /\ UNCHANGED <<metering, mirror, calls>>

Count(s, tokens) ==
    /\ Go(s, "counting", "publishing")
    /\ IncrementUsage(s, tokens)
    /\ UNCHANGED <<mirror, queue, calls>>

(* The new text, which may be the old one, of a doc with its export enabled or *)
(* not: nothing in app/ sets the flag, an operator may at any time.            *)
PublishText(s, text) ==
    /\ text \in {texts[s], calls} \ {0}
    /\ FlushText(s, text)
    /\ UNCHANGED <<metering, queue, calls>>

Publish(s, text) ==
    Go(s, "publishing", "exporting") /\ PublishText(s, text) /\ UNCHANGED drift

PublishUnexported(s, text) ==
    Go(s, "publishing", "ending") /\ PublishText(s, text) /\ drift' = drift \cup {s}

(* A refused full replacement. *)
Refuse(s) == Go(s, "publishing", "ending") /\ UNCHANGED <<metering, mirror, queue, calls>>

(* The export, whose failure is logged and nothing else. *)
Mirror(s) ==
    /\ Go(s, "exporting", "ending")
    /\ \/ Export(s)
       \/ ExportFailsEarly(s)
       \/ \E step \in {"remote", "add", "commit"} : ExportFailsLocally(s, step)
       \/ ExportFailsToPush(s)
    /\ UNCHANGED <<metering, queue, calls>>

(* The commit of the try block or of the except block. *)
Commit(s) ==
    /\ Go(s, "ending", "idle")
    /\ CommitUsage(s) /\ CommitDoc(s)
    /\ UNCHANGED <<queue, calls>>

(* A flush or the commit fails, with the call already made or not: the session is *)
(* rolled back.  The queue's place is free by then.                               *)
Rollback(s) ==
    /\ pc[s] \in {"counting", "publishing", "exporting", "ending"}
    /\ pc' = [pc EXCEPT ![s] = "idle"]
    /\ RollbackUsage(s) /\ RollbackDoc(s)
    /\ UNCHANGED <<queue, calls>>

(* The process dies with every session and the queue. *)
Crash ==
    /\ \E s \in Sources : pc[s] # "idle"
    /\ pc' = [s \in Sources |-> "idle"]
    /\ sess' = [s \in Sources |-> NoSess]
    /\ draft' = [s \in Sources |-> NoDraft]
    /\ drift' = drift \cup {s \in Sources : draft[s].dirty}
    /\ line' = <<>> /\ serving' = {}
    /\ UNCHANGED <<usage, period, spent, raced, repo, pushed, texts, refs, calls>>

NextMonth == Month /\ UNCHANGED <<mirror, pc, queue, calls>>

Next ==
    \/ \E s \in Sources :
          \/ Reject(s) \/ SkipWithoutKey(s) \/ QueueLLM(s) \/ LLMFails(s)
          \/ LLMAnswers(s)
          \/ \E tokens \in 1 .. MaxTokens : Count(s, tokens)
          \/ \E text \in 0 .. MaxCalls : Publish(s, text) \/ PublishUnexported(s, text)
          \/ Refuse(s) \/ Mirror(s) \/ Commit(s) \/ Rollback(s)
    \/ Crash \/ NextMonth

Spec == Init /\ [][Next]_vars
=============================================================================
