-------------------------------- MODULE Metering --------------------------------
(***************************************************************************)
(* The LLM usage of one organization (app/llm/metering.py): a row for each *)
(* calendar month, read before a call to see whether the quota is spent    *)
(* and written after it.                                                   *)
(*                                                                         *)
(* A session keeps the usage object it has read: a later SELECT of the     *)
(* same row does not refresh it, and the UPDATE writes the sum it          *)
(* computed.  Nothing makes (org_id, period_start) unique.  tokens_used    *)
(* and call_count are read and written together, so one number stands for  *)
(* both.                                                                   *)
(***************************************************************************)
EXTENDS Organization, FiniteSetsExt

CONSTANTS
    Quota,      \* token_quota an operator has set on this month's row
    MaxTokens,  \* tokens a call uses at most
    MaxPeriod   \* bound: months

VARIABLES
    usage,      \* table org_llm_usage of the organization, in id order
    period,     \* the current month
    sess,       \* per source: what its run's session holds of the table
    spent,      \* history: tokens of committed runs, per month they are counted in
    raced       \* history: months in which two sessions were open together

metering == <<usage, period, sess, spent, raced>>

Periods == 1 .. MaxPeriod
\* The usage object: its row (0: inserted, not committed), and the tokens that the
\* session has read in it or, once its own call is added, written.
Use    == [row : Nat, period : 0 .. MaxPeriod, tokens : Nat, added : 0 .. MaxTokens]
NoUse  == [row |-> 0, period |-> 0, tokens |-> 0, added |-> 0]
NoSess == [mine |-> <<>>, use |-> NoUse]    \* mine: months of the rows it inserted

MeteringTypes ==
    /\ usage \in Seq([period : Periods, tokens : Nat, quota : {0, Quota}])
    /\ period \in Periods
    /\ sess \in [Sources -> [mine : Seq(Periods), use : Use]]
    /\ spent \in [Periods -> Nat]
    /\ raced \in [Periods -> BOOLEAN]

MeteringInit ==
    /\ usage \in {<<>>, <<[period |-> 1, tokens |-> 0, quota |-> Quota]>>}
    /\ period = 1
    /\ sess = [s \in Sources |-> NoSess]
    /\ spent = [p \in Periods |-> 0]
    /\ raced = [p \in Periods |-> FALSE]

-----------------------------------------------------------------------------
(* get_period_usage: a committed row of the month, any if there are several, *)
(* as the session knows it if it does; its own; or else a new one.           *)
GetPeriodUsage(s) ==
    LET known  == sess[s].use
        mine   == sess[s].mine
        own    == \E i \in DOMAIN mine : mine[i] = period
        rows   == {r \in DOMAIN usage : usage[r].period = period}
        Get(r) == IF known.period = period /\ known.row = r THEN known
                  ELSE [row |-> r, period |-> period, tokens |-> usage[r].tokens, added |-> 0]
    IN IF rows = {} /\ ~own
       THEN {[mine |-> Append(mine, period), use |-> [NoUse EXCEPT !.period = period]]}
       ELSE {[mine |-> mine, use |-> Get(r)] : r \in IF own THEN rows \cup {0} ELSE rows}

\* Mutant of IsOverQuota: a quota that is just spent lets one more call through.
IsOverQuotaLate(use) ==
    use.row # 0 /\ usage[use.row].quota > 0 /\ use.tokens > usage[use.row].quota

\* A new row has no quota (the column's default 0).
IsOverQuota(use) ==
    use.row # 0 /\ usage[use.row].quota > 0 /\ use.tokens >= usage[use.row].quota

Open(s, got) ==
    /\ sess' = [sess EXCEPT ![s] = got]
    /\ raced' = IF \E u \in Sources \ {s} : sess[u].use.period = period
                THEN [raced EXCEPT ![period] = TRUE] ELSE raced
    /\ UNCHANGED <<usage, period, spent>>

\* Another session has flushed its tokens into the row and holds its lock.
Locked(s, r) == r # 0 /\ \E u \in Sources \ {s} : sess[u].use.row = r /\ sess[u].use.added > 0

\* Mutant of IncrementUsage: the tokens replace the sum.
IncrementReplaces(s, tokens) ==
    \E got \in GetPeriodUsage(s) :
        /\ ~Locked(s, got.use.row)
        /\ Open(s, [got EXCEPT !.use.tokens = tokens, !.use.added = tokens])

(* increment_usage: the sum is computed from the object and flushed, which *)
(* waits for the row's lock.                                                *)
IncrementUsage(s, tokens) ==
    \E got \in GetPeriodUsage(s) :
        /\ ~Locked(s, got.use.row)
        /\ Open(s, [got EXCEPT !.use.tokens = @ + tokens, !.use.added = tokens])

\* The session's commit: its rows, and the row it has updated.
CommitUsage(s) ==
    LET use     == sess[s].use
        Row(p)  == [period |-> p, quota |-> 0,
                    tokens |-> IF use.row = 0 /\ use.period = p THEN use.tokens ELSE 0]
        new     == [i \in DOMAIN sess[s].mine |-> Row(sess[s].mine[i])]
        updated == IF use.added > 0 /\ use.row # 0
                   THEN [usage EXCEPT ![use.row].tokens = use.tokens] ELSE usage
    IN /\ usage' = updated \o new
       /\ spent' = IF use.added > 0 THEN [spent EXCEPT ![use.period] = @ + use.added] ELSE spent
       /\ sess' = [sess EXCEPT ![s] = NoSess]
       /\ UNCHANGED <<period, raced>>

\* Mutant of RollbackUsage: the usage is committed by itself, whatever becomes of
\* the run.
RollbackKeepsUsage(s) ==
    /\ LET use == sess[s].use
       IN usage' = IF use.added > 0 /\ use.row # 0
                   THEN [usage EXCEPT ![use.row].tokens = use.tokens] ELSE usage
    /\ sess' = [sess EXCEPT ![s] = NoSess]
    /\ UNCHANGED <<period, spent, raced>>

RollbackUsage(s) ==
    /\ sess' = [sess EXCEPT ![s] = NoSess]
    /\ UNCHANGED <<usage, period, spent, raced>>

\* current_period: the month ends.
Month ==
    /\ period < MaxPeriod
    /\ period' = period + 1
    /\ UNCHANGED <<usage, sess, spent, raced>>

-----------------------------------------------------------------------------
Counted(p) == LET rows == {r \in DOMAIN usage : usage[r].period = p}
              IN MapThenSumSet(LAMBDA r : usage[r].tokens, rows)

\* As long as no two runs of an organization are between quota check and commit
\* in the same month, the month has one row and the row is the exact sum,
\* whatever fails, and across the end of a month (get_period_usage,
\* increment_usage).
ExactUnlessRaced ==
    \A p \in Periods : ~raced[p] =>
        /\ Counted(p) = spent[p]
        /\ \A r, t \in DOMAIN usage : usage[r].period = p /\ usage[t].period = p => r = t

\* However runs race, no organization is charged for tokens that no committed
\* run of it used.
NeverOvercharged == \A p \in Periods : Counted(p) <= spent[p]

\* The quota is overshot by the last call only in what is recorded, although runs
\* are admitted by what they read and counted by what they write.
QuotaRow == \A r \in DOMAIN usage :
    usage[r].quota > 0 => usage[r].tokens < usage[r].quota + MaxTokens
=============================================================================
