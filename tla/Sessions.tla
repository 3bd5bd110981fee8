-------------------------------- MODULE Sessions --------------------------------
(***************************************************************************)
(* The sessions of one user: refresh tokens that rotate within a family,   *)
(* access tokens bound to token_version, and the password reset that ends  *)
(* them all (app/auth/tokens.py, app/auth/dependencies.py and the routes   *)
(* of app/routers/auth.py).                                                *)
(*                                                                         *)
(* Requests interleave where one has read and not yet committed.  Postgres *)
(* runs them READ COMMITTED: an UPDATE of a row that is locked waits, and  *)
(* applies to the row as it was committed; a DELETE or an UPDATE of many   *)
(* rows finds those that were committed when it began.  A refresh token    *)
(* that is unknown or expired is not found, and nothing happens.           *)
(***************************************************************************)
EXTENDS Accounts, Sequences

CONSTANTS
    User,
    Home,
    Requests,
    MaxTokens   \* bound: refresh tokens issued

ASSUME SessionsAssumption ==
    Users = {User} /\ Orgs = {Home} /\ MaxTokens \in Nat

VARIABLES
    tokens,     \* table refresh_tokens in id order, deleted rows as "gone"
    access,     \* access tokens issued: their "ver", and the family they came with
    req,        \* per request: what it has read
    dead,       \* history: families revoked because a token was reused
    raced,      \* history: families that got a token from a request which
                \* overlapped the revocation or the reset that ends the family
    crossed     \* history: a reset committed that another one had overtaken

tables == <<tokens, access, dead, raced, crossed>>
vars   == <<accounts, tables, req>>

Tokens == 1 .. MaxTokens
Token(fam, st, pw) == [fam |-> fam, state |-> st, pw |-> pw]
Request(op, token, ver, pw) == [op |-> op, token |-> token, ver |-> ver, pw |-> pw, doomed |-> {}]
Idle   == Request("none", 0, 0, 0)

TypeOK ==
    /\ AccountTypes
    /\ tokens \in Seq([fam : Tokens, state : {"live", "revoked", "gone"}, pw : 1 .. MaxResets + 1])
    /\ access \subseteq [ver : 1 .. MaxResets + 1, fam : Tokens]
    /\ req \in [Requests -> [op : {"none", "login", "rotate", "reuse", "load", "reset", "sweep"},
                             token : 0 .. MaxTokens, ver : 0 .. MaxResets + 1,
                             pw : 0 .. MaxResets + 1, doomed : SUBSET Tokens]]
    /\ dead \subseteq Tokens /\ raced \subseteq Tokens /\ crossed \in BOOLEAN

Init ==
    /\ AccountInit
    /\ tokens = <<>> /\ access = {} /\ dead = {} /\ raced = {} /\ crossed = FALSE
    /\ req = [r \in Requests |-> Idle]

me == account[User]
IDs == DOMAIN tokens
Live(t)  == tokens[t].state = "live"
Doomed(t) == \E r \in Requests : req[r].op = "sweep" /\ t \in req[r].doomed
Sweeping == \E r \in Requests : req[r].op = "sweep"

Ask(r, now)  == req[r] = Idle /\ req' = [req EXCEPT ![r] = now]
Done(r, op)  == req[r].op = op /\ req' = [req EXCEPT ![r] = Idle]
Mark(f, bad) == raced' = IF bad THEN raced \cup {f} ELSE raced

-----------------------------------------------------------------------------
(* Registration, verification and reset requests; a reset holds the user's *)
(* row from its flush to its commit.                                       *)
Register(mailed) == RegisterUser(User, mailed) /\ UNCHANGED <<tables, req>>
Verify           == ~Sweeping /\ VerifyEmail(User) /\ UNCHANGED <<tables, req>>
AskReset         == ~Sweeping /\ ~me.reset /\ RequestReset(User) /\ UNCHANGED <<tables, req>>

(* Another member takes the user out of the organization, or back. *)
Membership ==
    /\ Known(User)
    /\ role' = [role EXCEPT ![User][Home] = IF @ = "none" THEN "member" ELSE "none"]
    /\ UNCHANGED <<account, resets, tables, req>>

(* Login: authenticate, then issue_refresh_token, whose commit is the next *)
(* time another request is heard.                                          *)
Login(r) ==
    /\ Authenticates(User)
    /\ Ask(r, Request("login", 0, me.version, me.pw))
    /\ UNCHANGED <<accounts, tables>>

IssueTokens(r) ==
    LET fam == Len(tokens) + 1
    IN /\ Len(tokens) < MaxTokens
       /\ Done(r, "login")
       /\ tokens' = Append(tokens, Token(fam, "live", req[r].pw))
       /\ access' = access \cup {[ver |-> req[r].ver, fam |-> fam]}
       /\ Mark(fam, req[r].pw # me.pw \/ Sweeping)
       /\ UNCHANGED <<accounts, dead, crossed>>

-----------------------------------------------------------------------------
(* Refresh: _find_token. *)
FindToken(r, t) ==
    /\ tokens[t].state # "gone"
    /\ Ask(r, Request(IF Live(t) THEN "rotate" ELSE "reuse", t, 0, 0))
    /\ UNCHANGED <<accounts, tables>>

\* Mutant of RevokeFamily: the presented token only.
RevokePresented(r) ==
    LET t == req[r].token
    IN /\ Done(r, "reuse")
       /\ tokens' = [tokens EXCEPT ![t].state = IF @ = "live" THEN "revoked" ELSE @]
       /\ dead' = dead \cup {tokens[t].fam}
       /\ UNCHANGED <<accounts, access, raced, crossed>>

(* The token was revoked: revoke_refresh_family. *)
RevokeFamily(r) ==
    LET fam == tokens[req[r].token].fam
    IN /\ Done(r, "reuse")
       /\ tokens' = [t \in IDs |-> IF tokens[t].fam = fam /\ Live(t)
                                   THEN Token(fam, "revoked", tokens[t].pw) ELSE tokens[t]]
       /\ dead' = dead \cup {fam}
       /\ UNCHANGED <<accounts, access, raced, crossed>>

\* Mutant of Rotate: the parent stays valid.
RotateKeepsParent(r) ==
    LET t == req[r].token
    IN /\ req[r].op = "rotate" /\ tokens[t].state # "gone" /\ Len(tokens) < MaxTokens
       /\ tokens' = Append(tokens, Token(tokens[t].fam, "live", tokens[t].pw))
       /\ req' = [req EXCEPT ![r].op = "load", ![r].token = Len(tokens) + 1]
       /\ Mark(tokens[t].fam, ~Live(t) \/ Doomed(t))
       /\ UNCHANGED <<accounts, access, dead, crossed>>

(* It was live: the parent is revoked and the child inserted, whatever has *)
(* become of the parent since, unless its row is gone.                     *)
Rotate(r) ==
    LET t == req[r].token
    IN /\ req[r].op = "rotate" /\ tokens[t].state # "gone" /\ Len(tokens) < MaxTokens
       /\ tokens' = Append([tokens EXCEPT ![t].state = "revoked"],
                           Token(tokens[t].fam, "live", tokens[t].pw))
       /\ req' = [req EXCEPT ![r].op = "load", ![r].token = Len(tokens) + 1]
       /\ Mark(tokens[t].fam, ~Live(t) \/ Doomed(t))
       /\ UNCHANGED <<accounts, access, dead, crossed>>

(* The UPDATE finds no row: StaleDataError, and the request fails. *)
RotateFails(r) ==
    /\ Done(r, "rotate")
    /\ tokens[req[r].token].state = "gone"
    /\ UNCHANGED <<accounts, tables>>

(* The route loads the user for the access token; the child is committed,  *)
(* and stays, if there is no user to answer with.                          *)
LoadUser(r) ==
    LET t == req[r].token
    IN /\ Done(r, "load")
       /\ IF role[User][Home] # "none" /\ me.active
          THEN /\ access' = access \cup {[ver |-> me.version, fam |-> tokens[t].fam]}
               /\ Mark(tokens[t].fam, ~Live(t))
          ELSE UNCHANGED <<access, raced>>
       /\ UNCHANGED <<accounts, tokens, dead, crossed>>

(* revoke_refresh_token: this token and no other of its family. *)
Logout(t) ==
    /\ tokens[t].state # "gone"
    /\ tokens' = [tokens EXCEPT ![t].state = "revoked"]
    /\ UNCHANGED <<accounts, access, dead, raced, crossed, req>>

-----------------------------------------------------------------------------
(* Password reset: the user is found by the token's hash; the user's row   *)
(* is flushed and the sessions are deleted; the transaction commits.       *)
FindReset(r) ==
    /\ me.reset /\ resets < MaxResets
    /\ Ask(r, Request("reset", 0, me.version, 0))
    /\ UNCHANGED <<accounts, tables>>

\* Mutant of Sweep: no session is deleted.
SweepNothing(r) ==
    /\ req[r].op = "reset" /\ ~Sweeping
    /\ req' = [req EXCEPT ![r].op = "sweep"]
    /\ UNCHANGED <<accounts, tables>>

Sweep(r) ==
    /\ req[r].op = "reset" /\ ~Sweeping
    /\ req' = [req EXCEPT ![r].op = "sweep", ![r].doomed = {t \in IDs : tokens[t].state # "gone"}]
    /\ UNCHANGED <<accounts, tables>>

\* Mutant of CommitReset: token_version stays.
ResetKeepsVersion(r) ==
    /\ Done(r, "sweep")
    /\ ResetPassword(User, req[r].ver - 1)
    /\ tokens' = [t \in IDs |-> IF t \in req[r].doomed
                                THEN Token(tokens[t].fam, "gone", tokens[t].pw) ELSE tokens[t]]
    /\ crossed' = (crossed \/ req[r].ver # me.version)
    /\ UNCHANGED <<access, dead, raced>>

CommitReset(r) ==
    /\ Done(r, "sweep")
    /\ ResetPassword(User, req[r].ver)
    /\ tokens' = [t \in IDs |-> IF t \in req[r].doomed
                                THEN Token(tokens[t].fam, "gone", tokens[t].pw) ELSE tokens[t]]
    /\ crossed' = (crossed \/ req[r].ver # me.version)
    /\ UNCHANGED <<access, dead, raced>>

Next ==
    \/ \E mailed \in BOOLEAN : Register(mailed)
    \/ Verify \/ AskReset \/ Membership
    \/ \E r \in Requests :
          \/ Login(r) \/ IssueTokens(r)
          \/ \E t \in IDs : FindToken(r, t)
          \/ RevokeFamily(r) \/ Rotate(r) \/ RotateFails(r) \/ LoadUser(r)
          \/ FindReset(r) \/ Sweep(r) \/ CommitReset(r)
    \/ \E t \in IDs : Logout(t)

Spec == Init /\ [][Next]_vars

-----------------------------------------------------------------------------
(* get_current_user accepts the access token. *)
Accepted(a) == a.ver = me.version /\ me.active

\* service.py:183: a reset leaves no refresh session of an earlier password,
\* through however many rotations, except where the login or the rotation that
\* issued a token overlapped the reset.
OldPasswordOut == \A t \in IDs : Live(t) => tokens[t].pw = me.pw \/ tokens[t].fam \in raced

\* No access token that came with an earlier password is accepted either, except
\* after such an overlap or after two resets that overlapped, of which both write
\* the version that one of them has read, plus one.
OldAccessOut == \A a \in access :
    Accepted(a) => tokens[a.fam].pw = me.pw \/ a.fam \in raced \/ crossed

\* tokens.py:18: a reused token ends its whole family, except for the child of a
\* rotation that had read its parent before.
ReuseEndsFamily == \A t \in IDs : Live(t) /\ tokens[t].fam \in dead => tokens[t].fam \in raced

\* A family has one live token, however often it is rotated, unless two requests
\* rotated the same one.
OneLiveToken == \A t, q \in IDs :
    Live(t) /\ Live(q) /\ tokens[t].fam = tokens[q].fam => t = q \/ tokens[t].fam \in raced
=============================================================================
