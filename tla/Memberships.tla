------------------------------ MODULE Memberships ------------------------------
(***************************************************************************)
(* Who belongs to which organization, and as what: the invite, accept,     *)
(* update and remove routes of app/routers/memberships.py with their       *)
(* functions in app/auth/service.py, over the users of Accounts.           *)
(*                                                                         *)
(* A request reads the asker's role twice (get_current_org and             *)
(* require_role, then the service), reads what it is going to change, and  *)
(* writes; other requests commit in between.                               *)
(***************************************************************************)
EXTENDS Accounts

CONSTANTS
    Requests,
    Grantable,  \* the roles that requests ask for
    Managed     \* bound: the organizations that requests are about

ASSUME MembershipsAssumption == Grantable \subseteq Roles \ {"none"} /\ Managed \subseteq Orgs

VARIABLES
    req,        \* per request: what it does and how far it is
    overtaken,  \* history: admitted requests with a commit on their organization since
    late,       \* history: users who set a password before they were active
    excused     \* history: organizations whose owners were not kept by the check

vars == <<accounts, req, overtaken, late, excused>>

Idle == [op |-> "none", step |-> "none", org |-> NoOrg, by |-> NoOrg, to |-> NoOrg,
         as |-> "none", seen |-> "none", fresh |-> FALSE]

TypeOK ==
    /\ AccountTypes
    /\ req \in [Requests ->
          {Idle} \cup [op : {"invite", "update", "remove"}, step : {"asked", "admitted"},
                       org : Orgs, by : Users, to : Users, as : Roles, seen : Roles,
                       fresh : BOOLEAN]]
    /\ overtaken \subseteq Requests
    /\ late \subseteq Users /\ excused \subseteq Orgs

Init ==
    /\ AccountInit
    /\ req = [r \in Requests |-> Idle]
    /\ overtaken = {} /\ late = {} /\ excused = {}

check_role_sufficient(has, required) == ROLE_HIERARCHY[has] >= ROLE_HIERARCHY[required]
MayManage(u, o) == check_role_sufficient(role[u][o], "admin")
Owners(o) == {u \in Users : role[u][o] = "owner"}
Usable(u) == Known(u) /\ account[u].active

-----------------------------------------------------------------------------
(* Accounts. *)
Register(u) == RegisterUser(u, TRUE) /\ UNCHANGED <<req, overtaken, late, excused>>
Verify(u)   == VerifyEmail(u) /\ UNCHANGED <<req, overtaken, late, excused>>

(* The reset link is asked for and used. *)
Reset(u) ==
    /\ Known(u)
    /\ ResetPassword(u, account[u].version)
    /\ late' = IF account[u].active THEN late ELSE late \cup {u}
    /\ UNCHANGED <<req, overtaken, excused>>

-----------------------------------------------------------------------------
(* A request of a logged-in member passes get_current_org and require_role. *)
Ask(r, op, o, by, to, as) ==
    /\ req[r] = Idle
    /\ Usable(by) /\ account[by].verified /\ MayManage(by, o)
    /\ (op = "invite" \/ Known(to))
    /\ req' = [req EXCEPT ![r] = [op |-> op, step |-> "asked", org |-> o, by |-> by, to |-> to,
                                  as |-> as, seen |-> "none", fresh |-> FALSE]]
    /\ UNCHANGED <<accounts, overtaken, late, excused>>

\* Mutant of Refused: the service leaves the role to the route.
RefusedByTarget(r) ==
    LET q == req[r]
    IN \/ q.op = "update" /\ role[q.to][q.org] = "none"
       \/ q.op = "invite" /\ role[q.to][q.org] # "none"
       \/ q.op = "remove" /\ role[q.by][q.org] = "owner" /\ Owners(q.org) = {q.to}

\* Mutant of Refused: the last owner may leave by himself.
RefusedToOthers(r) ==
    LET q == req[r]
    IN \/ ~MayManage(q.by, q.org)
       \/ q.op = "update" /\ role[q.to][q.org] = "none"
       \/ q.op = "invite" /\ role[q.to][q.org] # "none"
       \/ q.op = "remove" /\ q.to # q.by /\ role[q.by][q.org] = "owner" /\ Owners(q.org) = {q.to}

(* The service refuses: the role has been lost, an update's target is no     *)
(* member, an invited user is one already, or an owner would remove the last *)
(* owner.                                                                    *)
Refused(r) ==
    LET q == req[r]
    IN \/ ~MayManage(q.by, q.org)
       \/ q.op = "update" /\ role[q.to][q.org] = "none"
       \/ q.op = "invite" /\ role[q.to][q.org] # "none"
       \/ q.op = "remove" /\ role[q.by][q.org] = "owner" /\ Owners(q.org) = {q.to}

Refuse(r) ==
    /\ req[r].step = "asked" /\ Refused(r)
    /\ req' = [req EXCEPT ![r] = Idle]
    /\ UNCHANGED <<accounts, overtaken, late, excused>>

Admit(r) ==
    LET q == req[r]
    IN /\ q.step = "asked" /\ ~Refused(r)
       /\ req' = [req EXCEPT ![r].step = "admitted", ![r].seen = role[q.by][q.org],
                             ![r].fresh = ~Known(q.to)]
       /\ UNCHANGED <<accounts, overtaken, late, excused>>

(* The commit fails: the address or the membership has been inserted *)
(* meanwhile, or the membership to update is gone.                   *)
Clashes(q) ==
    \/ q.op = "invite" /\ (role[q.to][q.org] # "none" \/ (q.fresh /\ Known(q.to)))
    \/ q.op = "update" /\ role[q.to][q.org] = "none"

Fail(r) ==
    /\ req[r].step = "admitted" /\ Clashes(req[r])
    /\ req' = [req EXCEPT ![r] = Idle]
    /\ overtaken' = overtaken \ {r}
    /\ UNCHANGED <<accounts, late, excused>>

(* The commit succeeds and overtakes the other requests that have read. *)
Commits(r, op, as) ==
    LET q == req[r]
    IN /\ q.op = op /\ q.step = "admitted" /\ ~Clashes(q)
       /\ role' = [role EXCEPT ![q.to][q.org] = as]
       /\ req' = [req EXCEPT ![r] = Idle]
       /\ overtaken' = (overtaken \cup {p \in Requests : req[p].step = "admitted" /\ req[p].org = q.org})
                         \ {r}

(* invite_user_to_org: a new address becomes a user without a password; the *)
(* token replaces that of another organization's invite.                    *)
Invite(r) ==
    LET q == req[r]
    IN /\ Commits(r, "invite", q.as)
       /\ account' = IF q.fresh
                     THEN [account EXCEPT ![q.to] = NewAccount("invited", 0, FALSE, FALSE, q.org)]
                     ELSE [account EXCEPT ![q.to].invite = q.org]
       /\ UNCHANGED <<resets, late, excused>>

\* The last owner goes without the check, or after one that others have overtaken.
Loses(q, checked) ==
    excused' = IF Owners(q.org) = {q.to} /\ ~checked THEN excused \cup {q.org} ELSE excused

UpdateRole(r) ==
    LET q == req[r]
    IN /\ Commits(r, "update", q.as)
       /\ Loses(q, q.as = "owner")
       /\ UNCHANGED <<account, resets, late>>

Remove(r) ==
    LET q == req[r]
    IN /\ Commits(r, "remove", "none")
       /\ Loses(q, q.seen = "owner" /\ r \notin overtaken)
       /\ UNCHANGED <<account, resets, late>>

\* Mutant of AcceptInvite: the user that has a password is activated instead.
AcceptActivatesMembers(u) ==
    LET o == account[u].invite
    IN /\ o # NoOrg /\ role[u][o] # "none"
       /\ account' = [account EXCEPT ![u].invite = NoOrg,
                                     ![u].active = @ \/ account[u].pw # 0]
       /\ UNCHANGED <<role, resets, req, overtaken, late, excused>>

\* Mutant of AcceptInvite: to have the invite is to have the address.
AcceptVerifies(u) ==
    LET o == account[u].invite
    IN /\ o # NoOrg /\ role[u][o] # "none"
       /\ account' = [account EXCEPT ![u].invite = NoOrg, ![u].verified = TRUE,
                                     ![u].active = @ \/ account[u].pw = 0]
       /\ UNCHANGED <<role, resets, req, overtaken, late, excused>>

(* accept_invite_by_token: the user becomes active unless there is a *)
(* password, and stays unverified.                                   *)
AcceptInvite(u) ==
    LET o == account[u].invite
    IN /\ o # NoOrg /\ role[u][o] # "none"
       /\ account' = [account EXCEPT ![u].invite = NoOrg,
                                     ![u].active = @ \/ account[u].pw = 0]
       /\ UNCHANGED <<role, resets, req, overtaken, late, excused>>

Next ==
    \/ \E u \in Users : Register(u) \/ Verify(u) \/ Reset(u) \/ AcceptInvite(u)
    \/ \E r \in Requests :
          \/ \E op \in {"invite", "update"}, o \in Managed, by, to \in Users, as \in Grantable :
                Ask(r, op, o, by, to, as)
          \/ \E o \in Managed, by, to \in Users : Ask(r, "remove", o, by, to, "none")
          \/ Refuse(r) \/ Admit(r) \/ Fail(r) \/ Invite(r) \/ UpdateRole(r) \/ Remove(r)

Spec == Init /\ [][Next]_vars

-----------------------------------------------------------------------------
\* service.py:357: an organization has lost its last owner only by a role update,
\* by an admin who is not checked, or by an owner whose check other requests have
\* overtaken.
LastOwnerStays == \A u \in Users :
    account[u].made = "registered" => Owners(HomeOf[u]) # {} \/ HomeOf[u] \in excused

\* A membership changes on the word of someone who may manage the organization at
\* that moment, or whose request was admitted before he lost the role.
ChangedByManager ==
    [][\A r \in Requests : req[r].step = "admitted" /\ req'[r] = Idle /\ role' # role =>
          MayManage(req[r].by, req[r].org) \/ r \in overtaken]_vars

\* An invited user who has accepted an invite is active, unless he has set a
\* password before (accept_invite_by_token takes him for active then).
AcceptedIsActive == \A u \in Users :
    account[u].made = "invited" /\ account[u].invite = NoOrg => account[u].active \/ u \in late

\* Nobody logs in to an account that he has not registered, whatever invites,
\* resets and removals come together: an invited user's email is never verified.
LoginNeedsRegistration == \A u \in Users : Authenticates(u) => account[u].made = "registered"
=============================================================================
