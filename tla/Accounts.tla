-------------------------------- MODULE Accounts --------------------------------
(***************************************************************************)
(* The rows of users and org_memberships that app/auth/service.py keeps:   *)
(* registration, verification, password reset and login.                   *)
(*                                                                         *)
(* A one-time token is kept as the fact that its link would work: a new    *)
(* link replaces the one before, and one that has expired, or that never   *)
(* reached its reader, is no link.  Email addresses are users; a password  *)
(* is the number of the reset that set it, 0 being the empty hash.         *)
(***************************************************************************)
EXTENDS Integers, FiniteSets

CONSTANTS
    Users,
    Orgs,
    NoOrg,
    HomeOf,     \* the organization that a user's registration creates
    MaxResets   \* bound: password resets

ASSUME AccountsAssumption ==
    /\ NoOrg \notin Orgs
    /\ HomeOf \in [Users -> Orgs]
    /\ MaxResets \in Nat

VARIABLES
    account,    \* table users
    role,       \* table org_memberships
    resets      \* password resets so far

accounts == <<account, role, resets>>

ROLE_HIERARCHY == [none |-> 0, viewer |-> 1, member |-> 2, admin |-> 3, owner |-> 4]
Roles == DOMAIN ROLE_HIERARCHY      \* "none": no membership

NewAccount(made, pw, active, verify, invite) ==
    [made |-> made, pw |-> pw, version |-> 1, active |-> active, verified |-> FALSE,
     verify |-> verify, reset |-> FALSE, invite |-> invite]
NoAccount == NewAccount("no", 0, FALSE, FALSE, NoOrg)

AccountTypes ==
    /\ account \in [Users -> [made : {"no", "registered", "invited"}, pw : 0 .. MaxResets + 1,
                              version : 1 .. MaxResets + 1, active : BOOLEAN,
                              verified : BOOLEAN, verify : BOOLEAN, reset : BOOLEAN,
                              invite : Orgs \cup {NoOrg}]]
    /\ role \in [Users -> [Orgs -> Roles]]
    /\ resets \in 0 .. MaxResets

AccountInit ==
    /\ account = [u \in Users |-> NoAccount]
    /\ role = [u \in Users |-> [o \in Orgs |-> "none"]]
    /\ resets = 0

Known(u) == account[u].made # "no"

-----------------------------------------------------------------------------
(* POST /auth/register: one commit for the user, the organization and its  *)
(* owner, another for the verification token.  The second may not happen,  *)
(* nor its mail be sent; the address is taken all the same.                *)
RegisterUser(u, mailed) ==
    /\ ~Known(u)
    /\ account' = [account EXCEPT ![u] = NewAccount("registered", 1, TRUE, mailed, NoOrg)]
    /\ role' = [role EXCEPT ![u][HomeOf[u]] = "owner"]
    /\ UNCHANGED resets

VerifyEmail(u) ==
    /\ account[u].verify /\ ~account[u].verified
    /\ account' = [account EXCEPT ![u].verified = TRUE, ![u].verify = FALSE]
    /\ UNCHANGED <<role, resets>>

(* authenticate: the join leaves out a user of no organization; then the   *)
(* password, which only a user with one can give, is_active and the email. *)
Authenticates(u) ==
    /\ \E o \in Orgs : role[u][o] # "none"
    /\ account[u].pw # 0
    /\ account[u].active
    /\ account[u].verified

RequestReset(u) ==
    /\ Known(u)
    /\ account' = [account EXCEPT ![u].reset = TRUE]
    /\ UNCHANGED <<role, resets>>

\* The commit of reset_password; ver is the version it read with the user.
ResetPassword(u, ver) ==
    /\ resets < MaxResets
    /\ resets' = resets + 1
    /\ account' = [account EXCEPT ![u].pw = resets + 2, ![u].reset = FALSE,
                                  ![u].version = ver + 1]
    /\ UNCHANGED role
=============================================================================
