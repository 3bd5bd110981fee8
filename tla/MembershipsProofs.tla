---------------------------- MODULE MembershipsProofs ----------------------------
(***************************************************************************)
(* The properties of Memberships for any users, organizations and number   *)
(* of requests.                                                            *)
(***************************************************************************)
EXTENDS Memberships, TLAPS

Assumptions == AccountsAssumption /\ MembershipsAssumption

Request == [op : {"invite", "update", "remove"}, step : {"asked", "admitted"},
            org : Orgs, by : Users, to : Users, as : Roles, seen : Roles,
            fresh : BOOLEAN]

\* The numbers without their bounds, on which no step here depends.
Account == [made : {"no", "registered", "invited"}, pw : Nat, version : Int,
            active : BOOLEAN, verified : BOOLEAN, verify : BOOLEAN, reset : BOOLEAN,
            invite : Orgs \cup {NoOrg}]

Typed ==
    /\ account \in [Users -> Account]
    /\ role \in [Users -> [Orgs -> Roles]]
    /\ resets \in Nat
    /\ req \in [Requests -> {Idle} \cup Request]
    /\ overtaken \subseteq Requests
    /\ late \subseteq Users /\ excused \subseteq Orgs

\* What an account has shows how it was made.
AccountInv == \A u \in Users :
    /\ account[u].made # "registered" => ~account[u].verified /\ ~account[u].verify
    /\ account[u].made = "invited" =>
          account[u].invite # NoOrg \/ account[u].active \/ u \in late
    /\ account[u].made = "invited" /\ account[u].pw # 0 /\ ~account[u].active => u \in late

\* What a request has found when it was admitted holds as long as no other has
\* committed on the same organization: the asker may manage it, and an owner who
\* removes somebody leaves another owner.
RequestInv == \A r \in Requests :
    LET q == req[r]
    IN q.step = "admitted" =>
          /\ ~q.fresh => Known(q.to)
          /\ r \notin overtaken => MayManage(q.by, q.org)
          /\ q.op = "remove" /\ q.seen = "owner" /\ r \notin overtaken =>
                \E w \in Users \ {q.to} : role[w][q.org] = "owner"

IInv == Typed /\ AccountInv /\ RequestInv /\ LastOwnerStays

LEMMA RoleValues ==
    /\ Roles = {"none", "viewer", "member", "admin", "owner"}
    /\ ROLE_HIERARCHY["owner"] >= ROLE_HIERARCHY["admin"]
BY DEF Roles, ROLE_HIERARCHY

LEMMA InitInv == Assumptions /\ Init => IInv
<1> SUFFICES ASSUME Assumptions, Init PROVE IInv
  OBVIOUS
<1> USE DEF Assumptions, AccountsAssumption, MembershipsAssumption
<1>1. Typed
  BY RoleValues DEF Init, AccountInit, Typed, Account, NoAccount, NewAccount
<1>2. AccountInv /\ RequestInv /\ LastOwnerStays
  BY DEF Init, AccountInit, NoAccount, NewAccount, AccountInv, RequestInv, LastOwnerStays, Idle
<1> QED BY <1>1, <1>2 DEF IInv

LEMMA GrantTyped ==
    ASSUME NEW f \in [Users -> [Orgs -> Roles]], NEW u \in Users, NEW o \in Orgs, NEW as \in Roles
    PROVE  [f EXCEPT ![u][o] = as] \in [Users -> [Orgs -> Roles]]
OBVIOUS

-----------------------------------------------------------------------------
\* The steps of an account by itself leave the requests and their organization's
\* owners alone.
LEMMA RegisterStep ==
    ASSUME Assumptions, IInv, NEW u \in Users, Register(u)
    PROVE  IInv'
<1> USE DEF Assumptions, AccountsAssumption, MembershipsAssumption
<1>0. Typed /\ AccountInv /\ RequestInv /\ LastOwnerStays
  BY DEF IInv
<1>1. /\ ~Known(u) /\ HomeOf[u] \in Orgs
      /\ account' = [account EXCEPT ![u] =
                        [made |-> "registered", pw |-> 1, version |-> 1, active |-> TRUE,
                         verified |-> FALSE, verify |-> TRUE, reset |-> FALSE, invite |-> NoOrg]]
      /\ role' = [role EXCEPT ![u][HomeOf[u]] = "owner"]
      /\ UNCHANGED <<resets, req, overtaken, late, excused>>
  BY DEF Register, RegisterUser, NewAccount
<1>2. Typed'
  <2>1. account'[u] \in Account
    BY <1>0, <1>1 DEF Typed, Account
  <2>2. role' \in [Users -> [Orgs -> Roles]]
    <3>1. "owner" \in Roles /\ role \in [Users -> [Orgs -> Roles]]
      BY <1>0, RoleValues DEF Typed, Account
    <3> QED BY <1>1, <3>1, GrantTyped
  <2> QED BY <1>0, <1>1, <2>1, <2>2 DEF Typed, Account
<1>3. AccountInv'
  BY <1>0, <1>1 DEF AccountInv, Typed, Account
<1>4. \A w \in Users, o \in Orgs : role'[w][o] = role[w][o] \/ role'[w][o] = "owner"
  BY <1>0, <1>1 DEF Typed, Account
<1>5. RequestInv'
  <2> SUFFICES ASSUME NEW r \in Requests, req[r].step = "admitted"
               PROVE  /\ ~req[r].fresh => Known(req[r].to)'
                      /\ r \notin overtaken => MayManage(req[r].by, req[r].org)'
                      /\ req[r].op = "remove" /\ req[r].seen = "owner" /\ r \notin overtaken =>
                            \E w \in Users \ {req[r].to} : role'[w][req[r].org] = "owner"
    BY <1>1 DEF RequestInv, MayManage, Known, check_role_sufficient
  <2>1. req[r] \in Request
    BY <1>0 DEF Typed, Account, Idle
  <2>2. ~req[r].fresh => Known(req[r].to)'
    BY <1>0, <1>1, <2>1 DEF RequestInv, Known, Typed, Account, Request
  <2>3. r \notin overtaken => MayManage(req[r].by, req[r].org)'
    BY <1>0, <1>1, <1>4, <2>1, RoleValues DEF RequestInv, MayManage, check_role_sufficient,
       Request
  <2>4. req[r].op = "remove" /\ req[r].seen = "owner" /\ r \notin overtaken =>
           \E w \in Users \ {req[r].to} : role'[w][req[r].org] = "owner"
    BY <1>0, <1>4, <2>1 DEF RequestInv, Request
  <2> QED BY <2>2, <2>3, <2>4
<1>6. LastOwnerStays'
  <2>1. \A o \in Orgs : Owners(o) \subseteq Owners(o)'
    BY <1>4 DEF Owners
  <2>2. u \in Owners(HomeOf[u])'
    BY <1>0, <1>1 DEF Owners, Typed, Account
  <2>3. \A w \in Users \ {u} : account'[w] = account[w]
    BY <1>0, <1>1 DEF Typed, Account
  <2> QED BY <1>0, <1>1, <2>1, <2>2, <2>3 DEF LastOwnerStays
<1> QED BY <1>2, <1>3, <1>5, <1>6 DEF IInv

LEMMA AccountStep ==
    ASSUME Assumptions, IInv, NEW u \in Users, Verify(u) \/ Reset(u) \/ AcceptInvite(u)
    PROVE  IInv'
<1> USE DEF Assumptions, AccountsAssumption
<1>0. Typed /\ AccountInv /\ RequestInv /\ LastOwnerStays
  BY DEF IInv
<1>1. UNCHANGED <<role, req, overtaken, excused>>
  BY DEF Verify, VerifyEmail, Reset, ResetPassword, AcceptInvite
<1>2. Typed'
  <2>1. CASE Verify(u)
    BY <1>0, <2>1 DEF Verify, VerifyEmail, Typed, Account
  <2>2. CASE Reset(u)
    BY <1>0, <2>2 DEF Reset, ResetPassword, Typed, Account
  <2>3. CASE AcceptInvite(u)
    <3>1. PICK b \in BOOLEAN : account' = [account EXCEPT ![u].invite = NoOrg, ![u].active = b]
      <4> DEFINE b == account[u].active \/ account[u].pw = 0
      <4>1. account' = [account EXCEPT ![u].invite = NoOrg, ![u].active = b]
        BY <1>0, <2>3 DEF AcceptInvite, Typed, Account
      <4>2. b \in BOOLEAN
        OBVIOUS
      <4> HIDE DEF b
      <4> QED BY <4>1, <4>2
    <3>2. account' \in [Users -> Account]
      <4>1. account \in [Users -> Account]
        BY <1>0 DEF Typed
      <4>2. account'[u] \in Account
        BY <3>1, <4>1 DEF Account
      <4>3. account' = [account EXCEPT ![u] = account'[u]]
        BY <3>1, <4>1, Zenon
      <4> QED BY <4>1, <4>2, <4>3
    <3>3. UNCHANGED <<resets, late>>
      BY <2>3 DEF AcceptInvite
    <3> QED BY <1>0, <1>1, <3>2, <3>3 DEF Typed, Account
  <2> QED BY <2>1, <2>2, <2>3
<1>3. \A w \in Users : account'[w].made = account[w].made
  <2>1. CASE Verify(u)
    BY <1>0, <2>1 DEF Verify, VerifyEmail, Typed, Account
  <2>2. CASE Reset(u)
    BY <1>0, <2>2 DEF Reset, ResetPassword, Typed, Account
  <2>3. CASE AcceptInvite(u)
    BY <1>0, <2>3 DEF AcceptInvite, Typed, Account
  <2> QED BY <2>1, <2>2, <2>3
<1>4. AccountInv'
  <2>1. CASE Verify(u)
    BY <1>0, <2>1 DEF Verify, VerifyEmail, Typed, AccountInv
  <2>2. CASE Reset(u)
    BY <1>0, <2>2 DEF Reset, ResetPassword, Typed, AccountInv
  <2>3. CASE AcceptInvite(u)
    BY <1>0, <2>3 DEF AcceptInvite, Typed, Account, AccountInv
  <2> QED BY <2>1, <2>2, <2>3
<1>5. RequestInv'
  <2>1. \A r \in Requests : req[r].step = "admitted" => req[r].to \in Users
    BY <1>0 DEF Typed, Account, Request, Idle
  <2> QED BY <1>0, <1>1, <1>3, <2>1 DEF RequestInv, Known, MayManage, check_role_sufficient
<1>6. LastOwnerStays'
  BY <1>0, <1>1, <1>3 DEF LastOwnerStays, Owners
<1> QED BY <1>2, <1>4, <1>5, <1>6 DEF IInv

-----------------------------------------------------------------------------
\* What a request does before it writes.
LEMMA RequestStep ==
    ASSUME Assumptions, IInv, NEW r \in Requests,
           \/ Refuse(r) \/ Admit(r) \/ Fail(r)
           \/ \E op \in {"invite", "update", "remove"}, o \in Orgs, by, to \in Users, as \in Roles :
                 Ask(r, op, o, by, to, as)
    PROVE  IInv'
<1>0. Typed /\ AccountInv /\ RequestInv /\ LastOwnerStays
  BY DEF IInv
<1>1. UNCHANGED <<account, role, resets, late, excused>>
  BY DEF Refuse, Admit, Fail, Ask, accounts
<1>2. AccountInv' /\ LastOwnerStays'
  BY <1>0, <1>1 DEF AccountInv, LastOwnerStays, Owners
<1>3. \A p \in Requests \ {r} : req'[p] = req[p]
  BY <1>0 DEF Refuse, Admit, Fail, Ask, Typed, Account
<1>9. overtaken' \subseteq Requests /\ \A p \in Requests \ {r} : p \in overtaken' <=> p \in overtaken
  BY <1>0 DEF Refuse, Admit, Fail, Ask, Typed
<1>4. SUFFICES /\ req' \in [Requests -> {Idle} \cup Request]
               /\ LET q == req'[r]
                  IN q.step = "admitted" =>
                        /\ ~q.fresh => Known(q.to)
                        /\ r \notin overtaken' => MayManage(q.by, q.org)
                        /\ q.op = "remove" /\ q.seen = "owner" /\ r \notin overtaken' =>
                              \E w \in Users \ {q.to} : role[w][q.org] = "owner"
  <2>1. Typed'
    BY <1>0, <1>1, <1>4, <1>9 DEF Typed
  <2>2. RequestInv'
    BY <1>0, <1>1, <1>3, <1>4, <1>9 DEF RequestInv, Known, MayManage, check_role_sufficient
  <2> QED BY <1>2, <2>1, <2>2 DEF IInv
<1>5. CASE Refuse(r) \/ Fail(r)
  <2>1. req' = [req EXCEPT ![r] = Idle]
    BY <1>5 DEF Refuse, Fail
  <2>2. req' \in [Requests -> {Idle} \cup Request] /\ req'[r] = Idle
    BY <1>0, <2>1 DEF Typed, Account
  <2> QED BY <2>2 DEF Idle
<1>6. CASE Admit(r)
  <2>1. req[r] \in Request
    BY <1>0, <1>6 DEF Admit, Typed, Account, Idle
  <2>2. /\ req' = [req EXCEPT ![r].step = "admitted", ![r].seen = role[req[r].by][req[r].org],
                              ![r].fresh = ~Known(req[r].to)]
        /\ ~Refused(r)
    BY <1>6 DEF Admit
  <2>3. role[req[r].by][req[r].org] \in Roles
    BY <1>0, <2>1 DEF Typed, Account, Request
  <2>4. /\ req'[r] = [req[r] EXCEPT !.step = "admitted", !.seen = role[req[r].by][req[r].org],
                                    !.fresh = ~Known(req[r].to)]
        /\ req' = [req EXCEPT ![r] = req'[r]]
    BY <1>0, <2>2, Zenon DEF Typed, Account
  <2>5. /\ req'[r] \in Request
        /\ req'[r].to = req[r].to /\ req'[r].by = req[r].by /\ req'[r].org = req[r].org
        /\ req'[r].op = req[r].op /\ req'[r].seen = role[req[r].by][req[r].org]
        /\ (~req'[r].fresh => Known(req[r].to))
    BY <1>0, <2>1, <2>2, <2>3 DEF Typed, Account, Request
  <2>6. MayManage(req[r].by, req[r].org)
    BY <2>2 DEF Refused
  <2>7. ASSUME req[r].op = "remove", role[req[r].by][req[r].org] = "owner"
        PROVE  \E w \in Users \ {req[r].to} : role[w][req[r].org] = "owner"
    <3>1. Owners(req[r].org) # {req[r].to}
      BY <2>2, <2>7 DEF Refused
    <3>2. req[r].by \in Owners(req[r].org)
      BY <2>1, <2>7 DEF Owners, Request
    <3> QED BY <3>1, <3>2 DEF Owners
  <2>8. req' \in [Requests -> {Idle} \cup Request]
    BY <1>0, <2>4, <2>5 DEF Typed, Account
  <2> QED BY <2>5, <2>6, <2>7, <2>8
<1>7. CASE \E op \in {"invite", "update", "remove"}, o \in Orgs, by, to \in Users, as \in Roles :
              Ask(r, op, o, by, to, as)
  <2>1. PICK op \in {"invite", "update", "remove"}, o \in Orgs, by \in Users, to \in Users,
             as \in Roles : Ask(r, op, o, by, to, as)
    BY <1>7
  <2> DEFINE q == [op |-> op, step |-> "asked", org |-> o, by |-> by, to |-> to,
                   as |-> as, seen |-> "none", fresh |-> FALSE]
  <2>2. req' = [req EXCEPT ![r] = q]
    BY <2>1 DEF Ask
  <2>3. q \in Request
    BY RoleValues DEF Request
  <2>4. req'[r] = q /\ q.step # "admitted"
    BY <1>0, <2>2 DEF Typed, Account
  <2> HIDE DEF q
  <2> QED BY <1>0, <2>2, <2>3, <2>4 DEF Typed, Account
<1> QED BY <1>5, <1>6, <1>7

-----------------------------------------------------------------------------
\* A request that commits overtakes the others on its organization; nothing that
\* the rest rely on changes.
LEMMA CommitStep ==
    ASSUME IInv, NEW r \in Requests, NEW op, NEW as \in Roles, Commits(r, op, as),
           \A u \in Users : Known(u) => Known(u)'
    PROVE  /\ req[r] \in Request
           /\ role' \in [Users -> [Orgs -> Roles]]
           /\ role'[req[r].to][req[r].org] = as
           /\ \A u \in Users, o \in Orgs :
                 u # req[r].to \/ o # req[r].org => role'[u][o] = role[u][o]
           /\ req' \in [Requests -> {Idle} \cup Request] /\ overtaken' \subseteq Requests
           /\ RequestInv'
<1>0. Typed /\ RequestInv
  BY DEF IInv
<1>1. /\ req[r].step = "admitted"
      /\ role' = [role EXCEPT ![req[r].to][req[r].org] = as]
      /\ req' = [req EXCEPT ![r] = Idle]
      /\ overtaken' = (overtaken \cup {p \in Requests : req[p].step = "admitted"
                                                       /\ req[p].org = req[r].org}) \ {r}
  BY DEF Commits
<1>2. req[r] \in Request
  BY <1>0, <1>1 DEF Typed, Idle
<1>3. req[r].to \in Users /\ req[r].org \in Orgs
  BY <1>2 DEF Request
<1>4. role' \in [Users -> [Orgs -> Roles]]
  <2>1. role \in [Users -> [Orgs -> Roles]]
    BY <1>0 DEF Typed
  <2> QED BY <1>1, <1>3, <2>1, GrantTyped
<1>5. /\ role'[req[r].to][req[r].org] = as
      /\ \A u \in Users, o \in Orgs :
            u # req[r].to \/ o # req[r].org => role'[u][o] = role[u][o]
  BY <1>0, <1>1, <1>3 DEF Typed
<1>6. req' \in [Requests -> {Idle} \cup Request] /\ overtaken' \subseteq Requests
  BY <1>0, <1>1 DEF Typed
<1>7. RequestInv'
  <2> SUFFICES ASSUME NEW p \in Requests, req'[p].step = "admitted"
               PROVE  /\ ~req'[p].fresh => Known(req[p].to)'
                      /\ p \notin overtaken' => MayManage(req[p].by, req[p].org)'
                      /\ req'[p].op = "remove" /\ req'[p].seen = "owner" /\ p \notin overtaken' =>
                            \E w \in Users \ {req'[p].to} : role'[w][req'[p].org] = "owner"
    BY DEF RequestInv, MayManage, Known, check_role_sufficient
  <2>1. p # r /\ req'[p] = req[p] /\ req[p] \in Request
    BY <1>0, <1>1 DEF Typed, Idle
  <2>2. p \notin overtaken' => p \notin overtaken /\ req[p].org # req[r].org
    BY <1>1, <2>1
  <2>3. req[p].by \in Users /\ req[p].to \in Users /\ req[p].org \in Orgs
    BY <2>1 DEF Request
  <2>4. req[p].org # req[r].org => \A w \in Users : role'[w][req[p].org] = role[w][req[p].org]
    BY <1>5, <2>3
  <2>5. Known(req[p].to)' \/ req'[p].fresh
    BY <1>0, <2>1, <2>3 DEF RequestInv, Known
  <2>6. p \notin overtaken' => MayManage(req[p].by, req[p].org)'
    BY <1>0, <2>1, <2>2, <2>3, <2>4 DEF RequestInv, MayManage, check_role_sufficient
  <2>7. req'[p].op = "remove" /\ req'[p].seen = "owner" /\ p \notin overtaken' =>
           \E w \in Users \ {req'[p].to} : role'[w][req'[p].org] = "owner"
    BY <1>0, <2>1, <2>2, <2>3, <2>4 DEF RequestInv
  <2> QED BY <2>5, <2>6, <2>7
<1> QED BY <1>2, <1>4, <1>5, <1>6, <1>7

LEMMA InviteStep ==
    ASSUME Assumptions, IInv, NEW r \in Requests, Invite(r)
    PROVE  IInv'
<1> DEFINE q == req[r]
<1>0. Typed /\ AccountInv /\ RequestInv /\ LastOwnerStays
  BY DEF IInv
<1>1. /\ Commits(r, "invite", q.as)
      /\ account' = IF q.fresh
                    THEN [account EXCEPT ![q.to] = NewAccount("invited", 0, FALSE, FALSE, q.org)]
                    ELSE [account EXCEPT ![q.to].invite = q.org]
      /\ UNCHANGED <<resets, late, excused>>
  BY DEF Invite
<1>2. q.step = "admitted" /\ ~Clashes(q) /\ q.op = "invite"
  BY <1>1 DEF Commits
<1>3. q \in Request
  BY <1>0, <1>2 DEF Typed, Idle
<1>4. /\ q.to \in Users /\ q.org \in Orgs /\ q.as \in Roles
      /\ role[q.to][q.org] = "none" /\ (q.fresh <=> ~Known(q.to))
  BY <1>0, <1>2, <1>3 DEF Clashes, Request, RequestInv
<1>5. /\ account' \in [Users -> Account]
      /\ \A w \in Users \ {q.to} : account'[w] = account[w]
      /\ account'[q.to].made = IF q.fresh THEN "invited" ELSE account[q.to].made
      /\ account'[q.to].invite = q.org
      /\ account'[q.to].pw = IF q.fresh THEN 0 ELSE account[q.to].pw
      /\ account'[q.to].active = IF q.fresh THEN FALSE ELSE account[q.to].active
      /\ account'[q.to].verified = IF q.fresh THEN FALSE ELSE account[q.to].verified
      /\ account'[q.to].verify = IF q.fresh THEN FALSE ELSE account[q.to].verify
  <2>1. CASE q.fresh
    <3>1. account' = [account EXCEPT ![q.to] =
                        [made |-> "invited", pw |-> 0, version |-> 1, active |-> FALSE,
                         verified |-> FALSE, verify |-> FALSE, reset |-> FALSE, invite |-> q.org]]
      BY <1>1, <2>1 DEF NewAccount
    <3>2. account \in [Users -> Account]
      BY <1>0 DEF Typed
    <3>3. [made |-> "invited", pw |-> 0, version |-> 1, active |-> FALSE, verified |-> FALSE,
           verify |-> FALSE, reset |-> FALSE, invite |-> q.org] \in Account
      BY <1>4 DEF Account
    <3> HIDE DEF q
    <3> QED BY <1>4, <2>1, <3>1, <3>2, <3>3
  <2>2. CASE ~q.fresh
    <3>1. account' = [account EXCEPT ![q.to].invite = q.org]
      BY <1>1, <2>2
    <3>2. account \in [Users -> Account]
      BY <1>0 DEF Typed
    <3> HIDE DEF q
    <3>3. /\ account'[q.to] \in Account /\ account'[q.to].invite = q.org
          /\ account'[q.to].made = account[q.to].made /\ account'[q.to].pw = account[q.to].pw
          /\ account'[q.to].active = account[q.to].active
          /\ account'[q.to].verified = account[q.to].verified
          /\ account'[q.to].verify = account[q.to].verify
      BY <1>4, <3>1, <3>2 DEF Account
    <3>4. account' = [account EXCEPT ![q.to] = account'[q.to]]
      BY <1>4, <3>1, <3>2, Zenon
    <3> QED BY <1>4, <2>2, <3>2, <3>3, <3>4
  <2> QED BY <2>1, <2>2
<1>6. \A u \in Users : Known(u) => Known(u)'
  BY <1>4, <1>5 DEF Known
<1>7. /\ role' \in [Users -> [Orgs -> Roles]]
      /\ role'[q.to][q.org] = q.as
      /\ \A u \in Users, o \in Orgs :
            u # q.to \/ o # q.org => role'[u][o] = role[u][o]
      /\ req' \in [Requests -> {Idle} \cup Request] /\ overtaken' \subseteq Requests
      /\ RequestInv'
  BY <1>1, <1>4, <1>6, CommitStep
<1>8. Typed'
  BY <1>0, <1>1, <1>5, <1>7 DEF Typed
<1>9. AccountInv'
  <2> SUFFICES ASSUME NEW u \in Users
               PROVE  /\ account'[u].made # "registered" => ~account'[u].verified /\ ~account'[u].verify
                      /\ account'[u].made = "invited" =>
                            account'[u].invite # NoOrg \/ account'[u].active \/ u \in late
                      /\ account'[u].made = "invited" /\ account'[u].pw # 0 /\ ~account'[u].active =>
                            u \in late
    BY <1>1 DEF AccountInv
  <2>1. CASE u = q.to
    <3>1. q.org # NoOrg
      BY <1>4 DEF Assumptions, AccountsAssumption
    <3> HIDE DEF q
    <3> QED BY <1>0, <1>5, <2>1, <3>1 DEF AccountInv
  <2>2. CASE u # q.to
    BY <1>0, <1>5, <2>2 DEF AccountInv
  <2> QED BY <2>1, <2>2
<1>10. LastOwnerStays'
  <2>1. \A o \in Orgs : Owners(o) \subseteq Owners(o)'
    BY <1>4, <1>7 DEF Owners
  <2>2. \A u \in Users : account'[u].made = "registered" => account[u].made = "registered"
    BY <1>5
  <2> QED BY <1>0, <1>1, <2>1, <2>2 DEF LastOwnerStays, Assumptions, AccountsAssumption
<1> QED BY <1>7, <1>8, <1>9, <1>10 DEF IInv

\* An update and a removal leave the accounts alone; the last owner they take is excused.
LEMMA LoseStep ==
    ASSUME Assumptions, IInv, NEW r \in Requests, UpdateRole(r) \/ Remove(r)
    PROVE  IInv'
<1> DEFINE q == req[r]
<1>0. Typed /\ AccountInv /\ RequestInv /\ LastOwnerStays
  BY DEF IInv
<1>1. UNCHANGED <<account, resets, late>>
  BY DEF UpdateRole, Remove
<1>2. q \in Request /\ q.step = "admitted"
  BY <1>0 DEF UpdateRole, Remove, Commits, Typed, Idle
<1>3. PICK as \in Roles :
         /\ \/ Commits(r, "update", as) /\ as = q.as
            \/ Commits(r, "remove", as) /\ as = "none"
         /\ excused' = IF /\ Owners(q.org) = {q.to}
                          /\ ~(\/ q.op = "update" /\ as = "owner"
                               \/ q.op = "remove" /\ q.seen = "owner" /\ r \notin overtaken)
                       THEN excused \cup {q.org} ELSE excused
  <2>1. CASE UpdateRole(r)
    BY <1>2, <2>1 DEF UpdateRole, Commits, Loses, Request
  <2>2. CASE Remove(r)
    BY <1>2, <2>2, RoleValues DEF Remove, Commits, Loses, Request
  <2> QED BY <2>1, <2>2
<1>4. \A u \in Users : Known(u) => Known(u)'
  BY <1>1 DEF Known
<1>5. /\ role' \in [Users -> [Orgs -> Roles]]
      /\ role'[q.to][q.org] = as
      /\ \A u \in Users, o \in Orgs :
            u # q.to \/ o # q.org => role'[u][o] = role[u][o]
      /\ req' \in [Requests -> {Idle} \cup Request] /\ overtaken' \subseteq Requests
      /\ RequestInv'
  BY <1>3, <1>4, CommitStep
<1>6. Typed'
  BY <1>0, <1>1, <1>2, <1>3, <1>5 DEF Typed, Request
<1>7. AccountInv'
  BY <1>0, <1>1 DEF AccountInv
<1>8. LastOwnerStays'
  <2> SUFFICES ASSUME NEW o \in Orgs, Owners(o) # {}, Owners(o)' = {}
               PROVE  o \in excused'
    BY <1>0, <1>1, <1>3 DEF LastOwnerStays, Assumptions, AccountsAssumption
  <2>1. as # "owner" /\ o = q.org /\ Owners(o) = {q.to}
    <3>1. PICK w \in Users : role[w][o] = "owner"
      BY DEF Owners
    <3>2. \A u \in Users : role'[u][o] # "owner"
      BY DEF Owners
    <3> HIDE DEF q
    <3>3. as # "owner" /\ o = q.org /\ \A u \in Users : role[u][o] = "owner" => u = q.to
      BY <1>5, <3>1, <3>2
    <3> QED BY <3>1, <3>3 DEF Owners
  <2>2. ~(q.op = "remove" /\ q.seen = "owner" /\ r \notin overtaken)
    BY <1>0, <1>2, <2>1 DEF RequestInv, Owners
  <2> QED BY <1>3, <2>1, <2>2
<1> QED BY <1>5, <1>6, <1>7, <1>8 DEF IInv

LEMMA StepInv ==
    ASSUME Assumptions, IInv, [Next]_vars
    PROVE  IInv'
<1>1. CASE UNCHANGED vars
  BY <1>1 DEF vars, accounts, IInv, Typed, AccountInv, RequestInv, LastOwnerStays, Known,
     MayManage, check_role_sufficient, Owners
<1>2. CASE \E u \in Users : Register(u) \/ Verify(u) \/ Reset(u) \/ AcceptInvite(u)
  BY <1>2, RegisterStep, AccountStep
<1>3. CASE \E r \in Requests :
              \/ \E op \in {"invite", "update"}, o \in Managed, by, to \in Users, as \in Grantable :
                    Ask(r, op, o, by, to, as)
              \/ \E o \in Managed, by, to \in Users : Ask(r, "remove", o, by, to, "none")
  <2>1. Managed \subseteq Orgs /\ Grantable \subseteq Roles /\ "none" \in Roles
    BY RoleValues DEF Assumptions, MembershipsAssumption
  <2> QED BY <1>3, <2>1, RequestStep
<1>4. CASE \E r \in Requests : Refuse(r) \/ Admit(r) \/ Fail(r)
  BY <1>4, RequestStep
<1>5. CASE \E r \in Requests : Invite(r)
  BY <1>5, InviteStep
<1>6. CASE \E r \in Requests : UpdateRole(r) \/ Remove(r)
  BY <1>6, LoseStep
<1> QED BY <1>1, <1>2, <1>3, <1>4, <1>5, <1>6 DEF Next

\* The strengthened invariant holds in every state of every behaviour.
THEOREM IInvariant == Spec => []IInv
<1>0. Assumptions
  BY AccountsAssumption, MembershipsAssumption DEF Assumptions
<1>1. Init => IInv
  BY <1>0, InitInv
<1>2. IInv /\ [Next]_vars => IInv'
  BY <1>0, StepInv
<1> QED BY <1>1, <1>2, PTL DEF Spec

\* The owner check of delete_membership for any users, organizations and requests:
\* an organization that has lost its last owner lost him by a role update, by an
\* admin who is not checked, or by an owner whose check others have overtaken.
THEOREM OwnersAreKept == Spec => []LastOwnerStays
BY IInvariant, PTL DEF IInv

\* accept_invite_by_token activates whoever accepts, unless he has set a password
\* before he was active.
THEOREM InvitesActivate == Spec => []AcceptedIsActive
<1>1. IInv => AcceptedIsActive
  BY DEF IInv, AccountInv, AcceptedIsActive
<1> QED BY <1>1, IInvariant, PTL

\* Neither invites nor resets verify an email: who logs in has registered.
THEOREM LoginsAreRegistered == Spec => []LoginNeedsRegistration
<1>1. IInv => LoginNeedsRegistration
  BY DEF IInv, AccountInv, LoginNeedsRegistration, Authenticates
<1> QED BY <1>1, IInvariant, PTL

\* A membership changes on the word of a manager: the request that commits was
\* admitted with the role, which only a commit that overtook it can have taken.
THEOREM ManagersChange == Spec => ChangedByManager
<1>1. IInv /\ [Next]_vars =>
         [\A r \in Requests : req[r].step = "admitted" /\ req'[r] = Idle /\ role' # role =>
             MayManage(req[r].by, req[r].org) \/ r \in overtaken]_vars
  BY DEF IInv, RequestInv
<1> QED BY <1>1, IInvariant, PTL DEF Spec, ChangedByManager
=============================================================================
