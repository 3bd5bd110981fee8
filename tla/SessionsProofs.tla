----------------------------- MODULE SessionsProofs -----------------------------
(***************************************************************************)
(* The properties of Sessions for any number of requests, refresh tokens   *)
(* and password resets.                                                    *)
(***************************************************************************)
EXTENDS Sessions, SequenceTheorems, TLAPS

Assumptions == AccountsAssumption /\ SessionsAssumption

Account == [made : {"no", "registered", "invited"}, pw : Nat, version : Int,
            active : BOOLEAN, verified : BOOLEAN, verify : BOOLEAN, reset : BOOLEAN,
            invite : Orgs \cup {NoOrg}]
TokenRow == [fam : Nat, state : {"live", "revoked", "gone"}, pw : Nat]
Asked == [op : {"none", "login", "rotate", "reuse", "load", "reset", "sweep"}, token : Nat,
          ver : Int, pw : Nat, doomed : SUBSET Nat]

\* The numbers without their bounds, on which no step depends.
Typed ==
    /\ account \in [Users -> Account] /\ resets \in Nat
    /\ tokens \in Seq(TokenRow)
    /\ access \subseteq [ver : Int, fam : Nat]
    /\ req \in [Requests -> Asked]

\* Before there is a user there is nothing of his.
UnknownInv == ~Known(User) =>
    /\ me.pw = 0 /\ ~me.reset
    /\ tokens = <<>> /\ access = {} /\ \A r \in Requests : req[r] = Idle

\* A family is named by its first token, and its tokens came with one password.
FamilyInv ==
    /\ \A t \in IDs : tokens[t].fam \in 1 .. t /\ tokens[tokens[t].fam].pw = tokens[t].pw
    /\ \A a \in access : a.fam \in IDs
    /\ dead \subseteq IDs

RequestInv ==
    /\ \A r \in Requests : req[r].op \in {"rotate", "reuse", "load"} => req[r].token \in IDs
    /\ \A r, p \in Requests : req[r].op = "sweep" /\ req[p].op = "sweep" => r = p

\* As long as no two resets have crossed, no version that is in use or about to be
\* is ahead of the user's.
VersionInv == ~crossed =>
    /\ \A a \in access : a.ver <= me.version
    /\ \A r \in Requests : req[r].op \in {"login", "reset", "sweep"} => req[r].ver <= me.version

\* The tokens that an open reset will leave are of families that raced it.
SweepInv == \A r \in Requests : req[r].op = "sweep" =>
    \A t \in IDs \ req[r].doomed : Live(t) => tokens[t].fam \in raced

Structure == Typed /\ UnknownInv /\ FamilyInv /\ RequestInv
Claims == OldPasswordOut /\ OldAccessOut /\ ReuseEndsFamily /\ OneLiveToken
IInv == Structure /\ VersionInv /\ SweepInv /\ Claims

-----------------------------------------------------------------------------
LEMMA InPlace ==
    ASSUME NEW S, NEW seq \in Seq(S), NEW f \in [DOMAIN seq -> S]
    PROVE  f \in Seq(S) /\ Len(f) = Len(seq) /\ DOMAIN f = DOMAIN seq
<1>1. Len(seq) \in Nat /\ DOMAIN seq = 1 .. Len(seq)
  BY LenProperties
<1> QED BY <1>1

LEMMA TokenFacts ==
    ASSUME Typed
    PROVE  /\ Len(tokens) \in Nat /\ IDs = 1 .. Len(tokens)
           /\ \A t \in IDs : tokens[t] \in TokenRow
<1> QED BY LenProperties DEF Typed, IDs

\* Tokens that keep their family and password keep the families.
LEMMA SameFamilies ==
    ASSUME Typed, FamilyInv, IDs' = IDs, access' = access, dead' \subseteq IDs,
           \A t \in IDs : tokens'[t].fam = tokens[t].fam /\ tokens'[t].pw = tokens[t].pw
    PROVE  FamilyInv'
<1>1. \A t \in IDs : tokens[t].fam \in 1 .. t /\ tokens[t].fam \in IDs
  BY TokenFacts DEF FamilyInv
<1>2. \A t \in IDs : tokens'[t].fam \in 1 .. t /\ tokens'[tokens'[t].fam].pw = tokens'[t].pw
  BY <1>1 DEF FamilyInv
<1> QED BY <1>2 DEF FamilyInv

LEMMA InitInv == Assumptions /\ Init => IInv
<1> SUFFICES ASSUME Assumptions, Init PROVE IInv
  OBVIOUS
<1> USE DEF Assumptions, AccountsAssumption, SessionsAssumption
<1>1. account = [u \in Users |-> [made |-> "no", pw |-> 0, version |-> 1, active |-> FALSE,
                                  verified |-> FALSE, verify |-> FALSE, reset |-> FALSE,
                                  invite |-> NoOrg]]
  BY DEF Init, AccountInit, NoAccount, NewAccount
<1>2. req = [r \in Requests |-> [op |-> "none", token |-> 0, ver |-> 0, pw |-> 0, doomed |-> {}]]
  BY DEF Init, Idle, Request
<1>3. tokens = <<>> /\ access = {} /\ dead = {} /\ resets = 0 /\ IDs = {}
  BY DEF Init, AccountInit, IDs
<1>4. Typed
  <2>1. tokens \in Seq(TokenRow)
    BY <1>3
  <2> QED BY <1>1, <1>2, <1>3, <2>1 DEF Typed, Account, Asked
<1>5. UnknownInv
  BY <1>1, <1>2, <1>3 DEF UnknownInv, me, Idle, Request
<1>6. FamilyInv /\ RequestInv /\ VersionInv /\ SweepInv /\ Claims
  BY <1>2, <1>3 DEF FamilyInv, RequestInv, VersionInv, SweepInv, Claims, OldPasswordOut,
     OldAccessOut, ReuseEndsFamily, OneLiveToken
<1> QED BY <1>4, <1>5, <1>6 DEF IInv, Structure

-----------------------------------------------------------------------------
\* Register, and the steps of the user alone.
LEMMA RegisterStep ==
    ASSUME Assumptions, IInv, NEW mailed \in BOOLEAN, Register(mailed)
    PROVE  IInv'
<1> USE DEF Assumptions, AccountsAssumption, SessionsAssumption
<1>1. /\ ~Known(User) /\ UNCHANGED <<tokens, access, dead, raced, crossed, req, resets>>
      /\ account' = [account EXCEPT ![User] =
                        [made |-> "registered", pw |-> 1, version |-> 1, active |-> TRUE,
                         verified |-> FALSE, verify |-> mailed, reset |-> FALSE,
                         invite |-> NoOrg]]
  BY DEF Register, RegisterUser, NewAccount, tables
<1>2. tokens = <<>> /\ access = {} /\ \A r \in Requests : req[r].op = "none"
  BY <1>1 DEF IInv, Structure, UnknownInv, Idle, Request
<1>3. Known(User)'
  BY <1>1 DEF Known, IInv, Structure, Typed
<1>4. Typed'
  <2>1. account' \in [Users -> Account]
    BY <1>1 DEF IInv, Structure, Typed, Account
  <2> QED BY <1>1, <2>1 DEF IInv, Structure, Typed
<1>5. UnknownInv' /\ FamilyInv' /\ RequestInv'
  BY <1>1, <1>3 DEF IInv, Structure, UnknownInv, FamilyInv, RequestInv, IDs
<1>6. IDs' = {} /\ access' = {}
  BY <1>1, <1>2 DEF IDs
<1>7. VersionInv' /\ SweepInv' /\ Claims'
  BY <1>1, <1>2, <1>6 DEF VersionInv, SweepInv, Claims, OldPasswordOut, OldAccessOut,
     ReuseEndsFamily, OneLiveToken
<1> QED BY <1>4, <1>5, <1>7 DEF IInv, Structure

LEMMA UserStep ==
    ASSUME Assumptions, IInv, Verify \/ AskReset \/ Membership
    PROVE  IInv'
<1> USE DEF Assumptions, AccountsAssumption, SessionsAssumption
<1>1. UNCHANGED <<tokens, access, dead, raced, crossed, req, resets>>
  BY DEF Verify, VerifyEmail, AskReset, RequestReset, Membership, tables
<1>2. /\ account' \in [Users -> Account]
      /\ me'.pw = me.pw /\ me'.version = me.version /\ me'.active = me.active
      /\ me'.made = me.made /\ (~Known(User) => me'.reset = me.reset)
  <2>1. CASE Verify
    BY <2>1 DEF Verify, VerifyEmail, IInv, Structure, Typed, Account, me
  <2>2. CASE AskReset
    BY <2>2 DEF AskReset, RequestReset, IInv, Structure, Typed, Account, me
  <2>3. CASE Membership
    BY <2>3 DEF Membership, IInv, Structure, Typed, me
  <2> QED BY <2>1, <2>2, <2>3
<1>3. Typed'
  BY <1>1, <1>2 DEF IInv, Structure, Typed
<1>4. UnknownInv' /\ FamilyInv' /\ RequestInv'
  BY <1>1, <1>2 DEF IInv, Structure, UnknownInv, FamilyInv, RequestInv, IDs, Known, me
<1>5. VersionInv' /\ SweepInv'
  BY <1>1, <1>2 DEF IInv, VersionInv, SweepInv, IDs, Live
<1>6. Claims'
  BY <1>1, <1>2 DEF IInv, Claims, OldPasswordOut, OldAccessOut, ReuseEndsFamily, OneLiveToken,
     IDs, Live, Accepted
<1> QED BY <1>3, <1>4, <1>5, <1>6 DEF IInv, Structure

-----------------------------------------------------------------------------
\* A user with anything to his name is known.
LEMMA KnownUser ==
    ASSUME IInv, \/ \E r \in Requests : req[r] # Idle
                 \/ IDs # {} \/ me.reset \/ me.pw # 0
    PROVE  Known(User)
BY DEF IInv, Structure, UnknownInv, IDs

\* A request that reads and writes nothing yet.
LEMMA ReadStep ==
    ASSUME Assumptions, IInv, Known(User), NEW r \in Requests, NEW q \in Asked,
           req' = [req EXCEPT ![r] = q], UNCHANGED <<accounts, tables>>,
           q.op \in {"rotate", "reuse", "load"} => q.token \in IDs,
           q.op \in {"login", "reset", "sweep"} /\ ~crossed => q.ver <= me.version,
           q.op = "sweep" => ~Sweeping /\ \A t \in IDs \ q.doomed : ~Live(t)
    PROVE  IInv'
<1>1. /\ UNCHANGED <<account, role, resets, tokens, access, dead, raced, crossed>>
      /\ req'[r] = q /\ \A p \in Requests \ {r} : req'[p] = req[p]
  BY DEF accounts, tables, IInv, Structure, Typed
<1>2. Typed'
  BY <1>1 DEF IInv, Structure, Typed
<1>3. UnknownInv' /\ FamilyInv'
  BY <1>1 DEF IInv, Structure, UnknownInv, FamilyInv, IDs, Known
<1>4. RequestInv'
  BY <1>1 DEF IInv, Structure, RequestInv, IDs, Sweeping
<1>5. VersionInv'
  BY <1>1 DEF IInv, VersionInv, me
<1>6. SweepInv'
  BY <1>1 DEF IInv, SweepInv, IDs, Live
<1>7. Claims'
  BY <1>1 DEF IInv, Claims, OldPasswordOut, OldAccessOut, ReuseEndsFamily, OneLiveToken,
     IDs, Live, Accepted, me
<1> QED BY <1>2, <1>3, <1>4, <1>5, <1>6, <1>7 DEF IInv, Structure

LEMMA LookupStep ==
    ASSUME Assumptions, IInv, NEW r \in Requests,
           \/ Login(r) \/ RotateFails(r) \/ FindReset(r)
           \/ \E t \in IDs : FindToken(r, t)
    PROVE  IInv'
<1>1. account[User] \in Account
  BY DEF Assumptions, SessionsAssumption, IInv, Structure, Typed
<1>2. CASE Login(r)
  <2> DEFINE q == [op |-> "login", token |-> 0, ver |-> me.version, pw |-> me.pw, doomed |-> {}]
  <2>1. /\ req' = [req EXCEPT ![r] = q] /\ UNCHANGED <<accounts, tables>> /\ me.pw # 0
    BY <1>2 DEF Login, Ask, Request, Authenticates, me
  <2>2. q \in Asked
    BY <1>1 DEF Asked, Account, me
  <2>3. Known(User) /\ me.version <= me.version
    BY <1>1, <2>1, KnownUser DEF Account, me
  <2>4. q.op = "login" /\ q.ver = me.version
    OBVIOUS
  <2> HIDE DEF q
  <2> QED BY <2>1, <2>2, <2>3, <2>4, ReadStep
<1>3. CASE RotateFails(r)
  <2>1. req' = [req EXCEPT ![r] = Idle] /\ UNCHANGED <<accounts, tables>> /\ req[r].op = "rotate"
    BY <1>3 DEF RotateFails, Done
  <2>2. Idle \in Asked /\ Idle.op = "none"
    BY DEF Idle, Request, Asked
  <2>3. Known(User)
    BY <2>1, <2>2, KnownUser
  <2> QED BY <2>1, <2>2, <2>3, ReadStep
<1>4. CASE FindReset(r)
  <2> DEFINE q == [op |-> "reset", token |-> 0, ver |-> me.version, pw |-> 0, doomed |-> {}]
  <2>1. /\ req' = [req EXCEPT ![r] = q] /\ UNCHANGED <<accounts, tables>> /\ me.reset
    BY <1>4 DEF FindReset, Ask, Request
  <2>2. q \in Asked
    BY <1>1 DEF Asked, Account, me
  <2>3. Known(User) /\ me.version <= me.version
    BY <1>1, <2>1, KnownUser DEF Account, me
  <2>4. q.op = "reset" /\ q.ver = me.version
    OBVIOUS
  <2> HIDE DEF q
  <2> QED BY <2>1, <2>2, <2>3, <2>4, ReadStep
<1>5. ASSUME NEW t \in IDs, FindToken(r, t)
      PROVE  IInv'
  <2>1. PICK op \in {"rotate", "reuse"} : req' = [req EXCEPT ![r] = Request(op, t, 0, 0)]
    BY <1>5 DEF FindToken, Ask
  <2> DEFINE q == [op |-> op, token |-> t, ver |-> 0, pw |-> 0, doomed |-> {}]
  <2>2. req' = [req EXCEPT ![r] = q] /\ UNCHANGED <<accounts, tables>>
    BY <1>5, <2>1 DEF FindToken, Request
  <2>3. q \in Asked
    BY TokenFacts DEF Asked, IInv, Structure
  <2>4. Known(User)
    BY KnownUser
  <2>5. q.op \in {"rotate", "reuse"} /\ q.token = t
    OBVIOUS
  <2> HIDE DEF q
  <2> QED BY <2>2, <2>3, <2>4, <2>5, ReadStep
<1> QED BY <1>2, <1>3, <1>4, <1>5

LEMMA SweepStep ==
    ASSUME Assumptions, IInv, NEW r \in Requests, Sweep(r)
    PROVE  IInv'
<1> DEFINE gone == {t \in IDs : tokens[t].state # "gone"}
<1>1. /\ req[r] \in Asked /\ gone \in SUBSET Nat
      /\ req[r].op = "reset" /\ ~Sweeping /\ UNCHANGED <<accounts, tables>>
      /\ req' = [req EXCEPT ![r].op = "sweep", ![r].doomed = gone]
  BY TokenFacts DEF Sweep, IInv, Structure, Typed
<1>2. \A t \in IDs \ gone : ~Live(t)
  BY DEF Live
<1> HIDE DEF gone
<1>3. /\ req'[r] \in Asked /\ req'[r].op = "sweep" /\ req'[r].doomed = gone
      /\ req'[r].ver = req[r].ver
  BY <1>1 DEF Asked, IInv, Structure, Typed
<1>4. req' = [req EXCEPT ![r] = req'[r]]
  BY <1>1, Zenon DEF IInv, Structure, Typed
<1>5. Known(User) /\ (~crossed => req[r].ver <= me.version)
  <2>1. req[r] # Idle
    BY <1>1 DEF Idle, Request
  <2> QED BY <1>1, <2>1, KnownUser DEF IInv, VersionInv
<1> QED BY <1>1, <1>2, <1>3, <1>4, <1>5, ReadStep

-----------------------------------------------------------------------------
\* Steps that end sessions: no token changes its family or password, or lives again.
LEMMA EndStep ==
    ASSUME Assumptions, IInv, NEW r \in Requests, RevokeFamily(r)
    PROVE  IInv'
<1> DEFINE fam == tokens[req[r].token].fam
<1>1. /\ UNCHANGED <<accounts, access, raced, crossed>>
      /\ req[r].op = "reuse" /\ req' = [req EXCEPT ![r] = Idle]
      /\ dead' = dead \cup {fam}
      /\ tokens' = [t \in IDs |-> IF tokens[t].fam = fam /\ Live(t)
                                  THEN Token(fam, "revoked", tokens[t].pw) ELSE tokens[t]]
  BY DEF RevokeFamily, Done
<1>2. Idle \in Asked /\ Idle.op = "none"
  BY DEF Idle, Request, Asked
<1>3. Known(User) /\ Known(User)'
  BY <1>1, <1>2, KnownUser DEF accounts, Known
<1>4. fam \in IDs
  <2>1. req[r].token \in IDs
    BY <1>1 DEF IInv, Structure, RequestInv
  <2> QED BY <2>1, TokenFacts DEF IInv, Structure, FamilyInv
<1> HIDE DEF fam
<1>5. \A t \in IDs : /\ tokens'[t] \in TokenRow
                     /\ tokens'[t].fam = tokens[t].fam /\ tokens'[t].pw = tokens[t].pw
                     /\ tokens'[t].state = "live" => Live(t) /\ tokens[t].fam # fam
  <2> SUFFICES ASSUME NEW t \in IDs
               PROVE  /\ tokens'[t] \in TokenRow
                      /\ tokens'[t].fam = tokens[t].fam /\ tokens'[t].pw = tokens[t].pw
                      /\ tokens'[t].state = "live" => Live(t) /\ tokens[t].fam # fam
    OBVIOUS
  <2>1. tokens[t] \in TokenRow
    BY TokenFacts DEF IInv, Structure
  <2>2. CASE tokens[t].fam = fam /\ Live(t)
    BY <1>1, <2>1, <2>2 DEF Token, TokenRow
  <2>3. CASE ~(tokens[t].fam = fam /\ Live(t))
    BY <1>1, <2>1, <2>3 DEF Live
  <2> QED BY <2>2, <2>3
<1>6. tokens' \in Seq(TokenRow) /\ IDs' = IDs
  <2>1. tokens' \in [DOMAIN tokens -> TokenRow]
    BY <1>1, <1>5 DEF IDs
  <2>2. tokens \in Seq(TokenRow)
    BY DEF IInv, Structure, Typed
  <2> QED BY <2>1, <2>2, InPlace DEF IDs
<1>7. Typed'
  BY <1>1, <1>2, <1>6 DEF accounts, IInv, Structure, Typed
<1>8. UnknownInv'
  BY <1>3 DEF UnknownInv
<1>9. FamilyInv'
  BY <1>1, <1>4, <1>5, <1>6, SameFamilies DEF IInv, Structure, FamilyInv
<1>10. \A p \in Requests : req'[p].op # "none" => req'[p] = req[p]
  BY <1>1, <1>2 DEF IInv, Structure, Typed
<1>11. RequestInv'
  BY <1>6, <1>10 DEF IInv, Structure, RequestInv
<1>12. VersionInv'
  BY <1>1, <1>10 DEF accounts, IInv, VersionInv, me
<1>13. SweepInv'
  BY <1>1, <1>5, <1>6, <1>10 DEF IInv, SweepInv, Live
<1>14. Claims'
  BY <1>1, <1>4, <1>5, <1>6 DEF accounts, IInv, Structure, FamilyInv, Claims, OldPasswordOut, OldAccessOut, ReuseEndsFamily,
     OneLiveToken, Live, Accepted, me
<1> QED BY <1>7, <1>8, <1>9, <1>11, <1>12, <1>13, <1>14 DEF IInv, Structure

LEMMA LogoutStep ==
    ASSUME Assumptions, IInv, NEW t \in IDs, Logout(t)
    PROVE  IInv'
<1>1. /\ UNCHANGED <<accounts, access, dead, raced, crossed, req>>
      /\ tokens' = [tokens EXCEPT ![t].state = "revoked"]
  BY DEF Logout
<1>2. tokens \in Seq(TokenRow) /\ DOMAIN tokens = IDs /\ tokens[t] \in TokenRow
  BY TokenFacts DEF IInv, Structure, Typed, IDs
<1>3. /\ tokens'[t] \in TokenRow /\ tokens'[t].fam = tokens[t].fam /\ tokens'[t].pw = tokens[t].pw
      /\ tokens'[t].state = "revoked" /\ \A q \in IDs \ {t} : tokens'[q] = tokens[q]
      /\ DOMAIN tokens' = IDs /\ tokens' = [q \in IDs |-> tokens'[q]]
  BY <1>1, <1>2 DEF TokenRow
<1>4. tokens' \in Seq(TokenRow) /\ IDs' = IDs
  <2>1. tokens' \in [DOMAIN tokens -> TokenRow]
    BY <1>2, <1>3, TokenFacts DEF IInv, Structure
  <2> QED BY <1>2, <2>1, InPlace DEF IDs
<1>5. \A q \in IDs : /\ tokens'[q].fam = tokens[q].fam /\ tokens'[q].pw = tokens[q].pw
                     /\ Live(q)' => Live(q)
  BY <1>3 DEF Live
<1>6. Typed'
  BY <1>1, <1>4 DEF accounts, IInv, Structure, Typed
<1>7. UnknownInv' /\ FamilyInv' /\ RequestInv'
  <2>1. Known(User)'
    BY <1>1, KnownUser DEF accounts, Known
  <2>2. FamilyInv'
    BY <1>1, <1>4, <1>5, SameFamilies DEF IInv, Structure, FamilyInv
  <2> QED BY <1>1, <1>4, <2>1, <2>2 DEF IInv, Structure, UnknownInv, RequestInv
<1>8. VersionInv' /\ SweepInv'
  BY <1>1, <1>4, <1>5 DEF accounts, IInv, VersionInv, SweepInv, me
<1>9. Claims'
  BY <1>1, <1>4, <1>5 DEF accounts, IInv, Structure, FamilyInv, Claims, OldPasswordOut, OldAccessOut,
     ReuseEndsFamily, OneLiveToken, Accepted, me
<1> QED BY <1>6, <1>7, <1>8, <1>9 DEF IInv, Structure

LEMMA ResetStep ==
    ASSUME Assumptions, IInv, NEW r \in Requests, CommitReset(r)
    PROVE  IInv'
<1> DEFINE doomed == req[r].doomed
           ver == req[r].ver
<1>1. /\ req[r].op = "sweep" /\ req' = [req EXCEPT ![r] = Idle]
      /\ resets' = resets + 1 /\ UNCHANGED <<access, dead, raced>>
      /\ account' = [account EXCEPT ![User].pw = resets + 2, ![User].reset = FALSE,
                                    ![User].version = ver + 1]
      /\ tokens' = [t \in IDs |-> IF t \in doomed
                                  THEN Token(tokens[t].fam, "gone", tokens[t].pw) ELSE tokens[t]]
      /\ crossed' = (crossed \/ ver # me.version)
  BY DEF CommitReset, Done, ResetPassword
<1>2. Idle \in Asked /\ Idle.op = "none"
  BY DEF Idle, Request, Asked
<1>3. req[r] \in Asked /\ ver \in Int /\ User \in Users
  BY DEF IInv, Structure, Typed, Asked, Assumptions, SessionsAssumption
<1>4. Known(User)
  BY <1>1, <1>2, KnownUser
<1> HIDE DEF doomed, ver
<1>5. /\ account' \in [Users -> Account] /\ account'[User].version = ver + 1
      /\ account'[User].made = account[User].made /\ account[User].version \in Int
      /\ resets' \in Nat
  <2>1. account \in [Users -> Account] /\ resets \in Nat
    BY DEF IInv, Structure, Typed
  <2>2. /\ account'[User] \in Account /\ account'[User].version = ver + 1
        /\ account'[User].made = account[User].made
    <3> DEFINE pw == resets + 2
               next == ver + 1
    <3>1. pw \in Nat /\ next \in Int /\ account[User] \in Account
      BY <1>3, <2>1
    <3>2. account' = [account EXCEPT ![User].pw = pw, ![User].reset = FALSE, ![User].version = next]
      BY <1>1
    <3> HIDE DEF pw, next
    <3>3. /\ account'[User] \in Account /\ account'[User].version = next
          /\ account'[User].made = account[User].made
      BY <1>3, <2>1, <3>1, <3>2 DEF Account
    <3> QED BY <3>3 DEF next
  <2>3. account' = [account EXCEPT ![User] = account'[User]]
    BY <1>1, <1>3, <2>1, Zenon
  <2> QED BY <1>1, <1>3, <2>1, <2>2, <2>3 DEF Account
<1>6. \A t \in IDs : /\ tokens'[t] \in TokenRow
                     /\ tokens'[t].fam = tokens[t].fam /\ tokens'[t].pw = tokens[t].pw
                     /\ tokens'[t].state = "live" => Live(t) /\ t \notin doomed
  <2> SUFFICES ASSUME NEW t \in IDs
               PROVE  /\ tokens'[t] \in TokenRow
                      /\ tokens'[t].fam = tokens[t].fam /\ tokens'[t].pw = tokens[t].pw
                      /\ tokens'[t].state = "live" => Live(t) /\ t \notin doomed
    OBVIOUS
  <2>1. tokens[t] \in TokenRow
    BY TokenFacts DEF IInv, Structure
  <2>2. CASE t \in doomed
    BY <1>1, <2>1, <2>2 DEF Token, TokenRow
  <2>3. CASE t \notin doomed
    BY <1>1, <2>1, <2>3 DEF Live
  <2> QED BY <2>2, <2>3
<1>7. tokens' \in Seq(TokenRow) /\ IDs' = IDs
  <2>1. tokens' \in [DOMAIN tokens -> TokenRow]
    BY <1>1, <1>6 DEF IDs
  <2>2. tokens \in Seq(TokenRow)
    BY DEF IInv, Structure, Typed
  <2> QED BY <2>1, <2>2, InPlace DEF IDs
<1>8. \A t \in IDs : tokens'[t].state = "live" => Live(t) /\ tokens[t].fam \in raced
  BY <1>1, <1>6 DEF IInv, SweepInv, doomed
<1>9. \A p \in Requests : /\ req'[p].op # "none" => req'[p] = req[p]
                          /\ req'[p].op # "sweep"
  BY <1>1, <1>2 DEF IInv, Structure, Typed, RequestInv
<1>10. Typed'
  BY <1>1, <1>2, <1>5, <1>7 DEF IInv, Structure, Typed
<1>11. UnknownInv' /\ RequestInv' /\ SweepInv'
  <2>1. UnknownInv'
    BY <1>4, <1>5 DEF UnknownInv, Known
  <2>2. RequestInv' /\ SweepInv'
    BY <1>7, <1>9 DEF IInv, Structure, RequestInv, SweepInv
  <2> QED BY <2>1, <2>2
<1>12. FamilyInv'
  BY <1>1, <1>6, <1>7, SameFamilies DEF IInv, Structure, FamilyInv
<1>13. /\ \A a \in access : a.ver \in Int
       /\ \A p \in Requests : req[p].ver \in Int
  BY DEF IInv, Structure, Typed, Asked
<1>14. VersionInv'
  <2> SUFFICES ASSUME ~crossed'
               PROVE  /\ \A a \in access : a.ver <= ver + 1
                      /\ \A p \in Requests : req'[p].op \in {"login", "reset", "sweep"} =>
                            req'[p].ver <= ver + 1
    BY <1>1, <1>5 DEF VersionInv, me
  <2>1. ~crossed /\ ver = me.version
    BY <1>1
  <2>2. \A a \in access : a.ver <= ver
    BY <2>1 DEF IInv, VersionInv
  <2>3. \A p \in Requests : req'[p].op \in {"login", "reset", "sweep"} =>
           req'[p] = req[p] /\ req[p].ver <= ver
    BY <1>9, <2>1 DEF IInv, VersionInv
  <2> QED BY <1>3, <1>13, <2>2, <2>3
<1>15. OldAccessOut'
  <2> SUFFICES ASSUME NEW a \in access, Accepted(a)', ~crossed' PROVE FALSE
    BY <1>1 DEF OldAccessOut
  <2>1. a.ver = ver + 1 /\ a.ver <= ver
    BY <1>1, <1>5 DEF Accepted, me, IInv, VersionInv
  <2> QED BY <1>3, <2>1
<1>16. Claims'
  BY <1>1, <1>6, <1>7, <1>8, <1>15 DEF IInv, Claims, OldPasswordOut, ReuseEndsFamily,
     OneLiveToken, Live
<1> QED BY <1>10, <1>11, <1>12, <1>14, <1>16 DEF IInv, Structure

-----------------------------------------------------------------------------
\* Steps that issue tokens.
LEMMA IssueStep ==
    ASSUME Assumptions, IInv, NEW r \in Requests, IssueTokens(r)
    PROVE  IInv'
<1> DEFINE n == Len(tokens) + 1
           a == [ver |-> req[r].ver, fam |-> n]
<1>1. /\ req[r].op = "login" /\ req' = [req EXCEPT ![r] = Idle]
      /\ tokens' = Append(tokens, [fam |-> n, state |-> "live", pw |-> req[r].pw])
      /\ access' = access \cup {a}
      /\ raced' = IF req[r].pw # me.pw \/ Sweeping THEN raced \cup {n} ELSE raced
      /\ UNCHANGED <<accounts, dead, crossed>>
  BY DEF IssueTokens, Done, Mark, Token
<1>2. Idle \in Asked /\ Idle.op = "none"
  BY DEF Idle, Request, Asked
<1>3. req[r] \in Asked /\ req[r].pw \in Nat /\ req[r].ver \in Int /\ Len(tokens) \in Nat
  BY TokenFacts DEF IInv, Structure, Typed, Asked
<1>4. a \in [ver : Int, fam : Nat] /\ a.ver = req[r].ver /\ a.fam = n
  BY <1>3
<1> HIDE DEF a
<1>5. Known(User) /\ Known(User)'
  BY <1>1, <1>2, KnownUser DEF accounts, Known
<1>6. /\ tokens' \in Seq(TokenRow) /\ IDs = 1 .. Len(tokens) /\ IDs' = 1 .. n
      /\ tokens'[n] = [fam |-> n, state |-> "live", pw |-> req[r].pw]
      /\ \A t \in IDs : tokens'[t] = tokens[t]
  <2>1. [fam |-> n, state |-> "live", pw |-> req[r].pw] \in TokenRow
    BY <1>3 DEF TokenRow
  <2>2. tokens \in Seq(TokenRow) /\ IDs = 1 .. Len(tokens)
    BY TokenFacts DEF IInv, Structure, Typed
  <2>3. Len(tokens') = n
    BY <1>1, <2>1, <2>2, AppendProperties
  <2> QED BY <1>1, <2>1, <2>2, <2>3, AppendProperties, LenProperties DEF IDs
<1>7. tokens'[n].fam = n /\ tokens'[n].pw = req[r].pw
  BY <1>6
<1>8. n \in Nat /\ n \notin IDs /\ IDs' = IDs \cup {n}
  BY <1>3, <1>6
<1> HIDE DEF n
<1>9. Typed'
  BY <1>1, <1>2, <1>4, <1>6 DEF accounts, IInv, Structure, Typed
<1>10. FamilyInv'
  <2>1. \A t \in IDs : tokens[t].fam \in IDs
    BY TokenFacts DEF IInv, Structure, FamilyInv
  <2> QED BY <1>1, <1>4, <1>6, <1>7, <1>8, <2>1 DEF IInv, Structure, FamilyInv
<1>11. \A p \in Requests : req'[p].op # "none" => req'[p] = req[p]
  BY <1>1, <1>2 DEF IInv, Structure, Typed
<1>12. UnknownInv' /\ RequestInv'
  BY <1>5, <1>8, <1>11 DEF IInv, Structure, UnknownInv, RequestInv
<1>13. VersionInv'
  BY <1>1, <1>4, <1>11 DEF accounts, IInv, VersionInv, me
<1>14. SweepInv'
  BY <1>1, <1>6, <1>7, <1>8, <1>11 DEF IInv, SweepInv, Sweeping, Live
<1>15. OldPasswordOut'
  BY <1>1, <1>6, <1>7, <1>8 DEF accounts, IInv, Claims, OldPasswordOut, Live, me
<1>16. OldAccessOut'
  BY <1>1, <1>4, <1>6, <1>7, <1>8 DEF accounts, IInv, Structure, FamilyInv, Claims, OldAccessOut, Accepted, me
<1>17. ReuseEndsFamily' /\ OneLiveToken'
  <2>1. \A t \in IDs : tokens[t].fam # n
    BY <1>8, TokenFacts DEF IInv, Structure, FamilyInv
  <2>2. n \notin dead
    BY <1>8 DEF IInv, Structure, FamilyInv
  <2> QED BY <1>1, <1>6, <1>7, <1>8, <2>1, <2>2 DEF IInv, Claims, ReuseEndsFamily, OneLiveToken, Live
<1> QED BY <1>9, <1>10, <1>12, <1>13, <1>14, <1>15, <1>16, <1>17 DEF IInv, Structure, Claims

LEMMA RotateStep ==
    ASSUME Assumptions, IInv, NEW r \in Requests, Rotate(r)
    PROVE  IInv'
<1> DEFINE t == req[r].token
           n == Len(tokens) + 1
           fam == tokens[t].fam
           child == [fam |-> fam, state |-> "live", pw |-> tokens[t].pw]
           base == [tokens EXCEPT ![t].state = "revoked"]
<1>1. /\ req[r].op = "rotate" /\ req' = [req EXCEPT ![r].op = "load", ![r].token = n]
      /\ tokens' = Append(base, child)
      /\ raced' = IF ~Live(t) \/ Doomed(t) THEN raced \cup {fam} ELSE raced
      /\ UNCHANGED <<accounts, access, dead, crossed>>
  BY DEF Rotate, Mark, Token
<1>2. /\ t \in IDs /\ tokens \in Seq(TokenRow) /\ tokens[t] \in TokenRow /\ req[r] \in Asked
      /\ Len(tokens) \in Nat /\ DOMAIN tokens = IDs /\ IDs = 1 .. Len(tokens) /\ fam \in IDs
  <2>1. t \in IDs
    BY <1>1 DEF IInv, Structure, RequestInv
  <2> QED BY <2>1, TokenFacts DEF IInv, Structure, Typed, FamilyInv, IDs
<1>3. /\ base \in Seq(TokenRow) /\ Len(base) = Len(tokens)
      /\ base[t].state = "revoked" /\ base[t].fam = fam /\ base[t].pw = tokens[t].pw
      /\ \A q \in IDs \ {t} : base[q] = tokens[q]
  <2>1. /\ base[t] \in TokenRow /\ base[t].state = "revoked"
        /\ base[t].fam = fam /\ base[t].pw = tokens[t].pw
    BY <1>2 DEF TokenRow
  <2>2. (\A q \in IDs \ {t} : base[q] = tokens[q]) /\ base = [q \in DOMAIN tokens |-> base[q]]
    BY <1>2
  <2> HIDE DEF base
  <2>3. base \in [DOMAIN tokens -> TokenRow]
    BY <1>2, <2>1, <2>2, TokenFacts DEF IInv, Structure
  <2> QED BY <1>2, <2>1, <2>2, <2>3, InPlace
<1>4. child \in TokenRow /\ child.fam = fam /\ child.pw = tokens[t].pw /\ child.state = "live"
  BY <1>2 DEF TokenRow
<1> HIDE DEF base, child
<1>5. /\ tokens' \in Seq(TokenRow) /\ IDs' = 1 .. n /\ tokens'[n] = child
      /\ \A q \in IDs : tokens'[q] = base[q]
  <2>1. Len(tokens') = n
    BY <1>1, <1>3, <1>4, AppendProperties
  <2> QED BY <1>1, <1>2, <1>3, <1>4, <2>1, AppendProperties, LenProperties DEF IDs
<1>6. /\ \A q \in IDs : /\ tokens'[q].fam = tokens[q].fam /\ tokens'[q].pw = tokens[q].pw
                        /\ tokens'[q].state = "live" => q # t /\ Live(q)
      /\ tokens'[n].fam = fam /\ tokens'[n].pw = tokens[t].pw
  BY <1>3, <1>4, <1>5 DEF Live
<1>7. n \in Nat /\ n \notin IDs /\ IDs' = IDs \cup {n}
  BY <1>2, <1>5
<1>8. /\ req'[r] \in Asked /\ req'[r].op = "load" /\ req'[r].token = n
      /\ req' \in [Requests -> Asked] /\ \A p \in Requests \ {r} : req'[p] = req[p]
  <2> HIDE DEF n
  <2>1. req \in [Requests -> Asked]
    BY DEF IInv, Structure, Typed
  <2>2. req'[r] \in Asked /\ req'[r].op = "load" /\ req'[r].token = n
    BY <1>1, <1>7, <2>1 DEF Asked
  <2>3. req' = [req EXCEPT ![r] = req'[r]]
    BY <1>1, <2>1, Zenon
  <2> QED BY <2>1, <2>2, <2>3
<1> HIDE DEF n
<1>9. Typed'
  BY <1>1, <1>5, <1>8 DEF accounts, IInv, Structure, Typed
<1>10. FamilyInv'
  <2>1. \A q \in IDs : tokens[q].fam \in IDs /\ tokens[q].fam \in 1 .. q
    BY TokenFacts DEF IInv, Structure, FamilyInv
  <2>2. fam \in 1 .. n
    BY <1>2, <1>7 DEF n
  <2>3. \A q \in IDs' : tokens'[q].fam \in 1 .. q /\ tokens'[tokens'[q].fam].pw = tokens'[q].pw
    <3>1. ASSUME NEW q \in IDs
          PROVE  tokens'[q].fam \in 1 .. q /\ tokens'[tokens'[q].fam].pw = tokens'[q].pw
      BY <1>6, <2>1 DEF IInv, Structure, FamilyInv
    <3>2. tokens[fam].pw = tokens[t].pw
      BY <1>2 DEF IInv, Structure, FamilyInv
    <3>3. tokens'[n].fam \in 1 .. n /\ tokens'[tokens'[n].fam].pw = tokens'[n].pw
      BY <1>2, <1>6, <2>2, <3>2
    <3> QED BY <1>7, <3>1, <3>3
  <2> QED BY <1>1, <1>7, <2>3 DEF IInv, Structure, FamilyInv
<1>11. UnknownInv' /\ RequestInv'
  <2>1. Known(User)'
    BY <1>1, <1>2, KnownUser DEF accounts, Known
  <2> QED BY <1>7, <1>8, <2>1 DEF IInv, Structure, UnknownInv, RequestInv
<1>12. VersionInv'
  BY <1>1, <1>8 DEF accounts, IInv, VersionInv, me
<1>13. SweepInv'
  <2> SUFFICES ASSUME NEW p \in Requests, req[p].op = "sweep", req'[p] = req[p],
                      NEW q \in IDs' \ req[p].doomed, tokens'[q].state = "live"
               PROVE  tokens'[q].fam \in raced'
    BY <1>8 DEF SweepInv, Live
  <2>1. CASE q \in IDs
    BY <1>1, <1>6, <2>1 DEF IInv, SweepInv
  <2>2. CASE q = n
    <3>1. CASE ~Live(t) \/ Doomed(t)
      BY <1>1, <1>6, <2>2, <3>1
    <3>2. CASE Live(t) /\ ~Doomed(t)
      <4>1. t \in IDs \ req[p].doomed
        BY <1>2, <3>2 DEF Doomed
      <4> QED BY <1>1, <1>6, <2>2, <3>2, <4>1 DEF IInv, SweepInv
    <3> QED BY <3>1, <3>2
  <2> QED BY <1>7, <2>1, <2>2
<1>14. /\ raced \subseteq raced' /\ (Live(t) \/ fam \in raced')
       /\ UNCHANGED <<account, access, dead, crossed>>
  BY <1>1 DEF accounts
<1> HIDE DEF t, fam
<1>15. OldPasswordOut'
  <2>1. ASSUME NEW q \in IDs, tokens'[q].state = "live"
        PROVE  tokens'[q].pw = me.pw \/ tokens'[q].fam \in raced'
    BY <1>6, <1>14, <2>1 DEF IInv, Claims, OldPasswordOut
  <2>2. tokens[t].pw = me.pw \/ fam \in raced'
    BY <1>2, <1>14 DEF IInv, Claims, OldPasswordOut, fam
  <2> QED BY <1>6, <1>7, <1>14, <2>1, <2>2 DEF OldPasswordOut, Live, me
<1>16. OldAccessOut'
  <2> SUFFICES ASSUME NEW b \in access, b.ver = me.version, me.active
               PROVE  tokens'[b.fam].pw = me.pw \/ b.fam \in raced' \/ crossed
    BY <1>14 DEF OldAccessOut, Accepted, me
  <2>1. b.fam \in IDs
    BY DEF IInv, Structure, FamilyInv
  <2> QED BY <1>6, <1>14, <2>1 DEF IInv, Claims, OldAccessOut, Accepted
<1>17. ReuseEndsFamily'
  <2>1. ASSUME NEW q \in IDs, tokens'[q].state = "live", tokens'[q].fam \in dead
        PROVE  tokens'[q].fam \in raced'
    BY <1>6, <1>14, <2>1 DEF IInv, Claims, ReuseEndsFamily
  <2>2. fam \in dead => fam \in raced'
    BY <1>2, <1>14 DEF IInv, Claims, ReuseEndsFamily, fam
  <2> QED BY <1>6, <1>7, <1>14, <2>1, <2>2 DEF ReuseEndsFamily, Live
<1>18. OneLiveToken'
  <2> SUFFICES ASSUME NEW p \in IDs', NEW q \in IDs', tokens'[p].state = "live",
                      tokens'[q].state = "live", tokens'[p].fam = tokens'[q].fam, p # q
               PROVE  tokens'[p].fam \in raced'
    BY DEF OneLiveToken, Live
  <2>1. CASE p \in IDs /\ q \in IDs
    BY <1>6, <1>14, <2>1 DEF IInv, Claims, OneLiveToken
  <2>2. ASSUME NEW w \in IDs, tokens'[w].state = "live", tokens'[w].fam = fam
        PROVE  fam \in raced'
    <3>1. Live(w) /\ w # t /\ tokens[w].fam = fam
      BY <1>6, <2>2
    <3> QED BY <1>2, <1>14, <3>1 DEF IInv, Claims, OneLiveToken, fam
  <2> QED BY <1>6, <1>7, <2>1, <2>2
<1> QED BY <1>9, <1>10, <1>11, <1>12, <1>13, <1>15, <1>16, <1>17, <1>18
   DEF IInv, Structure, Claims

\* The access token is made for the user as he is now, which his family may not be.
LEMMA LoadStep ==
    ASSUME Assumptions, IInv, NEW r \in Requests, LoadUser(r)
    PROVE  IInv'
<1> DEFINE t == req[r].token
           fam == tokens[t].fam
           a == [ver |-> me.version, fam |-> fam]
<1>1. /\ req[r].op = "load" /\ req' = [req EXCEPT ![r] = Idle]
      /\ \/ access' = access \cup {a} /\ raced' = IF ~Live(t) THEN raced \cup {fam} ELSE raced
         \/ UNCHANGED <<access, raced>>
      /\ UNCHANGED <<accounts, tokens, dead, crossed>>
  BY DEF LoadUser, Done, Mark
<1>2. Idle \in Asked /\ Idle.op = "none"
  BY DEF Idle, Request, Asked
<1>3. t \in IDs /\ fam \in IDs /\ tokens[fam].pw = tokens[t].pw
  <2>1. t \in IDs
    BY <1>1 DEF IInv, Structure, RequestInv
  <2> QED BY <2>1, TokenFacts DEF IInv, Structure, FamilyInv
<1>4. a \in [ver : Int, fam : Nat] /\ a.ver = me.version /\ a.fam = fam /\ me.version <= me.version
  BY <1>3, TokenFacts DEF IInv, Structure, Typed, Account, me, Assumptions, SessionsAssumption
<1> HIDE DEF a, fam
<1>5. Known(User) /\ Known(User)'
  BY <1>1, <1>2, KnownUser DEF accounts, Known
<1>6. \A p \in Requests : req'[p].op # "none" => req'[p] = req[p]
  BY <1>1, <1>2 DEF IInv, Structure, Typed
<1>7. Typed'
  BY <1>1, <1>2, <1>4 DEF accounts, IInv, Structure, Typed
<1>8. UnknownInv' /\ FamilyInv' /\ RequestInv'
  BY <1>1, <1>3, <1>4, <1>5, <1>6 DEF IInv, Structure, UnknownInv, FamilyInv, RequestInv, IDs
<1>9. VersionInv' /\ SweepInv'
  BY <1>1, <1>4, <1>6 DEF accounts, IInv, VersionInv, SweepInv, me, IDs, Live
<1>10. Live(t) => tokens[fam].pw = me.pw \/ fam \in raced
  BY <1>3 DEF IInv, Claims, OldPasswordOut, fam
<1>11. OldAccessOut'
  BY <1>1, <1>4, <1>10 DEF accounts, IInv, Claims, OldAccessOut, Accepted, me
<1>12. OldPasswordOut' /\ ReuseEndsFamily' /\ OneLiveToken'
  BY <1>1 DEF accounts, IInv, Claims, OldPasswordOut, ReuseEndsFamily, OneLiveToken, IDs, Live, me
<1> QED BY <1>7, <1>8, <1>9, <1>11, <1>12 DEF IInv, Structure, Claims

-----------------------------------------------------------------------------
LEMMA StepInv ==
    ASSUME Assumptions, IInv, [Next]_vars
    PROVE  IInv'
<1>1. CASE UNCHANGED vars
  <2>1. UNCHANGED <<account, role, resets, tokens, access, dead, raced, crossed, req>>
    BY <1>1 DEF vars, tables, accounts
  <2>2. Structure' /\ VersionInv' /\ SweepInv'
    BY <2>1 DEF IInv, Structure, Typed, UnknownInv, FamilyInv, RequestInv, VersionInv, SweepInv,
       Known, me, IDs, Live
  <2>3. Claims'
    BY <2>1 DEF IInv, Claims, OldPasswordOut, OldAccessOut, ReuseEndsFamily, OneLiveToken,
       Accepted, me, IDs, Live
  <2> QED BY <2>2, <2>3 DEF IInv
<1>2. CASE Verify \/ AskReset \/ Membership \/ \E mailed \in BOOLEAN : Register(mailed)
  BY <1>2, UserStep, RegisterStep
<1>3. CASE \E t \in IDs : Logout(t)
  BY <1>3, LogoutStep
<1>4. ASSUME NEW r \in Requests,
             \/ Login(r) \/ IssueTokens(r) \/ (\E t \in IDs : FindToken(r, t))
             \/ RevokeFamily(r) \/ Rotate(r) \/ RotateFails(r) \/ LoadUser(r)
             \/ FindReset(r) \/ Sweep(r) \/ CommitReset(r)
      PROVE  IInv'
  BY <1>4, LookupStep, IssueStep, EndStep, RotateStep, LoadStep, SweepStep, ResetStep
<1> QED BY <1>1, <1>2, <1>3, <1>4 DEF Next

\* The strengthened invariant holds in every state of every behaviour.
THEOREM IInvariant == Spec => []IInv
<1>0. Assumptions
  BY AccountsAssumption, SessionsAssumption DEF Assumptions
<1>1. Init => IInv
  BY <1>0, InitInv
<1>2. IInv /\ [Next]_vars => IInv'
  BY <1>0, StepInv
<1> QED BY <1>1, <1>2, PTL DEF Spec

\* reset_password for any number of requests, tokens and resets: a refresh token of
\* an earlier password that still works is of a family that raced the reset.
THEOREM ResetEndsSessions == Spec => []OldPasswordOut
BY IInvariant, PTL DEF IInv, Claims

\* The same for access tokens and token_version, except for resets that crossed.
THEOREM ResetEndsAccess == Spec => []OldAccessOut
BY IInvariant, PTL DEF IInv, Claims

\* rotate_refresh_token ends the family of a token that is reused, except for what a
\* rotation that overlapped it inserts.
THEOREM ReuseIsFinal == Spec => []ReuseEndsFamily
BY IInvariant, PTL DEF IInv, Claims

\* One token of a family is live, unless two requests have rotated the same one.
THEOREM OneTokenPerFamily == Spec => []OneLiveToken
BY IInvariant, PTL DEF IInv, Claims
=============================================================================
