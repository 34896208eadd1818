--------------------------- MODULE AccountsProofs ---------------------------
(***************************************************************************)
(* Accounts, sessions and agents, for any number of requests in flight,    *)
(* users, agents and tokens: a refresh token is spent once, a revocation   *)
(* is for good, an agent's token keeps within its agent's grant, there is  *)
(* an admin, and the lock of a name bounds what is tried on it.            *)
(***************************************************************************)
EXTENDS Accounts, FiniteSetTheorems, SequenceTheorems, TLAPS

UserRows  == [role : Roles \cup {"none"}, pw : Passwords, legacy : BOOLEAN, tv : Nat]
Patching  == UNION {{p[f] : f \in DOMAIN p} : p \in Patches}
Values    == {g[f] : g \in Grants, f \in GrantFields} \cup Patching
             \cup {"active", {"drive.read", "drive.write"}}
FullGrant == [GrantFields -> Values]
NoGrants  == {[status |-> "none"], [status |-> "deleted"]}
AgentRows == [owner : Users \cup {"none"}, grant : FullGrant \cup NoGrants, atv : Nat]
Token     == [user : Users, role : Roles \cup {"none"}, tv : Nat, denied : BOOLEAN,
              refresh : {"none", "live", "revoked"}, from : Nat, root : Nat,
              agent : Agents \cup {"none"}, atv : Nat, grant : FullGrant \cup NoGrants,
              asked : Asks \cup {{}}, scopes : Values \cup Asks \cup {{}}]

Register  == [op : {"register"}, at : {"name", "count", "create"}, u : Users, role : Roles]
NewUser   == [op : {"createuser"}, at : {"name", "create"}, u : Users, role : Roles]
Login     == [op : {"login"}, at : {"read", "fail", "rehash", "issue", "clear"},
              u : Users, pw : Passwords, row : UserRows]
Rotation  == [op : {"refresh"}, at : {"user", "rotate", "issue"}, u : Users, k : Nat,
              row : UserRows]
Logout    == [op : {"logout"}, at : {"parse", "refresh", "deny"}, u : Users, k : Nat, f : Nat]
RevokeAll == [op : {"revokeall"}, at : {"refresh", "bump"}, u : Users, n : Nat]
Password  == [op : {"password"}, at : {"read", "write", "refresh", "bump"}, u : Users,
              pw : Passwords, new : Passwords, n : Nat]
SetRole   == [op : {"setrole"}, at : {"count", "write"}, u : Users, role : Roles]
Update    == [op : {"update"}, at : {"write"}, u : Users, a : Agents, patch : Patches,
              row : AgentRows]
Mint      == [op : {"mint"}, at : {"user"}, u : Users, a : Agents,
              role : Roles \cup {"none"}, asked : Asks,
              row : [owner : Users \cup {"none"}, grant : FullGrant, atv : Nat]]
Requests  == Register \cup NewUser \cup Login \cup Rotation \cup Logout \cup RevokeAll
             \cup Password \cup SetRole \cup Update \cup Mint \cup {Idle}

Types ==
  /\ users \in [Users -> UserRows]
  /\ toks \in Seq(Token)
  /\ agents \in [Agents -> AgentRows]
  /\ fails \in [Users -> [count : Nat, over : BOOLEAN]]
  /\ req \in [Threads -> Requests]
  /\ cut \in [Users -> Nat]

Op(t, op) == req[t].op = op

(* Tokens and requests are of users that are there, with versions that the *)
(* user had once.                                                          *)
Held ==
  /\ \A k \in Tokens :
       Exists(toks[k].user) /\ toks[k].tv <= users[toks[k].user].tv
  /\ \A t \in Threads :
       /\ req[t].op \in {"refresh", "logout", "revokeall", "password", "setrole",
                         "update", "mint"} => Exists(req[t].u)
       /\ Op(t, "login") /\ req[t].at \in {"rehash", "issue", "clear"} =>
            Exists(req[t].u) /\ req[t].row.tv <= users[req[t].u].tv
       /\ Op(t, "refresh") =>
            /\ req[t].k \in Tokens /\ toks[req[t].k].user = req[t].u
            /\ req[t].at # "user" => req[t].row.tv <= users[req[t].u].tv
       /\ Op(t, "logout") => req[t].k \in Tokens /\ req[t].f \in 0..Len(toks)

(* A token that was exchanged is revoked, and the exchange is under way or *)
(* has been, once.                                                         *)
Spent ==
  /\ \A j \in Tokens : toks[j].from # 0 =>
       toks[j].from \in Tokens /\ toks[toks[j].from].refresh = "revoked"
  /\ \A i, j \in Tokens : toks[i].from # 0 /\ toks[i].from = toks[j].from => i = j
  /\ \A t \in Threads : Op(t, "refresh") /\ req[t].at = "issue" =>
       /\ toks[req[t].k].refresh = "revoked"
       /\ \A j \in Tokens : toks[j].from # req[t].k
       /\ \A s \in Threads :
            Op(s, "refresh") /\ req[s].at = "issue" /\ req[s].k = req[t].k => s = t

(* Requests with the same subject overlap only if that was noted.          *)
Subjected(t) == req[t].op \in {"register", "setrole", "refresh", "revokeall",
                               "password", "update"}
Noted ==
  \A s, t \in Threads :
    /\ s # t /\ Subjected(s) /\ Subjected(t)
    /\ Subject(req[s]) = Subject(req[t])
    /\ {req[s].op, req[t].op} # {"refresh"}
    => Subject(req[t]) \in raced

(* What a revocation under way, or one that is complete, has reached.      *)
Cuts(u) ==
  /\ \A k \in Tokens : toks[k].user = u /\ toks[k].root <= cut[u] =>
       toks[k].tv < users[u].tv /\ toks[k].refresh # "live"
  /\ \A t \in Threads : Op(t, "refresh") /\ req[t].u = u => toks[req[t].k].root > cut[u]
  /\ \A t \in Threads :
       req[t].op \in {"revokeall", "password"} /\ req[t].at = "bump" /\ req[t].u = u =>
         \A k \in Tokens : toks[k].user = u /\ toks[k].root <= req[t].n =>
                             toks[k].refresh # "live"
Revoked ==
  /\ \A u \in Users : cut[u] <= Len(toks)
  /\ \A t \in Threads : req[t].op \in {"revokeall", "password"} => req[t].n <= Len(toks)
  /\ \A u \in Users : <<"session", u>> \notin raced => Cuts(u)

(* Nothing that old allows is missing from new.                            *)
ListKept(old, new) == new = {} \/ (old # {} /\ old \subseteq new)
GrantKept(old, new) ==
  /\ old.scopes \subseteq new.scopes
  /\ ListKept(old.drives, new.drives)
  /\ ListKept(old.read, new.read)
  /\ ListKept(old.write, new.write)

(* A grant handed out with a version of a's row.                           *)
Status(a) == agents[a].grant.status
Within(a, atv, grant) ==
  /\ Status(a) # "none"
  /\ <<"agent", a>> \notin raced /\ Status(a) # "deleted" =>
       \/ atv < agents[a].atv
       \/ /\ atv = agents[a].atv /\ Status(a) = "active"
          /\ GrantKept(grant, agents[a].grant)
Granted ==
  /\ \A a \in Agents : /\ Live(a) <=> agents[a].grant \in FullGrant
                       /\ Live(a) \/ Status(a) \in {"none", "deleted"}
  /\ \A k \in Tokens : toks[k].agent # "none" =>
       /\ Within(toks[k].agent, toks[k].atv, toks[k].grant)
       /\ toks[k].scopes \subseteq toks[k].grant.scopes \cup toks[k].asked
  /\ \A t \in Threads :
       /\ Op(t, "mint") => Within(req[t].a, req[t].row.atv, req[t].row.grant)
       /\ Op(t, "update") =>
            /\ req[t].row.grant \in FullGrant
            /\ req[t].row.grant.status \in {"active", "disabled"}
            /\ Status(req[t].a) # "none"
            /\ <<"agent", req[t].a>> \notin raced =>
                 agents[req[t].a] = req[t].row \/ Status(req[t].a) = "deleted"

(* Users that make users are there, and a role change leaves an admin.     *)
Ruled ==
  /\ \A t \in Threads :
       /\ Op(t, "createuser") => Known # {}
       /\ Op(t, "register") /\ req[t].at = "create" /\ req[t].role = "user" => Known # {}
  /\ <<"role", "all">> \notin raced =>
       /\ Known # {} => Admins # {}
       /\ \A t \in Threads :
            Op(t, "setrole") /\ req[t].at = "write" /\ req[t].role = "user" =>
              users[req[t].u].role # "admin" \/ Admins \ {req[t].u} # {}

Founded ==
  /\ founders \subseteq Known
  /\ <<"register", "all">> \notin raced =>
       /\ founders = {} \/ \E u \in Users : founders = {u}
       /\ \A t \in Threads :
            Op(t, "register") /\ req[t].at = "create" /\ req[t].role = "admin" => Known = {}

(* Every request that may still fail counts already.                       *)
Trying(u) == {t \in Threads : /\ Op(t, "login") /\ req[t].u = u
                              /\ req[t].at \in {"read", "fail"}}
Bounded ==
  \A u \in Users :
    fails[u].count + Cardinality(Trying(u)) <= MaxFail - 1 + Cardinality(Threads)

-----------------------------------------------------------------------------
(* Requests.                                                               *)

LEMMA RequestKinds ==
  ASSUME Types, NEW t \in Threads
  PROVE  /\ req[t] = Idle <=> req[t].op = "idle"
         /\ Op(t, "register") <=> req[t] \in Register
         /\ Op(t, "createuser") <=> req[t] \in NewUser
         /\ Op(t, "login") <=> req[t] \in Login
         /\ Op(t, "refresh") <=> req[t] \in Rotation
         /\ Op(t, "logout") <=> req[t] \in Logout
         /\ Op(t, "revokeall") <=> req[t] \in RevokeAll
         /\ Op(t, "password") <=> req[t] \in Password
         /\ Op(t, "setrole") <=> req[t] \in SetRole
         /\ Op(t, "update") <=> req[t] \in Update
         /\ Op(t, "mint") <=> req[t] \in Mint
<1>1. req[t] \in Requests
  BY DEF Types
<1>2. Idle.op = "idle"
  BY DEF Idle
<1>. QED
  BY <1>1, <1>2 DEF Requests, Op, Register, NewUser, Login, Rotation, Logout, RevokeAll, 
     Password, SetRole, Update, Mint

(* A field of a grant is one of its values.                                *)
LEMMA GrantValues ==
  /\ "active" \in Values /\ {"drive.read", "drive.write"} \in Values
  /\ \A g \in Grants : \A f \in GrantFields : g[f] \in Values
  /\ \A p \in Patches : \A f \in DOMAIN p : p[f] \in Values
<1>1. ASSUME NEW p \in Patches, NEW f \in DOMAIN p PROVE p[f] \in Values
  <2>1. p[f] \in {p[x] : x \in DOMAIN p}
    OBVIOUS
  <2>2. {p[x] : x \in DOMAIN p} \in {{q[x] : x \in DOMAIN q} : q \in Patches}
    OBVIOUS
  <2>3. p[f] \in Patching
    BY <2>1, <2>2 DEF Patching
  <2>. QED
    BY <2>3 DEF Values
<1>2. ASSUME NEW g \in Grants, NEW f \in GrantFields PROVE g[f] \in Values
  <2>1. g[f] \in {h[x] : h \in Grants, x \in GrantFields}
    OBVIOUS
  <2>. QED
    BY <2>1 DEF Values
<1>3. "active" \in Values /\ {"drive.read", "drive.write"} \in Values
  BY DEF Values
<1>. QED
  BY <1>1, <1>2, <1>3

LEMMA PatchedGrant ==
  ASSUME NEW g \in FullGrant, NEW p \in Patches
  PROVE  /\ Patched(g, p) \in FullGrant
         /\ Patched(g, p).status = IF "status" \in DOMAIN p THEN p.status ELSE g.status
<1>1. \A f \in DOMAIN p : p[f] \in Values
  BY GrantValues
<1>2. \A f \in GrantFields : (IF f \in DOMAIN p THEN p[f] ELSE g[f]) \in Values
  BY <1>1 DEF FullGrant
<1>3. Patched(g, p) \in FullGrant
  BY <1>2 DEF Patched, FullGrant
<1>4. "status" \in GrantFields
  BY DEF GrantFields
<1>5. \A f \in GrantFields : Patched(g, p)[f] = IF f \in DOMAIN p THEN p[f] ELSE g[f]
  BY DEF Patched
<1>. QED
  BY <1>3, <1>4, <1>5

LEMMA CreatedGrant ==
  ASSUME NEW g \in Grants, NEW scopes \in {g.scopes, {"drive.read", "drive.write"}}
  PROVE  /\ [g EXCEPT !.scopes = scopes, !.status = "active"] \in FullGrant
         /\ [g EXCEPT !.scopes = scopes, !.status = "active"].status = "active"
<1>1. g \in FullGrant
  <2>1. g = [f \in GrantFields |-> g[f]]
    BY AgentsAssumption
  <2>. QED
    BY <2>1, GrantValues DEF FullGrant
<1>2. "scopes" \in GrantFields /\ "status" \in GrantFields
  BY DEF GrantFields
<1>3. scopes \in Values /\ "active" \in Values
  BY <1>2, GrantValues
<1>4. [g EXCEPT !.scopes = scopes] \in FullGrant
  BY <1>1, <1>3 DEF FullGrant
<1>. QED
  BY <1>1, <1>2, <1>3, <1>4 DEF FullGrant

-----------------------------------------------------------------------------
(* What a step changes.                                                    *)

(* Steps that change the request alone, and those that change a table.     *)
Reads(t) ==
  \/ \E u \in Users : BeginRegister(t, u)
  \/ RegisterName(t) \/ RegisterCount(t) \/ CreateUserName(t) \/ SetRoleCount(t)
  \/ \E k \in Tokens, u \in Users, role \in Roles :
       BeginCreateUser(t, k, u, role) \/ BeginSetRole(t, k, u, role)
  \/ LoginRead(t) \/ RefreshUser(t) \/ LogoutParse(t) \/ PasswordRead(t)
  \/ \E k \in Tokens : BeginRefresh(t, k)
  \/ \E k \in Tokens, f \in 0..Len(toks) : BeginLogout(t, k, f)
  \/ \E k \in Tokens, u \in Users : BeginRevokeAll(t, k, u)
  \/ \E k \in Tokens, pw, new \in Passwords : BeginPassword(t, k, pw, new)
  \/ \E k \in Tokens, a \in Agents :
       \/ \E asked \in Asks : BeginMint(t, k, a, asked)
       \/ \E p \in Patches : BeginUpdate(t, k, a, p)
Writes(t) ==
  \/ RegisterCreate(t) \/ CreateUserCreate(t) \/ SetRoleWrite(t)
  \/ \E u \in Users, pw \in Passwords : BeginLogin(t, u, pw)
  \/ LoginFail(t) \/ LoginRehash(t) \/ LoginIssue(t) \/ LoginClear(t)
  \/ RefreshRotate(t) \/ RefreshIssue(t) \/ LogoutRefresh(t) \/ LogoutDeny(t)
  \/ RevokeAllRefresh(t) \/ RevokeAllBump(t)
  \/ PasswordWrite(t) \/ PasswordRefresh(t) \/ PasswordBump(t)
  \/ \E k \in Tokens, a \in Agents :
       DeleteAgent(t, k, a) \/ \E g \in Grants : CreateAgent(t, k, a, g)
  \/ UpdateWrite(t) \/ MintIssue(t)

LEMMA NextSplit ==
  [Next]_vars => \/ UNCHANGED vars
                 \/ \E u \in Users : WindowPasses(u)
                 \/ \E t \in Threads : Reads(t) \/ Writes(t)
  BY DEF Next, AccountStep, LoginStep, SessionStep, AgentStep, Reads, Writes

LEMMA QuietReads ==
  ASSUME NEW t \in Threads, Reads(t)
  PROVE  UNCHANGED <<users, toks, agents, fails, cut, founders>>
  BY DEF Reads, BeginRegister, RegisterName, RegisterCount, CreateUserName, SetRoleCount,
     BeginCreateUser, BeginSetRole, LoginRead, RefreshUser, LogoutParse, PasswordRead,
     BeginRefresh, BeginLogout, BeginRevokeAll, BeginPassword, BeginMint, BeginUpdate

LEMMA UserChanges ==
  [Next]_vars =>
    \/ UNCHANGED users
    \/ \E t \in Threads :
         \/ RegisterCreate(t) \/ CreateUserCreate(t) \/ LoginRehash(t)
         \/ RevokeAllBump(t) \/ PasswordWrite(t) \/ PasswordBump(t) \/ SetRoleWrite(t)
  BY NextSplit, QuietReads, ZenonT(40) DEF Writes, vars, LoginFail, LoginIssue,
    LoginClear, RefreshRotate, RefreshIssue, LogoutRefresh, LogoutDeny,
    RevokeAllRefresh, PasswordRefresh, CreateAgent, DeleteAgent, UpdateWrite,
    MintIssue, WindowPasses, BeginLogin

LEMMA TokenChanges ==
  [Next]_vars =>
    \/ UNCHANGED toks
    \/ \E t \in Threads :
         \/ LoginIssue(t) \/ RefreshIssue(t) \/ MintIssue(t)
         \/ RefreshRotate(t) \/ LogoutRefresh(t) \/ LogoutDeny(t)
         \/ RevokeAllRefresh(t) \/ PasswordRefresh(t)
  BY NextSplit, QuietReads, ZenonT(40) DEF Writes, vars, RegisterCreate, CreateUserCreate,
    SetRoleWrite, LoginFail, LoginRehash, LoginClear, RevokeAllBump,
    PasswordWrite, PasswordBump, CreateAgent, DeleteAgent, UpdateWrite,
    WindowPasses, BeginLogin

LEMMA AgentChanges ==
  [Next]_vars =>
    \/ UNCHANGED agents
    \/ \E t \in Threads :
         \/ UpdateWrite(t)
         \/ \E k \in Tokens, a \in Agents :
              DeleteAgent(t, k, a) \/ \E g \in Grants : CreateAgent(t, k, a, g)
  BY NextSplit, QuietReads, ZenonT(40) DEF Writes, vars, RegisterCreate, CreateUserCreate,
    SetRoleWrite, LoginFail, LoginRehash, LoginIssue, LoginClear,
    RefreshRotate, RefreshIssue, LogoutRefresh, LogoutDeny, RevokeAllRefresh,
    RevokeAllBump, PasswordWrite, PasswordRefresh, PasswordBump, MintIssue,
    WindowPasses, BeginLogin

LEMMA FailChanges ==
  [Next]_vars =>
    \/ UNCHANGED fails
    \/ \E u \in Users : WindowPasses(u)
    \/ \E t \in Threads :
         \/ LoginFail(t) \/ LoginClear(t)
         \/ \E u \in Users, pw \in Passwords : BeginLogin(t, u, pw)
  BY NextSplit, QuietReads, ZenonT(40) DEF Writes, vars, RegisterCreate, CreateUserCreate,
    SetRoleWrite, LoginRehash, LoginIssue, RefreshRotate, RefreshIssue,
    LogoutRefresh, LogoutDeny, RevokeAllRefresh, RevokeAllBump, PasswordWrite,
    PasswordRefresh, PasswordBump, CreateAgent, DeleteAgent, UpdateWrite,
    MintIssue

LEMMA CutChanges ==
  [Next]_vars => UNCHANGED cut \/ \E t \in Threads : RevokeAllBump(t) \/ PasswordBump(t)
  BY NextSplit, QuietReads, ZenonT(40) DEF Writes, vars, RegisterCreate, CreateUserCreate,
    SetRoleWrite, LoginFail, LoginRehash, LoginIssue, LoginClear,
    RefreshRotate, RefreshIssue, LogoutRefresh, LogoutDeny, RevokeAllRefresh,
    PasswordWrite, PasswordRefresh, CreateAgent, DeleteAgent, UpdateWrite,
    MintIssue, WindowPasses, BeginLogin

LEMMA FounderChanges ==
  [Next]_vars => UNCHANGED founders \/ \E t \in Threads : RegisterCreate(t)
  BY NextSplit, QuietReads, ZenonT(40) DEF Writes, vars, CreateUserCreate, SetRoleWrite,
    LoginFail, LoginRehash, LoginIssue, LoginClear, RefreshRotate,
    RefreshIssue, LogoutRefresh, LogoutDeny, RevokeAllRefresh, RevokeAllBump,
    PasswordWrite, PasswordRefresh, PasswordBump, CreateAgent, DeleteAgent,
    UpdateWrite, MintIssue, WindowPasses, BeginLogin

(* What a step may do to the row of a user: its role and version stay, it  *)
(* gets there, its version goes up, or its role is set.                    *)
UserStep(u) ==
  \/ users'[u].role = users[u].role /\ users'[u].tv = users[u].tv
  \/ /\ ~Exists(u) /\ users'[u].role \in Roles /\ users'[u].tv = 0
     /\ \E t \in Threads : /\ RegisterCreate(t) \/ CreateUserCreate(t)
                           /\ req[t].u = u /\ users'[u].role = req[t].role
  \/ /\ users'[u].role = users[u].role /\ users'[u].tv = users[u].tv + 1
     /\ \E t \in Threads : (RevokeAllBump(t) \/ PasswordBump(t)) /\ req[t].u = u
  \/ /\ users'[u].role \in Roles /\ users'[u].tv = users[u].tv
     /\ \E t \in Threads : SetRoleWrite(t) /\ req[t].u = u /\ users'[u].role = req[t].role

LEMMA UserSteps ==
  ASSUME Types, [Next]_vars
  PROVE  users' \in [Users -> UserRows] /\ \A u \in Users : UserStep(u)
<1>. DEFINE Goal == users' \in [Users -> UserRows] /\ \A u \in Users : UserStep(u)
<1>. SUFFICES Goal
  OBVIOUS
<1>1. users \in [Users -> UserRows]
  BY DEF Types
<1>2. CASE UNCHANGED users
  BY <1>1, <1>2 DEF UserStep
<1>3. ASSUME NEW v \in Users, NEW row \in UserRows, users' = [users EXCEPT ![v] = row],
             UserStep(v)
      PROVE  Goal
  <2>1. \A u \in Users \ {v} : users'[u] = users[u]
    BY <1>1, <1>3
  <2>2. users' \in [Users -> UserRows]
    BY <1>1, <1>3
  <2>. QED
    BY <1>3, <2>1, <2>2 DEF UserStep
<1>4. ASSUME NEW t \in Threads, RegisterCreate(t) \/ CreateUserCreate(t) PROVE Goal
  <2>1. req[t].u \in Users /\ req[t].role \in Roles
    BY <1>4, RequestKinds DEF RegisterCreate, CreateUserCreate, At, Op, Register, NewUser
  <2>. DEFINE v == req[t].u
              row == UserRow(req[t].role, "old")
  <2>2. row \in UserRows /\ row.role = req[t].role /\ row.tv = 0
    BY <2>1 DEF UserRow, UserRows, Passwords
  <2>3. UNCHANGED users \/ (~Exists(v) /\ users' = [users EXCEPT ![v] = row])
    BY <1>4 DEF RegisterCreate, CreateUserCreate
  <2>4. ASSUME ~Exists(v), users' = [users EXCEPT ![v] = row] PROVE Goal
    <3>. HIDE DEF row, v
    <3>1. users'[v] = row
      BY <1>1, <2>1, <2>4 DEF v
    <3>2. UserStep(v)
      BY <1>4, <2>1, <2>2, <2>4, <3>1 DEF UserStep, v
    <3>. QED
      BY <1>3, <2>1, <2>2, <2>4, <3>2 DEF v
  <2>. QED
    BY <1>2, <2>3, <2>4
<1>5. ASSUME NEW t \in Threads, LoginRehash(t) \/ PasswordWrite(t) PROVE Goal
  <2>1. PICK v \in Users, pw \in Passwords :
          users' = [users EXCEPT ![v].pw = pw, ![v].legacy = FALSE]
    <3>1. LoginRehash(t) => req[t].u \in Users /\ req[t].pw \in Passwords
      BY RequestKinds DEF LoginRehash, At, Op, Login
    <3>2. PasswordWrite(t) => req[t].u \in Users /\ req[t].new \in Passwords
      BY RequestKinds DEF PasswordWrite, At, Op, Password
    <3>. QED
      BY <1>5, <3>1, <3>2 DEF LoginRehash, PasswordWrite
  <2>. DEFINE row == [users[v] EXCEPT !.pw = pw, !.legacy = FALSE]
  <2>2. row \in UserRows /\ row.role = users[v].role /\ row.tv = users[v].tv
    BY <1>1 DEF UserRows
  <2>3. users' = [users EXCEPT ![v] = row]
    BY <1>1, <2>1
  <2>. HIDE DEF row
  <2>4. UserStep(v)
    BY <1>1, <2>2, <2>3 DEF UserStep
  <2>. QED
    BY <1>3, <2>2, <2>3, <2>4
<1>6. ASSUME NEW t \in Threads, RevokeAllBump(t) \/ PasswordBump(t) PROVE Goal
  <2>1. req[t].u \in Users
    BY <1>6, RequestKinds DEF RevokeAllBump, PasswordBump, At, Op, RevokeAll, Password
  <2>. DEFINE v == req[t].u
              n == users[v].tv + 1
              row == [users[v] EXCEPT !.tv = n]
  <2>2. n \in Nat
    BY <1>1, <2>1 DEF UserRows
  <2>3. users' = [users EXCEPT ![v] = row]
    BY <1>1, <1>6 DEF RevokeAllBump, PasswordBump, Bumped
  <2>. HIDE DEF n
  <2>4. row \in UserRows /\ row.role = users[v].role /\ row.tv = n
    BY <1>1, <2>1, <2>2 DEF UserRows
  <2>. HIDE DEF row
  <2>5. UserStep(v)
    BY <1>1, <1>6, <2>1, <2>3, <2>4 DEF UserStep, n
  <2>. QED
    BY <1>3, <2>1, <2>3, <2>4, <2>5
<1>7. ASSUME NEW t \in Threads, SetRoleWrite(t) PROVE Goal
  <2>1. req[t].u \in Users /\ req[t].role \in Roles
    BY <1>7, RequestKinds DEF SetRoleWrite, At, Op, SetRole
  <2>. DEFINE v == req[t].u
              row == [users[v] EXCEPT !.role = req[t].role]
  <2>2. row \in UserRows /\ row.role = req[t].role /\ row.tv = users[v].tv
    BY <1>1, <2>1 DEF UserRows
  <2>3. users' = [users EXCEPT ![v] = row]
    BY <1>1, <1>7 DEF SetRoleWrite
  <2>. HIDE DEF row
  <2>4. UserStep(v)
    BY <1>1, <1>7, <2>1, <2>2, <2>3 DEF UserStep
  <2>. QED
    BY <1>3, <2>1, <2>2, <2>3, <2>4
<1>. QED
  BY <1>2, <1>4, <1>5, <1>6, <1>7, UserChanges

(* A user that is there stays there, and its version does not go back.     *)
LEMMA UsersStay ==
  ASSUME Types, [Next]_vars, NEW u \in Users, Exists(u)
  PROVE  Exists(u)' /\ users[u].tv <= users'[u].tv
<1>1. UserStep(u)
  BY UserSteps
<1>2. users[u].tv \in Nat
  BY DEF Types, UserRows
<1>. QED
  BY <1>1, <1>2 DEF UserStep, Exists, Roles

(* What a step may do to a token that was issued: it may be denied or      *)
(* revoked, and it stays so.  And what a new one is like.                  *)
TokenKept(k) ==
  /\ toks'[k].user = toks[k].user /\ toks'[k].tv = toks[k].tv
  /\ toks'[k].from = toks[k].from /\ toks'[k].root = toks[k].root
  /\ toks'[k].agent = toks[k].agent /\ toks'[k].atv = toks[k].atv
  /\ toks'[k].grant = toks[k].grant
  /\ toks'[k].asked = toks[k].asked /\ toks'[k].scopes = toks[k].scopes
  /\ toks[k].denied => toks'[k].denied
  /\ \/ toks'[k].refresh = toks[k].refresh
     \/ toks[k].refresh = "live" /\ toks'[k].refresh = "revoked"
NewToken(new) ==
  \/ \E t \in Threads :
       /\ LoginIssue(t)
       /\ new.user = req[t].u /\ new.tv = req[t].row.tv /\ new.from = 0
       /\ new.root = Len(toks) + 1 /\ new.agent = "none"
  \/ \E t \in Threads :
       /\ RefreshIssue(t)
       /\ new.user = req[t].u /\ new.tv = req[t].row.tv /\ new.from = req[t].k
       /\ new.root = toks[req[t].k].root /\ new.agent = "none"
  \/ \E t \in Threads :
       /\ MintIssue(t)
       /\ new.user = req[t].u /\ new.tv = users[req[t].u].tv /\ new.from = 0
       /\ new.root = Len(toks) + 1 /\ new.agent = req[t].a
       /\ new.atv = req[t].row.atv /\ new.grant = req[t].row.grant
       /\ new.scopes \subseteq new.grant.scopes \cup new.asked
TokenStep ==
  \/ Len(toks') = Len(toks) /\ \A k \in Tokens : TokenKept(k)
  \/ /\ Len(toks') = Len(toks) + 1 /\ \A k \in Tokens : toks'[k] = toks[k]
     /\ NewToken(toks'[Len(toks) + 1])

LEMMA TokenSteps ==
  ASSUME Types, Held, [Next]_vars
  PROVE  toks' \in Seq(Token) /\ TokenStep
<1>. DEFINE Goal == toks' \in Seq(Token) /\ TokenStep
<1>. SUFFICES Goal
  OBVIOUS
<1>1. toks \in Seq(Token) /\ Len(toks) \in Nat /\ \A k \in Tokens : toks[k] \in Token
  BY DEF Types, Tokens
<1>2. CASE UNCHANGED toks
  BY <1>1, <1>2 DEF TokenStep, TokenKept
<1>3. ASSUME NEW k \in Tokens, NEW row \in Token, toks' = [toks EXCEPT ![k] = row],
             /\ row.user = toks[k].user /\ row.tv = toks[k].tv
             /\ row.from = toks[k].from /\ row.root = toks[k].root
             /\ row.agent = toks[k].agent /\ row.atv = toks[k].atv
             /\ row.grant = toks[k].grant
             /\ row.asked = toks[k].asked /\ row.scopes = toks[k].scopes
             /\ toks[k].denied => row.denied
             /\ \/ row.refresh = toks[k].refresh
                \/ toks[k].refresh = "live" /\ row.refresh = "revoked"
      PROVE  Goal
  <2>1. /\ toks' \in Seq(Token) /\ Len(toks') = Len(toks)
        /\ \A j \in Tokens : toks'[j] = IF j = k THEN row ELSE toks[j]
    BY <1>1, <1>3, ExceptSeq DEF Tokens
  <2>2. \A j \in Tokens : TokenKept(j)
    BY <1>3, <2>1 DEF TokenKept
  <2>. QED
    BY <2>1, <2>2 DEF TokenStep
<1>4. ASSUME NEW k \in Tokens, toks[k].refresh = "live", RevokeOne(k) PROVE Goal
  <2>. DEFINE row == [toks[k] EXCEPT !.refresh = "revoked"]
  <2>1. /\ row \in Token /\ row.user = toks[k].user /\ row.tv = toks[k].tv
        /\ row.from = toks[k].from /\ row.root = toks[k].root
        /\ row.agent = toks[k].agent /\ row.atv = toks[k].atv
        /\ row.grant = toks[k].grant /\ row.denied = toks[k].denied
        /\ row.asked = toks[k].asked /\ row.scopes = toks[k].scopes
        /\ row.refresh = "revoked"
    BY <1>1 DEF Token
  <2>2. toks' = [toks EXCEPT ![k] = row]
    BY <1>4 DEF RevokeOne
  <2>. HIDE DEF row
  <2>. QED
    BY <1>3, <1>4, <2>1, <2>2
<1>5. ASSUME NEW t \in Threads, RefreshRotate(t) \/ LogoutRefresh(t) PROVE Goal
  <2>1. RefreshRotate(t) => req[t].k \in Tokens
    BY DEF RefreshRotate, At, Held, Op
  <2>2. LogoutRefresh(t) => req[t].f = 0 \/ req[t].f \in Tokens
    BY <1>1 DEF LogoutRefresh, At, Held, Op, Tokens
  <2>. QED
    BY <1>2, <1>4, <1>5, <2>1, <2>2 DEF RefreshRotate, LogoutRefresh
<1>6. ASSUME NEW t \in Threads, LogoutDeny(t) PROVE Goal
  <2>1. PICK k \in Tokens : k = req[t].k
    BY <1>6 DEF LogoutDeny, At, Held, Op
  <2>. DEFINE row == [toks[k] EXCEPT !.denied = TRUE]
  <2>2. /\ row \in Token /\ row.user = toks[k].user /\ row.tv = toks[k].tv
        /\ row.from = toks[k].from /\ row.root = toks[k].root
        /\ row.agent = toks[k].agent /\ row.atv = toks[k].atv
        /\ row.grant = toks[k].grant /\ row.denied
        /\ row.asked = toks[k].asked /\ row.scopes = toks[k].scopes
        /\ row.refresh = toks[k].refresh
    BY <1>1 DEF Token
  <2>3. toks' = [toks EXCEPT ![k] = row]
    BY <1>6, <2>1 DEF LogoutDeny
  <2>. HIDE DEF row
  <2>. QED
    BY <1>3, <2>2, <2>3
<1>7. ASSUME NEW t \in Threads, RevokeAllRefresh(t) \/ PasswordRefresh(t) PROVE Goal
  <2>. DEFINE u == req[t].u
              Row(k) == IF toks[k].user = u /\ toks[k].refresh = "live"
                          THEN [toks[k] EXCEPT !.refresh = "revoked"] ELSE toks[k]
  <2>1. toks' = [k \in 1..Len(toks) |-> Row(k)]
    BY <1>7 DEF RevokeAllRefresh, PasswordRefresh, RevokeRefreshTokensForUser, Tokens
  <2>2. ASSUME NEW k \in Tokens
        PROVE  /\ Row(k) \in Token /\ Row(k).user = toks[k].user /\ Row(k).tv = toks[k].tv
               /\ Row(k).from = toks[k].from /\ Row(k).root = toks[k].root
               /\ Row(k).agent = toks[k].agent /\ Row(k).atv = toks[k].atv
               /\ Row(k).grant = toks[k].grant /\ Row(k).denied = toks[k].denied
               /\ Row(k).asked = toks[k].asked /\ Row(k).scopes = toks[k].scopes
               /\ \/ Row(k).refresh = toks[k].refresh
                  \/ toks[k].refresh = "live" /\ Row(k).refresh = "revoked"
    <3>1. toks[k] \in Token
      BY <1>1
    <3>. QED
      BY <3>1 DEF Token
  <2>. HIDE DEF Row
  <2>3. toks' \in [1..Len(toks) -> Token]
    BY <2>1, <2>2 DEF Tokens
  <2>4. toks' \in Seq(Token) /\ Len(toks') = Len(toks)
    BY <1>1, <2>3, SeqDef, LenProperties
  <2>5. \A k \in Tokens : toks'[k] = Row(k)
    BY <2>1 DEF Tokens
  <2>6. \A k \in Tokens : TokenKept(k)
    BY <2>2, <2>5 DEF TokenKept
  <2>. QED
    BY <2>4, <2>6 DEF TokenStep
<1>8. ASSUME NEW new \in Token, toks' = Append(toks, new), NewToken(new) PROVE Goal
  <2>1. /\ toks' \in Seq(Token) /\ Len(toks') = Len(toks) + 1
        /\ \A k \in Tokens : toks'[k] = toks[k]
        /\ toks'[Len(toks) + 1] = new
    BY <1>1, <1>8 DEF Tokens
  <2>. QED
    BY <1>8, <2>1 DEF TokenStep
<1>9. ASSUME NEW t \in Threads, LoginIssue(t) \/ RefreshIssue(t) PROVE Goal
  <2>1. /\ LoginIssue(t) => req[t] \in Login
        /\ RefreshIssue(t) => req[t] \in Rotation /\ req[t].k \in Tokens
    BY RequestKinds DEF LoginIssue, RefreshIssue, At, Op, Held
  <2>2. req[t].u \in Users /\ req[t].row \in UserRows
    BY <1>9, <2>1 DEF Login, Rotation
  <2>3. PICK from \in Nat, root \in Nat :
          /\ toks' = Append(toks,
               [user |-> req[t].u, role |-> req[t].row.role, tv |-> req[t].row.tv,
                denied |-> FALSE, refresh |-> "live", from |-> from, root |-> root,
                agent |-> "none", atv |-> 0, grant |-> NoAgent.grant,
                asked |-> {}, scopes |-> {}])
          /\ \/ LoginIssue(t) /\ from = 0 /\ root = Len(toks) + 1
             \/ RefreshIssue(t) /\ from = req[t].k /\ root = toks[req[t].k].root
    <3>1. CASE LoginIssue(t)
      <4>1. Len(toks) + 1 \in Nat
        BY <1>1
      <4>. QED
        BY <3>1, <4>1 DEF LoginIssue, IssueTokens
    <3>2. CASE RefreshIssue(t)
      <4>0. PICK k \in Tokens : k = req[t].k
        BY <2>1, <3>2
      <4>1. req[t].k \in Nat /\ req[t].k # 0 /\ toks[req[t].k].root \in Nat
        <5>1. toks[k].root \in Nat
          BY <1>1 DEF Token
        <5>2. k \in Nat /\ k # 0
          BY <1>1 DEF Tokens
        <5>. QED
          BY <4>0, <5>1, <5>2
      <4>. QED
        BY <3>2, <4>1 DEF RefreshIssue, IssueTokens
    <3>. QED
      BY <1>9, <3>1, <3>2
  <2>. DEFINE new == [user |-> req[t].u, role |-> req[t].row.role, tv |-> req[t].row.tv,
                      denied |-> FALSE, refresh |-> "live", from |-> from, root |-> root,
                      agent |-> "none", atv |-> 0, grant |-> NoAgent.grant,
                      asked |-> {}, scopes |-> {}]
  <2>4. new \in Token
    BY <2>2, <2>3 DEF Token, UserRows, NoAgent, NoGrants
  <2>5. NewToken(new)
    BY <2>3 DEF NewToken
  <2>. HIDE DEF new
  <2>. QED
    BY <1>8, <2>3, <2>4, <2>5 DEF new
<1>10. ASSUME NEW t \in Threads, MintIssue(t) PROVE Goal
  <2>1. req[t] \in Mint
    BY <1>10, RequestKinds DEF MintIssue, At, Op
  <2>2. /\ req[t].u \in Users /\ req[t].a \in Agents /\ req[t].row.atv \in Nat
        /\ req[t].role \in Roles \cup {"none"} /\ users[req[t].u].tv \in Nat
        /\ req[t].row.grant \in FullGrant /\ req[t].asked \in Asks
    BY <2>1 DEF Mint, Types, UserRows
  <2>. DEFINE scopes == IF req[t].asked = {} THEN req[t].row.grant.scopes
                                             ELSE req[t].asked
  <2>6. /\ scopes \in Values \cup Asks
        /\ scopes \subseteq req[t].row.grant.scopes \cup req[t].asked
    BY <2>2 DEF FullGrant, GrantFields
  <2>. DEFINE new == [user |-> req[t].u, role |-> req[t].role, tv |-> users[req[t].u].tv,
                      denied |-> FALSE, refresh |-> "none", from |-> 0,
                      root |-> Len(toks) + 1, agent |-> req[t].a,
                      atv |-> req[t].row.atv, grant |-> req[t].row.grant,
                      asked |-> req[t].asked, scopes |-> scopes]
  <2>3. toks' = Append(toks, new)
    BY <1>10 DEF MintIssue, IssueAgentToken
  <2>. HIDE DEF scopes
  <2>4. new \in Token
    BY <1>1, <2>2, <2>6 DEF Token
  <2>5. NewToken(new)
    BY <1>10, <2>6 DEF NewToken
  <2>. HIDE DEF new
  <2>. QED
    BY <1>8, <2>3, <2>4, <2>5
<1>. QED
  BY <1>2, <1>5, <1>6, <1>7, <1>9, <1>10, TokenChanges

(* What a step may do to a request: nothing, end it, begin it, or move it. *)
Begun(t) ==
  \/ \E u \in Users :
       /\ BeginRegister(t, u) /\ req'[t].op = "register" /\ req'[t].at = "name"
       /\ req'[t].u = u /\ req'[t].role = "user"
  \/ \E k \in Tokens, u \in Users, role \in Roles :
       /\ BeginCreateUser(t, k, u, role) /\ req'[t].op = "createuser"
       /\ req'[t].at = "name" /\ req'[t].u = u /\ req'[t].role = role
  \/ \E k \in Tokens, u \in Users, role \in Roles :
       /\ BeginSetRole(t, k, u, role) /\ req'[t].op = "setrole"
       /\ req'[t].u = u /\ req'[t].role = role
       /\ req'[t].at = IF users[u].role = "admin" /\ role = "user" THEN "count" ELSE "write"
  \/ \E u \in Users, pw \in Passwords :
       /\ BeginLogin(t, u, pw) /\ req'[t].op = "login" /\ req'[t].at = "read"
       /\ req'[t].u = u
  \/ \E k \in Tokens :
       /\ BeginRefresh(t, k) /\ req'[t].op = "refresh" /\ req'[t].at = "user"
       /\ req'[t].u = toks[k].user /\ req'[t].k = k
  \/ \E k \in Tokens, f \in 0..Len(toks) :
       /\ BeginLogout(t, k, f) /\ req'[t].op = "logout" /\ req'[t].at = "parse"
       /\ req'[t].u = toks[k].user /\ req'[t].k = k /\ req'[t].f = f
  \/ \E k \in Tokens, u \in Users :
       /\ BeginRevokeAll(t, k, u) /\ req'[t].op = "revokeall" /\ req'[t].at = "refresh"
       /\ req'[t].u = u /\ req'[t].n = Len(toks)
  \/ \E k \in Tokens, pw, new \in Passwords :
       /\ BeginPassword(t, k, pw, new) /\ req'[t].op = "password" /\ req'[t].at = "read"
       /\ req'[t].u = toks[k].user /\ req'[t].n = 0
  \/ \E k \in Tokens, a \in Agents, p \in Patches :
       /\ BeginUpdate(t, k, a, p) /\ req'[t].op = "update" /\ req'[t].u = toks[k].user
       /\ req'[t].a = a /\ req'[t].row = agents[a]
  \/ \E k \in Tokens, a \in Agents, asked \in Asks :
       /\ BeginMint(t, k, a, asked) /\ req'[t].op = "mint" /\ req'[t].u = toks[k].user
       /\ req'[t].a = a /\ req'[t].row = agents[a]

Moved(t) ==
  \/ /\ RegisterName(t) /\ Op(t, "register")
     /\ req'[t].at = "count" /\ req'[t].role = req[t].role
  \/ /\ RegisterCount(t) /\ Op(t, "register")
     /\ req'[t].at = "create" /\ req'[t].role = FirstRole
  \/ CreateUserName(t) /\ Op(t, "createuser")
  \/ /\ SetRoleCount(t) /\ Op(t, "setrole")
     /\ req'[t].at = "write" /\ req'[t].role = req[t].role /\ ~LastAdmin
  \/ /\ LoginRead(t) /\ Op(t, "login") /\ req[t].at = "read"
     /\ \/ req'[t].at = "fail"
        \/ /\ req'[t].at \in {"rehash", "issue"}
           /\ Exists(req[t].u) /\ req'[t].row = users[req[t].u]
  \/ /\ LoginRehash(t) \/ LoginIssue(t)
     /\ Op(t, "login") /\ req[t].at \in {"rehash", "issue"}
     /\ req'[t].at \in {"issue", "clear"} /\ req'[t].row = req[t].row
  \/ /\ RefreshUser(t) /\ Op(t, "refresh") /\ req'[t].k = req[t].k
     /\ req'[t].at = "rotate" /\ req'[t].row = users[req[t].u]
  \/ /\ RefreshRotate(t) /\ Op(t, "refresh") /\ req'[t].k = req[t].k
     /\ req[t].at = "rotate" /\ req'[t].at = "issue" /\ req'[t].row = req[t].row
     /\ toks[req[t].k].refresh = "live" /\ RevokeOne(req[t].k)
  \/ /\ LogoutParse(t) \/ LogoutRefresh(t)
     /\ Op(t, "logout") /\ req'[t].k = req[t].k /\ req'[t].f = req[t].f
  \/ /\ RevokeAllRefresh(t) /\ Op(t, "revokeall")
     /\ req'[t].at = "bump" /\ req'[t].n = req[t].n
  \/ /\ PasswordRead(t) /\ Op(t, "password")
     /\ req'[t].at = "write" /\ req'[t].n = Len(toks)
  \/ /\ PasswordWrite(t) /\ Op(t, "password")
     /\ req'[t].at = "refresh" /\ req'[t].n = req[t].n
  \/ /\ PasswordRefresh(t) /\ Op(t, "password")
     /\ req'[t].at = "bump" /\ req'[t].n = req[t].n

ReqStep(t) ==
  \/ req'[t] = req[t]
  \/ req'[t] = Idle
  \/ req[t] = Idle /\ Begun(t)
  \/ req'[t].op = req[t].op /\ req'[t].u = req[t].u /\ Moved(t)

(* One thread takes the step.                                              *)
LEMMA OneThread ==
  ASSUME Types, NEW t \in Threads, Reads(t) \/ Writes(t)
  PROVE  \E r : req' = [req EXCEPT ![t] = r]
<1>1. UNCHANGED req \/ \E r : req' = [req EXCEPT ![t] = r]
  <2>3. CASE LoginRead(t)
    <3>1. \E r : Goto(t, r)
      BY <2>3 DEF LoginRead
    <3>. QED
      BY <3>1 DEF Goto
  <2>4. CASE \/ \E u \in Users : BeginRegister(t, u)
             \/ \E k \in Tokens, u \in Users, role \in Roles :
                  BeginCreateUser(t, k, u, role) \/ BeginSetRole(t, k, u, role)
             \/ \E k \in Tokens : BeginRefresh(t, k)
             \/ \E k \in Tokens, f \in 0..Len(toks) : BeginLogout(t, k, f)
    BY <2>4 DEF BeginRegister, BeginCreateUser, BeginSetRole, BeginRefresh, BeginLogout,
       Begin
  <2>5. CASE \/ \E k \in Tokens, u \in Users : BeginRevokeAll(t, k, u)
             \/ \E k \in Tokens, pw, new \in Passwords : BeginPassword(t, k, pw, new)
    BY <2>5 DEF BeginRevokeAll, BeginPassword, Begin
  <2>10. CASE \E k \in Tokens, a \in Agents : \E asked \in Asks : BeginMint(t, k, a, asked)
    BY <2>10 DEF BeginMint, Begin
  <2>11. CASE \E k \in Tokens, a \in Agents : \E p \in Patches : BeginUpdate(t, k, a, p)
    BY <2>11 DEF BeginUpdate, Begin
  <2>6. CASE \/ RegisterName(t) \/ RegisterCount(t) \/ CreateUserName(t) \/ SetRoleCount(t)
             \/ RefreshUser(t) \/ LogoutParse(t) \/ PasswordRead(t)
    BY <2>6 DEF RegisterName, RegisterCount, CreateUserName, SetRoleCount, RefreshUser,
       LogoutParse, PasswordRead, Goto, Done, Then
  <2>1. CASE Reads(t)
    BY <2>1, <2>3, <2>4, <2>5, <2>6, <2>10, <2>11 DEF Reads
  <2>7. CASE \/ RegisterCreate(t) \/ CreateUserCreate(t) \/ SetRoleWrite(t)
             \/ \E u \in Users, pw \in Passwords : BeginLogin(t, u, pw)
             \/ LoginFail(t) \/ LoginRehash(t) \/ LoginIssue(t) \/ LoginClear(t)
    BY <2>7 DEF RegisterCreate, CreateUserCreate, SetRoleWrite, BeginLogin, LoginFail,
       LoginRehash, LoginIssue, LoginClear, Begin, Goto, Done, Then
  <2>8. CASE \/ RefreshRotate(t) \/ RefreshIssue(t) \/ LogoutRefresh(t) \/ LogoutDeny(t)
             \/ RevokeAllRefresh(t) \/ RevokeAllBump(t)
             \/ PasswordWrite(t) \/ PasswordRefresh(t) \/ PasswordBump(t)
    BY <2>8 DEF RefreshRotate, RefreshIssue, LogoutRefresh, LogoutDeny, RevokeAllRefresh,
       RevokeAllBump, PasswordWrite, PasswordRefresh, PasswordBump, Goto, Done, Then
  <2>9. CASE \/ \E k \in Tokens, a \in Agents :
                  DeleteAgent(t, k, a) \/ \E g \in Grants : CreateAgent(t, k, a, g)
             \/ UpdateWrite(t) \/ MintIssue(t)
    BY <2>9 DEF DeleteAgent, CreateAgent, UpdateWrite, MintIssue, Goto, Done, Then
  <2>2. CASE Writes(t)
    BY <2>2, <2>7, <2>8, <2>9 DEF Writes
  <2>. QED
    BY <2>1, <2>2
<1>2. req = [req EXCEPT ![t] = req[t]]
  BY DEF Types
<1>. QED
  BY <1>1, <1>2

LEMMA BegunRequests ==
  ASSUME Types, NEW t \in Threads,
         \/ \E u \in Users : BeginRegister(t, u)
         \/ \E k \in Tokens, u \in Users, role \in Roles :
              BeginCreateUser(t, k, u, role) \/ BeginSetRole(t, k, u, role)
         \/ \E u \in Users, pw \in Passwords : BeginLogin(t, u, pw)
         \/ \E k \in Tokens : BeginRefresh(t, k)
         \/ \E k \in Tokens, f \in 0..Len(toks) : BeginLogout(t, k, f)
         \/ \E k \in Tokens, u \in Users : BeginRevokeAll(t, k, u)
         \/ \E k \in Tokens, pw, new \in Passwords : BeginPassword(t, k, pw, new)
         \/ \E k \in Tokens, a \in Agents, p \in Patches : BeginUpdate(t, k, a, p)
         \/ \E k \in Tokens, a \in Agents, asked \in Asks : BeginMint(t, k, a, asked)
  PROVE  req[t] = Idle /\ Begun(t) /\ req'[t] \in Requests
<1>0. req[t] = Idle
  BY DEF BeginRegister, BeginCreateUser, BeginSetRole, BeginLogin, BeginRefresh,
     BeginLogout, BeginRevokeAll, BeginPassword, BeginUpdate, BeginMint, Free
<1>1. \A k \in Tokens : /\ k \in Nat /\ toks[k].user \in Users
                        /\ toks[k].role \in Roles \cup {"none"}
  <2>1. \A k \in Tokens : toks[k] \in Token /\ k \in Nat
    BY DEF Types, Tokens
  <2>. QED
    BY <2>1 DEF Token
<1>2. \A r : Begin(t, r) => req'[t] = r
  BY DEF Begin, Types
<1>3. NoUser \in UserRows
  BY DEF NoUser, UserRows, Passwords
<1>4. Len(toks) \in Nat /\ \A f \in 0..Len(toks) : f \in Nat
  BY DEF Types
<1>5. \A a \in Agents : agents[a] \in AgentRows
  BY DEF Types
<1>6. ASSUME NEW u \in Users, BeginRegister(t, u)
      PROVE  Begun(t) /\ req'[t] \in Requests
  <2>. DEFINE r == [op |-> "register", at |-> "name", u |-> u, role |-> "user"]
  <2>1. r \in Register
    BY <1>1 DEF Register, Roles
  <2>2. req'[t] = r
    BY <1>6, <1>2 DEF BeginRegister
  <2>. QED
    BY <1>6, <2>1, <2>2 DEF Begun, Requests
<1>7. ASSUME NEW k \in Tokens, NEW u \in Users, NEW role \in Roles, BeginCreateUser(t, k, u, role)
      PROVE  Begun(t) /\ req'[t] \in Requests
  <2>. DEFINE r == [op |-> "createuser", at |-> "name", u |-> u, role |-> role]
  <2>1. r \in NewUser
    BY <1>1 DEF NewUser
  <2>2. req'[t] = r
    BY <1>7, <1>2 DEF BeginCreateUser
  <2>. QED
    BY <1>7, <2>1, <2>2 DEF Begun, Requests
<1>8. ASSUME NEW k \in Tokens, NEW u \in Users, NEW role \in Roles, BeginSetRole(t, k, u, role)
      PROVE  Begun(t) /\ req'[t] \in Requests
  <2>. DEFINE r == [op |-> "setrole", u |-> u, role |-> role,
                    at |-> IF users[u].role = "admin" /\ role = "user"
                             THEN "count" ELSE "write"]
  <2>1. r \in SetRole
    BY <1>1 DEF SetRole
  <2>2. req'[t] = r
    BY <1>8, <1>2 DEF BeginSetRole
  <2>. QED
    BY <1>8, <2>1, <2>2 DEF Begun, Requests
<1>9. ASSUME NEW u \in Users, NEW pw \in Passwords, BeginLogin(t, u, pw)
      PROVE  Begun(t) /\ req'[t] \in Requests
  <2>. DEFINE r == [op |-> "login", at |-> "read", u |-> u, pw |-> pw,
                    row |-> NoUser]
  <2>1. r \in Login
    BY <1>3 DEF Login
  <2>2. req'[t] = r
    BY <1>9, <1>2 DEF BeginLogin
  <2>. QED
    BY <1>9, <2>1, <2>2 DEF Begun, Requests
<1>10. ASSUME NEW k \in Tokens, BeginRefresh(t, k)
      PROVE  Begun(t) /\ req'[t] \in Requests
  <2>. DEFINE r == [op |-> "refresh", at |-> "user", u |-> toks[k].user, k |-> k,
                    row |-> NoUser]
  <2>1. r \in Rotation
    BY <1>1, <1>3 DEF Rotation
  <2>2. req'[t] = r
    BY <1>10, <1>2 DEF BeginRefresh
  <2>. QED
    BY <1>10, <2>1, <2>2 DEF Begun, Requests
<1>11. ASSUME NEW k \in Tokens, NEW f \in 0..Len(toks), BeginLogout(t, k, f)
      PROVE  Begun(t) /\ req'[t] \in Requests
  <2>. DEFINE r == [op |-> "logout", at |-> "parse", u |-> toks[k].user, k |-> k,
                    f |-> f]
  <2>1. r \in Logout
    BY <1>1, <1>4 DEF Logout
  <2>2. req'[t] = r
    BY <1>11, <1>2 DEF BeginLogout
  <2>. QED
    BY <1>11, <2>1, <2>2 DEF Begun, Requests
<1>12. ASSUME NEW k \in Tokens, NEW u \in Users, BeginRevokeAll(t, k, u)
      PROVE  Begun(t) /\ req'[t] \in Requests
  <2>. DEFINE r == [op |-> "revokeall", at |-> "refresh", u |-> u, n |-> Len(toks)]
  <2>1. r \in RevokeAll
    BY <1>1, <1>4 DEF RevokeAll
  <2>2. req'[t] = r
    BY <1>12, <1>2 DEF BeginRevokeAll
  <2>. QED
    BY <1>12, <2>1, <2>2 DEF Begun, Requests
<1>13. ASSUME NEW k \in Tokens, NEW pw \in Passwords, NEW new \in Passwords, BeginPassword(t, k, pw, new)
      PROVE  Begun(t) /\ req'[t] \in Requests
  <2>. DEFINE r == [op |-> "password", at |-> "read", u |-> toks[k].user, pw |-> pw,
                    new |-> new, n |-> 0]
  <2>1. r \in Password
    BY <1>1 DEF Password
  <2>2. req'[t] = r
    BY <1>13, <1>2 DEF BeginPassword
  <2>. QED
    BY <1>13, <2>1, <2>2 DEF Begun, Requests
<1>14. ASSUME NEW k \in Tokens, NEW a \in Agents, NEW p \in Patches, BeginUpdate(t, k, a, p)
      PROVE  Begun(t) /\ req'[t] \in Requests
  <2>. DEFINE r == [op |-> "update", at |-> "write", u |-> toks[k].user, a |-> a,
                    patch |-> p, row |-> agents[a]]
  <2>1. r \in Update
    BY <1>1, <1>5 DEF Update
  <2>2. req'[t] = r
    BY <1>14, <1>2 DEF BeginUpdate
  <2>. QED
    BY <1>14, <2>1, <2>2 DEF Begun, Requests
<1>15. ASSUME NEW k \in Tokens, NEW a \in Agents, NEW asked \in Asks,
              BeginMint(t, k, a, asked)
      PROVE  Begun(t) /\ req'[t] \in Requests
  <2>. DEFINE r == [op |-> "mint", at |-> "user", u |-> toks[k].user, a |-> a,
                    role |-> toks[k].role, row |-> agents[a], asked |-> asked]
  <2>3. agents[a].grant \in FullGrant
    BY <1>5, <1>15 DEF BeginMint, AgentRows, NoGrants
  <2>1. r \in Mint
    BY <1>1, <1>5, <2>3 DEF Mint, AgentRows
  <2>2. req'[t] = r
    BY <1>15, <1>2 DEF BeginMint
  <2>. QED
    BY <1>15, <2>1, <2>2 DEF Begun, Requests
<1>. QED
  BY <1>0, <1>6, <1>7, <1>8, <1>9, <1>10, <1>11, <1>12, <1>13, <1>14, <1>15

LEMMA MovedRequests ==
  ASSUME Types, NEW t \in Threads,
         \/ RegisterName(t) \/ RegisterCount(t) \/ CreateUserName(t) \/ SetRoleCount(t)
         \/ LoginRead(t) \/ LoginRehash(t) \/ LoginIssue(t)
         \/ RefreshUser(t) \/ RefreshRotate(t) \/ LogoutParse(t) \/ LogoutRefresh(t)
         \/ RevokeAllRefresh(t) \/ PasswordRead(t) \/ PasswordWrite(t) \/ PasswordRefresh(t)
  PROVE  ReqStep(t) /\ req'[t] \in Requests
<1>. DEFINE Goal == ReqStep(t) /\ req'[t] \in Requests
<1>. SUFFICES Goal
  OBVIOUS
<1>1. CASE Done(t)
  BY <1>1 DEF Done, Types, ReqStep, Requests
<1>2. \A r : Goto(t, r) => req'[t] = r
  BY DEF Goto, Types
<1>3. \A at : Then(t, at) => req'[t] = [req[t] EXCEPT !.at = at]
  BY <1>2 DEF Then
<1>4. Len(toks) \in Nat /\ \A u \in Users : users[u] \in UserRows
  BY DEF Types
<1>5. CASE RegisterName(t)
  <2>1. req[t] \in Register /\ Op(t, "register")
    BY <1>5, RequestKinds DEF RegisterName, At, Op
  <2>. DEFINE r == [req[t] EXCEPT !.at = "count"]
  <2>2. r \in Register /\ r.at = "count" /\ r.u = req[t].u /\ r.role = req[t].role /\ r.op = req[t].op
    BY <2>1 DEF Register
  <2>3. Done(t) \/ req'[t] = r
    BY <1>3, <1>5 DEF RegisterName
  <2>. HIDE DEF r
  <2>. QED
    BY <1>1, <1>5, <2>1, <2>2, <2>3 DEF ReqStep, Moved, Requests
<1>6. CASE RegisterCount(t)
  <2>1. req[t] \in Register /\ Op(t, "register") /\ FirstRole \in Roles
    BY <1>6, RequestKinds DEF RegisterCount, At, Op, FirstRole, Roles
  <2>. DEFINE r == [req[t] EXCEPT !.at = "create", !.role = FirstRole]
  <2>2. r \in Register /\ r.at = "create" /\ r.u = req[t].u /\ r.role = FirstRole /\ r.op = req[t].op
    BY <2>1 DEF Register
  <2>3. req'[t] = r
    BY <1>2, <1>6 DEF RegisterCount
  <2>. HIDE DEF r
  <2>. QED
    BY <1>6, <2>1, <2>2, <2>3 DEF ReqStep, Moved, Requests
<1>7. CASE CreateUserName(t)
  <2>1. req[t] \in NewUser /\ Op(t, "createuser")
    BY <1>7, RequestKinds DEF CreateUserName, At, Op
  <2>. DEFINE r == [req[t] EXCEPT !.at = "create"]
  <2>2. r \in NewUser /\ r.u = req[t].u /\ r.op = req[t].op
    BY <2>1 DEF NewUser
  <2>3. Done(t) \/ req'[t] = r
    BY <1>3, <1>7 DEF CreateUserName
  <2>. HIDE DEF r
  <2>. QED
    BY <1>1, <1>7, <2>1, <2>2, <2>3 DEF ReqStep, Moved, Requests
<1>8. CASE SetRoleCount(t)
  <2>1. req[t] \in SetRole /\ Op(t, "setrole")
    BY <1>8, RequestKinds DEF SetRoleCount, At, Op
  <2>. DEFINE r == [req[t] EXCEPT !.at = "write"]
  <2>2. r \in SetRole /\ r.at = "write" /\ r.u = req[t].u /\ r.role = req[t].role /\ r.op = req[t].op
    BY <2>1 DEF SetRole
  <2>3. Done(t) \/ (req'[t] = r /\ ~LastAdmin)
    BY <1>3, <1>8 DEF SetRoleCount
  <2>. HIDE DEF r
  <2>. QED
    BY <1>1, <1>8, <2>1, <2>2, <2>3 DEF ReqStep, Moved, Requests
<1>9. CASE LoginRead(t)
  <2>1. req[t] \in Login /\ Op(t, "login") /\ req[t].at = "read"
    BY <1>9, RequestKinds DEF LoginRead, At, Op
  <2>2. PICK next \in {"fail", "rehash", "issue"} :
          /\ req'[t] = [req[t] EXCEPT !.at = next, !.row = users[req[t].u]]
          /\ next # "fail" => Exists(req[t].u)
    BY <1>2, <1>9 DEF LoginRead
  <2>. DEFINE r == [req[t] EXCEPT !.at = next, !.row = users[req[t].u]]
  <2>3. /\ r \in Login /\ r.at = next /\ r.u = req[t].u /\ r.op = req[t].op
        /\ r.row = users[req[t].u]
    BY <1>4, <2>1 DEF Login
  <2>. HIDE DEF r
  <2>. QED
    BY <1>9, <2>1, <2>2, <2>3 DEF ReqStep, Moved, Requests, r
<1>10. CASE LoginRehash(t) \/ LoginIssue(t)
  <2>1. req[t] \in Login /\ Op(t, "login") /\ req[t].at \in {"rehash", "issue"}
    BY <1>10, RequestKinds DEF LoginRehash, LoginIssue, At, Op
  <2>2. PICK next \in {"issue", "clear"} : req'[t] = [req[t] EXCEPT !.at = next]
    BY <1>3, <1>10 DEF LoginRehash, LoginIssue
  <2>. DEFINE r == [req[t] EXCEPT !.at = next]
  <2>3. r \in Login /\ r.at = next /\ r.u = req[t].u /\ r.op = req[t].op /\ r.row = req[t].row
    BY <2>1 DEF Login
  <2>. HIDE DEF r
  <2>. QED
    BY <1>10, <2>1, <2>2, <2>3 DEF ReqStep, Moved, Requests, r
<1>11. CASE RefreshUser(t)
  <2>1. req[t] \in Rotation /\ Op(t, "refresh")
    BY <1>11, RequestKinds DEF RefreshUser, At, Op
  <2>. DEFINE r == [req[t] EXCEPT !.at = "rotate", !.row = users[req[t].u]]
  <2>2. /\ r \in Rotation /\ r.at = "rotate" /\ r.u = req[t].u /\ r.op = req[t].op
        /\ r.k = req[t].k /\ r.row = users[req[t].u]
    BY <1>4, <2>1 DEF Rotation
  <2>3. req'[t] = r
    BY <1>2, <1>11 DEF RefreshUser
  <2>. HIDE DEF r
  <2>. QED
    BY <1>11, <2>1, <2>2, <2>3 DEF ReqStep, Moved, Requests
<1>12. CASE RefreshRotate(t)
  <2>1. req[t] \in Rotation /\ Op(t, "refresh") /\ req[t].at = "rotate"
    BY <1>12, RequestKinds DEF RefreshRotate, At, Op
  <2>. DEFINE r == [req[t] EXCEPT !.at = "issue"]
  <2>2. /\ r \in Rotation /\ r.at = "issue" /\ r.u = req[t].u /\ r.op = req[t].op
        /\ r.k = req[t].k /\ r.row = req[t].row
    BY <2>1 DEF Rotation
  <2>3. \/ Done(t)
        \/ req'[t] = r /\ toks[req[t].k].refresh = "live" /\ RevokeOne(req[t].k)
    BY <1>3, <1>12 DEF RefreshRotate
  <2>. HIDE DEF r
  <2>. QED
    BY <1>1, <1>12, <2>1, <2>2, <2>3 DEF ReqStep, Moved, Requests
<1>13. CASE LogoutParse(t) \/ LogoutRefresh(t)
  <2>1. req[t] \in Logout /\ Op(t, "logout")
    BY <1>13, RequestKinds DEF LogoutParse, LogoutRefresh, At, Op
  <2>2. Done(t) \/ \E at \in {"refresh", "deny"} : req'[t] = [req[t] EXCEPT !.at = at]
    BY <1>3, <1>13 DEF LogoutParse, LogoutRefresh
  <2>3. ASSUME NEW at \in {"refresh", "deny"}, req'[t] = [req[t] EXCEPT !.at = at]
        PROVE  Goal
    <3>1. /\ req'[t] \in Logout /\ req'[t].u = req[t].u /\ req'[t].op = req[t].op
          /\ req'[t].k = req[t].k /\ req'[t].f = req[t].f
      BY <2>1, <2>3 DEF Logout
    <3>. QED
      BY <1>13, <2>1, <3>1 DEF ReqStep, Moved, Requests
  <2>. QED
    BY <1>1, <2>2, <2>3
<1>14. CASE RevokeAllRefresh(t)
  <2>1. req[t] \in RevokeAll /\ Op(t, "revokeall")
    BY <1>14, RequestKinds DEF RevokeAllRefresh, At, Op
  <2>2. req'[t] = [req[t] EXCEPT !.at = "bump"]
    BY <1>3, <1>14 DEF RevokeAllRefresh
  <2>3. /\ req'[t] \in RevokeAll /\ req'[t].u = req[t].u /\ req'[t].op = req[t].op
        /\ req'[t].at = "bump" /\ req'[t].n = req[t].n
    BY <2>1, <2>2 DEF RevokeAll
  <2>. QED
    BY <1>14, <2>1, <2>3 DEF ReqStep, Moved, Requests
<1>15. CASE PasswordRead(t)
  <2>1. req[t] \in Password /\ Op(t, "password")
    BY <1>15, RequestKinds DEF PasswordRead, At, Op
  <2>. DEFINE r == [req[t] EXCEPT !.at = "write", !.n = Len(toks)]
  <2>2. /\ r \in Password /\ r.at = "write" /\ r.u = req[t].u /\ r.op = req[t].op
        /\ r.n = Len(toks)
    BY <1>4, <2>1 DEF Password
  <2>3. Done(t) \/ req'[t] = r
    BY <1>2, <1>15 DEF PasswordRead
  <2>. HIDE DEF r
  <2>. QED
    BY <1>1, <1>15, <2>1, <2>2, <2>3 DEF ReqStep, Moved, Requests
<1>16. CASE PasswordWrite(t) \/ PasswordRefresh(t)
  <2>1. req[t] \in Password /\ Op(t, "password")
    BY <1>16, RequestKinds DEF PasswordWrite, PasswordRefresh, At, Op
  <2>2. ASSUME NEW at \in {"refresh", "bump"}, Then(t, at)
        PROVE  /\ req'[t] \in Password /\ req'[t].u = req[t].u /\ req'[t].op = req[t].op
               /\ req'[t].at = at /\ req'[t].n = req[t].n
    <3>1. req'[t] = [req[t] EXCEPT !.at = at]
      BY <1>3, <2>2
    <3>. QED
      BY <2>1, <3>1 DEF Password
  <2>3. PasswordWrite(t) => Then(t, "refresh")
    BY DEF PasswordWrite
  <2>4. PasswordRefresh(t) => Then(t, "bump")
    BY DEF PasswordRefresh
  <2>. QED
    BY <1>16, <2>1, <2>2, <2>3, <2>4 DEF ReqStep, Moved, Requests
<1>. QED
  BY <1>5, <1>6, <1>7, <1>8, <1>9, <1>10, <1>11, <1>12, <1>13, <1>14, <1>15, <1>16

LEMMA ReqSteps ==
  ASSUME Types, [Next]_vars
  PROVE  /\ req' \in [Threads -> Requests]
         /\ \A t \in Threads : ReqStep(t)
         /\ \A s, t \in Threads : req'[s] # req[s] /\ req'[t] # req[t] => s = t
<1>1. CASE UNCHANGED req
  BY <1>1 DEF Types, ReqStep
<1>2. ASSUME NEW t \in Threads, Reads(t) \/ Writes(t)
      PROVE  ReqStep(t) /\ req'[t] \in Requests
  <2>1. CASE Done(t)
    BY <2>1 DEF Done, Types, ReqStep, Requests
  <2>2. CASE \/ RegisterCreate(t) \/ CreateUserCreate(t) \/ SetRoleWrite(t)
             \/ LoginFail(t) \/ LoginClear(t) \/ RefreshIssue(t) \/ LogoutDeny(t)
             \/ RevokeAllBump(t) \/ PasswordBump(t) \/ UpdateWrite(t) \/ MintIssue(t)
    BY <2>1, <2>2 DEF RegisterCreate, CreateUserCreate, SetRoleWrite, LoginFail,
       LoginClear, RefreshIssue, LogoutDeny, RevokeAllBump, PasswordBump, UpdateWrite,
       MintIssue
  <2>3. CASE \E k \in Tokens, a \in Agents :
               DeleteAgent(t, k, a) \/ \E g \in Grants : CreateAgent(t, k, a, g)
    BY <2>3 DEF DeleteAgent, CreateAgent, Types, ReqStep
  <2>. QED
    BY <1>2, <2>2, <2>3, BegunRequests, MovedRequests DEF Reads, Writes, ReqStep
<1>3. ASSUME NEW t \in Threads, Reads(t) \/ Writes(t)
      PROVE  /\ req' \in [Threads -> Requests]
             /\ \A s \in Threads : ReqStep(s)
             /\ \A s \in Threads : req'[s] # req[s] => s = t
  <2>1. PICK r : req' = [req EXCEPT ![t] = r]
    BY <1>3, OneThread
  <2>2. req'[t] = r /\ \A s \in Threads \ {t} : req'[s] = req[s]
    BY <2>1 DEF Types
  <2>. QED
    BY <1>2, <1>3, <2>1, <2>2 DEF Types, ReqStep
<1>. QED
  BY <1>1, <1>3, NextSplit DEF vars, WindowPasses

(* What a step may do to the row of an agent.                              *)
RowStep(a) ==
  \/ agents'[a] = agents[a]
  \/ /\ agents[a] = NoAgent
     /\ agents'[a].grant \in FullGrant /\ agents'[a].grant.status = "active"
  \/ Live(a) /\ agents'[a].grant = [status |-> "deleted"]
  \/ \E t \in Threads :
       /\ UpdateWrite(t) /\ Op(t, "update") /\ req[t].a = a /\ Live(a)
       /\ agents'[a].grant = Patched(req[t].row.grant, req[t].patch)
       /\ agents'[a].atv = IF Tightened(req[t].row.grant, agents'[a].grant)
                             THEN req[t].row.atv + 1 ELSE req[t].row.atv

LEMMA RowSteps ==
  ASSUME Types, Granted, [Next]_vars
  PROVE  agents' \in [Agents -> AgentRows] /\ \A a \in Agents : RowStep(a)
<1>. DEFINE Goal == agents' \in [Agents -> AgentRows] /\ \A a \in Agents : RowStep(a)
<1>. SUFFICES Goal
  OBVIOUS
<1>1. agents \in [Agents -> AgentRows]
  BY DEF Types
<1>2. CASE UNCHANGED agents
  BY <1>1, <1>2 DEF RowStep
<1>3. ASSUME NEW a \in Agents, NEW row \in AgentRows, agents' = [agents EXCEPT ![a] = row],
             RowStep(a)
      PROVE  Goal
  <2>1. agents' \in [Agents -> AgentRows] /\ \A x \in Agents \ {a} : agents'[x] = agents[x]
    BY <1>1, <1>3
  <2>. QED
    BY <1>3, <2>1 DEF RowStep
<1>4. ASSUME NEW t \in Threads, NEW k \in Tokens, NEW a \in Agents, NEW g \in Grants,
             CreateAgent(t, k, a, g)
      PROVE  Goal
  <2>. DEFINE scopes == IF g.scopes = {} THEN {"drive.read", "drive.write"} ELSE g.scopes
              grant == [g EXCEPT !.scopes = scopes, !.status = "active"]
              row == [owner |-> toks[k].user, atv |-> 0, grant |-> grant]
  <2>1. toks[k].user \in Users
    <3>1. toks[k] \in Token
      BY DEF Types, Tokens
    <3>. QED
      BY <3>1 DEF Token
  <2>2. agents[a] = NoAgent /\ agents' = [agents EXCEPT ![a] = row]
    BY <1>4 DEF CreateAgent
  <2>3. scopes \in {g.scopes, {"drive.read", "drive.write"}}
    OBVIOUS
  <2>. HIDE DEF scopes
  <2>4. grant \in FullGrant /\ grant.status = "active"
    BY <2>3, CreatedGrant
  <2>. HIDE DEF grant
  <2>5. row \in AgentRows /\ row.grant = grant
    BY <2>1, <2>4 DEF AgentRows
  <2>. HIDE DEF row
  <2>6. RowStep(a)
    BY <1>1, <2>2, <2>4, <2>5 DEF RowStep
  <2>. QED
    BY <1>3, <2>2, <2>5, <2>6
<1>5. ASSUME NEW t \in Threads, NEW k \in Tokens, NEW a \in Agents, DeleteAgent(t, k, a)
      PROVE  Goal
  <2>. DEFINE row == [NoAgent EXCEPT !.grant = [status |-> "deleted"]]
  <2>1. row \in AgentRows /\ row.grant = [status |-> "deleted"]
    BY DEF NoAgent, AgentRows, NoGrants
  <2>2. Live(a) /\ agents' = [agents EXCEPT ![a] = row]
    BY <1>5 DEF DeleteAgent
  <2>. HIDE DEF row
  <2>3. RowStep(a)
    BY <1>1, <2>1, <2>2 DEF RowStep
  <2>. QED
    BY <1>3, <2>1, <2>2, <2>3
<1>6. ASSUME NEW t \in Threads, UpdateWrite(t) PROVE Goal
  <2>1. req[t] \in Update /\ Op(t, "update") /\ req[t].row.grant \in FullGrant
    BY <1>6, RequestKinds DEF UpdateWrite, At, Op, Granted
  <2>2. req[t].a \in Agents /\ req[t].row \in AgentRows /\ req[t].patch \in Patches
    BY <2>1 DEF Update
  <2>. DEFINE new == Patched(req[t].row.grant, req[t].patch)
              atv == IF Tightened(req[t].row.grant, new) THEN req[t].row.atv + 1
                                                         ELSE req[t].row.atv
              row == [req[t].row EXCEPT !.grant = new, !.atv = atv]
  <2>3. new \in FullGrant
    BY <2>1, <2>2, PatchedGrant
  <2>4. UNCHANGED agents \/ (Live(req[t].a) /\ agents' = [agents EXCEPT ![req[t].a] = row])
    BY <1>6 DEF UpdateWrite
  <2>5. row = [req[t].row EXCEPT !.grant = new, !.atv = atv]
    OBVIOUS
  <2>. HIDE DEF new, row
  <2>6. atv \in Nat
    BY <2>2 DEF AgentRows
  <2>7. atv = IF Tightened(req[t].row.grant, new) THEN req[t].row.atv + 1
                                                  ELSE req[t].row.atv
    OBVIOUS
  <2>. HIDE DEF atv
  <2>8. row \in AgentRows /\ row.grant = new /\ row.atv = atv
    BY <2>2, <2>3, <2>5, <2>6 DEF AgentRows
  <2>9. ASSUME Live(req[t].a), agents' = [agents EXCEPT ![req[t].a] = row]
        PROVE  RowStep(req[t].a)
    <3>1. agents'[req[t].a] = row
      BY <1>1, <2>2, <2>9
    <3>. QED
      BY <1>6, <2>1, <2>7, <2>8, <2>9, <3>1 DEF RowStep, new
  <2>. QED
    BY <1>2, <1>3, <2>2, <2>4, <2>8, <2>9
<1>. QED
  BY <1>2, <1>4, <1>5, <1>6, AgentChanges

LEMMA CutSteps ==
  ASSUME Types, [Next]_vars
  PROVE  /\ cut' \in [Users -> Nat]
         /\ \A u \in Users :
              \/ cut'[u] = cut[u]
              \/ \E t \in Threads :
                   /\ RevokeAllBump(t) \/ PasswordBump(t)
                   /\ req[t].u = u /\ cut'[u] = IF req[t].n > cut[u] THEN req[t].n ELSE cut[u]
<1>1. CASE UNCHANGED cut
  BY <1>1 DEF Types
<1>2. ASSUME NEW t \in Threads, RevokeAllBump(t) \/ PasswordBump(t)
      PROVE  /\ cut' \in [Users -> Nat]
             /\ cut'[req[t].u] = IF req[t].n > cut[req[t].u] THEN req[t].n ELSE cut[req[t].u]
             /\ \A u \in Users : req[t].u # u => cut'[u] = cut[u]
  <2>1. req[t].u \in Users /\ req[t].n \in Nat
    BY <1>2, RequestKinds DEF RevokeAllBump, PasswordBump, At, Op, RevokeAll, Password
  <2>2. cut' = [cut EXCEPT ![req[t].u] = IF req[t].n > @ THEN req[t].n ELSE @]
    BY <1>2 DEF RevokeAllBump, PasswordBump
  <2>. QED
    BY <2>1, <2>2 DEF Types
<1>. QED
  BY <1>1, <1>2, CutChanges

LEMMA FailTypes ==
  ASSUME Types, [Next]_vars
  PROVE  fails' \in [Users -> [count : Nat, over : BOOLEAN]]
<1>. DEFINE Row == [count : Nat, over : BOOLEAN]
<1>1. fails \in [Users -> Row] /\ [count |-> 0, over |-> FALSE] \in Row
  BY DEF Types
<1>2. \A u \in Users : Kept(u) \in Row
  BY <1>1 DEF Kept
<1>3. \A u \in Users : [Kept(u) EXCEPT !.count = @ + 1] \in Row
  <2>1. \A r \in Row : [r EXCEPT !.count = @ + 1] \in Row
    OBVIOUS
  <2>. QED
    BY <1>2, <2>1
<1>4. \A u \in Users : [fails[u] EXCEPT !.over = TRUE] \in Row
  BY <1>1
<1>. HIDE DEF Row
<1>5. ASSUME NEW t \in Threads, LoginFail(t) \/ LoginClear(t) PROVE fails' \in [Users -> Row]
  <2>1. req[t].u \in Users
    BY <1>5, RequestKinds DEF LoginFail, LoginClear, At, Op, Login
  <2>. QED
    BY <1>1, <1>3, <1>5, <2>1 DEF LoginFail, LoginClear, Fail, Clear
<1>6. ASSUME NEW t \in Threads, NEW u \in Users, NEW pw \in Passwords, BeginLogin(t, u, pw)
      PROVE  fails' \in [Users -> Row]
  BY <1>1, <1>2, <1>6 DEF BeginLogin
<1>7. ASSUME NEW u \in Users, WindowPasses(u) PROVE fails' \in [Users -> Row]
  BY <1>1, <1>4, <1>7 DEF WindowPasses
<1>. QED
  BY <1>1, <1>5, <1>6, <1>7, FailChanges DEF Row

LEMMA TokensGrow ==
  ASSUME Types, Held, [Next]_vars
  PROVE  /\ Len(toks) \in Nat /\ Len(toks') \in Nat /\ Len(toks) <= Len(toks')
         /\ \A k \in Tokens : k \in Tokens' /\ TokenKept(k)
         /\ \A k \in Tokens' : \/ k \in Tokens
                               \/ k = Len(toks) + 1 /\ NewToken(toks'[k])
<1>1. Len(toks) \in Nat /\ toks' \in Seq(Token) /\ TokenStep
  BY TokenSteps DEF Types
<1>2. \A k \in Tokens : toks'[k] = toks[k] => TokenKept(k)
  BY DEF TokenKept
<1>3. CASE Len(toks') = Len(toks) /\ \A k \in Tokens : TokenKept(k)
  BY <1>1, <1>3 DEF Tokens
<1>4. CASE /\ Len(toks') = Len(toks) + 1 /\ \A k \in Tokens : toks'[k] = toks[k]
           /\ NewToken(toks'[Len(toks) + 1])
  <2>1. Tokens' = 1..(Len(toks) + 1) /\ Tokens = 1..Len(toks)
    BY <1>4 DEF Tokens
  <2>2. \A k \in Tokens' : k \in Tokens \/ k = Len(toks) + 1
    BY <1>1, <2>1
  <2>. QED
    BY <1>1, <1>2, <1>4, <2>1, <2>2
<1>. QED
  BY <1>1, <1>3, <1>4 DEF TokenStep

LEMMA TypesStep ==
  Types /\ Held /\ Granted /\ [Next]_vars => Types'
  BY UserSteps, TokenSteps, RowSteps, CutSteps, FailTypes, ReqSteps DEF Types

LEMMA HeldStep == Types /\ Held /\ [Next]_vars => Held'
<1>. SUFFICES ASSUME Types, Held, [Next]_vars PROVE Held'
  OBVIOUS
<1>1. \A u \in Users : Exists(u) => Exists(u)' /\ users[u].tv <= users'[u].tv
  BY UsersStay
<1>2. /\ \A u \in Users : users[u].tv \in Nat /\ users'[u].tv \in Nat
      /\ \A k \in Tokens : toks[k].user \in Users /\ toks[k].tv \in Nat
  <2>1. \A k \in Tokens : toks[k] \in Token
    BY DEF Types, Tokens
  <2>. QED
    BY <2>1, UserSteps DEF Types, UserRows, Token
<1>3. \A t \in Threads : req[t].op # "idle" => req[t].u \in Users
  BY RequestKinds DEF Types, Requests, Register, NewUser, Login, Rotation, Logout,
     RevokeAll, Password, SetRole, Update, Mint, Idle
<1>4. ASSUME NEW k \in Tokens'
      PROVE  Exists(toks[k].user)' /\ toks'[k].tv <= users'[toks'[k].user].tv
  <2>1. CASE k \in Tokens
    <3>1. toks'[k].user = toks[k].user /\ toks'[k].tv = toks[k].tv
      BY <2>1, TokensGrow DEF TokenKept
    <3>2. PICK u \in Users : u = toks[k].user
      BY <1>2, <2>1
    <3>3. Exists(u) /\ toks[k].tv <= users[u].tv
      BY <2>1, <3>2 DEF Held
    <3>. QED
      BY <1>1, <1>2, <2>1, <3>1, <3>2, <3>3 DEF Exists
  <2>2. ASSUME NEW t \in Threads, req[t].u \in Users, Exists(req[t].u),
               toks'[k].user = req[t].u, toks'[k].tv \in Nat, toks'[k].tv <= users[req[t].u].tv
        PROVE  Exists(toks[k].user)' /\ toks'[k].tv <= users'[toks'[k].user].tv
    BY <1>1, <1>2, <2>2 DEF Exists
  <2>3. ASSUME NEW t \in Threads, LoginIssue(t)
        PROVE  /\ req[t].u \in Users /\ Exists(req[t].u) /\ req[t].row.tv \in Nat
               /\ req[t].row.tv <= users[req[t].u].tv
    BY <2>3, RequestKinds DEF LoginIssue, At, Op, Held, Login, UserRows
  <2>4. ASSUME NEW t \in Threads, RefreshIssue(t)
        PROVE  /\ req[t].u \in Users /\ Exists(req[t].u) /\ req[t].row.tv \in Nat
               /\ req[t].row.tv <= users[req[t].u].tv
    BY <2>4, RequestKinds DEF RefreshIssue, At, Op, Held, Rotation, UserRows
  <2>5. ASSUME NEW t \in Threads, MintIssue(t)
        PROVE  req[t].u \in Users /\ Exists(req[t].u)
    BY <2>5, RequestKinds DEF MintIssue, At, Op, Held, Mint
  <2>. QED
    BY <1>2, <1>4, <2>1, <2>2, <2>3, <2>4, <2>5, TokensGrow DEF NewToken
<1>5. ASSUME NEW t \in Threads
      PROVE  /\ req'[t].op \in {"refresh", "logout", "revokeall", "password", "setrole",
                                "update", "mint"} => Exists(req[t].u)'
             /\ Op(t, "login")' /\ req'[t].at \in {"rehash", "issue", "clear"} =>
                  Exists(req[t].u)' /\ req'[t].row.tv <= users'[req'[t].u].tv
             /\ Op(t, "refresh")' =>
                  /\ req'[t].k \in Tokens' /\ toks'[req'[t].k].user = req'[t].u
                  /\ req'[t].at # "user" => req'[t].row.tv <= users'[req'[t].u].tv
             /\ Op(t, "logout")' => req'[t].k \in Tokens' /\ req'[t].f \in 0..Len(toks')
  <2>. DEFINE Goal ==
         /\ req'[t].op \in {"refresh", "logout", "revokeall", "password", "setrole",
                            "update", "mint"} => Exists(req[t].u)'
         /\ Op(t, "login")' /\ req'[t].at \in {"rehash", "issue", "clear"} =>
              Exists(req[t].u)' /\ req'[t].row.tv <= users'[req'[t].u].tv
         /\ Op(t, "refresh")' =>
              /\ req'[t].k \in Tokens' /\ toks'[req'[t].k].user = req'[t].u
              /\ req'[t].at # "user" => req'[t].row.tv <= users'[req'[t].u].tv
         /\ Op(t, "logout")' => req'[t].k \in Tokens' /\ req'[t].f \in 0..Len(toks')
  <2>. SUFFICES Goal
    OBVIOUS
  <2>1. ReqStep(t)
    BY ReqSteps
  <2>2. CASE req'[t] = Idle
    BY <2>2 DEF Idle, Op
  <2>3. CASE req[t] = Idle /\ Begun(t)
    <3>1. ASSUME NEW k \in Tokens, req'[t].u = toks[k].user PROVE Exists(req[t].u)'
      BY <1>1, <1>2, <3>1 DEF Held, Exists
    <3>2. ASSUME NEW u \in Users, req'[t].u = u, Exists(u) PROVE Exists(req[t].u)'
      BY <1>1, <3>2 DEF Exists
    <3>3. CASE req'[t].op \in {"register", "createuser"}
      BY <3>3 DEF Op
    <3>4. ASSUME NEW k \in Tokens, NEW u \in Users, NEW role \in Roles,
                 BeginSetRole(t, k, u, role), req'[t].u = u, req'[t].op = "setrole"
          PROVE  Goal
      BY <3>2, <3>4 DEF BeginSetRole, Op
    <3>5. CASE req'[t].op = "login" /\ req'[t].at = "read"
      BY <3>5 DEF Op
    <3>6. ASSUME NEW k \in Tokens, req'[t].op = "refresh", req'[t].u = toks[k].user,
                 req'[t].k = k, req'[t].at = "user"
          PROVE  Goal
      BY <3>1, <3>6, TokensGrow DEF Op, TokenKept
    <3>7. ASSUME NEW k \in Tokens, NEW f \in 0..Len(toks), req'[t].op = "logout",
                 req'[t].u = toks[k].user, req'[t].k = k, req'[t].f = f
          PROVE  Goal
      BY <3>1, <3>7, TokensGrow DEF Op
    <3>8. ASSUME NEW k \in Tokens, NEW u \in Users, BeginRevokeAll(t, k, u),
                 req'[t].op = "revokeall", req'[t].u = u
          PROVE  Goal
      BY <3>2, <3>8 DEF BeginRevokeAll, Op
    <3>9. ASSUME NEW k \in Tokens, req'[t].op \in {"password", "update", "mint"},
                 req'[t].u = toks[k].user
          PROVE  Goal
      BY <3>1, <3>9 DEF Op
    <3>. QED
      BY <2>3, <3>3, <3>4, <3>5, <3>6, <3>7, <3>8, <3>9 DEF Begun
  <2>4. CASE req'[t] = req[t] \/ (req'[t].op = req[t].op /\ req'[t].u = req[t].u /\ Moved(t))
    <3>1. req'[t].op = req[t].op /\ (req[t].op # "idle" => req'[t].u = req[t].u)
      BY <2>4
    <3>2. CASE req[t].op \notin {"login", "refresh", "logout"}
      BY <1>1, <1>3, <3>1, <3>2 DEF Held, Op, Exists
    <3>3. CASE Op(t, "login")
      <4>1. PICK u \in Users : u = req[t].u /\ u = req'[t].u
        BY <1>3, <3>1, <3>3 DEF Op
      <4>2. req[t].row.tv \in Nat
        BY <3>3, RequestKinds DEF Login, UserRows
      <4>3. ASSUME req'[t].at \in {"rehash", "issue", "clear"}
            PROVE  Exists(u) /\ (req'[t].row = users[u] \/
                                 (req'[t].row = req[t].row /\ req[t].row.tv <= users[u].tv))
        BY <2>4, <3>3, <4>1, <4>3 DEF Moved, Op, Held
      <4>. QED
        BY <1>1, <1>2, <3>1, <3>3, <4>1, <4>2, <4>3 DEF Op, Exists
    <3>4. CASE Op(t, "refresh")
      <4>1. PICK u \in Users : u = req[t].u /\ u = req'[t].u /\ Exists(u)
        BY <1>3, <3>1, <3>4 DEF Op, Held
      <4>2. req[t].row.tv \in Nat
        BY <3>4, RequestKinds DEF Rotation, UserRows
      <4>3. /\ req'[t].k = req[t].k
            /\ req'[t].at # "user" =>
                 \/ req'[t].row = users[u]
                 \/ req'[t].row = req[t].row /\ req[t].row.tv <= users[u].tv
        BY <2>4, <3>4, <4>1 DEF Moved, Op, Held
      <4>4. PICK k \in Tokens : k = req[t].k /\ toks[k].user = u
        BY <3>4, <4>1 DEF Held
      <4>. QED
        BY <1>1, <1>2, <3>1, <3>4, <4>1, <4>2, <4>3, <4>4, TokensGrow DEF Op, Exists, TokenKept
    <3>5. CASE Op(t, "logout")
      <4>1. req'[t].k = req[t].k /\ req'[t].f = req[t].f
        BY <2>4, <3>5 DEF Moved, Op
      <4>. QED
        BY <1>1, <1>3, <3>1, <3>5, <4>1, TokensGrow DEF Op, Held, Exists
    <3>. QED
      BY <3>2, <3>3, <3>4, <3>5 DEF Op
  <2>. QED
    BY <2>1, <2>2, <2>3, <2>4 DEF ReqStep
<1>. QED
  BY <1>4, <1>5 DEF Held
-----------------------------------------------------------------------------
(* Requests that overlap.                                                  *)

LEMMA Subjects ==
  ASSUME NEW r
  PROVE  /\ r.op = "register" => Subject(r) = <<"register", "all">>
         /\ r.op = "setrole" => Subject(r) = <<"role", "all">>
         /\ r.op \in {"refresh", "revokeall", "password"} => Subject(r) = <<"session", r.u>>
         /\ r.op = "update" => Subject(r) = <<"agent", r.a>>
  BY DEF Subject

(* What was noted stays noted, and a request begins with Begin.            *)
LEMMA RacedSteps ==
  ASSUME Types, [Next]_vars
  PROVE  /\ raced \subseteq raced'
         /\ \A t \in Threads : req[t] = Idle /\ req'[t] # req[t] => \E r : Begin(t, r)
<1>1. ASSUME NEW t \in Threads, Reads(t) \/ Writes(t) PROVE raced \subseteq raced'
  <2>0. /\ \A r : Begin(t, r) \/ Goto(t, r) => raced \subseteq raced'
        /\ \A at : Then(t, at) => raced \subseteq raced'
        /\ Done(t) => raced \subseteq raced'
    BY DEF Begin, Goto, Then, Done
  <2>1. CASE LoginRead(t)
    <3>1. \E r : Goto(t, r)
      BY <2>1 DEF LoginRead
    <3>. QED
      BY <2>0, <3>1
  <2>2. CASE Reads(t)
    BY <2>0, <2>1, <2>2 DEF Reads, BeginRegister, RegisterName, RegisterCount, CreateUserName,
       SetRoleCount, BeginCreateUser, BeginSetRole, RefreshUser, LogoutParse,
       PasswordRead, BeginRefresh, BeginLogout, BeginRevokeAll, BeginPassword, BeginMint,
       BeginUpdate
  <2>3. CASE Writes(t)
    BY <2>0, <2>3 DEF Writes, RegisterCreate, CreateUserCreate, SetRoleWrite, BeginLogin,
       LoginFail, LoginRehash, LoginIssue, LoginClear, RefreshRotate, RefreshIssue,
       LogoutRefresh, LogoutDeny, RevokeAllRefresh, RevokeAllBump, PasswordWrite,
       PasswordRefresh, PasswordBump, DeleteAgent, CreateAgent, UpdateWrite, MintIssue
  <2>. QED
    BY <1>1, <2>2, <2>3
<1>2. ASSUME NEW t \in Threads, req[t] = Idle, req'[t] # req[t] PROVE \E r : Begin(t, r)
  <2>1. ReqStep(t)
    BY ReqSteps
  <2>2. Idle.op = "idle"
    BY DEF Idle
  <2>3. Begun(t)
    BY <1>2, <2>1, <2>2 DEF ReqStep, Moved, Op
  <2>. QED
    BY <2>3 DEF Begun, BeginRegister, BeginCreateUser, BeginSetRole, BeginLogin,
       BeginRefresh, BeginLogout, BeginRevokeAll, BeginPassword, BeginUpdate, BeginMint
<1>. QED
  BY <1>1, <1>2, NextSplit DEF vars, WindowPasses

LEMMA NotedStep == Types /\ Noted /\ [Next]_vars => Noted'
<1>. SUFFICES ASSUME Types, Noted, [Next]_vars PROVE Noted'
  OBVIOUS
<1>1. ASSUME NEW s \in Threads, NEW t \in Threads, s # t, Subjected(s)', Subjected(t)',
             Subject(req'[s]) = Subject(req'[t]), {req'[s].op, req'[t].op} # {"refresh"},
             req'[s] = req[s]
      PROVE  Subject(req'[t]) \in raced'
  <2>1. raced \subseteq raced' /\ ReqStep(t)
    BY RacedSteps, ReqSteps
  <2>2. Subjected(s)
    BY <1>1 DEF Subjected
  <2>3. CASE req[t] = Idle /\ Begun(t)
    <3>1. Idle.op = "idle"
      BY DEF Idle
    <3>2. req'[t] # req[t] /\ req[s] # Idle
      BY <1>1, <2>2, <2>3, <3>1 DEF Subjected
    <3>3. PICK r : Begin(t, r)
      BY <2>3, <3>2, RacedSteps
    <3>4. req'[t] = r
      BY <3>3 DEF Begin, Types
    <3>. DEFINE others == {req[x] : x \in {x \in Threads \ {t} : req[x] # Idle}}
                clash == {Subject(o) : o \in {o \in others :
                            /\ Subject(o) = Subject(r)
                            /\ {o.op, r.op} # {"refresh"}}}
    <3>5. raced' = raced \cup (clash \ {<<"none", "none">>})
      BY <3>3 DEF Begin
    <3>6. req[s] \in others
      BY <1>1, <3>2
    <3>7. Subject(req[s]) = Subject(r) /\ {req[s].op, r.op} # {"refresh"}
      BY <1>1, <3>4
    <3>. HIDE DEF others
    <3>8. Subject(req[s]) \in clash
      BY <3>6, <3>7
    <3>9. Subject(req[s]) # <<"none", "none">>
      BY <2>2, Subjects DEF Subjected
    <3>. HIDE DEF clash
    <3>. QED
      BY <3>4, <3>5, <3>7, <3>8, <3>9
  <2>4. CASE req'[t] # Idle /\ ~(req[t] = Idle /\ Begun(t))
    <3>1. /\ req'[t] = req[t] \/ (req'[t].op = req[t].op /\ req'[t].u = req[t].u)
          /\ req'[t] = req[t] \/ req[t].op # "update"
      BY <2>1, <2>4 DEF ReqStep, Moved, Op
    <3>2. Subjected(t) /\ req'[t].op = req[t].op
      BY <1>1, <3>1 DEF Subjected
    <3>3. Subject(req'[t]) = Subject(req[t])
      BY <3>1, <3>2, Subjects DEF Subjected
    <3>. QED
      BY <1>1, <2>1, <2>2, <3>2, <3>3 DEF Noted
  <2>5. Idle.op = "idle"
    BY DEF Idle
  <2>. QED
    BY <1>1, <2>3, <2>4, <2>5 DEF Subjected
<1>2. \A s, t \in Threads : s # t => req'[s] = req[s] \/ req'[t] = req[t]
  BY ReqSteps
<1>3. \A s, t \in Threads : {req'[s].op, req'[t].op} = {req'[t].op, req'[s].op}
  OBVIOUS
<1>. QED
  BY <1>1, <1>2, <1>3 DEF Noted

-----------------------------------------------------------------------------
(* Refresh tokens.                                                         *)

Issuing(t) == Op(t, "refresh") /\ req[t].at = "issue"

(* A request gets to issue by revoking its token, and leaves by issuing.   *)
LEMMA IssuingSteps ==
  ASSUME Types, Held, [Next]_vars, NEW t \in Threads
  PROVE  /\ Issuing(t)' =>
              /\ Op(t, "refresh") /\ req'[t].k = req[t].k /\ req[t].k \in Tokens
              /\ \/ Issuing(t) /\ ~RefreshIssue(t)
                 \/ /\ toks[req[t].k].refresh = "live" /\ Len(toks') = Len(toks)
                    /\ toks'[req[t].k].refresh = "revoked" /\ req'[t] # req[t]
         /\ RefreshIssue(t) => Issuing(t) /\ req[t].k \in Tokens
<1>1. ReqStep(t)
  BY ReqSteps
<1>2. RefreshIssue(t) => Issuing(t) /\ req'[t] = Idle /\ Idle.op = "idle"
  BY DEF RefreshIssue, Issuing, At, Op, Done, Types, Idle
<1>3. Op(t, "refresh") => req[t].k \in Tokens
  BY DEF Held
<1>4. ASSUME Issuing(t)' PROVE /\ Op(t, "refresh") /\ req'[t].k = req[t].k
                               /\ \/ req'[t] = req[t]
                                  \/ /\ toks[req[t].k].refresh = "live" /\ req'[t] # req[t]
                                     /\ RevokeOne(req[t].k)
  <2>1. Idle.op = "idle"
    BY DEF Idle
  <2>. QED
    BY <1>1, <1>4, <2>1 DEF ReqStep, Begun, Moved, Issuing, Op
<1>5. ASSUME NEW k \in Tokens, RevokeOne(k)
      PROVE  Len(toks') = Len(toks) /\ toks'[k].refresh = "revoked"
  <2>. DEFINE row == [toks[k] EXCEPT !.refresh = "revoked"]
  <2>1. toks[k] \in Token
    BY DEF Types, Tokens
  <2>2. row \in Token /\ row.refresh = "revoked"
    BY <2>1 DEF Token
  <2>3. toks' = [toks EXCEPT ![k] = row]
    BY <1>5 DEF RevokeOne
  <2>. HIDE DEF row
  <2>. QED
    BY <2>2, <2>3, ExceptSeq DEF Types, Tokens
<1>. QED
  BY <1>2, <1>3, <1>4, <1>5 DEF Issuing, Op

LEMMA SpentStep == Types /\ Held /\ Spent /\ [Next]_vars => Spent'
<1>. SUFFICES ASSUME Types, Held, Spent, [Next]_vars PROVE Spent'
  OBVIOUS
<1>1. /\ \A k \in Tokens : k \in Tokens' /\ k # 0 /\ toks'[k].from = toks[k].from
      /\ \A k \in Tokens : toks[k].refresh = "revoked" => toks'[k].refresh = "revoked"
  BY TokensGrow DEF TokenKept, Tokens
<1>2. ASSUME NEW j \in Tokens', j \notin Tokens
      PROVE  /\ j = Len(toks) + 1
             /\ \/ toks'[j].from = 0
                \/ \E t \in Threads : RefreshIssue(t) /\ toks'[j].from = req[t].k
  BY <1>2, TokensGrow DEF NewToken
<1>3. \A t \in Threads : RefreshIssue(t) => Issuing(t) /\ req[t].k \in Tokens
  BY IssuingSteps
<1>4. \A t \in Threads : Issuing(t) =>
        /\ toks[req[t].k].refresh = "revoked"
        /\ \A j \in Tokens : toks[j].from # req[t].k
        /\ \A s \in Threads : Issuing(s) /\ req[s].k = req[t].k => s = t
  BY DEF Spent, Issuing
<1>5. ASSUME NEW j \in Tokens', toks'[j].from # 0
      PROVE  toks'[j].from \in Tokens' /\ toks'[toks'[j].from].refresh = "revoked"
  <2>1. PICK k \in Tokens : k = toks'[j].from /\ toks[k].refresh = "revoked"
    BY <1>1, <1>2, <1>3, <1>4, <1>5 DEF Spent
  <2>. QED
    BY <1>1, <2>1
<1>6. ASSUME NEW i \in Tokens', NEW j \in Tokens', toks'[i].from # 0,
             toks'[i].from = toks'[j].from
      PROVE  i = j
  BY <1>1, <1>2, <1>3, <1>4, <1>6 DEF Spent
<1>7. ASSUME NEW t \in Threads, Issuing(t)'
      PROVE  /\ toks'[req'[t].k].refresh = "revoked"
             /\ \A j \in Tokens' : toks'[j].from # req'[t].k
             /\ \A s \in Threads : Issuing(s)' /\ req'[s].k = req'[t].k => s = t
  <2>1. PICK k \in Tokens : k = req[t].k /\ k = req'[t].k
    BY <1>7, IssuingSteps
  <2>2. CASE Issuing(t) /\ ~RefreshIssue(t)
    <3>1. toks[k].refresh = "revoked"
      BY <1>4, <2>1, <2>2
    <3>2. ASSUME NEW j \in Tokens' PROVE toks'[j].from # k
      <4>1. CASE j \in Tokens
        BY <1>1, <1>4, <2>1, <2>2, <4>1
      <4>2. CASE j \notin Tokens
        <5>1. ASSUME NEW r \in Threads, RefreshIssue(r) PROVE req[r].k # k
          BY <1>3, <1>4, <2>1, <2>2, <5>1
        <5>2. k # 0
          BY <1>1
        <5>. QED
          BY <1>2, <4>2, <5>1, <5>2
      <4>. QED
        BY <4>1, <4>2
    <3>3. ASSUME NEW s \in Threads, Issuing(s)', req'[s].k = k PROVE s = t
      BY <1>4, <2>1, <2>2, <3>1, <3>3, IssuingSteps
    <3>. QED
      BY <1>1, <2>1, <3>1, <3>2, <3>3
  <2>3. CASE /\ toks[k].refresh = "live" /\ Len(toks') = Len(toks)
             /\ toks'[k].refresh = "revoked" /\ req'[t] # req[t]
    <3>1. Tokens' = Tokens
      BY <2>3 DEF Tokens
    <3>2. \A j \in Tokens : toks[j].from # k
      <4>1. k # 0
        BY <1>1
      <4>. QED
        BY <2>3, <4>1 DEF Spent
    <3>3. ASSUME NEW s \in Threads, Issuing(s)', req'[s].k = k, s # t PROVE FALSE
      <4>1. req'[s] = req[s]
        BY <2>3, <3>3, ReqSteps
      <4>2. Issuing(s) /\ req[s].k = k
        BY <3>3, <4>1 DEF Issuing, Op
      <4>. QED
        BY <1>4, <2>3, <4>2
    <3>. QED
      BY <1>1, <2>1, <2>3, <3>1, <3>2, <3>3
  <2>. QED
    BY <1>7, <2>1, <2>2, <2>3, IssuingSteps
<1>. QED
  BY <1>5, <1>6, <1>7 DEF Spent, Issuing

-----------------------------------------------------------------------------
(* Revocation of all sessions.                                             *)

Revoking(t) == req[t].op \in {"revokeall", "password"}

LEMMA SessionsNoted ==
  ASSUME Noted, NEW s \in Threads, NEW t \in Threads, Op(s, "refresh"), Revoking(t),
         req[s].u = req[t].u
  PROVE  <<"session", req[t].u>> \in raced
<1>1. s # t /\ Subjected(s) /\ Subjected(t) /\ {req[s].op, req[t].op} # {"refresh"}
  BY DEF Op, Revoking, Subjected
<1>2. Subject(req[s]) = <<"session", req[t].u>> /\ Subject(req[t]) = <<"session", req[t].u>>
  BY Subjects DEF Op, Revoking
<1>. QED
  BY <1>1, <1>2 DEF Noted

LEMMA NoneLive ==
  ASSUME Types, NEW u, RevokeRefreshTokensForUser(u)
  PROVE  /\ Len(toks') = Len(toks)
         /\ \A k \in Tokens : toks'[k].user = u => toks'[k].refresh # "live"
<1>. DEFINE Row(k) == IF toks[k].user = u /\ toks[k].refresh = "live"
                        THEN [toks[k] EXCEPT !.refresh = "revoked"] ELSE toks[k]
<1>1. toks' = [k \in 1..Len(toks) |-> Row(k)] /\ Len(toks) \in Nat
  BY DEF RevokeRefreshTokensForUser, Tokens, Types
<1>2. ASSUME NEW k \in Tokens PROVE Row(k) \in Token /\ (Row(k).user = u => Row(k).refresh # "live")
  <2>1. toks[k] \in Token
    BY DEF Types, Tokens
  <2>. QED
    BY <2>1 DEF Token
<1>. HIDE DEF Row
<1>3. toks' \in [1..Len(toks) -> Token]
  BY <1>1, <1>2 DEF Tokens
<1>. QED
  BY <1>1, <1>2, <1>3, SeqDef, LenProperties DEF Tokens

(* A step completes a revocation of u's sessions, or leaves its cut.       *)
LEMMA CutsKept ==
  ASSUME Types, [Next]_vars, NEW u \in Users
  PROVE  \/ cut'[u] = cut[u]
         \/ \E t \in Threads :
              /\ RevokeAllBump(t) \/ PasswordBump(t)
              /\ Revoking(t) /\ req[t].at = "bump" /\ req[t].u = u /\ req[t].n \in Nat
              /\ cut'[u] = IF req[t].n > cut[u] THEN req[t].n ELSE cut[u]
              /\ toks' = toks /\ users'[u].tv = users[u].tv + 1
<1>1. ASSUME NEW t \in Threads, RevokeAllBump(t) \/ PasswordBump(t), req[t].u = u
      PROVE  /\ Revoking(t) /\ req[t].at = "bump" /\ req[t].n \in Nat /\ toks' = toks
             /\ users'[u].tv = users[u].tv + 1
  <2>1. Revoking(t) /\ req[t].at = "bump" /\ toks' = toks /\ users' = Bumped(u)
    BY <1>1 DEF RevokeAllBump, PasswordBump, At, Revoking
  <2>2. req[t].n \in Nat
    BY <2>1, RequestKinds DEF Revoking, Op, RevokeAll, Password
  <2>3. users \in [Users -> UserRows]
    BY DEF Types
  <2>. DEFINE n == users[u].tv + 1
              row == [users[u] EXCEPT !.tv = n]
  <2>4. users' = [users EXCEPT ![u] = row]
    BY <2>1 DEF Bumped
  <2>. HIDE DEF n
  <2>5. row.tv = n
    BY <2>3 DEF UserRows
  <2>. HIDE DEF row
  <2>6. users'[u].tv = n
    BY <2>3, <2>4, <2>5
  <2>. QED
    BY <2>1, <2>2, <2>6 DEF n
<1>. QED
  BY <1>1, CutSteps

LEMMA RevokedStep == Types /\ Held /\ Noted /\ Revoked /\ [Next]_vars => Revoked'
<1>. SUFFICES ASSUME Types, Held, Noted, Revoked, [Next]_vars PROVE Revoked'
  OBVIOUS
<1>1. /\ Len(toks) \in Nat /\ Len(toks') \in Nat /\ Len(toks) <= Len(toks')
      /\ \A k \in Tokens : k \in Tokens' /\ TokenKept(k)
  BY TokensGrow
<1>2. /\ \A k \in Tokens : /\ toks[k].user \in Users /\ toks[k].root \in Nat
                           /\ toks[k].tv \in Nat
      /\ \A u \in Users : /\ users[u].tv \in Nat /\ users'[u].tv \in Nat
                          /\ cut[u] \in Nat /\ cut'[u] \in Nat
  <2>1. \A k \in Tokens : toks[k] \in Token
    BY DEF Types, Tokens
  <2>. QED
    BY <2>1, UserSteps, CutSteps DEF Types, UserRows, Token
<1>3. raced \subseteq raced'
  BY RacedSteps
<1>4. ASSUME NEW u \in Users PROVE cut'[u] <= Len(toks')
  <2>1. cut[u] <= Len(toks) /\ \A t \in Threads : Revoking(t) => req[t].n <= Len(toks)
    BY DEF Revoked, Revoking
  <2>. QED
    BY <1>1, <1>2, <2>1, CutsKept
<1>5. ASSUME NEW t \in Threads, Revoking(t)' PROVE req'[t].n <= Len(toks')
  <2>1. ReqStep(t)
    BY ReqSteps
  <2>2. Idle.op = "idle"
    BY DEF Idle
  <2>3. \/ req'[t].n = Len(toks) \/ req'[t].n = 0
        \/ req'[t].n = req[t].n /\ Revoking(t)
    BY <1>5, <2>1, <2>2 DEF ReqStep, Begun, Moved, Revoking, Op
  <2>4. Revoking(t) => req[t].n <= Len(toks) /\ req[t].n \in Nat
    BY RequestKinds DEF Revoked, Revoking, Op, RevokeAll, Password
  <2>. QED
    BY <1>1, <2>3, <2>4
<1>6. ASSUME NEW u \in Users, <<"session", u>> \notin raced' PROVE Cuts(u)'
  <2>1. Cuts(u) /\ <<"session", u>> \notin raced /\ cut[u] <= Len(toks)
    BY <1>3, <1>6 DEF Revoked
  <2>2. \A s, t \in Threads : Op(s, "refresh") /\ req[s].u = u /\ Revoking(t) => req[t].u # u
    BY <2>1, SessionsNoted
  <2>3. \A s \in Threads : Op(s, "refresh") /\ req[s].u = u =>
          /\ req[s].k \in Tokens /\ toks[req[s].k].root > cut[u]
    BY <2>1 DEF Cuts, Held
  <2>4. ASSUME NEW k \in Tokens', k \notin Tokens, toks'[k].user = u
        PROVE  /\ \/ toks'[k].root = Len(toks) + 1
                  \/ \E t \in Threads : /\ Op(t, "refresh") /\ req[t].u = u
                                        /\ toks'[k].root = toks[req[t].k].root
               /\ toks' # toks
    <3>1. \A t \in Threads : RefreshIssue(t) => Op(t, "refresh")
      BY DEF RefreshIssue, At, Op
    <3>2. k = Len(toks) + 1 /\ NewToken(toks'[k])
      BY <2>4, TokensGrow
    <3>. QED
      BY <2>4, <3>1, <3>2 DEF NewToken, Tokens
  <2>5. ASSUME NEW k \in Tokens', toks'[k].user = u, toks'[k].root <= cut'[u]
        PROVE  toks'[k].tv < users'[u].tv /\ toks'[k].refresh # "live"
    <3>1. CASE cut'[u] = cut[u] \/ (k \in Tokens /\ toks[k].root <= cut[u])
      <4>1. k \in Tokens
        <5>1. SUFFICES ASSUME k \notin Tokens PROVE FALSE
          OBVIOUS
        <5>. QED
          BY <1>1, <1>2, <2>1, <2>3, <2>4, <2>5, <3>1, <5>1
      <4>2. toks[k].user = u /\ toks[k].root <= cut[u] /\ toks'[k].tv = toks[k].tv
        BY <1>1, <2>5, <3>1, <4>1 DEF TokenKept
      <4>3. toks[k].tv < users[u].tv /\ toks[k].refresh # "live"
        BY <2>1, <4>1, <4>2 DEF Cuts
      <4>4. users[u].tv <= users'[u].tv
        BY <4>1, <4>2, UsersStay DEF Held
      <4>. QED
        BY <1>1, <1>2, <4>1, <4>2, <4>3, <4>4 DEF TokenKept
    <3>2. ASSUME NEW t \in Threads, Revoking(t), req[t].at = "bump", req[t].u = u,
                 req[t].n \in Nat, cut'[u] = IF req[t].n > cut[u] THEN req[t].n ELSE cut[u],
                 toks' = toks, users'[u].tv = users[u].tv + 1
          PROVE  toks'[k].tv < users'[u].tv /\ toks'[k].refresh # "live"
      <4>1. k \in Tokens
        BY <3>2 DEF Tokens
      <4>2. CASE toks[k].root > cut[u]
        <5>1. toks[k].root <= req[t].n
          BY <1>2, <2>5, <3>2, <4>1, <4>2
        <5>2. toks[k].refresh # "live"
          BY <2>1, <2>5, <3>2, <4>1, <5>1 DEF Cuts, Revoking
        <5>3. toks[k].tv <= users[u].tv
          BY <2>5, <3>2, <4>1 DEF Held
        <5>. QED
          BY <1>2, <3>2, <4>1, <5>2, <5>3
      <4>. QED
        BY <1>2, <3>1, <4>1, <4>2
    <3>. QED
      BY <3>1, <3>2, CutsKept
  <2>6. ASSUME NEW t \in Threads, Op(t, "refresh")', req'[t].u = u
        PROVE  toks'[req'[t].k].root > cut'[u]
    <3>1. ReqStep(t) /\ Idle.op = "idle"
      BY ReqSteps DEF Idle
    <3>2. CASE Op(t, "refresh") /\ req'[t].k = req[t].k /\ req[t].u = u
      <4>1. PICK k \in Tokens : k = req[t].k /\ toks[k].root > cut[u]
        BY <2>3, <3>2
      <4>2. cut'[u] = cut[u]
        BY <2>2, <3>2, CutsKept
      <4>. QED
        BY <1>1, <3>2, <4>1, <4>2 DEF TokenKept
    <3>3. ASSUME NEW k \in Tokens, BeginRefresh(t, k), req'[t].u = toks[k].user, req'[t].k = k
          PROVE  toks'[req'[t].k].root > cut'[u]
      <4>1. toks[k].refresh = "live" /\ cut' = cut /\ toks' = toks
        BY <3>3 DEF BeginRefresh
      <4>2. toks[k].user = u
        BY <2>6, <3>3
      <4>3. ~(toks[k].root <= cut[u])
        BY <2>1, <4>1, <4>2 DEF Cuts
      <4>. QED
        BY <1>2, <3>3, <4>1, <4>3
    <3>. QED
      BY <2>6, <3>1, <3>2, <3>3 DEF ReqStep, Begun, Moved, Op
  <2>7. ASSUME NEW t \in Threads, Revoking(t)', req'[t].at = "bump", req'[t].u = u,
               NEW k \in Tokens', toks'[k].user = u, toks'[k].root <= req'[t].n
        PROVE  toks'[k].refresh # "live"
    <3>1. ReqStep(t) /\ Idle.op = "idle"
      BY ReqSteps DEF Idle
    <3>2. CASE req'[t] = req[t]
      <4>1. Revoking(t) /\ req[t].at = "bump" /\ req[t].u = u /\ req[t].n <= Len(toks)
        BY <2>7, <3>2 DEF Revoking, Revoked
      <4>2. req[t].n \in Nat
        BY <4>1, RequestKinds DEF Revoking, Op, RevokeAll, Password
      <4>3. k \in Tokens
        <5>1. SUFFICES ASSUME k \notin Tokens PROVE FALSE
          OBVIOUS
        <5>2. toks'[k].root = Len(toks) + 1
          BY <2>2, <2>4, <2>7, <4>1, <5>1
        <5>. QED
          BY <1>1, <2>7, <3>2, <4>1, <4>2, <5>2
      <4>4. toks[k].user = u /\ toks[k].root <= req[t].n
        BY <1>1, <2>7, <3>2, <4>3 DEF TokenKept
      <4>5. toks[k].refresh # "live"
        BY <2>1, <4>1, <4>3, <4>4 DEF Cuts, Revoking
      <4>. QED
        BY <1>1, <4>3, <4>5 DEF TokenKept
    <3>3. CASE (RevokeAllRefresh(t) \/ PasswordRefresh(t)) /\ req'[t].u = req[t].u
      <4>1. RevokeRefreshTokensForUser(u)
        BY <2>7, <3>3 DEF RevokeAllRefresh, PasswordRefresh
      <4>2. Len(toks') = Len(toks) /\ \A j \in Tokens : toks'[j].user = u => toks'[j].refresh # "live"
        BY <4>1, NoneLive
      <4>. QED
        BY <2>7, <4>2 DEF Tokens
    <3>. QED
      BY <2>7, <3>1, <3>2, <3>3 DEF ReqStep, Begun, Moved, Revoking, Op
  <2>. QED
    BY <2>5, <2>6, <2>7 DEF Cuts, Revoking, Op
<1>. QED
  BY <1>4, <1>5, <1>6 DEF Revoked, Revoking

-----------------------------------------------------------------------------
(* Agents and the tokens minted for them.                                  *)

LEMMA KeptThrough ==
  ASSUME NEW old, NEW mid, NEW new, GrantKept(old, mid), ~Tightened(mid, new)
  PROVE  GrantKept(old, new)
<1>1. ASSUME NEW x, NEW y, NEW z, ListKept(x, y), ~ListTightened(y, z) PROVE ListKept(x, z)
  BY <1>1 DEF ListKept, ListTightened
<1>2. /\ mid.scopes \subseteq new.scopes
      /\ ~ListTightened(mid.drives, new.drives)
      /\ ~ListTightened(mid.read, new.read)
      /\ ~ListTightened(mid.write, new.write)
  BY DEF Tightened, ScopesTightened
<1>3. /\ old.scopes \subseteq mid.scopes /\ ListKept(old.drives, mid.drives)
      /\ ListKept(old.read, mid.read) /\ ListKept(old.write, mid.write)
  BY DEF GrantKept
<1>. QED
  BY <1>1, <1>2, <1>3 DEF GrantKept

LEMMA NotFull == \A g \in NoGrants : g \notin FullGrant
<1>1. \A g \in NoGrants : DOMAIN g = {"status"}
  BY DEF NoGrants
<1>2. \A g \in FullGrant : DOMAIN g = GrantFields
  BY DEF FullGrant
<1>3. {"status"} # GrantFields
  <2>1. "scopes" \in GrantFields /\ "scopes" \notin {"status"}
    BY DEF GrantFields
  <2>. QED
    BY <2>1
<1>. QED
  BY <1>1, <1>2, <1>3

(* The row an update writes is that of an agent that is live.              *)
LEMMA UpdatedRow ==
  ASSUME Types, Granted, [Next]_vars, NEW t \in Threads, Op(t, "update"),
         NEW a \in Agents, req[t].a = a,
         agents'[a].grant = Patched(req[t].row.grant, req[t].patch)
  PROVE  /\ agents'[a].grant \in FullGrant
         /\ Status(a)' \in {"active", "disabled"}
<1>1. /\ req[t].row.grant \in FullGrant /\ req[t].patch \in Patches
      /\ req[t].row.grant.status \in {"active", "disabled"}
  BY RequestKinds DEF Granted, Update
<1>2. PICK g \in FullGrant, p \in Patches : g = req[t].row.grant /\ p = req[t].patch
  BY <1>1
<1>3. /\ Patched(g, p) \in FullGrant
      /\ Patched(g, p).status = IF "status" \in DOMAIN p THEN p.status ELSE g.status
  BY PatchedGrant
<1>4. "status" \in DOMAIN p => p.status \in {"active", "disabled"}
  BY AgentsAssumption
<1>. QED
  BY <1>1, <1>2, <1>3, <1>4 DEF Status

(* What was handed out for a stays within a, or void.                      *)
LEMMA WithinKept ==
  ASSUME Types, Granted, [Next]_vars, NEW a \in Agents, NEW atv \in Nat, NEW grant,
         Within(a, atv, grant)
  PROVE  Within(a, atv, grant)'
<1>1. RowStep(a) /\ raced \subseteq raced'
  BY RowSteps, RacedSteps
<1>2. agents[a].atv \in Nat
  BY DEF Types, AgentRows
<1>3. CASE agents'[a] = agents[a]
  BY <1>1, <1>3 DEF Within, Status
<1>4. agents[a] # NoAgent
  BY DEF Within, Status, NoAgent
<1>5. CASE agents'[a].grant = [status |-> "deleted"]
  BY <1>5 DEF Within, Status
<1>6. ASSUME NEW t \in Threads, Op(t, "update"), req[t].a = a, Live(a),
             agents'[a].grant = Patched(req[t].row.grant, req[t].patch),
             agents'[a].atv = IF Tightened(req[t].row.grant, agents'[a].grant)
                                THEN req[t].row.atv + 1 ELSE req[t].row.atv
      PROVE  Within(a, atv, grant)'
  <2>1. Status(a)' \in {"active", "disabled"}
    BY <1>6, UpdatedRow
  <2>2. ASSUME <<"agent", a>> \notin raced'
        PROVE  \/ atv < agents'[a].atv
               \/ /\ atv = agents'[a].atv /\ Status(a)' = "active"
                  /\ GrantKept(grant, agents'[a].grant)
    <3>1. <<"agent", a>> \notin raced /\ Status(a) # "deleted"
      BY <1>1, <1>6, <2>2 DEF Live, Status
    <3>2. agents[a] = req[t].row
      BY <1>6, <3>1 DEF Granted
    <3>3. \/ atv < agents[a].atv
          \/ /\ atv = agents[a].atv /\ Status(a) = "active"
             /\ GrantKept(grant, agents[a].grant)
      BY <3>1 DEF Within
    <3>4. CASE Tightened(agents[a].grant, agents'[a].grant)
      BY <1>2, <1>6, <3>2, <3>3, <3>4
    <3>5. CASE ~Tightened(agents[a].grant, agents'[a].grant)
      <4>1. agents'[a].atv = agents[a].atv
        BY <1>6, <3>2, <3>5
      <4>2. Status(a) = "active" => Status(a)' = "active"
        BY <2>1, <3>5 DEF Tightened, Status
      <4>3. GrantKept(grant, agents[a].grant) => GrantKept(grant, agents'[a].grant)
        BY <3>5, KeptThrough
      <4>. QED
        BY <3>3, <4>1, <4>2, <4>3
    <3>. QED
      BY <3>4, <3>5
  <2>. QED
    BY <2>1, <2>2 DEF Within
<1>. QED
  BY <1>1, <1>3, <1>4, <1>5, <1>6 DEF RowStep

LEMMA GrantedStep == Types /\ Held /\ Noted /\ Granted /\ [Next]_vars => Granted'
<1>. SUFFICES ASSUME Types, Held, Noted, Granted, [Next]_vars PROVE Granted'
  OBVIOUS
<1>1. raced \subseteq raced' /\ \A a \in Agents : RowStep(a)
  BY RowSteps, RacedSteps
<1>2. ASSUME NEW a \in Agents
      PROVE  /\ Live(a)' <=> agents'[a].grant \in FullGrant
             /\ Live(a)' \/ Status(a)' \in {"none", "deleted"}
  <2>1. CASE agents'[a] = agents[a]
    BY <2>1 DEF Granted, Live, Status
  <2>2. CASE agents'[a].grant \in FullGrant /\ Status(a)' \in {"active", "disabled"}
    BY <2>2 DEF Live, Status
  <2>3. CASE agents'[a].grant = [status |-> "deleted"]
    BY <2>3, NotFull DEF Live, Status, NoGrants
  <2>4. agents'[a].grant.status = "active" => Status(a)' \in {"active", "disabled"}
    BY DEF Status
  <2>5. ASSUME NEW t \in Threads, Op(t, "update"), req[t].a = a,
               agents'[a].grant = Patched(req[t].row.grant, req[t].patch)
        PROVE  agents'[a].grant \in FullGrant /\ Status(a)' \in {"active", "disabled"}
    BY <2>5, UpdatedRow
  <2>. QED
    BY <1>1, <2>1, <2>2, <2>3, <2>4, <2>5 DEF RowStep
<1>3. /\ \A k \in Tokens : /\ toks[k].agent \in Agents \cup {"none"}
                           /\ toks[k].atv \in Nat
                           /\ toks[k].grant \in FullGrant \cup NoGrants
      /\ \A t \in Threads : Op(t, "mint") =>
           /\ req[t].a \in Agents /\ req[t].row.atv \in Nat
           /\ req[t].row.grant \in FullGrant \cup NoGrants
      /\ \A t \in Threads : Op(t, "update") => req[t].a \in Agents
  <2>1. \A k \in Tokens : toks[k] \in Token
    BY DEF Types, Tokens
  <2>. QED
    BY <2>1, RequestKinds DEF Token, Mint, Update, AgentRows
<1>4. ASSUME NEW k \in Tokens', toks'[k].agent # "none"
      PROVE  Within(toks[k].agent, toks[k].atv, toks[k].grant)'
  <2>1. PICK a \in Agents, atv \in Nat, grant \in FullGrant \cup NoGrants :
          /\ toks'[k].agent = a /\ toks'[k].atv = atv /\ toks'[k].grant = grant
          /\ Within(a, atv, grant)
    <3>1. CASE k \in Tokens
      <4>1. /\ toks'[k].agent = toks[k].agent /\ toks'[k].atv = toks[k].atv
            /\ toks'[k].grant = toks[k].grant
        BY <3>1, TokensGrow DEF TokenKept
      <4>2. Within(toks[k].agent, toks[k].atv, toks[k].grant)
        BY <1>4, <3>1, <4>1 DEF Granted
      <4>. QED
        BY <1>3, <1>4, <3>1, <4>1, <4>2
    <3>2. CASE k \notin Tokens
      <4>1. PICK t \in Threads :
              /\ MintIssue(t) /\ toks'[k].agent = req[t].a
              /\ toks'[k].atv = req[t].row.atv /\ toks'[k].grant = req[t].row.grant
        BY <1>4, <3>2, TokensGrow DEF NewToken
      <4>2. Op(t, "mint")
        BY <4>1 DEF MintIssue, At, Op
      <4>. QED
        BY <1>3, <4>1, <4>2 DEF Granted
    <3>. QED
      BY <3>1, <3>2
  <2>2. Within(a, atv, grant)'
    BY <2>1, WithinKept
  <2>. QED
    BY <2>1, <2>2 DEF Within, Status
<1>7. ASSUME NEW k \in Tokens', toks'[k].agent # "none"
      PROVE  toks'[k].scopes \subseteq toks'[k].grant.scopes \cup toks'[k].asked
  <2>1. CASE k \in Tokens
    BY <1>7, <2>1, TokensGrow DEF TokenKept, Granted
  <2>2. CASE k \notin Tokens
    BY <1>7, <2>2, TokensGrow DEF NewToken
  <2>. QED
    BY <2>1, <2>2
<1>5. ASSUME NEW t \in Threads, Op(t, "mint")'
      PROVE  Within(req[t].a, req[t].row.atv, req[t].row.grant)'
  <2>1. ReqStep(t) /\ Idle.op = "idle"
    BY ReqSteps DEF Idle
  <2>2. CASE req'[t] = req[t]
    <3>1. PICK a \in Agents, atv \in Nat, grant \in FullGrant \cup NoGrants :
            /\ a = req[t].a /\ atv = req[t].row.atv /\ grant = req[t].row.grant
            /\ Within(a, atv, grant)
      BY <1>3, <1>5, <2>2 DEF Granted, Op
    <3>2. Within(a, atv, grant)'
      BY <3>1, WithinKept
    <3>. QED
      BY <2>2, <3>1, <3>2 DEF Within, Status
  <2>3. ASSUME NEW k \in Tokens, NEW a \in Agents, NEW asked \in Asks,
               BeginMint(t, k, a, asked), req'[t].a = a, req'[t].row = agents[a]
        PROVE  Within(req[t].a, req[t].row.atv, req[t].row.grant)'
    <3>1. agents' = agents /\ agents[a].grant.status = "active"
      BY <2>3 DEF BeginMint
    <3>2. \A x : ListKept(x, x)
      BY DEF ListKept
    <3>3. \A g : GrantKept(g, g)
      BY <3>2 DEF GrantKept
    <3>. QED
      BY <2>3, <3>1, <3>3 DEF Within, Status
  <2>. QED
    BY <1>5, <2>1, <2>2, <2>3 DEF ReqStep, Begun, Moved, Op
<1>6. ASSUME NEW t \in Threads, Op(t, "update")'
      PROVE  /\ req'[t].row.grant \in FullGrant
             /\ req'[t].row.grant.status \in {"active", "disabled"}
             /\ Status(req[t].a)' # "none"
             /\ <<"agent", req'[t].a>> \notin raced' =>
                  agents'[req'[t].a] = req'[t].row \/ Status(req[t].a)' = "deleted"
  <2>1. ReqStep(t) /\ Idle.op = "idle"
    BY ReqSteps DEF Idle
  <2>2. CASE req'[t] = req[t]
    <3>1. Op(t, "update")
      BY <1>6, <2>2 DEF Op
    <3>2. PICK a \in Agents : a = req[t].a
      BY <1>3, <3>1
    <3>3. /\ req[t].row.grant \in FullGrant
          /\ req[t].row.grant.status \in {"active", "disabled"}
          /\ Status(a) # "none"
          /\ <<"agent", a>> \notin raced => agents[a] = req[t].row \/ Status(a) = "deleted"
      BY <3>1, <3>2 DEF Granted
    <3>4. RowStep(a)
      BY <1>1
    <3>5. CASE agents'[a] = agents[a]
      BY <1>1, <2>2, <3>2, <3>3, <3>5 DEF Status
    <3>6. agents[a] # NoAgent
      BY <3>3 DEF Status, NoAgent
    <3>7. CASE agents'[a].grant = [status |-> "deleted"]
      BY <2>2, <3>2, <3>3, <3>7 DEF Status
    <3>8. ASSUME NEW s \in Threads, UpdateWrite(s), Op(s, "update"), req[s].a = a,
                 agents'[a].grant = Patched(req[s].row.grant, req[s].patch)
          PROVE  Status(a)' # "none" /\ <<"agent", a>> \in raced'
      <4>1. Status(a)' # "none"
        BY <3>8, UpdatedRow
      <4>2. s # t
        BY <1>6, <2>1, <2>2, <3>8 DEF UpdateWrite, Done, Types, Op
      <4>3. Subject(req[s]) = <<"agent", a>> /\ Subject(req[t]) = <<"agent", a>>
        BY <3>1, <3>2, <3>8, Subjects DEF Op
      <4>4. Subjected(s) /\ Subjected(t) /\ {req[s].op, req[t].op} # {"refresh"}
        BY <3>1, <3>8 DEF Op, Subjected
      <4>5. <<"agent", a>> \in raced
        BY <4>2, <4>3, <4>4 DEF Noted
      <4>. QED
        BY <1>1, <4>1, <4>5
    <3>. QED
      BY <2>2, <3>2, <3>3, <3>4, <3>5, <3>6, <3>7, <3>8 DEF RowStep, Status
  <2>3. ASSUME NEW k \in Tokens, NEW a \in Agents, NEW p \in Patches, BeginUpdate(t, k, a, p),
               req'[t].a = a, req'[t].row = agents[a]
        PROVE  /\ req'[t].row.grant \in FullGrant
               /\ req'[t].row.grant.status \in {"active", "disabled"}
               /\ Status(req[t].a)' # "none"
               /\ agents'[req'[t].a] = req'[t].row
    <3>1. agents' = agents /\ Live(a)
      BY <2>3 DEF BeginUpdate
    <3>. QED
      BY <2>3, <3>1 DEF Granted, Live, Status
  <2>. QED
    BY <1>6, <2>1, <2>2, <2>3 DEF ReqStep, Begun, Moved, Op
<1>. QED
  BY <1>2, <1>4, <1>5, <1>6, <1>7 DEF Granted

(* A token that is refused stays refused.                                  *)
LEMMA RefusedStays ==
  ASSUME Types, Held, Granted, [Next]_vars, NEW k \in Tokens, ~Accepted(k),
         <<"agent", toks[k].agent>> \notin raced'
  PROVE  ~Accepted(k)'
<1>1. TokenKept(k)
  BY TokensGrow
<1>2. toks[k] \in Token
  BY DEF Types, Tokens
<1>3. PICK u \in Users : u = toks[k].user /\ Exists(u) /\ toks[k].tv <= users[u].tv
  BY <1>2 DEF Held, Token
<1>4. /\ toks[k].tv \in Nat /\ users[u].tv \in Nat /\ users'[u].tv \in Nat
      /\ users[u].tv <= users'[u].tv
  BY <1>2, <1>3, UsersStay, UserSteps DEF Types, Token, UserRows
<1>5. CASE toks[k].denied
  BY <1>1, <1>5 DEF TokenKept, Accepted
<1>6. CASE toks[k].tv # users[u].tv
  <2>1. toks[k].tv # users'[u].tv
    BY <1>3, <1>4, <1>6
  <2>. QED
    BY <1>1, <1>3, <2>1 DEF TokenKept, Accepted
<1>7. ASSUME NEW a \in Agents, a = toks[k].agent, a # "none",
             ~(Status(a) = "active" /\ toks[k].atv = agents[a].atv)
      PROVE  ~Accepted(k)'
  <2>1. <<"agent", a>> \notin raced /\ RowStep(a)
    BY <1>7, RacedSteps, RowSteps
  <2>2. Within(a, toks[k].atv, toks[k].grant)
    BY <1>7 DEF Granted
  <2>3. toks[k].atv \in Nat /\ agents[a].atv \in Nat
    BY <1>2 DEF Types, Token, AgentRows
  <2>4. agents[a] # NoAgent
    BY <2>2 DEF Within, Status, NoAgent
  <2>5. SUFFICES Status(a)' = "deleted" \/ toks[k].atv < agents'[a].atv
    BY <1>1, <1>7, <2>3 DEF TokenKept, Accepted, Status
  <2>6. Status(a) = "deleted" \/ toks[k].atv < agents[a].atv
    BY <1>7, <2>1, <2>2 DEF Within
  <2>7. CASE agents'[a] = agents[a]
    BY <2>6, <2>7 DEF Status
  <2>8. CASE agents'[a].grant = [status |-> "deleted"]
    BY <2>8 DEF Status
  <2>9. ASSUME NEW t \in Threads, Op(t, "update"), req[t].a = a, Live(a),
               agents'[a].atv = IF Tightened(req[t].row.grant, agents'[a].grant)
                                  THEN req[t].row.atv + 1 ELSE req[t].row.atv
        PROVE  toks[k].atv < agents'[a].atv
    <3>1. Status(a) # "deleted"
      BY <2>9 DEF Live, Status
    <3>2. agents[a] = req[t].row
      BY <2>1, <2>9, <3>1 DEF Granted
    <3>. QED
      BY <2>3, <2>6, <2>9, <3>1, <3>2
  <2>. QED
    BY <2>1, <2>4, <2>7, <2>8, <2>9 DEF RowStep
<1>8. toks[k].agent \in Agents \cup {"none"}
  BY <1>2 DEF Token
<1>. QED
  BY <1>3, <1>5, <1>6, <1>7, <1>8 DEF Accepted, Status

-----------------------------------------------------------------------------
(* Admins.                                                                 *)

LEMMA KnownStay ==
  ASSUME Types, [Next]_vars
  PROVE  Known \subseteq Known'
  BY UsersStay DEF Known, Exists

(* Someone new is registered, or created by someone who is there.          *)
LEMMA Newcomer ==
  ASSUME Types, Held, Ruled, [Next]_vars, NEW u \in Users, ~Exists(u), Exists(u)', Known = {}
  PROVE  \E t \in Threads : /\ RegisterCreate(t) /\ Op(t, "register")
                            /\ req[t].at = "create" /\ users'[u].role = "admin"
<1>1. UserStep(u)
  BY UserSteps
<1>2. ASSUME NEW t \in Threads, SetRoleWrite(t), req[t].u = u PROVE FALSE
  BY <1>2 DEF SetRoleWrite, At, Held, Op
<1>3. PICK t \in Threads : /\ RegisterCreate(t) \/ CreateUserCreate(t)
                           /\ users'[u].role = req[t].role
  BY <1>1, <1>2 DEF UserStep, Exists
<1>4. ~CreateUserCreate(t)
  BY DEF CreateUserCreate, At, Op, Ruled
<1>5. Op(t, "register") /\ req[t].at = "create"
  BY <1>3, <1>4 DEF RegisterCreate, At, Op
<1>6. req[t].role \in Roles /\ req[t].role # "user"
  BY <1>5, RequestKinds DEF Ruled, Register
<1>. QED
  BY <1>3, <1>4, <1>5, <1>6 DEF Roles

LEMMA OneRoleChange ==
  ASSUME Noted, NEW s \in Threads, NEW t \in Threads, Op(s, "setrole"), Op(t, "setrole"), s # t
  PROVE  <<"role", "all">> \in raced
<1>1. Subjected(s) /\ Subjected(t) /\ {req[s].op, req[t].op} # {"refresh"}
  BY DEF Op, Subjected
<1>2. Subject(req[s]) = <<"role", "all">> /\ Subject(req[t]) = <<"role", "all">>
  BY Subjects DEF Op
<1>. QED
  BY <1>1, <1>2 DEF Noted

(* The role of a user that is there changes by SetRoleWrite alone.         *)
LEMMA RoleKept ==
  ASSUME Types, [Next]_vars, NEW u \in Users, Exists(u), users'[u].role # users[u].role
  PROVE  \E t \in Threads :
           /\ SetRoleWrite(t) /\ Op(t, "setrole") /\ req[t].at = "write" /\ req[t].u = u
           /\ users'[u].role = req[t].role /\ req[t].role \in Roles
           /\ req'[t] = Idle
           /\ \A v \in Users : v # u => users'[v] = users[v]
<1>1. UserStep(u)
  BY UserSteps
<1>2. PICK t \in Threads : SetRoleWrite(t) /\ req[t].u = u /\ users'[u].role = req[t].role
  BY <1>1 DEF UserStep
<1>3. Op(t, "setrole") /\ req[t].at = "write" /\ req'[t] = Idle
  BY <1>2 DEF SetRoleWrite, At, Op, Done, Types
<1>4. req[t].role \in Roles
  BY <1>3, RequestKinds DEF SetRole
<1>5. \A v \in Users : v # u => users'[v] = users[v]
  BY <1>2 DEF SetRoleWrite, Types
<1>. QED
  BY <1>2, <1>3, <1>4, <1>5

LEMMA RuledStep == Types /\ Held /\ Noted /\ Ruled /\ [Next]_vars => Ruled'
<1>. SUFFICES ASSUME Types, Held, Noted, Ruled, [Next]_vars PROVE Ruled'
  OBVIOUS
<1>1. raced \subseteq raced' /\ Known \subseteq Known'
  BY RacedSteps, KnownStay
<1>2. \A t \in Threads : ReqStep(t) /\ Idle.op = "idle"
  BY ReqSteps DEF Idle
<1>3. ASSUME NEW t \in Threads, Op(t, "createuser")' PROVE Known' # {}
  <2>1. ASSUME NEW k \in Tokens PROVE Known # {}
    <3>1. toks[k].user \in Users /\ Exists(toks[k].user)
      <4>1. toks[k] \in Token
        BY DEF Types, Tokens
      <4>. QED
        BY <4>1 DEF Token, Held
    <3>. QED
      BY <3>1 DEF Known
  <2>2. Op(t, "createuser") => Known # {}
    BY DEF Ruled
  <2>3. Op(t, "createuser") \/ \E k \in Tokens : TRUE
    BY <1>2, <1>3 DEF ReqStep, Begun, Moved, Op
  <2>. QED
    BY <1>1, <2>1, <2>2, <2>3
<1>4. ASSUME NEW t \in Threads, Op(t, "register")', req'[t].at = "create",
             req'[t].role = "user"
      PROVE  Known' # {}
  <2>1. req'[t] = req[t] \/ FirstRole = "user"
    BY <1>2, <1>4 DEF ReqStep, Begun, Moved, Op
  <2>2. FirstRole = "user" => Known # {}
    BY DEF FirstRole
  <2>3. req'[t] = req[t] => Known # {}
    BY <1>4 DEF Ruled, Op
  <2>. QED
    BY <1>1, <2>1, <2>2, <2>3
<1>5. ASSUME <<"role", "all">> \notin raced', Known' # {} PROVE Admins' # {}
  <2>1. <<"role", "all">> \notin raced
    BY <1>1, <1>5
  <2>2. CASE Known = {}
    <3>1. PICK u \in Users : Exists(u)' /\ ~Exists(u)
      BY <1>5, <2>2 DEF Known, Exists
    <3>2. users'[u].role = "admin"
      BY <2>2, <3>1, Newcomer
    <3>. QED
      BY <3>2 DEF Admins
  <2>3. CASE Known # {}
    <3>1. PICK v \in Users : users[v].role = "admin"
      BY <2>1, <2>3 DEF Ruled, Admins
    <3>2. CASE users'[v].role # users[v].role
      <4>1. Exists(v)
        BY <3>1 DEF Exists
      <4>2. PICK t \in Threads :
              /\ Op(t, "setrole") /\ req[t].at = "write" /\ req[t].u = v
              /\ users'[v].role = req[t].role /\ req[t].role \in Roles
              /\ \A w \in Users : w # v => users'[w] = users[w]
        BY <3>2, <4>1, RoleKept
      <4>3. req[t].role = "user"
        BY <3>1, <3>2, <4>2 DEF Roles
      <4>4. Admins \ {v} # {}
        BY <2>1, <3>1, <4>2, <4>3 DEF Ruled
      <4>. QED
        BY <4>2, <4>4 DEF Admins
    <3>. QED
      BY <3>1, <3>2 DEF Admins
  <2>. QED
    BY <2>2, <2>3
<1>6. ASSUME <<"role", "all">> \notin raced', NEW t \in Threads, Op(t, "setrole")',
             req'[t].at = "write", req'[t].role = "user"
      PROVE  users'[req'[t].u].role # "admin" \/ Admins' \ {req'[t].u} # {}
  <2>1. <<"role", "all">> \notin raced
    BY <1>1, <1>6
  <2>2. ASSUME NEW k \in Tokens, NEW u \in Users, NEW role \in Roles,
               BeginSetRole(t, k, u, role), req'[t].u = u, req'[t].role = role,
               req'[t].at = IF users[u].role = "admin" /\ role = "user" THEN "count" ELSE "write"
        PROVE  users'[req'[t].u].role # "admin"
    BY <1>6, <2>2 DEF BeginSetRole
  <2>3. ASSUME SetRoleCount(t), ~LastAdmin PROVE Admins' \ {req'[t].u} # {}
    <3>1. users' = users
      BY <2>3 DEF SetRoleCount
    <3>2. Admins' = Admins
      BY <3>1 DEF Admins
    <3>3. ASSUME NEW x, Admins \subseteq {x} PROVE FALSE
      <4>1. Admins = {} \/ Admins = {x}
        BY <3>3
      <4>2. Cardinality({}) = 0 /\ Cardinality({x}) = 1
        BY FS_EmptySet, FS_Singleton
      <4>3. Cardinality(Admins) = 0 \/ Cardinality(Admins) = 1
        BY <4>1, <4>2
      <4>. QED
        BY <2>3, <4>3 DEF LastAdmin
    <3>. QED
      BY <3>2, <3>3
  <2>4. CASE req'[t] = req[t]
    <3>1. Op(t, "setrole") /\ req[t].at = "write" /\ req[t].role = "user"
      BY <1>6, <2>4 DEF Op
    <3>2. PICK u \in Users : u = req[t].u /\ Exists(u)
      BY <3>1, RequestKinds DEF SetRole, Held, Op
    <3>3. ASSUME NEW v \in Users, Exists(v) PROVE users'[v].role = users[v].role
      <4>1. SUFFICES ASSUME users'[v].role # users[v].role PROVE FALSE
        OBVIOUS
      <4>2. PICK s \in Threads : Op(s, "setrole") /\ req'[s] = Idle
        BY <3>3, <4>1, RoleKept
      <4>3. s # t
        BY <1>2, <1>6, <4>2 DEF Op
      <4>. QED
        BY <2>1, <3>1, <4>2, <4>3, OneRoleChange
    <3>4. users[u].role # "admin" \/ Admins \ {u} # {}
      BY <2>1, <3>1, <3>2 DEF Ruled
    <3>5. CASE users[u].role # "admin"
      BY <2>4, <3>2, <3>3, <3>5
    <3>6. CASE Admins \ {u} # {}
      BY <2>4, <3>2, <3>3, <3>6 DEF Admins, Exists
    <3>. QED
      BY <3>4, <3>5, <3>6
  <2>. QED
    BY <1>2, <1>6, <2>2, <2>3, <2>4 DEF ReqStep, Begun, Moved, Op
<1>. QED
  BY <1>3, <1>4, <1>5, <1>6 DEF Ruled

LEMMA FoundedStep == Types /\ Held /\ Noted /\ Ruled /\ Founded /\ [Next]_vars => Founded'
<1>. SUFFICES ASSUME Types, Held, Noted, Ruled, Founded, [Next]_vars PROVE Founded'
  OBVIOUS
<1>1. raced \subseteq raced' /\ Known \subseteq Known'
  BY RacedSteps, KnownStay
<1>2. \/ UNCHANGED founders
      \/ \E t \in Threads, u \in Users :
           /\ Op(t, "register") /\ req[t].at = "create" /\ req[t].role = "admin"
           /\ founders' = founders \cup {u} /\ Exists(u)'
  <2>1. ASSUME NEW t \in Threads, RegisterCreate(t), founders' # founders
        PROVE  \E u \in Users :
                 /\ Op(t, "register") /\ req[t].at = "create" /\ req[t].role = "admin"
                 /\ founders' = founders \cup {u} /\ Exists(u)'
    <3>1. Op(t, "register") /\ req[t].at = "create"
      BY <2>1 DEF RegisterCreate, At, Op
    <3>2. PICK u \in Users : u = req[t].u
      BY <3>1, RequestKinds DEF Register
    <3>3. /\ req[t].role = "admin" /\ founders' = founders \cup {u}
          /\ users' = [users EXCEPT ![u] = UserRow(req[t].role, "old")]
      BY <2>1, <3>2 DEF RegisterCreate
    <3>4. users'[u] = UserRow(req[t].role, "old")
      BY <3>3 DEF Types
    <3>5. users'[u].role = "admin"
      BY <3>3, <3>4 DEF UserRow
    <3>. QED
      BY <3>1, <3>3, <3>5 DEF Exists
  <2>. QED
    BY <2>1, FounderChanges
<1>3. founders' \subseteq Known'
  BY <1>1, <1>2 DEF Founded, Known
<1>4. ASSUME <<"register", "all">> \notin raced'
      PROVE  founders' = {} \/ \E u \in Users : founders' = {u}
  <2>1. <<"register", "all">> \notin raced
    BY <1>1, <1>4
  <2>. QED
    BY <1>2, <2>1 DEF Founded
<1>5. ASSUME <<"register", "all">> \notin raced', NEW t \in Threads, Op(t, "register")',
             req'[t].at = "create", req'[t].role = "admin"
      PROVE  Known' = {}
  <2>1. <<"register", "all">> \notin raced
    BY <1>1, <1>5
  <2>2. ReqStep(t) /\ Idle.op = "idle"
    BY ReqSteps DEF Idle
  <2>3. CASE RegisterCount(t) /\ FirstRole = "admin"
    BY <2>3 DEF RegisterCount, FirstRole, Known, Exists
  <2>4. CASE req'[t] = req[t]
    <3>1. Op(t, "register") /\ Known = {}
      BY <1>5, <2>1, <2>4 DEF Founded, Op
    <3>2. ASSUME NEW u \in Users, Exists(u)' PROVE FALSE
      <4>1. ~Exists(u)
        BY <3>1 DEF Known
      <4>2. PICK s \in Threads : RegisterCreate(s) /\ Op(s, "register")
        BY <3>1, <3>2, <4>1, Newcomer
      <4>3. req'[s] = Idle
        BY <4>2 DEF RegisterCreate, Done, Types
      <4>4. s # t
        BY <1>5, <2>2, <4>3 DEF Op
      <4>5. Subject(req[s]) = <<"register", "all">> /\ Subject(req[t]) = <<"register", "all">>
        BY <3>1, <4>2, Subjects DEF Op
      <4>6. Subjected(s) /\ Subjected(t) /\ {req[s].op, req[t].op} # {"refresh"}
        BY <3>1, <4>2 DEF Op, Subjected
      <4>. QED
        BY <2>1, <4>4, <4>5, <4>6 DEF Noted
    <3>. QED
      BY <3>2 DEF Known
  <2>. QED
    BY <1>5, <2>2, <2>3, <2>4 DEF ReqStep, Begun, Moved, Op
<1>. QED
  BY <1>3, <1>4, <1>5 DEF Founded

-----------------------------------------------------------------------------
(* The lock of a name.                                                     *)

LEMMA TryingSets ==
  ASSUME NEW u
  PROVE  IsFiniteSet(Trying(u)) /\ Cardinality(Trying(u)) \in Nat
         /\ Cardinality(Trying(u)) <= Cardinality(Threads) /\ Cardinality(Threads) \in Nat
<1>1. Trying(u) \subseteq Threads /\ IsFiniteSet(Threads)
  BY MaxFailAssumption DEF Trying
<1>. QED
  BY <1>1, FS_Subset, FS_CardinalityType

(* Only BeginLogin makes a request one that tries a password.              *)
LEMMA TryingSteps ==
  ASSUME Types, [Next]_vars, NEW u \in Users, NEW t \in Threads, t \in Trying(u)'
  PROVE  t \in Trying(u) \/ \E pw \in Passwords : BeginLogin(t, u, pw)
<1>1. ReqStep(t) /\ Idle.op = "idle"
  BY ReqSteps DEF Idle
<1>2. req'[t].op = "login" /\ req'[t].u = u /\ req'[t].at \in {"read", "fail"}
  BY DEF Trying, Op
<1>3. CASE req'[t] = req[t]
  BY <1>2, <1>3 DEF Trying, Op
<1>4. CASE req'[t].op = req[t].op /\ req'[t].u = req[t].u /\ Moved(t)
  BY <1>2, <1>4 DEF Moved, Trying, Op
<1>5. CASE Begun(t)
  BY <1>2, <1>5 DEF Begun
<1>. QED
  BY <1>1, <1>2, <1>3, <1>4, <1>5 DEF ReqStep

LEMMA BoundedStep == Types /\ Bounded /\ [Next]_vars => Bounded'
<1>. SUFFICES ASSUME Types, Bounded, [Next]_vars, NEW u \in Users
              PROVE  fails'[u].count + Cardinality(Trying(u)')
                       <= MaxFail - 1 + Cardinality(Threads)
  BY DEF Bounded
<1>. DEFINE old == Cardinality(Trying(u))
            new == Cardinality(Trying(u)')
            all == Cardinality(Threads)
<1>1. old \in Nat /\ all \in Nat /\ IsFiniteSet(Trying(u))
  BY TryingSets
<1>2. /\ fails[u].count \in Nat /\ fails[u].count + old <= MaxFail - 1 + all
      /\ MaxFail \in Nat
  BY MaxFailAssumption DEF Bounded, Types
<1>3. ASSUME NEW S, Trying(u)' \subseteq S, IsFiniteSet(S)
      PROVE  new \in Nat /\ new <= Cardinality(S)
  BY <1>3, FS_Subset, FS_CardinalityType
<1>4. Trying(u)' \subseteq Threads /\ IsFiniteSet(Threads)
  BY MaxFailAssumption DEF Trying
<1>5. new \in Nat /\ new <= all
  BY <1>3, <1>4
<1>. HIDE DEF old, new, all
<1>6. CASE \E t \in Threads, pw \in Passwords : BeginLogin(t, u, pw)
  <2>1. ~Locked(u) /\ fails' = [fails EXCEPT ![u] = Kept(u)]
    BY <1>6 DEF BeginLogin
  <2>2. fails'[u] = Kept(u)
    BY <2>1 DEF Types
  <2>3. Kept(u).count = 0 \/ (Kept(u).count = fails[u].count /\ ~(fails[u].count >= MaxFail))
    BY <2>1 DEF Kept, Locked
  <2>4. MaxFail >= 1
    BY MaxFailAssumption
  <2>. QED
    BY <1>1, <1>2, <1>5, <2>2, <2>3, <2>4 DEF new, all
<1>7. CASE \A t \in Threads, pw \in Passwords : ~BeginLogin(t, u, pw)
  <2>1. Trying(u)' \subseteq Trying(u)
    BY <1>4, <1>7, TryingSteps
  <2>2. new <= old
    BY <1>1, <1>3, <2>1 DEF old
  <2>3. CASE fails'[u].count = fails[u].count \/ fails'[u].count = 0
    BY <1>1, <1>2, <1>5, <2>2, <2>3 DEF new, all
  <2>4. ASSUME NEW v \in Users, WindowPasses(v) PROVE fails'[u].count = fails[u].count
    BY <2>4 DEF WindowPasses, Types
  <2>5. ASSUME NEW t \in Threads, NEW v \in Users, NEW pw \in Passwords, BeginLogin(t, v, pw)
        PROVE  fails'[u].count = fails[u].count
    BY <1>7, <2>5 DEF BeginLogin, Types
  <2>6. ASSUME NEW t \in Threads, LoginClear(t)
        PROVE  fails'[u].count = fails[u].count \/ fails'[u].count = 0
    <3>1. req[t].u \in Users
      BY <2>6, RequestKinds DEF LoginClear, At, Op, Login
    <3>. QED
      BY <2>6, <3>1 DEF LoginClear, Clear, Types
  <2>7. ASSUME NEW t \in Threads, LoginFail(t)
        PROVE  fails'[u].count + new <= MaxFail - 1 + all
    <3>1. Op(t, "login") /\ req[t].at = "fail" /\ fails' = Fail(req[t].u) /\ req'[t] = Idle
      BY <2>7 DEF LoginFail, At, Op, Done, Types
    <3>2. PICK v \in Users : v = req[t].u
      BY <3>1, RequestKinds DEF Login
    <3>3. CASE v # u
      BY <2>3, <3>1, <3>2, <3>3 DEF Fail, Types, new, all
    <3>4. CASE v = u
      <4>. DEFINE row == [Kept(u) EXCEPT !.count = @ + 1]
      <4>1. fails' = [fails EXCEPT ![u] = row]
        BY <3>1, <3>2, <3>4 DEF Fail
      <4>2. Kept(u) \in [count : Nat, over : BOOLEAN] /\ Kept(u).count <= fails[u].count
        BY DEF Kept, Types
      <4>3. row.count = Kept(u).count + 1
        BY <4>2
      <4>. HIDE DEF row
      <4>4. fails'[u].count = Kept(u).count + 1
        BY <4>1, <4>3 DEF Types
      <4>5. t \in Trying(u) /\ t \notin Trying(u)'
        <5>1. Idle.op = "idle"
          BY DEF Idle
        <5>2. t \in Trying(u)
          BY <3>1, <3>2, <3>4 DEF Trying
        <5>3. req'[t].op # "login"
          BY <3>1, <5>1
        <5>. QED
          BY <5>2, <5>3 DEF Trying, Op
      <4>6. Trying(u)' \subseteq Trying(u) \ {t}
        BY <2>1, <4>5
      <4>7. IsFiniteSet(Trying(u) \ {t}) /\ Cardinality(Trying(u) \ {t}) = old - 1
        BY <1>1, <4>5, FS_RemoveElement DEF old
      <4>8. new <= old - 1
        BY <1>3, <4>6, <4>7
      <4>. QED
        BY <1>1, <1>2, <1>5, <4>2, <4>4, <4>8
    <3>. QED
      BY <3>3, <3>4
  <2>. QED
    BY <2>3, <2>4, <2>5, <2>6, <2>7, FailChanges DEF new, all
<1>. QED
  BY <1>6, <1>7

-----------------------------------------------------------------------------
(* The inductive invariant.                                                *)

Inv == /\ Types /\ Held /\ Noted /\ Spent /\ Revoked /\ Granted /\ Ruled /\ Founded
       /\ Bounded

LEMMA InitTypes == Init => Types
<1>. SUFFICES ASSUME Init PROVE Types
  OBVIOUS
<1>1. users \in [Users -> UserRows]
  BY TablesAssumption DEF Init, UserRows
<1>2. toks \in Seq(Token)
  BY DEF Init
<1>3. NoAgent \in AgentRows
  BY DEF NoAgent, AgentRows, NoGrants
<1>4. Idle \in Requests
  BY DEF Requests
<1>5. [count |-> 0, over |-> FALSE] \in [count : Nat, over : BOOLEAN]
  OBVIOUS
<1>. QED
  BY <1>1, <1>2, <1>3, <1>4, <1>5 DEF Init, Types

LEMMA InitInv == Init => Inv
<1>. SUFFICES ASSUME Init PROVE Inv
  OBVIOUS
<1>1. Types /\ Tokens = {} /\ \A t \in Threads : req[t].op = "idle"
  BY InitTypes DEF Init, Tokens, Idle
<1>2. Held /\ Spent
  BY <1>1 DEF Held, Spent, Op
<1>3. Noted
  BY <1>1 DEF Noted, Subjected
<1>4. Revoked
  <2>1. \A u \in Users : Cuts(u)
    BY <1>1 DEF Cuts, Op
  <2>2. \A u \in Users : cut[u] <= Len(toks)
    BY DEF Init
  <2>. QED
    BY <1>1, <2>1, <2>2 DEF Revoked
<1>5. Granted
  <2>1. \A a \in Agents : agents[a].grant = [status |-> "none"]
    BY DEF Init, NoAgent
  <2>2. [status |-> "none"] \notin FullGrant /\ [status |-> "none"].status = "none"
    BY NotFull DEF NoGrants
  <2>. QED
    BY <1>1, <2>1, <2>2 DEF Granted, Live, Status, Op
<1>6. Ruled
  <2>1. (\E u \in Users : users[u].role # "none") => \E u \in Users : users[u].role = "admin"
    BY TablesAssumption DEF Init
  <2>. QED
    BY <1>1, <2>1 DEF Ruled, Known, Exists, Admins, Op
<1>7. Founded
  BY <1>1 DEF Init, Founded, Op
<1>8. Bounded
  <2>1. ASSUME NEW u \in Users PROVE Cardinality(Trying(u)) = 0 /\ fails[u].count = 0
    <3>1. Trying(u) = {}
      BY <1>1 DEF Trying, Op
    <3>. QED
      BY <3>1, FS_EmptySet DEF Init
  <2>. QED
    BY <2>1, TryingSets, MaxFailAssumption DEF Bounded
<1>. QED
  BY <1>1, <1>2, <1>3, <1>4, <1>5, <1>6, <1>7, <1>8 DEF Inv

LEMMA InvStep == Inv /\ [Next]_vars => Inv'
  BY TypesStep, HeldStep, NotedStep, SpentStep, RevokedStep, GrantedStep, RuledStep,
     FoundedStep, BoundedStep DEF Inv

LEMMA Invariance == Spec => []Inv
  BY InitInv, InvStep, PTL DEF Spec

-----------------------------------------------------------------------------
(* A refresh token is exchanged for at most one new pair, however many     *)
(* requests present it at once: RevokeRefreshToken changes a live row for  *)
(* one of them only.                                                       *)
THEOREM SpentOnce == Spec => []RefreshSpentOnce
<1>1. ASSUME Inv PROVE RefreshSpentOnce
  <2>. SUFFICES ASSUME NEW k \in Tokens
                PROVE  Cardinality({j \in Tokens : toks[j].from = k}) <= 1
    BY DEF RefreshSpentOnce
  <2>. DEFINE heirs == {j \in Tokens : toks[j].from = k}
  <2>1. k # 0
    BY DEF Tokens
  <2>2. \A i, j \in heirs : i = j
    BY <1>1, <2>1 DEF Inv, Spent
  <2>3. heirs = {} \/ \E j : heirs = {j}
    BY <2>2
  <2>. HIDE DEF heirs
  <2>4. \A j : Cardinality({j}) = 1
    BY FS_Singleton
  <2>5. Cardinality({}) = 0
    BY FS_EmptySet
  <2>6. Cardinality(heirs) \in {0, 1}
    BY <2>3, <2>4, <2>5
  <2>. QED
    BY <2>6 DEF heirs
<1>. QED
  BY <1>1, Invariance, PTL

(* Once a revocation of all sessions or a password change is complete, no  *)
(* session that was open when it began is usable again, in any number of   *)
(* rotations, unless a refresh ran beside it (RevokeAllSessions,           *)
(* ChangePassword, Refresh).                                               *)
THEOREM RevocationHolds == Spec => []RevokedForGood
<1>1. ASSUME Inv PROVE RevokedForGood
  <2>. SUFFICES ASSUME NEW k \in Tokens, toks[k].root <= cut[toks[k].user],
                       <<"session", toks[k].user>> \notin raced
                PROVE  ~Accepted(k) /\ toks[k].refresh # "live"
    BY DEF RevokedForGood
  <2>1. toks[k] \in Token
    BY <1>1 DEF Inv, Types, Tokens
  <2>2. PICK u \in Users : u = toks[k].user
    BY <2>1 DEF Token
  <2>3. toks[k].tv < users[u].tv /\ toks[k].refresh # "live"
    BY <1>1, <2>2 DEF Inv, Revoked, Cuts
  <2>4. toks[k].tv \in Nat /\ users[u].tv \in Nat
    BY <1>1, <2>1 DEF Inv, Types, Token, UserRows
  <2>. QED
    BY <2>2, <2>3, <2>4 DEF Accepted
<1>. QED
  BY <1>1, Invariance, PTL

(* A token that parsePayload refuses is refused from then on, whatever     *)
(* login, role change, password or agent update follows, unless two        *)
(* updates of its agent overlapped.                                        *)
THEOREM RefusalHolds == Spec => RejectedForGood
<1>1. ASSUME Inv, [Next]_vars
      PROVE  [\A k \in Tokens :
                ~Accepted(k) /\ <<"agent", toks[k].agent>> \notin raced'
                  => ~Accepted(k)']_vars
  BY <1>1, RefusedStays DEF Inv
<1>. QED
  BY <1>1, Invariance, PTL DEF Spec, RejectedForGood

(* While an agent's token is accepted the agent has lost nothing since the *)
(* mint, and the token carries no scope but the agent's present ones and   *)
(* those its mint named: Update moved the version on whenever it took      *)
(* something away, unless two updates of the agent overlapped.             *)
THEOREM WithinGrant == Spec => []AgentWithinGrant
<1>1. ASSUME Inv PROVE AgentWithinGrant
  <2>. SUFFICES ASSUME NEW k \in Tokens, toks[k].agent # "none", Accepted(k),
                       <<"agent", toks[k].agent>> \notin raced
                PROVE  LET old == toks[k].grant
                           new == agents[toks[k].agent].grant
                       IN  /\ old.scopes \subseteq new.scopes
                           /\ toks[k].scopes \subseteq new.scopes \cup toks[k].asked
                           /\ ~Loses(old.drives, new.drives)
                           /\ ~Loses(old.read, new.read)
                           /\ ~Loses(old.write, new.write)
    BY DEF AgentWithinGrant
  <2>1. toks[k] \in Token
    BY <1>1 DEF Inv, Types, Tokens
  <2>2. PICK a \in Agents : a = toks[k].agent
    BY <2>1 DEF Token
  <2>3. /\ Within(a, toks[k].atv, toks[k].grant)
        /\ toks[k].scopes \subseteq toks[k].grant.scopes \cup toks[k].asked
    BY <1>1, <2>2 DEF Inv, Granted
  <2>4. Status(a) = "active" /\ toks[k].atv = agents[a].atv
    BY <2>2 DEF Accepted, Status
  <2>5. agents[a].atv \in Nat
    BY <1>1 DEF Inv, Types, AgentRows
  <2>6. GrantKept(toks[k].grant, agents[a].grant)
    BY <2>2, <2>3, <2>4, <2>5 DEF Within
  <2>7. ASSUME NEW old, NEW new, ListKept(old, new) PROVE ~Loses(old, new)
    BY <2>7 DEF ListKept, Loses, May
  <2>. QED
    BY <2>2, <2>3, <2>6, <2>7 DEF GrantKept
<1>. QED
  BY <1>1, Invariance, PTL

(* Once there are users there is an admin, unless two role changes         *)
(* overlapped: Register makes the first user admin, SetRole counts.        *)
THEOREM SomeAdmin == Spec => []AdminRemains
<1>1. Inv => AdminRemains
  BY DEF Inv, Ruled, AdminRemains
<1>. QED
  BY <1>1, Invariance, PTL

(* Registration makes at most one user admin, unless two registrations     *)
(* overlapped (CountUsers, then CreateUser).                               *)
THEOREM OneFirstUser == Spec => []OneFounder
<1>1. ASSUME Inv, <<"register", "all">> \notin raced PROVE Cardinality(founders) <= 1
  <2>1. founders = {} \/ \E u \in Users : founders = {u}
    BY <1>1 DEF Inv, Founded
  <2>2. Cardinality({}) = 0 /\ \A u \in Users : Cardinality({u}) = 1
    BY FS_EmptySet, FS_Singleton
  <2>3. Cardinality(founders) \in {0, 1}
    BY <2>1, <2>2
  <2>. QED
    BY <2>3
<1>. QED
  BY <1>1, Invariance, PTL DEF OneFounder

(* However many requests are in flight, a name counts no more failures in  *)
(* a window than the lock allows and the requests that were past its check *)
(* (FailureTracker.Locked, then Login, then Fail).                         *)
THEOREM LockBounds == Spec => []LockoutBound
<1>1. ASSUME Inv, NEW u \in Users PROVE fails[u].count <= MaxFail - 1 + Cardinality(Threads)
  <2>1. fails[u].count + Cardinality(Trying(u)) <= MaxFail - 1 + Cardinality(Threads)
    BY <1>1 DEF Inv, Bounded
  <2>2. fails[u].count \in Nat
    BY <1>1 DEF Inv, Types
  <2>3. Cardinality(Trying(u)) \in Nat /\ Cardinality(Threads) \in Nat /\ MaxFail \in Nat
    BY TryingSets, MaxFailAssumption
  <2>. QED
    BY <2>1, <2>2, <2>3
<1>2. Inv => LockoutBound
  BY <1>1 DEF LockoutBound
<1>. QED
  BY <1>2, Invariance, PTL

=============================================================================
