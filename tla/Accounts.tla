------------------------------ MODULE Accounts ------------------------------
(***************************************************************************)
(* Accounts, sessions and agents: registration, login with its lockout,    *)
(* access tokens, rotating refresh tokens, logout, the revocation of all   *)
(* sessions, password and role changes, and the agents of a user with the  *)
(* tokens minted for them.                                                 *)
(*                                                                         *)
(* The code is a set of HTTP handlers over one shared store, and every     *)
(* handler is several store statements long.  Nothing locks a user between *)
(* two statements of one request, so here a request is a thread that takes *)
(* one step per statement, and the steps of the requests in flight         *)
(* interleave.  A check that only reads memory belongs to the step that    *)
(* read the row it looks at; parsePayload, which only reads, is one step.  *)
(* Failures of the store, audit rows, formats and rate limits by address   *)
(* are left out.                                                           *)
(***************************************************************************)
EXTENDS Integers, Sequences, FiniteSets

CONSTANTS
  Threads,        \* requests that can be in flight together
  Users,          \* user names; a name is its user's id
  Agents,         \* agent ids
  Patches,        \* bodies of agent updates: functions on some of GrantFields
  Grants,         \* what an agent may be created with
  Asks,           \* scopes a request for an agent's token may name, {} for none
  OwnedDrives,    \* drives of every owner, for validateDrives
  Mixes,          \* sets of operations, and "open" where cfg.AllowRegister is
                  \* set: a behaviour uses those of one set
  Seeds,          \* user tables a behaviour may start with
  MaxFail,        \* failures that lock a login
  MaxTokens,      \* bound on the tokens issued
  MaxRequests     \* bound on the requests

ASSUME MaxFailAssumption == MaxFail \in Nat \ {0} /\ IsFiniteSet(Threads)

VARIABLES
  users,    \* the table of users
  toks,     \* the tokens issued so far, in order
  agents,   \* the table of agents
  fails,    \* FailureTracker: failures and whether their window is over
  req,      \* the request each thread serves
  left,     \* requests that may still begin
  mix,      \* the operations of this behaviour
  raced,    \* history: kinds of requests that overlapped, and on what
  cut,      \* history: tokens older than the last complete revoke-all
  founders  \* history: users that registration made admin

vars == <<users, toks, agents, fails, req, left, mix, raced, cut, founders>>

Roles     == {"admin", "user"}
Passwords == {"old", "new"}
NoUser    == [role |-> "none", pw |-> "old", legacy |-> FALSE, tv |-> 0]
UserRow(role, pw) == [role |-> role, pw |-> pw, legacy |-> FALSE, tv |-> 0]

GrantFields == {"status", "scopes", "drives", "read", "write"}
NoAgent     == [owner |-> "none", grant |-> [status |-> "none"], atv |-> 0]
Idle        == [op |-> "idle"]

\* A table of users has an admin from its first user on (Register), what an
\* agent is created with fills every field, and an update changes some.
ASSUME TablesAssumption ==
  /\ IsFiniteSet(Users)
  /\ \A seed \in Seeds :
       /\ seed \in [Users -> [role : Roles \cup {"none"}, pw : Passwords,
                             legacy : BOOLEAN, tv : Nat]]
       /\ (\E u \in Users : seed[u].role # "none") =>
            \E u \in Users : seed[u].role = "admin"
ASSUME AgentsAssumption ==
  /\ "none" \notin Agents
  /\ \A g \in Grants : g = [f \in GrantFields |-> g[f]]
  /\ \A p \in Patches :
       /\ "status" \in DOMAIN p => p["status"] \in {"active", "disabled"}

Exists(u)   == users[u].role # "none"
Known       == {u \in Users : Exists(u)}
Admins      == {u \in Users : users[u].role = "admin"}
Tokens      == 1..Len(toks)
Live(a)     == agents[a].grant.status \in {"active", "disabled"}

-----------------------------------------------------------------------------
(* Tokens.                                                                 *)

\* parsePayload: a token is refused once its id is on the denylist, its
\* user's version has moved on, or its agent is gone, disabled or moved on.
Accepted(k) ==
  LET tok == toks[k]
  IN  /\ ~tok.denied
      /\ Exists(tok.user)
      /\ tok.tv = users[tok.user].tv
      /\ tok.agent # "none" =>
           /\ agents[tok.agent].grant.status = "active"
           /\ tok.atv = agents[tok.agent].atv

\* withAuth and requireHuman, withAdmin: the role is the token's, not the row's.
Human(k)   == Accepted(k) /\ toks[k].agent = "none"
ByAdmin(k) == Human(k) /\ toks[k].role = "admin"

\* IssueTokens: an access token and a refresh token of the row that was read.
IssueTokens(u, row, from) ==
  /\ Len(toks) < MaxTokens
  /\ toks' = Append(toks,
       [user |-> u, role |-> row.role, tv |-> row.tv, denied |-> FALSE,
        refresh |-> "live", from |-> from,
        root |-> IF from = 0 THEN Len(toks) + 1 ELSE toks[from].root,
        agent |-> "none", atv |-> 0, grant |-> NoAgent.grant,
        asked |-> {}, scopes |-> {}])

\* IssueAgentToken: an access token alone, bound to the version of the agent
\* row that was read, with the scopes the request named, whatever the agent's
\* own, or the agent's where it named none.  grant and asked remember the row
\* and the request, for the properties.
IssueAgentToken(u, role, tv, a, row, asked) ==
  /\ Len(toks) < MaxTokens
  /\ toks' = Append(toks,
       [user |-> u, role |-> role, tv |-> tv, denied |-> FALSE,
        refresh |-> "none", from |-> 0, root |-> Len(toks) + 1,
        agent |-> a, atv |-> row.atv, grant |-> row.grant, asked |-> asked,
        scopes |-> IF asked = {} THEN row.grant.scopes ELSE asked])

\* RevokeRefreshToken changes one live row or fails.
RevokeOne(k) == toks' = [toks EXCEPT ![k].refresh = "revoked"]

\* Mutant: the refresh tokens of the user are left alone.
RevokeNone(u) == UNCHANGED toks

\* RevokeRefreshTokensForUser changes every live row of the user.
RevokeRefreshTokensForUser(u) ==
  toks' = [k \in Tokens |->
             IF toks[k].user = u /\ toks[k].refresh = "live"
               THEN [toks[k] EXCEPT !.refresh = "revoked"] ELSE toks[k]]

\* BumpTokenVersion adds one in the database.
Bumped(u) == [users EXCEPT ![u].tv = @ + 1]

-----------------------------------------------------------------------------
(* Requests.                                                               *)

\* What two requests overlap on, when the properties must know of it.
Subject(r) ==
  CASE r.op = "register"                   -> <<"register", "all">>
    [] r.op = "setrole"                    -> <<"role", "all">>
    [] r.op \in {"refresh", "revokeall", "password"} -> <<"session", r.u>>
    [] r.op = "update"                     -> <<"agent", r.a>>
    [] OTHER                               -> <<"none", "none">>

\* A thread may take a request of this kind.
Free(t, op) == req[t] = Idle /\ left > 0 /\ op \in mix

\* A request begins with the checks of its middleware and handler.  Two
\* refreshes overlapping is no excuse for anything, so they do not count.
Begin(t, r) ==
  LET others == {req[s] : s \in {s \in Threads \ {t} : req[s] # Idle}}
      clash  == {Subject(o) : o \in {o \in others :
                   /\ Subject(o) = Subject(r)
                   /\ {o.op, r.op} # {"refresh"}}}
  IN  /\ req' = [req EXCEPT ![t] = r]
      /\ left' = left - 1
      /\ raced' = raced \cup (clash \ {<<"none", "none">>})
      /\ UNCHANGED mix

\* The next statement of a request, and its end.
Goto(t, r) == req' = [req EXCEPT ![t] = r] /\ UNCHANGED <<left, mix, raced>>
Done(t)    == req' = [req EXCEPT ![t] = Idle] /\ UNCHANGED <<left, mix, raced>>
At(t, op, at) == req[t] # Idle /\ req[t].op = op /\ req[t].at = at
Then(t, at)   == Goto(t, [req[t] EXCEPT !.at = at])

AllowRegister == "open" \in mix

\* handleRegister: with registration closed only an empty table lets one in.
BeginRegister(t, u) ==
  /\ Free(t, "register")
  /\ AllowRegister \/ Known = {}
  /\ Begin(t, [op |-> "register", at |-> "name", u |-> u, role |-> "user"])
  /\ UNCHANGED <<users, toks, agents, fails, cut, founders>>

\* Register: the name must be free.
RegisterName(t) ==
  /\ At(t, "register", "name")
  /\ IF Exists(req[t].u) THEN Done(t) ELSE Then(t, "count")
  /\ UNCHANGED <<users, toks, agents, fails, cut, founders>>

\* Mutant: the second user counts as the first.
FirstRoleLate == IF Cardinality(Known) <= 1 THEN "admin" ELSE "user"

\* Register: the first user becomes admin.
FirstRole == IF Known = {} THEN "admin" ELSE "user"

RegisterCount(t) ==
  /\ At(t, "register", "count")
  /\ Goto(t, [req[t] EXCEPT !.at = "create", !.role = FirstRole])
  /\ UNCHANGED <<users, toks, agents, fails, cut, founders>>

\* Register: CreateUser refuses a name that is there by now.
RegisterCreate(t) ==
  LET r == req[t]
      free == ~Exists(r.u)
  IN  /\ At(t, "register", "create")
      /\ users' = IF free THEN [users EXCEPT ![r.u] = UserRow(r.role, "old")]
                          ELSE users
      /\ founders' = IF free /\ r.role = "admin" THEN founders \cup {r.u}
                                                 ELSE founders
      /\ Done(t)
      /\ UNCHANGED <<toks, agents, fails, cut>>

\* AdminCreateUser: any role, a free name.
BeginCreateUser(t, k, u, role) ==
  /\ Free(t, "createuser")
  /\ ByAdmin(k)
  /\ Begin(t, [op |-> "createuser", at |-> "name", u |-> u, role |-> role])
  /\ UNCHANGED <<users, toks, agents, fails, cut, founders>>

CreateUserName(t) ==
  /\ At(t, "createuser", "name")
  /\ IF Exists(req[t].u) THEN Done(t) ELSE Then(t, "create")
  /\ UNCHANGED <<users, toks, agents, fails, cut, founders>>

CreateUserCreate(t) ==
  LET r == req[t]
  IN  /\ At(t, "createuser", "create")
      /\ users' = IF Exists(r.u) THEN users
                  ELSE [users EXCEPT ![r.u] = UserRow(r.role, "old")]
      /\ Done(t)
      /\ UNCHANGED <<toks, agents, fails, cut, founders>>

-----------------------------------------------------------------------------
(* Login and its lockout.                                                  *)

\* Mutant: one failure too many before the lock.
LockedLate(u) == ~fails[u].over /\ fails[u].count > MaxFail

\* FailureTracker.Locked: an entry whose window is over is dropped.
Locked(u) == ~fails[u].over /\ fails[u].count >= MaxFail
Kept(u)   == IF fails[u].over THEN [count |-> 0, over |-> FALSE] ELSE fails[u]

\* FailureTracker.Fail: a new entry, or one more failure in the same window.
Fail(u) == [fails EXCEPT ![u] = [Kept(u) EXCEPT !.count = @ + 1]]

\* FailureTracker.Clear.
Clear(u) == [fails EXCEPT ![u] = [count |-> 0, over |-> FALSE]]

\* handleLogin: a locked name is turned away before its password is looked at.
BeginLogin(t, u, pw) ==
  /\ Free(t, "login")
  /\ ~Locked(u)
  /\ Begin(t, [op |-> "login", at |-> "read", u |-> u, pw |-> pw,
               row |-> NoUser])
  /\ fails' = [fails EXCEPT ![u] = Kept(u)]
  /\ UNCHANGED <<users, toks, agents, cut, founders>>

\* Login: the row is read and the password compared.
LoginRead(t) ==
  LET r == req[t]
      row == users[r.u]
      next == IF ~Exists(r.u) \/ row.pw # r.pw THEN "fail"
              ELSE IF row.legacy THEN "rehash" ELSE "issue"
  IN  /\ At(t, "login", "read")
      /\ Goto(t, [r EXCEPT !.at = next, !.row = row])
      /\ UNCHANGED <<users, toks, agents, fails, cut, founders>>

LoginFail(t) ==
  /\ At(t, "login", "fail")
  /\ fails' = Fail(req[t].u)
  /\ Done(t)
  /\ UNCHANGED <<users, toks, agents, cut, founders>>

\* Mutant: the row that was read is written back with the new hash.
RehashWholeRow(t) ==
  LET r == req[t]
  IN  /\ At(t, "login", "rehash")
      /\ users' = [users EXCEPT ![r.u] = [r.row EXCEPT !.legacy = FALSE]]
      /\ Then(t, "issue")
      /\ UNCHANGED <<toks, agents, fails, cut, founders>>

\* Login: a password stored in clear is replaced by its hash.
LoginRehash(t) ==
  LET r == req[t]
  IN  /\ At(t, "login", "rehash")
      /\ users' = [users EXCEPT ![r.u].pw = r.pw, ![r.u].legacy = FALSE]
      /\ Then(t, "issue")
      /\ UNCHANGED <<toks, agents, fails, cut, founders>>

LoginIssue(t) ==
  LET r == req[t]
  IN  /\ At(t, "login", "issue")
      /\ IssueTokens(r.u, r.row, 0)
      /\ Then(t, "clear")
      /\ UNCHANGED <<users, agents, fails, cut, founders>>

LoginClear(t) ==
  /\ At(t, "login", "clear")
  /\ fails' = Clear(req[t].u)
  /\ Done(t)
  /\ UNCHANGED <<users, toks, agents, cut, founders>>

\* The window of a name's failures passes.
WindowPasses(u) ==
  /\ fails[u].count > 0 /\ ~fails[u].over
  /\ fails' = [fails EXCEPT ![u].over = TRUE]
  /\ UNCHANGED <<users, toks, agents, req, left, mix, raced, cut, founders>>

-----------------------------------------------------------------------------
(* Sessions.                                                               *)

\* Refresh: the token is looked up by its hash and must be live.
BeginRefresh(t, k) ==
  /\ Free(t, "refresh")
  /\ toks[k].refresh = "live"
  /\ Begin(t, [op |-> "refresh", at |-> "user", u |-> toks[k].user, k |-> k,
               row |-> NoUser])
  /\ UNCHANGED <<users, toks, agents, fails, cut, founders>>

RefreshUser(t) ==
  LET r == req[t]
  IN  /\ At(t, "refresh", "user")
      /\ Goto(t, [r EXCEPT !.at = "rotate", !.row = users[r.u]])
      /\ UNCHANGED <<users, toks, agents, fails, cut, founders>>

\* Mutant: the error of a token revoked by another request is ignored.
RotateBlind(t) ==
  /\ At(t, "refresh", "rotate")
  /\ RevokeOne(req[t].k)
  /\ Then(t, "issue")
  /\ UNCHANGED <<users, agents, fails, cut, founders>>

\* Refresh: only the request that revokes the token goes on to issue.
RefreshRotate(t) ==
  LET r == req[t]
  IN  /\ At(t, "refresh", "rotate")
      /\ IF toks[r.k].refresh = "live"
           THEN RevokeOne(r.k) /\ Then(t, "issue")
           ELSE Done(t) /\ UNCHANGED toks
      /\ UNCHANGED <<users, agents, fails, cut, founders>>

RefreshIssue(t) ==
  LET r == req[t]
  IN  /\ At(t, "refresh", "issue")
      /\ IssueTokens(r.u, r.row, r.k)
      /\ Done(t)
      /\ UNCHANGED <<users, agents, fails, cut, founders>>

\* handleLogout, behind withAuth; the refresh token of the body is optional.
BeginLogout(t, k, f) ==
  /\ Free(t, "logout")
  /\ Accepted(k)
  /\ Begin(t, [op |-> "logout", at |-> "parse", u |-> toks[k].user, k |-> k,
               f |-> f])
  /\ UNCHANGED <<users, toks, agents, fails, cut, founders>>

\* Logout parses the token again.
LogoutParse(t) ==
  /\ At(t, "logout", "parse")
  /\ IF Accepted(req[t].k) THEN Then(t, "refresh") ELSE Done(t)
  /\ UNCHANGED <<users, toks, agents, fails, cut, founders>>

\* RevokeRefresh: best effort, on a token that is still live.
LogoutRefresh(t) ==
  LET f == req[t].f
  IN  /\ At(t, "logout", "refresh")
      /\ IF f # 0 /\ toks[f].refresh = "live" THEN RevokeOne(f)
                                              ELSE UNCHANGED toks
      /\ Then(t, "deny")
      /\ UNCHANGED <<users, agents, fails, cut, founders>>

\* RevokeJTI.
LogoutDeny(t) ==
  /\ At(t, "logout", "deny")
  /\ toks' = [toks EXCEPT ![req[t].k].denied = TRUE]
  /\ Done(t)
  /\ UNCHANGED <<users, agents, fails, cut, founders>>

\* RevokeAllSessions, for an admin.  n is what had been issued by then.
BeginRevokeAll(t, k, u) ==
  /\ Free(t, "revokeall")
  /\ ByAdmin(k)
  /\ Exists(u)
  /\ Begin(t, [op |-> "revokeall", at |-> "refresh", u |-> u, n |-> Len(toks)])
  /\ UNCHANGED <<users, toks, agents, fails, cut, founders>>

RevokeAllRefresh(t) ==
  /\ At(t, "revokeall", "refresh")
  /\ RevokeRefreshTokensForUser(req[t].u)
  /\ Then(t, "bump")
  /\ UNCHANGED <<users, agents, fails, cut, founders>>

RevokeAllBump(t) ==
  LET r == req[t]
  IN  /\ At(t, "revokeall", "bump")
      /\ users' = Bumped(r.u)
      /\ cut' = [cut EXCEPT ![r.u] = IF r.n > @ THEN r.n ELSE @]
      /\ Done(t)
      /\ UNCHANGED <<toks, agents, fails, founders>>

\* ChangePassword, for the user of a token (an agent's token passes too).
BeginPassword(t, k, pw, new) ==
  /\ Free(t, "password")
  /\ Accepted(k)
  /\ Begin(t, [op |-> "password", at |-> "read", u |-> toks[k].user, pw |-> pw,
               new |-> new, n |-> 0])
  /\ UNCHANGED <<users, toks, agents, fails, cut, founders>>

PasswordRead(t) ==
  /\ At(t, "password", "read")
  /\ IF users[req[t].u].pw = req[t].pw
       THEN Goto(t, [req[t] EXCEPT !.at = "write", !.n = Len(toks)])
       ELSE Done(t)
  /\ UNCHANGED <<users, toks, agents, fails, cut, founders>>

PasswordWrite(t) ==
  LET r == req[t]
  IN  /\ At(t, "password", "write")
      /\ users' = [users EXCEPT ![r.u].pw = r.new, ![r.u].legacy = FALSE]
      /\ Then(t, "refresh")
      /\ UNCHANGED <<toks, agents, fails, cut, founders>>

PasswordRefresh(t) ==
  /\ At(t, "password", "refresh")
  /\ RevokeRefreshTokensForUser(req[t].u)
  /\ Then(t, "bump")
  /\ UNCHANGED <<users, agents, fails, cut, founders>>

PasswordBump(t) ==
  LET r == req[t]
  IN  /\ At(t, "password", "bump")
      /\ users' = Bumped(r.u)
      /\ cut' = [cut EXCEPT ![r.u] = IF r.n > @ THEN r.n ELSE @]
      /\ Done(t)
      /\ UNCHANGED <<toks, agents, fails, founders>>

\* SetRole, for an admin: the user's row is read.
BeginSetRole(t, k, u, role) ==
  /\ Free(t, "setrole")
  /\ ByAdmin(k)
  /\ Exists(u)
  /\ Begin(t, [op |-> "setrole", u |-> u, role |-> role,
               at |-> IF users[u].role = "admin" /\ role = "user"
                        THEN "count" ELSE "write"])
  /\ UNCHANGED <<users, toks, agents, fails, cut, founders>>

\* Mutant: off by one.
NoAdmin == Cardinality(Admins) < 1

\* SetRole: the last admin is not demoted.
LastAdmin == Cardinality(Admins) <= 1

SetRoleCount(t) ==
  /\ At(t, "setrole", "count")
  /\ IF LastAdmin THEN Done(t) ELSE Then(t, "write")
  /\ UNCHANGED <<users, toks, agents, fails, cut, founders>>

SetRoleWrite(t) ==
  LET r == req[t]
  IN  /\ At(t, "setrole", "write")
      /\ users' = [users EXCEPT ![r.u].role = r.role]
      /\ Done(t)
      /\ UNCHANGED <<toks, agents, fails, cut, founders>>

-----------------------------------------------------------------------------
(* Agents.                                                                 *)

\* scopesTightened: a scope is gone.
ScopesTightened(old, new) == ~(old \subseteq new)

\* Mutant: going from everything to a list is not seen as tightening.
ListShrunk(old, new) == new # {} /\ ~(old \subseteq new)

\* drivesTightened, prefixesTightened: the empty list stands for everything.
ListTightened(old, new) ==
  /\ new # {}
  /\ old = {} \/ ~(old \subseteq new)

\* Update: what makes the tokens issued so far void.
Tightened(old, new) ==
  \/ new.status = "disabled" /\ old.status # "disabled"
  \/ ScopesTightened(old.scopes, new.scopes)
  \/ ListTightened(old.drives, new.drives)
  \/ ListTightened(old.read, new.read)
  \/ ListTightened(old.write, new.write)

Patched(grant, patch) ==
  [f \in GrantFields |-> IF f \in DOMAIN patch THEN patch[f] ELSE grant[f]]

\* Create, for a human: scopes default to reading and writing, drives must be
\* the owner's.  An id is new, so it is never that of a deleted agent.
CreateAgent(t, k, a, g) ==
  LET u == toks[k].user
      scopes == IF g.scopes = {} THEN {"drive.read", "drive.write"}
                                 ELSE g.scopes
  IN  /\ Free(t, "agent")
      /\ Human(k)
      /\ agents[a] = NoAgent
      /\ g.drives \subseteq OwnedDrives
      /\ left' = left - 1
      /\ agents' = [agents EXCEPT ![a] =
           [owner |-> u, atv |-> 0,
            grant |-> [g EXCEPT !.scopes = scopes, !.status = "active"]]]
      /\ UNCHANGED <<users, toks, fails, req, mix, raced, cut, founders>>

\* Update, for a human: the owner's row is read, and validateDrives run.
BeginUpdate(t, k, a, p) ==
  /\ Free(t, "update")
  /\ Human(k)
  /\ Live(a) /\ agents[a].owner = toks[k].user
  /\ "drives" \in DOMAIN p => p.drives \subseteq OwnedDrives
  /\ Begin(t, [op |-> "update", at |-> "write", u |-> toks[k].user, a |-> a,
               patch |-> p, row |-> agents[a]])
  /\ UNCHANGED <<users, toks, agents, fails, cut, founders>>

\* Update: the whole row is written, its version one up when tightened.
UpdateWrite(t) ==
  LET r == req[t]
      new == Patched(r.row.grant, r.patch)
      row == [r.row EXCEPT !.grant = new,
                           !.atv = IF Tightened(r.row.grant, new)
                                     THEN @ + 1 ELSE @]
  IN  /\ At(t, "update", "write")
      /\ agents' = IF Live(r.a) THEN [agents EXCEPT ![r.a] = row] ELSE agents
      /\ Done(t)
      /\ UNCHANGED <<users, toks, fails, cut, founders>>

\* Delete, for a human.
DeleteAgent(t, k, a) ==
  /\ Free(t, "agent")
  /\ Human(k)
  /\ Live(a) /\ agents[a].owner = toks[k].user
  /\ left' = left - 1
  /\ agents' = [agents EXCEPT ![a] =
                  [NoAgent EXCEPT !.grant = [status |-> "deleted"]]]
  /\ UNCHANGED <<users, toks, fails, req, mix, raced, cut, founders>>

\* routeAgentsSub, token: the agent must be the owner's and active; the
\* scopes in the body are known ones, or the request fails.
BeginMint(t, k, a, asked) ==
  /\ Free(t, "mint")
  /\ Human(k)
  /\ agents[a].owner = toks[k].user /\ agents[a].grant.status = "active"
  /\ Begin(t, [op |-> "mint", at |-> "user", u |-> toks[k].user, a |-> a,
               role |-> toks[k].role, row |-> agents[a], asked |-> asked])
  /\ UNCHANGED <<users, toks, agents, fails, cut, founders>>

\* routeAgentsSub, token: the user's version is read and the token signed.
MintIssue(t) ==
  LET r == req[t]
  IN  /\ At(t, "mint", "user")
      /\ IssueAgentToken(r.u, r.role, users[r.u].tv, r.a, r.row, r.asked)
      /\ Done(t)
      /\ UNCHANGED <<users, agents, fails, cut, founders>>

-----------------------------------------------------------------------------
Init ==
  /\ users \in Seeds
  /\ toks = <<>>
  /\ agents = [a \in Agents |-> NoAgent]
  /\ fails = [u \in Users |-> [count |-> 0, over |-> FALSE]]
  /\ req = [t \in Threads |-> Idle]
  /\ left = MaxRequests
  /\ mix \in Mixes
  /\ raced = {}
  /\ cut = [u \in Users |-> 0]
  /\ founders = {}

AccountStep(t) ==
  \/ \E u \in Users : BeginRegister(t, u)
  \/ RegisterName(t) \/ RegisterCount(t) \/ RegisterCreate(t)
  \/ \E k \in Tokens, u \in Users, role \in Roles :
       BeginCreateUser(t, k, u, role) \/ BeginSetRole(t, k, u, role)
  \/ CreateUserName(t) \/ CreateUserCreate(t)
  \/ SetRoleCount(t) \/ SetRoleWrite(t)

LoginStep(t) ==
  \/ \E u \in Users, pw \in Passwords : BeginLogin(t, u, pw)
  \/ LoginRead(t) \/ LoginFail(t) \/ LoginRehash(t)
  \/ LoginIssue(t) \/ LoginClear(t)

SessionStep(t) ==
  \/ \E k \in Tokens : BeginRefresh(t, k)
  \/ RefreshUser(t) \/ RefreshRotate(t) \/ RefreshIssue(t)
  \/ \E k \in Tokens, f \in 0..Len(toks) : BeginLogout(t, k, f)
  \/ LogoutParse(t) \/ LogoutRefresh(t) \/ LogoutDeny(t)
  \/ \E k \in Tokens, u \in Users : BeginRevokeAll(t, k, u)
  \/ RevokeAllRefresh(t) \/ RevokeAllBump(t)
  \/ \E k \in Tokens, pw, new \in Passwords : BeginPassword(t, k, pw, new)
  \/ PasswordRead(t) \/ PasswordWrite(t)
  \/ PasswordRefresh(t) \/ PasswordBump(t)

AgentStep(t) ==
  \/ \E k \in Tokens, a \in Agents :
       \/ \E g \in Grants : CreateAgent(t, k, a, g)
       \/ \E p \in Patches : BeginUpdate(t, k, a, p)
       \/ DeleteAgent(t, k, a)
       \/ \E asked \in Asks : BeginMint(t, k, a, asked)
  \/ UpdateWrite(t) \/ MintIssue(t)

Next ==
  \/ \E t \in Threads :
       AccountStep(t) \/ LoginStep(t) \/ SessionStep(t) \/ AgentStep(t)
  \/ \E u \in Users : WindowPasses(u)

Spec == Init /\ [][Next]_vars

-----------------------------------------------------------------------------
(* Properties.                                                             *)

\* A refresh token is exchanged for at most one new pair, however many
\* requests present it at once (RevokeRefreshToken in Refresh).
RefreshSpentOnce ==
  \A k \in Tokens : Cardinality({j \in Tokens : toks[j].from = k}) <= 1

\* Once a revocation of all sessions or a password change is complete, no
\* session that was open when it began can be used or refreshed again, in
\* any number of rotations; unless a refresh ran beside it.
RevokedForGood ==
  \A k \in Tokens :
    LET u == toks[k].user
    IN  /\ toks[k].root <= cut[u]
        /\ <<"session", u>> \notin raced
        => ~Accepted(k) /\ toks[k].refresh # "live"

\* The same with no exemption for a refresh in flight, as the comment of
\* RevokeAllSessions has it ("revokes all refresh tokens").
RevokeAllEnds ==
  \A k \in Tokens :
    toks[k].root <= cut[toks[k].user] =>
      ~Accepted(k) /\ toks[k].refresh # "live"

\* A token that parsePayload refuses is refused from then on: no later login,
\* role change, password hash or agent update makes it good again; unless two
\* updates of its agent overlapped.
RejectedForGood ==
  [][\A k \in Tokens :
       ~Accepted(k) /\ <<"agent", toks[k].agent>> \notin raced'
         => ~Accepted(k)']_vars

\* Once there are users there is an admin, unless two role changes overlapped
\* (countAdmins, then UpdateUserRole).
AdminRemains ==
  Known # {} /\ <<"role", "all">> \notin raced => Admins # {}

\* Registration makes at most one user admin, unless two registrations
\* overlapped (CountUsers, then CreateUser).
OneFounder ==
  <<"register", "all">> \notin raced => Cardinality(founders) <= 1

\* CanAccessDrive, CanAccessPath: an empty list allows everything.
May(list, x) == list = {} \/ x \in list
Loses(old, new) == \E x \in old \cup new \cup {"other"} :
                     May(old, x) /\ ~May(new, x)

\* While an agent's token is accepted the agent has lost nothing it had when
\* the token was minted: any chain of updates that took a scope, a drive or a
\* prefix away voided it; unless two updates of the agent overlapped.  So the
\* token carries no scope beyond the agent's present ones, but for those its
\* mint named, which the agent's do not bound.
AgentWithinGrant ==
  \A k \in Tokens :
    LET a == toks[k].agent
    IN  a # "none" /\ Accepted(k) /\ <<"agent", a>> \notin raced
          => LET old == toks[k].grant
                 new == agents[a].grant
             IN  /\ old.scopes \subseteq new.scopes
                 /\ toks[k].scopes \subseteq new.scopes \cup toks[k].asked
                 /\ ~Loses(old.drives, new.drives)
                 /\ ~Loses(old.read, new.read)
                 /\ ~Loses(old.write, new.write)

\* Wrong passwords are tried no more often in one window than MaxFail allows,
\* beyond the requests that were past the check of the lock already.
LockoutBound ==
  \A u \in Users : fails[u].count <= MaxFail - 1 + Cardinality(Threads)
=============================================================================
