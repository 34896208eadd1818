------------------------------- MODULE Stores -------------------------------
(***************************************************************************)
(* The persistence boundary, internal/store: one interface (store.go) and  *)
(* three implementations of it, SQLite (sqlite.go), PostgreSQL             *)
(* (postgres.go) and Go maps under a mutex (memory.go).  Every statement   *)
(* is atomic here; what happens between two statements of one request is   *)
(* the business of the modules of the services.                            *)
(*                                                                         *)
(* A behaviour drives one backend on one table.  The properties compare    *)
(* what the three would answer in every state so reached, so they speak of *)
(* what a deployment may rely on whichever backend it runs on.             *)
(*                                                                         *)
(* A row keeps what the statements look at, the same five fields for every *)
(* table:                                                                  *)
(*   id    the primary key; the ids the services make up are the instants  *)
(*         of their creation, so times[id] is created_at, and names[id] is *)
(*         where the id's text stands among the texts of the others        *)
(*   user  user_id, owner_user_id or publisher_user_id                     *)
(*   key   the column a lookup or a filter is by: username, action, alias, *)
(*         device, idempotency key, job, drive, memory key, entity         *)
(*   val   the columns an update replaces: role, profile, status           *)
(*   upd   the other column: token_version, expires_at, updated_at or      *)
(*         next_attempt_at                                                 *)
(***************************************************************************)
EXTENDS Integers, FiniteSets, Sequences, SequencesExt

CONSTANTS
  Tables,    \* tables to drive
  Backends,  \* backends to drive
  NUsers,    \* users are 1..NUsers
  NKeys,     \* keys are 1..NKeys; 0 is the empty key, or no filter
  Limits,    \* the page size of each table's lists, the code's 50, 100 or 500
  AuditCap,  \* the events the memory store keeps, the code's 1000
  Timelines, \* the fractions, in hundredths of a second, of the instants,
             \* and the order of the ids' texts
  MaxNow,    \* bound: instants
  MaxRows    \* bound: rows of each table

ASSUME SizesAssumption == /\ NUsers \in Nat \ {0} /\ NKeys \in Nat \ {0}
                          /\ MaxNow \in Nat \ {0} /\ MaxRows \in [Tables -> Nat]
                          /\ Limits \in [Tables -> Nat \ {0}]
                          /\ AuditCap \in Nat \ {0}

Stores3 == {"sqlite", "postgres", "memory"}

ASSUME BackendsAssumption ==
  /\ Backends \subseteq Stores3
  /\ Tables \subseteq {"users", "audit", "jtis", "refresh", "agents", "providers", "drives",
                       "bindings", "devices", "jobs", "outbox", "snapshots", "memory",
                       "market", "lineage", "graph", "purchases", "connectors"}

ASSUME TimelinesAssumption ==
  \A s \in Timelines :
    /\ s.at \in [1..(MaxNow + 1) -> 0..99] /\ s.name \in [1..(MaxNow + 1) -> 1..(MaxNow + 1)]
    /\ \A i, j \in 1..(MaxNow + 1) : i < j => s.at[i] =< s.at[j] /\ s.name[i] # s.name[j]

VARIABLES
  backend,  \* the store in use
  table,    \* the table in use
  rows,     \* its rows, a set
  times,    \* the fraction of each instant, all in one second; two may be equal
  names,    \* the place of each id's text: ids are random
  now       \* the present instant

vars == <<backend, table, rows, times, names, now>>

Users  == 1..NUsers
Keys   == 1..NKeys
Unset  == 0
Limit  == Limits[table]
OrUnset(S) == S \cup {Unset}

Terminal == {"succeeded"}
JobVals  == {"pending", "running"} \cup Terminal
BoxVals  == {"pending", "delivered", "dead"}
(* A row: an id, the instant of its creation, its user, and the three      *)
(* columns the calls tell apart.                                           *)
New(u, k, v, x) == [id |-> now, user |-> u, key |-> k, val |-> v, upd |-> x]

-----------------------------------------------------------------------------
(* What statements do.  An answer is an error or the set of lists the call *)
(* may return (one, unless their order is left open), and the rows after.  *)

Err(t)       == [rows |-> t, err |-> TRUE, lists |-> {<<>>}]
Done(t)      == [rows |-> t, err |-> FALSE, lists |-> {<<>>}]
Answer(t, L) == [rows |-> t, err |-> FALSE, lists |-> L]

Ids(t) == {r.id : r \in t}

(* INSERT under the primary key, and assignment to a map.                  *)
Insert(t, r) == IF r.id \in Ids(t) THEN Err(t) ELSE Done(t \cup {r})
Put(t, r)    == Done({x \in t : x.id # r.id} \cup {r})

(* INSERT or UPDATE under a unique index; the empty key is not indexed.    *)
Clash(t, r)        == \E x \in t : x.id # r.id /\ x.user = r.user
                                   /\ x.key = r.key /\ r.key # 0
InsertUnique(t, r) == IF Clash(t, r) THEN Err(t) ELSE Insert(t, r)

(* SELECT of one row, UPDATE and DELETE, where S is the rows that match.   *)
One(t, S)    == IF S = {} THEN Err(t) ELSE Answer(t, {<<r>> : r \in S})
Amend(t, S, T) == IF S = {} THEN Err(t) ELSE Done((t \ S) \cup T)
Erase(t, S) == IF S = {} THEN Err(t) ELSE Done(t \ S)
Count(t, S)  == Answer(t, {SetToSeq(S)})

ById(t, i)      == {r \in t : r.id = i}
Own(t, u)       == {r \in t : r.user = u}
OwnId(t, c)     == {r \in t : r.id = c.id /\ r.user = c.user}
With(t, k)      == {r \in t : k # Unset => r.key = k}

(* Columns that hold a time: TIMESTAMPTZ in PostgreSQL and time.Time in    *)
(* memory, RFC3339Nano text in SQLite.  The text drops trailing zeros of   *)
(* the fraction, and 'Z' sorts above digits and above the dot.             *)
Clock == times
Text  == [i \in DOMAIN times |->
            LET f == times[i]
            IN IF f = 0 THEN 1000
               ELSE 11 * (f \div 10) + (IF f % 10 = 0 THEN 10 ELSE f % 10)]

(* The place of a row in a slice that memory appends to.                   *)
Position == [i \in DOMAIN times |-> i]

(* ORDER BY created_at, id: rows of one time by the texts of their ids.    *)
ByIds(T) == [i \in DOMAIN times |-> (MaxNow + 2) * T[i] + names[i]]

(* The lists of the rows S by a rank, the greatest first (the order of rows *)
(* of one rank is left open); one of them; a page of a list; and the lists *)
(* that ORDER BY created_at DESC, or ORDER BY updated_at, may return.      *)
Orders(S, rank) ==
  {l \in SetToSeqs(S) : \A i, j \in DOMAIN l : i < j => rank[l[i]] >= rank[l[j]]}
Desc(S, rank) == CHOOSE l \in Orders(S, rank) : TRUE
Cut(l, n)     == SubSeq(l, 1, IF Len(l) < n THEN Len(l) ELSE n)

Latest(S, T)    == Orders(S, [r \in S |-> T[r.id]])
Newest(S, n, T) == {Cut(l, n) : l \in Latest(S, T)}
Oldest(S, n, T) == {Cut(l, n) : l \in Orders(S, [r \in S |-> -T[r.upd]])}

(* A list whose order is left open, cut after n rows.                      *)
AnyOrder(S, n) == {Cut(l, n) : l \in SetToSeqs(S)}

(* The rows of a list that pass a filter in Go, in its order, and those    *)
(* with a key, after the query's own LIMIT.                                *)
Place(l, r)   == CHOOSE i \in DOMAIN l : l[i] = r
Pass(l, F)    == Desc(ToSet(l) \cap F, [r \in ToSet(l) |-> -Place(l, r)])
Keep(l, k, n) == Cut(Pass(l, With(ToSet(l), k)), n)

(* Get, List and Delete of the tables that are kept per user.              *)
Scoped(t, c) ==
  CASE c.op = "get"    -> One(t, OwnId(t, c))
    [] c.op = "list"   -> Answer(t, SetToSeqs(Own(t, c.user)))
    [] c.op = "delete" -> Erase(t, OwnId(t, c))

-----------------------------------------------------------------------------
(* users: key is the username, val role and password, upd token_version.   *)

Bump(t, S) == Amend(t, S, {[r EXCEPT !.upd = @ + 1] : r \in S})

UserCalls(t, c) ==
  CASE c.op = "byKey" -> One(t, With(t, c.key))
    [] c.op = "byID"  -> One(t, ById(t, c.id))
    [] c.op = "set"   -> Amend(t, ById(t, c.id), {[r EXCEPT !.val = c.val] : r \in ById(t, c.id)})
    [] c.op = "bump"  -> Bump(t, ById(t, c.id))
    [] c.op = "list"  -> Answer(t, SetToSeqs(t))
    [] c.op = "count" -> Count(t, t)

InsertUser(t, r) == IF \E x \in t : x.key = r.key THEN Err(t) ELSE Insert(t, r)

SqliteUsers(t, c) == IF c.op = "create" THEN InsertUser(t, New(Unset, c.key, c.val, 0))
                     ELSE UserCalls(t, c)
PgUsers(t, c)     == IF c.op = "create" THEN InsertUser(t, New(Unset, c.key, c.val, 0))
                     ELSE UserCalls(t, c)
\* The map is by username, which stands for the unique column.
MemUsers(t, c)    == IF c.op = "create" THEN InsertUser(t, New(Unset, c.key, c.val, 0))
                     ELSE UserCalls(t, c)

-----------------------------------------------------------------------------
(* audit_events: key is the action.                                        *)

Audited(t, c) == {r \in With(t, c.key) : c.user # Unset => r.user = c.user}

SqliteAudit(t, c) ==
  IF c.op = "append" THEN Insert(t, New(c.user, c.key, 1, 0))
  ELSE Answer(t, Newest(Audited(t, c), Limit, Text))
PgAudit(t, c) ==
  IF c.op = "append" THEN Insert(t, New(c.user, c.key, 1, 0))
  ELSE Answer(t, Newest(Audited(t, c), Limit, Clock))
\* A slice in the order of appending, read from its end; one slice for all
\* users, which each append cuts to its last AuditCap events.
Recent(t) == {r \in t : Cardinality({x \in t : x.id > r.id}) < AuditCap}
MemAudit(t, c) ==
  IF c.op = "append" THEN Done(Recent(t \cup {New(c.user, c.key, 1, 0)}))
  ELSE Answer(t, Newest(Audited(t, c), Limit, Position))

-----------------------------------------------------------------------------
(* revoked_jtis: upd is expires_at.  RevokeJTI prunes what has expired.    *)

Revoked(t, c, T) ==
  LET old == {r \in ById(t, c.id) : T[now] > T[r.upd]}
  IN [rows |-> t \ old, err |-> FALSE, lists |-> {SetToSeq(ById(t, c.id) \ old)}]

Jti(c) == [id |-> c.id, user |-> Unset, key |-> Unset, val |-> 1, upd |-> c.n]

SqliteJtis(t, c) == IF c.op = "revoke" THEN Put({r \in t : ~ Text[r.upd] < Text[now]}, Jti(c))
                    ELSE Revoked(t, c, Clock)
PgJtis(t, c)     == IF c.op = "revoke" THEN Put({r \in t : ~ Clock[r.upd] < Clock[now]}, Jti(c))
                    ELSE Revoked(t, c, Clock)
\* Mutant: the pruning keeps what has expired and drops what has not.
MemJtisPruneLive(t, c) == IF c.op = "revoke" THEN Put({r \in t : Clock[now] > Clock[r.upd]}, Jti(c))
                          ELSE Revoked(t, c, Clock)
MemJtis(t, c)    == IF c.op = "revoke" THEN Put({r \in t : ~ Clock[now] > Clock[r.upd]}, Jti(c))
                    ELSE Revoked(t, c, Clock)

-----------------------------------------------------------------------------
(* refresh_tokens: the hash is unique and stands with the id; val is 2 once *)
(* the token is revoked, upd is expires_at.                                *)

Spend(S) == {[r EXCEPT !.val = 2] : r \in S}
Unspent(S) == {r \in S : r.val = 1}

RefreshCalls(t, c) ==
  CASE c.op = "byHash" -> One(t, {r \in Unspent(ById(t, c.id)) : ~ Clock[now] > Clock[r.upd]})
    [] c.op = "revoke" -> Amend(t, Unspent(ById(t, c.id)), Spend(ById(t, c.id)))

SqliteRefresh(t, c) ==
  CASE c.op = "create"     -> Insert(t, New(c.user, Unset, 1, c.n))
    [] c.op = "revokeUser" -> Done((t \ Own(t, c.user)) \cup Spend(Own(t, c.user)))
    [] OTHER               -> RefreshCalls(t, c)
\* Mutant: the UPDATE lacks AND revoked = FALSE.
PgRefreshTwice(t, c) ==
  CASE c.op = "create"     -> Insert(t, New(c.user, Unset, 1, c.n))
    [] c.op = "revokeUser" -> Done((t \ Own(t, c.user)) \cup Spend(Own(t, c.user)))
    [] c.op = "revoke"     -> Amend(t, ById(t, c.id), Spend(ById(t, c.id)))
    [] OTHER               -> RefreshCalls(t, c)
PgRefresh(t, c) ==
  CASE c.op = "create"     -> Insert(t, New(c.user, Unset, 1, c.n))
    [] c.op = "revokeUser" -> Done((t \ Own(t, c.user)) \cup Spend(Own(t, c.user)))
    [] OTHER               -> RefreshCalls(t, c)
MemRefresh(t, c) ==
  CASE c.op = "create"     -> Put(t, New(c.user, Unset, 1, c.n))
    [] c.op = "revokeUser" -> Done((t \ Own(t, c.user)) \cup Spend(Own(t, c.user)))
    [] OTHER               -> RefreshCalls(t, c)

-----------------------------------------------------------------------------
(* agents: val is the profile, upd token_version.  UpdateAgent writes both *)
(* as the service last read them.                                          *)

AgentCalls(t, c) ==
  CASE c.op = "byID"   -> One(t, ById(t, c.id))
    [] c.op = "update" -> Amend(t, OwnId(t, c), {[r EXCEPT !.val = c.val, !.upd = c.n] : r \in OwnId(t, c)})
    [] c.op = "bump"   -> Bump(t, ById(t, c.id))
    [] OTHER           -> Scoped(t, c)

SqliteAgents(t, c) == IF c.op = "create" THEN Insert(t, New(c.user, Unset, 1, 0)) ELSE AgentCalls(t, c)
PgAgents(t, c)     == IF c.op = "create" THEN Insert(t, New(c.user, Unset, 1, 0)) ELSE AgentCalls(t, c)
MemAgents(t, c)    == IF c.op = "create" THEN Put(t, New(c.user, Unset, 1, 0)) ELSE AgentCalls(t, c)

-----------------------------------------------------------------------------
(* providers, and drives, whose key is the alias.                          *)

SqliteProviders(t, c) == IF c.op = "create" THEN Insert(t, New(c.user, Unset, 1, 0)) ELSE Scoped(t, c)
PgProviders(t, c)     == IF c.op = "create" THEN Insert(t, New(c.user, Unset, 1, 0)) ELSE Scoped(t, c)
MemProviders(t, c)    == IF c.op = "create" THEN Put(t, New(c.user, Unset, 1, 0)) ELSE Scoped(t, c)

ByAlias(t, c) == One(t, {r \in Own(t, c.user) : c.key # 0 /\ r.key = c.key})
Edited(t, c)  == {[r EXCEPT !.key = c.key, !.val = c.val] : r \in OwnId(t, c)}

\* Mutant: the alias is unique among the drives as they were created.
SqliteDrivesLoose(t, c) ==
  CASE c.op = "create"  -> InsertUnique(t, New(c.user, c.key, 1, 0))
    [] c.op = "byAlias" -> ByAlias(t, c)
    [] c.op = "update"  -> Amend(t, OwnId(t, c), Edited(t, c))
    [] OTHER            -> Scoped(t, c)
SqliteDrives(t, c) ==
  CASE c.op = "create"  -> InsertUnique(t, New(c.user, c.key, 1, 0))
    [] c.op = "byAlias" -> ByAlias(t, c)
    [] c.op = "update"  -> IF \E r \in Edited(t, c) : Clash(t, r) THEN Err(t)
                           ELSE Amend(t, OwnId(t, c), Edited(t, c))
    [] OTHER            -> Scoped(t, c)
PgDrives(t, c) ==
  CASE c.op = "create"  -> InsertUnique(t, New(c.user, c.key, 1, 0))
    [] c.op = "byAlias" -> ByAlias(t, c)
    [] c.op = "update"  -> IF \E r \in Edited(t, c) : Clash(t, r) THEN Err(t)
                           ELSE Amend(t, OwnId(t, c), Edited(t, c))
    [] OTHER            -> Scoped(t, c)
\* Nothing keeps two drives of a user from having one alias.
MemDrives(t, c) ==
  CASE c.op = "create"  -> Put(t, New(c.user, c.key, 1, 0))
    [] c.op = "byAlias" -> ByAlias(t, c)
    [] c.op = "update"  -> Amend(t, OwnId(t, c), Edited(t, c))
    [] OTHER            -> Scoped(t, c)

-----------------------------------------------------------------------------
(* bindings: key is the device, val the two states.  devices: ids are the  *)
(* callers' own.                                                           *)

BindingCalls(t, c) ==
  CASE c.op = "update" -> Amend(t, OwnId(t, c), {[r EXCEPT !.val = c.val] : r \in OwnId(t, c)})
    [] c.op = "list"   -> Answer(t, SetToSeqs(With(Own(t, c.user), c.key)))
    [] OTHER           -> Scoped(t, c)

SqliteBindings(t, c) == IF c.op = "create" THEN Insert(t, New(c.user, c.key, 1, 0)) ELSE BindingCalls(t, c)
PgBindings(t, c)     == IF c.op = "create" THEN Insert(t, New(c.user, c.key, 1, 0)) ELSE BindingCalls(t, c)
\* Mutant: the owner is not compared.
MemBindingsOpen(t, c) ==
  CASE c.op = "create" -> Put(t, New(c.user, c.key, 1, 0))
    [] c.op = "update" -> Amend(t, ById(t, c.id), {[r EXCEPT !.val = c.val] : r \in ById(t, c.id)})
    [] OTHER           -> BindingCalls(t, c)
MemBindings(t, c)    == IF c.op = "create" THEN Put(t, New(c.user, c.key, 1, 0)) ELSE BindingCalls(t, c)

Device(c) == [id |-> c.id, user |-> c.user, key |-> Unset, val |-> c.val, upd |-> 0]
Taken(t, c) == \E r \in ById(t, c.id) : r.user # c.user

SqliteDevices(t, c) == IF c.op = "upsert" THEN IF Taken(t, c) THEN Err(t) ELSE Put(t, Device(c))
                       ELSE Scoped(t, c)
\* ON CONFLICT ... WHERE leaves another user's row alone, and is no error.
PgDevices(t, c)     == IF c.op = "upsert" THEN IF Taken(t, c) THEN Done(t) ELSE Put(t, Device(c))
                       ELSE Scoped(t, c)
MemDevices(t, c)    == IF c.op = "upsert" THEN IF Taken(t, c) THEN Err(t) ELSE Put(t, Device(c))
                       ELSE Scoped(t, c)

-----------------------------------------------------------------------------
(* jobs: key is the idempotency key, val the status, upd updated_at once it *)
(* is terminal, the only time it is looked at.  All have one priority.  A  *)
(* page is after the cursor's row (c.n) in the order of the list, and is   *)
(* of one user's jobs (page) or, for an admin, of all (adminPage).         *)

\* Mutant: the cursor is the time alone.
AfterTime(S, i, T) == {r \in S : i # 0 => T[r.id] < T[i]}

After(S, i, T) ==
  {r \in S : i # 0 => \/ T[r.id] < T[i]
                      \/ T[r.id] = T[i] /\ names[r.id] < names[i]}
InStatus(S, c)    == {r \in S : c.val \in JobVals => r.val = c.val}
ForUser(t, u)     == {r \in t : u # Unset => r.user = u}

Page(t, c, T) ==
  Answer(t, Newest(After(InStatus(ForUser(t, c.user), c), c.n, T), Limit, ByIds(T)))

Running(t, c, T) ==
  Answer(t, {Reverse(l) : l \in Latest({r \in ForUser(t, c.user) : r.val = "running"}, ByIds(T))})

Claimed(S) == {[r EXCEPT !.val = "running"] : r \in {x \in S : x.val = "pending"}}

Settle(r, v) == [r EXCEPT !.val = v, !.upd = IF v \in Terminal THEN now ELSE 0]

JobCalls(t, c) ==
  CASE c.op = "get"     -> One(t, OwnId(t, c))
    [] c.op = "byID"    -> One(t, ById(t, c.id))
    [] c.op = "byKey"   -> ByAlias(t, c)
    [] c.op = "count"   -> Count(t, ForUser(t, c.user))
    [] c.op = "claim"   -> LET S == {r \in OwnId(t, c) : r.val = "pending"} IN Amend(t, S, Claimed(S))
    [] c.op = "update"  -> Amend(t, OwnId(t, c), {Settle(r, c.val) : r \in OwnId(t, c)})

(* PurgeTerminalJobs: the oldest first, by updated_at, before the cut c.n; *)
(* of rows of one time, some.                                              *)
Doomed(t, V, c, T) ==
  ToSet(CHOOSE l \in Oldest({r \in t : r.val \in V /\ T[r.upd] < T[c.n]}, Limit, T) : TRUE)

OldJobs(t, c, T) == Done(t \ Doomed(t, Terminal, c, T))

SqliteJobs(t, c) ==
  CASE c.op = "create"  -> InsertUnique(t, New(c.user, c.key, "pending", 0))
    [] c.op \in {"page", "adminPage"} -> Page(t, c, Text)
    [] c.op = "list"    -> Answer(t, Latest(Own(t, c.user), Text))
    [] c.op = "pending" -> Answer(t, {Reverse(l) : l \in Latest({r \in Own(t, c.user) : r.val = "pending"}, Text)})
    [] c.op = "running" -> Running(t, c, Text)
    [] c.op = "purge"   -> OldJobs(t, c, Text)
    [] OTHER            -> JobCalls(t, c)
PgJobs(t, c) ==
  CASE c.op = "create"  -> InsertUnique(t, New(c.user, c.key, "pending", 0))
    [] c.op \in {"page", "adminPage"} -> Page(t, c, Clock)
    [] c.op = "list"    -> Answer(t, Latest(Own(t, c.user), Clock))
    [] c.op = "pending" -> Answer(t, {Reverse(l) : l \in Latest({r \in Own(t, c.user) : r.val = "pending"}, Clock)})
    [] c.op = "running" -> Running(t, c, Clock)
    [] c.op = "purge"   -> OldJobs(t, c, Clock)
    [] OTHER            -> JobCalls(t, c)
\* No unique idempotency key; the plain lists are in the map's order.
MemJobs(t, c) ==
  CASE c.op = "create"  -> Put(t, New(c.user, c.key, "pending", 0))
    [] c.op \in {"page", "adminPage"} -> Page(t, c, Clock)
    [] c.op = "list"    -> Answer(t, SetToSeqs(Own(t, c.user)))
    [] c.op = "pending" -> Answer(t, SetToSeqs({r \in Own(t, c.user) : r.val = "pending"}))
    [] c.op = "running" -> Running(t, c, Clock)
    [] c.op = "purge"   -> OldJobs(t, c, Clock)
    [] OTHER            -> JobCalls(t, c)

-----------------------------------------------------------------------------
(* job_webhook_outbox: key is the job, val the status, upd next_attempt_at *)
(* of a pending row and updated_at of a settled one.                       *)

BoxCalls(t, c, T) ==
  CASE c.op = "due"    -> Answer(t, Oldest({r \in t : r.val = "pending" /\ T[r.upd] =< T[now]}, Limit, T))
    [] c.op = "update" -> Amend(t, ById(t, c.id), {[r EXCEPT !.val = c.val, !.upd = c.n] : r \in ById(t, c.id)})
    [] c.op = "get"    -> One(t, ById(t, c.id))
    [] c.op = "list"   -> Answer(t, Newest(With(ForUser({r \in t : r.val = c.val}, c.user), c.key), Limit, T))
    [] c.op = "count"  -> Count(t, t)
    [] c.op = "ofJob"  -> Done({r \in t : r.key # c.key})
    [] c.op = "purge"  -> Done(t \ Doomed(t, BoxVals \ {"pending"}, c, T))

SqliteOutbox(t, c) == IF c.op = "enqueue" THEN Insert(t, New(c.user, c.key, "pending", now))
                      ELSE BoxCalls(t, c, Text)
PgOutbox(t, c)     == IF c.op = "enqueue" THEN Insert(t, New(c.user, c.key, "pending", now))
                      ELSE BoxCalls(t, c, Clock)
MemOutbox(t, c)    == IF c.op = "enqueue" THEN Insert(t, New(c.user, c.key, "pending", now))
                      ELSE BoxCalls(t, c, Clock)

-----------------------------------------------------------------------------
(* snapshots: key is the drive.                                            *)

OfDrive(t, c) == {r \in Own(t, c.user) : r.key = c.key}
SnapshotCalls(t, c, T) ==
  CASE c.op = "list"   -> Answer(t, Newest(OfDrive(t, c), Limit, T))
    [] c.op = "get"    -> One(t, ById(OfDrive(t, c), c.id))
    [] c.op = "delete" -> Erase(t, ById(OfDrive(t, c), c.id))

SqliteSnapshots(t, c) == IF c.op = "create" THEN Insert(t, New(c.user, c.key, 1, 0)) ELSE SnapshotCalls(t, c, Text)
\* Mutant: ORDER BY created_at without DESC.
PgSnapshotsAsc(t, c) == IF c.op = "create" THEN Insert(t, New(c.user, c.key, 1, 0))
                        ELSE SnapshotCalls(t, c, [i \in DOMAIN times |-> -Clock[i]])
PgSnapshots(t, c)     == IF c.op = "create" THEN Insert(t, New(c.user, c.key, 1, 0)) ELSE SnapshotCalls(t, c, Clock)
MemSnapshots(t, c)    == IF c.op = "create" THEN Put(t, New(c.user, c.key, 1, 0)) ELSE SnapshotCalls(t, c, Clock)

-----------------------------------------------------------------------------
(* memory_entries: upd is expires_at, 0 for never.  SQL takes three pages  *)
(* of the user's entries and filters them; memory filters first.           *)

Fresh(S) == {r \in S : ~ (r.upd # 0 /\ Clock[r.upd] < Clock[now])}
FreshOnly(l, k) == Cut(Pass(l, Fresh(With(ToSet(l), k))), Limit)

SqliteMemory(t, c) ==
  CASE c.op = "create" -> Insert(t, New(c.user, c.key, 1, c.n))
    [] c.op = "list"   -> Answer(t, {FreshOnly(l, c.key) : l \in Newest(Own(t, c.user), 3 * Limit, Text)})
    [] OTHER           -> Scoped(t, c)
PgMemory(t, c) ==
  CASE c.op = "create" -> Insert(t, New(c.user, c.key, 1, c.n))
    [] c.op = "list"   -> Answer(t, {FreshOnly(l, c.key) : l \in Newest(Own(t, c.user), 3 * Limit, Clock)})
    [] OTHER           -> Scoped(t, c)
MemMemory(t, c) ==
  CASE c.op = "create" -> Put(t, New(c.user, c.key, 1, c.n))
    [] c.op = "list"   -> Answer(t, Newest(Fresh(With(Own(t, c.user), c.key)), Limit, Clock))
    [] OTHER           -> Scoped(t, c)

-----------------------------------------------------------------------------
(* marketplace_items: user is the publisher, val 2 makes the item public.  *)
(* Both SQL stores take one page of all items and filter it.               *)

Shown(S, c) == {r \in ForUser(S, c.user) : c.val = 2 => r.val = 2}
MarketCalls(t, c) ==
  CASE c.op = "create" -> Insert(t, New(c.user, Unset, c.val, 0))
    [] c.op = "get"    -> One(t, ById(t, c.id))
    [] c.op = "delete" -> Erase(t, OwnId(t, c))

SqliteMarket(t, c) ==
  IF c.op = "list" THEN Answer(t, {Pass(l, Shown(t, c)) : l \in Newest(t, Limit, Text)})
  ELSE MarketCalls(t, c)
PgMarket(t, c) ==
  IF c.op = "list" THEN Answer(t, {Pass(l, Shown(t, c)) : l \in Newest(t, Limit, Clock)})
  ELSE MarketCalls(t, c)
MemMarket(t, c) ==
  IF c.op = "list" THEN Answer(t, SetToSeqs(Shown(t, c))) ELSE MarketCalls(t, c)

-----------------------------------------------------------------------------
(* lineage_events: key is the entity.  SQL filters two pages of events.    *)

SqliteLineage(t, c) ==
  IF c.op = "append" THEN Insert(t, New(c.user, c.key, 1, 0))
  ELSE Answer(t, {Keep(l, c.key, Limit) : l \in Newest(Own(t, c.user), 2 * Limit, Text)})
PgLineage(t, c) ==
  IF c.op = "append" THEN Insert(t, New(c.user, c.key, 1, 0))
  ELSE Answer(t, {Keep(l, c.key, Limit) : l \in Newest(Own(t, c.user), 2 * Limit, Clock)})
MemLineage(t, c) ==
  IF c.op = "append" THEN Done(t \cup {New(c.user, c.key, 1, 0)})
  ELSE Answer(t, Newest(With(Own(t, c.user), c.key), Limit, Position))

-----------------------------------------------------------------------------
(* graph_edges: the id is a hash of the user and the edge, key is the      *)
(* subject.  SQL filters three pages, in no order.                         *)

Edge(c) == [id |-> (c.user - 1) * NKeys + c.key, user |-> c.user, key |-> c.key, val |-> c.val, upd |-> 0]

SqliteGraph(t, c) ==
  IF c.op = "upsert" THEN Put(t, Edge(c))
  ELSE Answer(t, {Keep(l, c.key, Limit) : l \in AnyOrder(Own(t, c.user), 3 * Limit)})
PgGraph(t, c) ==
  IF c.op = "upsert" THEN Put(t, Edge(c))
  ELSE Answer(t, {Keep(l, c.key, Limit) : l \in AnyOrder(Own(t, c.user), 3 * Limit)})
MemGraph(t, c) ==
  IF c.op = "upsert" THEN Put(t, Edge(c))
  ELSE Answer(t, AnyOrder(With(Own(t, c.user), c.key), Limit))

-----------------------------------------------------------------------------
(* purchases: val is the status.  connectors.                              *)

PurchaseCalls(t, c) ==
  CASE c.op = "create" -> Insert(t, New(c.user, Unset, 1, 0))
    [] c.op = "get"    -> One(t, OwnId(t, c))
    [] c.op = "update" -> Amend(t, OwnId(t, c), {[r EXCEPT !.val = c.val] : r \in OwnId(t, c)})

SqlitePurchases(t, c) ==
  IF c.op = "list" THEN Answer(t, Newest(Own(t, c.user), Limit, Text)) ELSE PurchaseCalls(t, c)
PgPurchases(t, c) ==
  IF c.op = "list" THEN Answer(t, Newest(Own(t, c.user), Limit, Clock)) ELSE PurchaseCalls(t, c)
\* UpdatePurchase replaces the row whoever owns it; a list is cut unsorted.
MemPurchases(t, c) ==
  CASE c.op = "list"   -> Answer(t, AnyOrder(Own(t, c.user), Limit))
    [] c.op = "update" -> IF ById(t, c.id) = {} THEN Err(t)
                          ELSE Put(t, [id |-> c.id, user |-> c.user, key |-> Unset, val |-> c.val, upd |-> 0])
    [] OTHER           -> PurchaseCalls(t, c)

SqliteConnectors(t, c) ==
  CASE c.op = "create" -> Insert(t, New(c.user, Unset, 1, 0))
    [] c.op = "list"   -> Answer(t, Latest(Own(t, c.user), Text))
    [] OTHER           -> Scoped(t, c)
PgConnectors(t, c) ==
  CASE c.op = "create" -> Insert(t, New(c.user, Unset, 1, 0))
    [] c.op = "list"   -> Answer(t, Latest(Own(t, c.user), Clock))
    [] OTHER           -> Scoped(t, c)
MemConnectors(t, c) == IF c.op = "create" THEN Put(t, New(c.user, Unset, 1, 0)) ELSE Scoped(t, c)

-----------------------------------------------------------------------------
(* A call of the interface, on each backend.                               *)

Sqlite(tb, t, c) ==
  CASE tb = "users"     -> SqliteUsers(t, c)     [] tb = "audit"      -> SqliteAudit(t, c)
    [] tb = "jtis"      -> SqliteJtis(t, c)      [] tb = "refresh"    -> SqliteRefresh(t, c)
    [] tb = "agents"    -> SqliteAgents(t, c)    [] tb = "providers"  -> SqliteProviders(t, c)
    [] tb = "drives"    -> SqliteDrives(t, c)    [] tb = "bindings"   -> SqliteBindings(t, c)
    [] tb = "devices"   -> SqliteDevices(t, c)   [] tb = "jobs"       -> SqliteJobs(t, c)
    [] tb = "outbox"    -> SqliteOutbox(t, c)    [] tb = "snapshots"  -> SqliteSnapshots(t, c)
    [] tb = "memory"    -> SqliteMemory(t, c)    [] tb = "market"     -> SqliteMarket(t, c)
    [] tb = "lineage"   -> SqliteLineage(t, c)   [] tb = "graph"      -> SqliteGraph(t, c)
    [] tb = "purchases" -> SqlitePurchases(t, c) [] tb = "connectors" -> SqliteConnectors(t, c)

Postgres(tb, t, c) ==
  CASE tb = "users"     -> PgUsers(t, c)     [] tb = "audit"      -> PgAudit(t, c)
    [] tb = "jtis"      -> PgJtis(t, c)      [] tb = "refresh"    -> PgRefresh(t, c)
    [] tb = "agents"    -> PgAgents(t, c)    [] tb = "providers"  -> PgProviders(t, c)
    [] tb = "drives"    -> PgDrives(t, c)    [] tb = "bindings"   -> PgBindings(t, c)
    [] tb = "devices"   -> PgDevices(t, c)   [] tb = "jobs"       -> PgJobs(t, c)
    [] tb = "outbox"    -> PgOutbox(t, c)    [] tb = "snapshots"  -> PgSnapshots(t, c)
    [] tb = "memory"    -> PgMemory(t, c)    [] tb = "market"     -> PgMarket(t, c)
    [] tb = "lineage"   -> PgLineage(t, c)   [] tb = "graph"      -> PgGraph(t, c)
    [] tb = "purchases" -> PgPurchases(t, c) [] tb = "connectors" -> PgConnectors(t, c)

Memory(tb, t, c) ==
  CASE tb = "users"     -> MemUsers(t, c)     [] tb = "audit"      -> MemAudit(t, c)
    [] tb = "jtis"      -> MemJtis(t, c)      [] tb = "refresh"    -> MemRefresh(t, c)
    [] tb = "agents"    -> MemAgents(t, c)    [] tb = "providers"  -> MemProviders(t, c)
    [] tb = "drives"    -> MemDrives(t, c)    [] tb = "bindings"   -> MemBindings(t, c)
    [] tb = "devices"   -> MemDevices(t, c)   [] tb = "jobs"       -> MemJobs(t, c)
    [] tb = "outbox"    -> MemOutbox(t, c)    [] tb = "snapshots"  -> MemSnapshots(t, c)
    [] tb = "memory"    -> MemMemory(t, c)    [] tb = "market"     -> MemMarket(t, c)
    [] tb = "lineage"   -> MemLineage(t, c)   [] tb = "graph"      -> MemGraph(t, c)
    [] tb = "purchases" -> MemPurchases(t, c) [] tb = "connectors" -> MemConnectors(t, c)

Do(b, tb, t, c) == CASE b = "sqlite"   -> Sqlite(tb, t, c)
                     [] b = "postgres" -> Postgres(tb, t, c)
                     [] b = "memory"   -> Memory(tb, t, c)

-----------------------------------------------------------------------------
(* The calls the services make.  Arguments a call does not have are 0.     *)

Calls0(ops, U, I, K, V, N) ==
  [op : ops, user : U, id : I, key : K, val : V, n : N]

O == {0}
S == {"none"}
Known == {r.id : r \in rows}
Some  == Known \cup {now}           \* an id that is there, or is not yet

Crud(K) == Calls0({"create"}, Users, O, K, O, O) \cup Calls0({"get", "delete"}, Users, Some, O, O, O)
             \cup Calls0({"list"}, Users, O, O, O, O)

(* A service reads a purchase by its owner before it updates it, and an    *)
(* agent's token_version is one it read or the next.                       *)
Calls(tb) ==
  CASE tb = "users" -> Calls0({"create"}, O, O, Keys, {1}, O) \cup Calls0({"byKey"}, O, O, Keys, O, O)
                       \cup Calls0({"byID", "bump"}, O, Some, O, O, O) \cup Calls0({"set"}, O, Some, O, {1, 2}, O)
                       \cup Calls0({"list", "count"}, O, O, O, O, O)
    [] tb \in {"audit", "lineage"} -> Calls0({"append"}, Users, O, Keys, O, O)
                       \cup Calls0({"list"}, IF tb = "audit" THEN OrUnset(Users) ELSE Users, O, OrUnset(Keys), O, O)
    [] tb = "jtis" -> Calls0({"revoke"}, O, 1..2, O, O, (now + 1)..MaxNow) \cup Calls0({"check"}, O, 1..2, O, O, O)
    [] tb = "refresh" -> Calls0({"create"}, Users, O, O, O, (now + 1)..MaxNow)
                       \cup Calls0({"byHash", "revoke"}, O, Some, O, O, O) \cup Calls0({"revokeUser"}, Users, O, O, O, O)
    [] tb = "agents" -> Crud(O) \cup Calls0({"byID", "bump"}, O, Some, O, O, O)
                       \cup Calls0({"update"}, Users, Some, O, {1, 2}, {r.upd + d : r \in rows, d \in {0, 1}})
    [] tb \in {"providers", "connectors"} -> Crud(O)
    [] tb = "drives" -> Crud(OrUnset(Keys)) \cup Calls0({"byAlias"}, Users, O, OrUnset(Keys), O, O)
                       \cup Calls0({"update"}, Users, Some, OrUnset(Keys), {2}, O)
    [] tb = "bindings" -> Calls0({"create"}, Users, O, Keys, O, O) \cup Calls0({"get"}, Users, Some, O, O, O)
                       \cup Calls0({"update"}, Users, Some, O, {1, 2}, O) \cup Calls0({"list"}, Users, O, OrUnset(Keys), O, O)
    [] tb = "devices" -> Calls0({"upsert"}, Users, 1..2, O, {1, 2}, O) \cup Calls0({"get"}, Users, 1..2, O, O, O)
                       \cup Calls0({"list"}, Users, O, O, O, O)
    [] tb = "jobs" -> Calls0({"create"}, Users, O, OrUnset(Keys), S, O) \cup Calls0({"get", "claim"}, Users, Some, O, S, O)
                       \cup Calls0({"byID"}, O, Some, O, S, O) \cup Calls0({"byKey"}, Users, O, OrUnset(Keys), S, O)
                       \cup Calls0({"list", "pending"}, Users, O, O, S, O)
                       \cup Calls0({"running", "count"}, OrUnset(Users), O, O, S, O)
                       \cup Calls0({"page"}, Users, O, O, {"all", "pending"}, OrUnset(Known))
                       \cup Calls0({"adminPage"}, OrUnset(Users), O, O, {"all", "running"}, OrUnset(Known))
                       \cup Calls0({"update"}, Users, Some, O, JobVals, O) \cup Calls0({"purge"}, O, O, O, S, 1..now)
    [] tb = "outbox" -> Calls0({"enqueue"}, Users, O, Keys, S, O) \cup Calls0({"due", "count"}, O, O, O, S, O)
                       \cup Calls0({"update"}, O, Known, O, BoxVals, {now, now + 1}) \cup Calls0({"get"}, O, Some, O, S, O)
                       \cup Calls0({"list"}, OrUnset(Users), O, OrUnset(Keys), BoxVals, O)
                       \cup Calls0({"ofJob"}, O, O, Keys, S, O) \cup Calls0({"purge"}, O, O, O, S, 1..now)
    [] tb = "snapshots" -> Calls0({"create", "list"}, Users, O, Keys, O, O)
                       \cup Calls0({"get", "delete"}, Users, Some, Keys, O, O)
    [] tb = "memory" -> Calls0({"create"}, Users, O, Keys, O, {0} \cup ((now + 1)..MaxNow))
                       \cup Calls0({"get", "delete"}, Users, Some, O, O, O) \cup Calls0({"list"}, Users, O, OrUnset(Keys), O, O)
    [] tb = "market" -> Calls0({"create"}, Users, O, O, {1, 2}, O) \cup Calls0({"get"}, O, Some, O, O, O)
                       \cup Calls0({"delete"}, Users, Some, O, O, O) \cup Calls0({"list"}, OrUnset(Users), O, O, {1, 2}, O)
    [] tb = "graph" -> Calls0({"upsert"}, Users, O, Keys, {1, 2}, O) \cup Calls0({"list"}, Users, O, OrUnset(Keys), O, O)
    [] tb = "purchases" -> Calls0({"create", "list"}, Users, O, O, O, O) \cup Calls0({"get"}, Users, Some, O, O, O)
                       \cup {[op |-> "update", user |-> r.user, id |-> r.id, key |-> 0, val |-> v, n |-> 0] : r \in rows, v \in {1, 2}}

-----------------------------------------------------------------------------
(* The program.                                                            *)

Makers == {"create", "append", "enqueue"}

Init == /\ backend \in Backends /\ table \in Tables
        /\ \E s \in Timelines : times = s.at /\ names = s.name
        /\ rows = {} /\ now = 1

(* A call of the store; a new row takes the present instant for its own.   *)
Call(c) ==
  /\ c.op \in Makers => now < MaxNow /\ Cardinality(rows) < MaxRows[table]
  /\ rows' = Do(backend, table, rows, c).rows
  /\ \A r \in rows' : r.upd =< MaxNow + 1        \* bound on token versions
  /\ now' = IF c.op \in Makers THEN now + 1 ELSE now
  /\ UNCHANGED <<backend, table, times, names>>

(* Time passes.                                                            *)
Tick == /\ now < MaxNow /\ now' = now + 1 /\ UNCHANGED <<backend, table, rows, times, names>>

Next == Tick \/ \E c \in Calls(table) : Call(c)

Spec == Init /\ [][Next]_vars

-----------------------------------------------------------------------------
(* Properties.                                                             *)

(* The memory store's audit slice is full: an append cuts its oldest event. *)
Trims(b, c) == b = "memory" /\ table = "audit" /\ c.op = "append" /\ Cardinality(rows) >= AuditCap

\* A call made for a user shows only rows of that user and leaves every row
\* of another user as it was, on every backend and from every state any of
\* them reaches: the user_id conditions of the statements are complete.  One
\* call does reach another user's row: an event appended to the memory
\* store's full audit slice removes older events than all it keeps, whoever
\* they belong to.
TenantsApart ==
  \A b \in Stores3, c \in Calls(table) : c.user # Unset =>
    LET a == Do(b, table, rows, c)
    IN /\ \A l \in a.lists : \A r \in ToSet(l) : r.user = c.user
       /\ \A r \in rows : r.user # c.user =>
            \/ r \in a.rows
            \/ Trims(b, c) /\ \A x \in a.rows : r.id < x.id

(* The texts compare like the times, as where no fraction ends in a zero   *)
(* and all texts are of one length.  RFC3339Nano drops such zeros.         *)
InStep == \A i, j \in DOMAIN times : times[i] < times[j] => Text[i] < Text[j]

Same(a, b) == /\ a.err = b.err /\ a.rows = b.rows
              /\ {ToSet(l) : l \in a.lists} = {ToSet(l) : l \in b.lists}

(* More rows than a page, and two of one time: which of the two is shown or *)
(* purged is left open.                                                    *)
TiedAudit(c) == /\ table = "audit" /\ c.op = "list" /\ Cardinality(rows) > Limit
                /\ \E r, x \in rows : r.id # x.id /\ times[r.id] = times[x.id]
TiedPurge(c) == /\ c.op = "purge" /\ Cardinality(rows) > Limit
                /\ \E r, x \in {y \in rows : y.upd # 0} : r.id # x.id /\ times[r.upd] = times[x.upd]

Crowded(c) == c.op = "list" /\ Cardinality(rows) > Limit
              /\ table \in {"memory", "lineage", "graph", "market", "purchases"}
Clashes(c) == c.op \in {"create", "update"} /\ table \in {"drives", "jobs"}
              /\ \E r \in rows : r.user = c.user /\ r.key = c.key /\ c.key # 0

\* The three stores accept the same calls, may show the same rows and leave
\* the same table behind, as long as SQLite's texts compare like the times,
\* with these exceptions.  PostgreSQL's UpsertDevice of an id another user
\* holds reports success, where SQLite reports the conflict.  A purge of more
\* than a page chooses freely among rows of one time (TiedPurge).  The
\* in-memory store has no unique index on aliases and idempotency keys
\* (Clashes); it cuts its audit slice (Trims), which SQL never does, and
\* lists it by the order of appending, not by time (TiedAudit); and lists
\* that SQL cuts before it filters, or that memory cuts unsorted, may differ
\* once a table holds more than a page (Crowded).
StoresAgree ==
  InStep => \A c \in Calls(table) :
    LET pg == Postgres(table, rows, c)
    IN  \/ table = "devices" /\ c.op = "upsert" /\ Taken(rows, c)
        \/ TiedPurge(c)
        \/ /\ Same(Sqlite(table, rows, c), pg)
           /\ \/ Crowded(c) \/ Clashes(c) \/ Trims("memory", c) \/ TiedAudit(c)
              \/ Same(Memory(table, rows, c), pg)

\* In a SQL store no two drives of a user share an alias and no two jobs of a
\* user an idempotency key, whatever creates and updates race; usernames are
\* unique in every store.
UniqueKept ==
  /\ backend # "memory" /\ table \in {"drives", "jobs"} => ~ \E r \in rows : Clash(rows, r)
  /\ table = "users" => \A r, x \in rows : r.key = x.key => r = x

Cursor(b, c, i) == CHOOSE l \in Do(b, table, rows, [c EXCEPT !.n = i]).lists : TRUE

(* The rows a client gathers that follows the cursors from the first page. *)
Walk(b, c) ==
  LET W[n \in 0..MaxNow] ==
        IF n = 0 THEN <<>>
        ELSE LET w == W[n - 1]
             IN w \o Cursor(b, c, IF w = <<>> THEN 0 ELSE Last(w).id)
  IN W[MaxNow]

\* Keyset pagination of job lists skips no row and repeats none: the pages
\* that follow each other's cursors hold every matching job exactly once, also
\* where a page ends among jobs of one created_at, whose order and cursor go
\* by id, and in SQLite, where both go by the text of created_at.
PagesJoin ==
  table = "jobs" =>
    \A b \in Stores3, c \in {x \in Calls(table) : x.op \in {"page", "adminPage"} /\ x.n = 0} :
      LET w == Walk(b, c)  all == InStatus(ForUser(rows, c.user), c)
      IN ToSet(w) = all /\ Len(w) = Cardinality(all)

\* What has been revoked stays revoked, whatever calls follow: a spent refresh
\* token is never usable again, a revoked token id is known until it expires
\* (RevokeJTI prunes others; SQLite by the text of expires_at, so there only
\* where texts compare like times), and a user's token_version never goes back.
RevocationSticks ==
  [][/\ table = "refresh" => \A r \in rows : r.val = 2 => r \in rows'
     /\ table = "jtis" /\ (backend = "sqlite" => InStep) =>
          \A r \in rows : Clock[now] =< Clock[r.upd] => r.id \in {x.id : x \in rows'}
     /\ table = "users" => \A r \in rows : \E x \in rows' : x.id = r.id /\ x.upd >= r.upd]_vars

Listing == {<<"audit", "list">>, <<"outbox", "list">>, <<"snapshots", "list">>,
            <<"jobs", "page">>, <<"jobs", "adminPage">>}

\* The lists the interface calls newest first are: of two rows shown, none
\* comes before one of a later time, and jobs of one time come by their ids,
\* as the cursor of the next page takes for granted; in SQLite, which sorts
\* texts, only where texts compare like times.
ListsNewestFirst ==
  (backend = "sqlite" => InStep) => \A c \in Calls(table) : <<table, c.op>> \in Listing =>
    \A l \in Do(backend, table, rows, c).lists :
      \A i, j \in DOMAIN l : i < j =>
        /\ times[l[i].id] >= times[l[j].id]
        /\ table = "jobs" /\ times[l[i].id] = times[l[j].id] => names[l[i].id] > names[l[j].id]
=============================================================================
