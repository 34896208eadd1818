---------------------------- MODULE StoresProofs ----------------------------
(***************************************************************************)
(* Proofs about Stores: what its calls do to the rows of a table, for      *)
(* every table and backend, any number of users, keys, rows and instants.  *)
(*                                                                         *)
(* Inv is inductive.  Each table has a lemma <Table>Kept which says that a *)
(* call on it, on any of the three backends, is Kept: it leaves rows of    *)
(* other users alone and hands out no id that is someone else's; a lemma   *)
(* <Table>Show, that what it shows a user is the user's own; and a lemma   *)
(* <Table>Agree, that the three backends answer it alike.  What they rest  *)
(* on are the lists a set can be put in, of which the middle of the module *)
(* speaks: a member's place in a sorted list is the number of members that *)
(* come no later, which needs no induction.                                *)
(***************************************************************************)
EXTENDS Stores, FiniteSetTheorems, SequenceTheorems, TLAPS

Vals == IF table \in {"jobs", "outbox"} THEN JobVals \cup BoxVals ELSE {1, 2}

Row == [id : Nat, user : Nat, key : Nat, val : Vals, upd : Nat]

(* Tables whose ids the services make up, and the id of an edge.           *)
Handed     == table \notin {"jtis", "devices", "graph"}
Hash(u, k) == (u - 1) * NKeys + k

World == /\ backend \in Stores3 /\ table \in Tables /\ now \in 1..MaxNow
         /\ \E s \in Timelines : times = s.at /\ names = s.name
Typed == rows \subseteq Row /\ IsFiniteSet(rows)

(* An id that was made up is of the past, so the next one is free: a map   *)
(* assignment of a new row replaces nothing.                               *)
Dated == Handed => \A r \in rows : r.id \in 1..(now - 1)

(* No two rows have one id: replacing a row by its id alone, as            *)
(* UpdatePurchase does in memory, takes nothing from anyone else.          *)
Once(t) == \A r, x \in t : r.id = x.id => r = x

(* An edge's id is the hash of its user and its key.                       *)
Hashed == table = "graph" => \A r \in rows :
            r.user \in Users /\ r.key \in Keys /\ r.id = Hash(r.user, r.key)

(* A revoked token id expires at an instant, and is of no user.            *)
Lasting == table = "jtis" => \A r \in rows : r.upd \in 1..MaxNow /\ r.user = Unset

Inv == World /\ Typed /\ Dated /\ Once(rows) /\ Hashed /\ Lasting

(* The times a purge or a delivery compares are instants, and a purchase   *)
(* has only a status besides its owner.                                    *)
Settled ==
  \A r \in rows : /\ table = "jobs" /\ r.val \in Terminal => r.upd \in 1..(MaxNow + 1)
                  /\ table = "outbox" => r.upd \in 1..(MaxNow + 1)
                  /\ table = "purchases" => r.key = Unset /\ r.upd = 0

(* An event appended to the audit log may cut others of the memory store.  *)
Cuts(c) == table = "audit" /\ c.op = "append"

(* What a call may make of the rows: rows of other users stay but for cut  *)
(* events, no id is there twice, and rows not there before keep the id and *)
(* user of one that was, or there is one and its id is no other user's.    *)
Kept(t2, c) ==
  /\ t2 \subseteq Row /\ Once(t2)
  /\ \A r \in rows : c.user # Unset /\ r.user # c.user /\ ~ Cuts(c) => r \in t2
  /\ \/ \A x \in t2 : \E r \in rows : r.id = x.id /\ r.user = x.user
     \/ \E n : /\ \A x \in t2 : x \in rows \/ x = n
               /\ \A r \in rows : r.id = n.id => r.user = n.user
               /\ Handed => n.id = now /\ c.op \in Makers

-----------------------------------------------------------------------------
(* The statements.                                                         *)

LEMMA InsertRows ==
  ASSUME NEW t, NEW r
  PROVE  /\ r.id \in Ids(t) => Insert(t, r).rows = t
         /\ r.id \notin Ids(t) => Insert(t, r).rows = t \cup {r}
  BY DEF Err, Done, Insert

LEMMA PutRows ==
  ASSUME NEW t, NEW r
  PROVE  Put(t, r).rows = {x \in t : x.id # r.id} \cup {r}
  BY DEF Done, Put

LEMMA AmendRows ==
  ASSUME NEW t, NEW Z, NEW T
  PROVE  /\ Z = {} => Amend(t, Z, T).rows = t
         /\ Z # {} => Amend(t, Z, T).rows = (t \ Z) \cup T
  BY DEF Err, Done, Amend

LEMMA EraseRows ==
  ASSUME NEW t, NEW Z
  PROVE  Erase(t, Z).rows = t \ Z
  BY DEF Err, Done, Erase

(* What only looks.                                                        *)
LEMMA QuietRows ==
  ASSUME NEW t
  PROVE  /\ Err(t).rows = t /\ Done(t).rows = t
         /\ \A L : Answer(t, L).rows = t
         /\ \A Z : One(t, Z).rows = t /\ Count(t, Z).rows = t
  BY DEF Err, Done, Answer, One, Count

LEMMA NewRow ==
  ASSUME World, NEW u \in Nat, NEW k \in Nat, NEW v \in Vals, NEW x \in Nat
  PROVE  /\ New(u, k, v, x) \in Row /\ New(u, k, v, x).id = now /\ New(u, k, v, x).user = u
         /\ New(u, k, v, x).key = k
  BY SizesAssumption DEF New, Row, World

(* Instants, their fractions and the order of the ids' texts.              *)
LEMMA Timescale ==
  ASSUME World
  PROVE  /\ times \in [1..(MaxNow + 1) -> 0..99]
         /\ names \in [1..(MaxNow + 1) -> 1..(MaxNow + 1)]
         /\ \A i, j \in 1..(MaxNow + 1) : i < j => times[i] =< times[j] /\ names[i] # names[j]
<1>1. PICK s \in Timelines : times = s.at /\ names = s.name
  BY DEF World
<1>. QED
  BY <1>1, TimelinesAssumption

LEMMA KeptSame ==
  ASSUME Inv, NEW c
  PROVE  Kept(rows, c)
  BY DEF Inv, Typed, Kept

LEMMA KeptLess ==
  ASSUME Inv, NEW c, NEW Z, \A r \in rows : r \in Z /\ c.user # Unset => r.user = c.user
  PROVE  Kept(rows \ Z, c)
  BY DEF Inv, Typed, Kept, Once

LEMMA KeptMade ==
  ASSUME Inv, Handed, NEW c, c.op \in Makers, NEW n \in Row, n.id = now
  PROVE  Kept(Insert(rows, n).rows, c) /\ Kept(Put(rows, n).rows, c) /\ Kept(rows \cup {n}, c)
<1>1. \A r \in rows : r.id # n.id
  BY SizesAssumption DEF Inv, World, Typed, Dated, Row
<1>2. Kept(rows \cup {n}, c)
  BY <1>1 DEF Inv, Typed, Kept, Once
<1>3. n.id \notin Ids(rows) /\ {x \in rows : x.id # n.id} = rows
  BY <1>1 DEF Ids
<1>4. Insert(rows, n).rows = rows \cup {n}
  BY <1>3, InsertRows
<1>5. Put(rows, n).rows = rows \cup {n}
  BY <1>3, PutRows
<1>. QED
  BY <1>2, <1>4, <1>5

LEMMA KeptCut ==
  ASSUME Inv, NEW c, Cuts(c), c.op \in Makers, NEW n \in Row, n.id = now,
         NEW t2 \in SUBSET (rows \cup {n})
  PROVE  Kept(t2, c)
<1>1. Handed
  BY DEF Cuts, Handed
<1>2. \A r \in rows : r.id # n.id
  BY <1>1, SizesAssumption DEF Inv, World, Typed, Dated, Row
<1>3. Once(t2)
  BY <1>2 DEF Inv, Once
<1>. QED
  BY <1>1, <1>2, <1>3 DEF Inv, Typed, Kept

LEMMA KeptAmended ==
  ASSUME Inv, NEW c, NEW Z \in SUBSET rows, NEW T \in SUBSET Row, Once(T),
         \A r \in Z : c.user # Unset => r.user = c.user,
         \A x \in T : \E r \in Z : r.id = x.id /\ r.user = x.user
  PROVE  Kept((rows \ Z) \cup T, c)
<1>1. Once((rows \ Z) \cup T)
  BY DEF Inv, Once
<1>. QED
  BY <1>1 DEF Inv, Typed, Kept

LEMMA KeptAmend ==
  ASSUME Inv, NEW c, NEW Z \in SUBSET rows, NEW T \in SUBSET Row, Once(T),
         \A r \in Z : c.user # Unset => r.user = c.user,
         \A x \in T : \E r \in Z : r.id = x.id /\ r.user = x.user
  PROVE  Kept(Amend(rows, Z, T).rows, c)
<1>1. Kept((rows \ Z) \cup T, c)
  BY KeptAmended
<1>2. Kept(rows, c)
  BY KeptSame
<1>3. Amend(rows, Z, T).rows = rows \/ Amend(rows, Z, T).rows = (rows \ Z) \cup T
  BY AmendRows
<1>. QED
  BY <1>1, <1>2, <1>3

LEMMA Edits ==
  ASSUME Inv, NEW r \in rows, NEW v \in Vals
  PROVE  /\ LET x == [r EXCEPT !.val = v]
            IN x \in Row /\ x.id = r.id /\ x.user = r.user
         /\ LET x == [r EXCEPT !.upd = @ + 1]
            IN x \in Row /\ x.id = r.id /\ x.user = r.user
         /\ r \in Row
<1>1. r \in Row
  BY DEF Inv, Typed
<1>2. r.upd + 1 \in Nat
  BY <1>1 DEF Row
<1>. QED
  BY <1>1, <1>2 DEF Row

LEMMA Selections ==
  ASSUME NEW c
  PROVE  /\ \A r \in OwnId(rows, c) : r \in rows /\ r.user = c.user /\ r.id = c.id
         /\ \A i : \A r \in ById(rows, i) : r \in rows
         /\ \A u : \A r \in Own(rows, u) : r \in rows /\ r.user = u
  BY DEF OwnId, ById, Own

(* A call is one of three, by backend.                                     *)
LEMMA DoTable ==
  ASSUME NEW b \in Stores3, NEW t, NEW c
  PROVE  /\ Do(b, "users", t, c) \in {SqliteUsers(t, c), PgUsers(t, c), MemUsers(t, c)}
         /\ Do(b, "audit", t, c) \in {SqliteAudit(t, c), PgAudit(t, c), MemAudit(t, c)}
         /\ Do(b, "jtis", t, c) \in {SqliteJtis(t, c), PgJtis(t, c), MemJtis(t, c)}
         /\ Do(b, "refresh", t, c) \in {SqliteRefresh(t, c), PgRefresh(t, c), MemRefresh(t, c)}
         /\ Do(b, "agents", t, c) \in {SqliteAgents(t, c), PgAgents(t, c), MemAgents(t, c)}
         /\ Do(b, "providers", t, c)
              \in {SqliteProviders(t, c), PgProviders(t, c), MemProviders(t, c)}
         /\ Do(b, "drives", t, c) \in {SqliteDrives(t, c), PgDrives(t, c), MemDrives(t, c)}
         /\ Do(b, "bindings", t, c)
              \in {SqliteBindings(t, c), PgBindings(t, c), MemBindings(t, c)}
         /\ Do(b, "devices", t, c) \in {SqliteDevices(t, c), PgDevices(t, c), MemDevices(t, c)}
         /\ Do(b, "jobs", t, c) \in {SqliteJobs(t, c), PgJobs(t, c), MemJobs(t, c)}
         /\ Do(b, "outbox", t, c) \in {SqliteOutbox(t, c), PgOutbox(t, c), MemOutbox(t, c)}
         /\ Do(b, "snapshots", t, c)
              \in {SqliteSnapshots(t, c), PgSnapshots(t, c), MemSnapshots(t, c)}
         /\ Do(b, "memory", t, c) \in {SqliteMemory(t, c), PgMemory(t, c), MemMemory(t, c)}
         /\ Do(b, "market", t, c) \in {SqliteMarket(t, c), PgMarket(t, c), MemMarket(t, c)}
         /\ Do(b, "lineage", t, c) \in {SqliteLineage(t, c), PgLineage(t, c), MemLineage(t, c)}
         /\ Do(b, "graph", t, c) \in {SqliteGraph(t, c), PgGraph(t, c), MemGraph(t, c)}
         /\ Do(b, "purchases", t, c)
              \in {SqlitePurchases(t, c), PgPurchases(t, c), MemPurchases(t, c)}
         /\ Do(b, "connectors", t, c)
              \in {SqliteConnectors(t, c), PgConnectors(t, c), MemConnectors(t, c)}
  BY DEF Do, Sqlite, Postgres, Memory, Stores3

LEMMA ScopedKept ==
  ASSUME Inv, NEW c, c.op \in {"get", "list", "delete"}
  PROVE  Kept(Scoped(rows, c).rows, c)
<1>1. Kept(rows \ OwnId(rows, c), c)
  <2>1. \A r \in rows : r \in OwnId(rows, c) /\ c.user # Unset => r.user = c.user
    BY DEF OwnId
  <2>. QED
    BY <2>1, KeptLess
<1>2. Kept(rows, c)
  BY KeptSame
<1>3. Erase(rows, OwnId(rows, c)).rows = rows \ OwnId(rows, c)
  BY EraseRows
<1>4. Scoped(rows, c).rows \in {rows, rows \ OwnId(rows, c)}
  BY <1>3, QuietRows DEF Scoped
<1>. QED
  BY <1>1, <1>2, <1>4

(* A row made by a call.                                                   *)
LEMMA Maker ==
  ASSUME Inv, Handed,
         NEW c, c.op \in Makers, NEW u \in Nat, NEW k \in Nat, NEW v \in Vals, NEW x \in Nat
  PROVE  /\ Kept(Insert(rows, New(u, k, v, x)).rows, c)
         /\ Kept(Put(rows, New(u, k, v, x)).rows, c)
         /\ Kept(InsertUnique(rows, New(u, k, v, x)).rows, c)
         /\ Kept(InsertUser(rows, New(u, k, v, x)).rows, c)
         /\ Kept(rows \cup {New(u, k, v, x)}, c)
<1>1. New(u, k, v, x) \in Row /\ New(u, k, v, x).id = now
  BY NewRow DEF Inv
<1>2. /\ Kept(Insert(rows, New(u, k, v, x)).rows, c)
      /\ Kept(Put(rows, New(u, k, v, x)).rows, c)
      /\ Kept(rows \cup {New(u, k, v, x)}, c)
  BY <1>1, KeptMade
<1>. QED
  BY <1>2, KeptSame, QuietRows DEF InsertUnique, InsertUser

(* Rows of the call's user, or of anyone in a call of no user, rewritten.  *)
LEMMA EditOnce ==
  ASSUME Inv, NEW Z \in SUBSET rows, NEW f \in [Z -> Row], NEW T \in SUBSET Row,
         \A x \in T : \E r \in Z : x = f[r],
         \A r \in Z : f[r].id = r.id /\ f[r].user = r.user
  PROVE  /\ Once(T)
         /\ \A x \in T : \E r \in Z : r.id = x.id /\ r.user = x.user
<1>1. \A r, q \in Z : r.id = q.id => r = q
  BY DEF Inv, Once
<1>2. Once(T)
  <2>1. SUFFICES ASSUME NEW x \in T, NEW y \in T, x.id = y.id
                 PROVE  x = y
    BY DEF Once
  <2>2. PICK p \in Z : x = f[p]
    OBVIOUS
  <2>3. PICK q \in Z : y = f[q]
    OBVIOUS
  <2>4. p.id = q.id
    BY <2>1, <2>2, <2>3
  <2>. QED
    BY <1>1, <2>2, <2>3, <2>4
<1>. QED
  BY <1>2

LEMMA EditKept ==
  ASSUME Inv, NEW c, NEW Z \in SUBSET rows,
         \A r \in Z : c.user # Unset => r.user = c.user,
         NEW v \in Vals, NEW w \in Nat, NEW k \in Nat
  PROVE  /\ Kept(Amend(rows, Z, {[r EXCEPT !.val = v] : r \in Z}).rows, c)
         /\ Kept(Amend(rows, Z, {[r EXCEPT !.upd = @ + 1] : r \in Z}).rows, c)
         /\ Kept(Amend(rows, Z, {[r EXCEPT !.val = v, !.upd = w] : r \in Z}).rows, c)
         /\ Kept(Amend(rows, Z, {[r EXCEPT !.key = k, !.val = v] : r \in Z}).rows, c)
         /\ Kept((rows \ Z) \cup {[r EXCEPT !.val = v] : r \in Z}, c)
<1>0. \A r \in Z : r \in Row /\ r.upd + 1 \in Nat
  BY DEF Inv, Typed, Row
<1>1 LET T == {[r EXCEPT !.val = v] : r \in Z}
      IN  /\ T \in SUBSET Row /\ Once(T)
          /\ \A x \in T : \E r \in Z : r.id = x.id /\ r.user = x.user
  <2> DEFINE f == [r \in Z |-> [r EXCEPT !.val = v]]
             T == {[r EXCEPT !.val = v] : r \in Z}
  <2>0. \A r \in Z : f[r] \in Row /\ f[r].id = r.id /\ f[r].user = r.user
    BY <1>0 DEF Row
  <2>1. f \in [Z -> Row] /\ T \in SUBSET Row
    BY <2>0
  <2>2. \A x \in T : \E r \in Z : x = f[r]
    OBVIOUS
  <2> HIDE DEF f, T
  <2>3. /\ T \in SUBSET Row /\ Once(T)
        /\ \A x \in T : \E r \in Z : r.id = x.id /\ r.user = x.user
    BY <2>0, <2>1, <2>2, EditOnce
  <2>. QED
    BY <2>3 DEF T
<1>2 LET T == {[r EXCEPT !.upd = @ + 1] : r \in Z}
      IN  /\ T \in SUBSET Row /\ Once(T)
          /\ \A x \in T : \E r \in Z : r.id = x.id /\ r.user = x.user
  <2> DEFINE f == [r \in Z |-> [r EXCEPT !.upd = @ + 1]]
             T == {[r EXCEPT !.upd = @ + 1] : r \in Z}
  <2>0. \A r \in Z : f[r] \in Row /\ f[r].id = r.id /\ f[r].user = r.user
    BY <1>0 DEF Row
  <2>1. f \in [Z -> Row] /\ T \in SUBSET Row
    BY <2>0
  <2>2. \A x \in T : \E r \in Z : x = f[r]
    OBVIOUS
  <2> HIDE DEF f, T
  <2>3. /\ T \in SUBSET Row /\ Once(T)
        /\ \A x \in T : \E r \in Z : r.id = x.id /\ r.user = x.user
    BY <2>0, <2>1, <2>2, EditOnce
  <2>. QED
    BY <2>3 DEF T
<1>3 LET T == {[r EXCEPT !.val = v, !.upd = w] : r \in Z}
      IN  /\ T \in SUBSET Row /\ Once(T)
          /\ \A x \in T : \E r \in Z : r.id = x.id /\ r.user = x.user
  <2> DEFINE f == [r \in Z |-> [r EXCEPT !.val = v, !.upd = w]]
             T == {[r EXCEPT !.val = v, !.upd = w] : r \in Z}
  <2>0. \A r \in Z : f[r] \in Row /\ f[r].id = r.id /\ f[r].user = r.user
    BY <1>0 DEF Row
  <2>1. f \in [Z -> Row] /\ T \in SUBSET Row
    BY <2>0
  <2>2. \A x \in T : \E r \in Z : x = f[r]
    OBVIOUS
  <2> HIDE DEF f, T
  <2>3. /\ T \in SUBSET Row /\ Once(T)
        /\ \A x \in T : \E r \in Z : r.id = x.id /\ r.user = x.user
    BY <2>0, <2>1, <2>2, EditOnce
  <2>. QED
    BY <2>3 DEF T
<1>4 LET T == {[r EXCEPT !.key = k, !.val = v] : r \in Z}
      IN  /\ T \in SUBSET Row /\ Once(T)
          /\ \A x \in T : \E r \in Z : r.id = x.id /\ r.user = x.user
  <2> DEFINE f == [r \in Z |-> [r EXCEPT !.key = k, !.val = v]]
             T == {[r EXCEPT !.key = k, !.val = v] : r \in Z}
  <2>0. \A r \in Z : f[r] \in Row /\ f[r].id = r.id /\ f[r].user = r.user
    BY <1>0 DEF Row
  <2>1. f \in [Z -> Row] /\ T \in SUBSET Row
    BY <2>0
  <2>2. \A x \in T : \E r \in Z : x = f[r]
    OBVIOUS
  <2> HIDE DEF f, T
  <2>3. /\ T \in SUBSET Row /\ Once(T)
        /\ \A x \in T : \E r \in Z : r.id = x.id /\ r.user = x.user
    BY <2>0, <2>1, <2>2, EditOnce
  <2>. QED
    BY <2>3 DEF T
<1>5. Kept(Amend(rows, Z, {[r EXCEPT !.val = v] : r \in Z}).rows, c)
  BY <1>1, KeptAmend
<1>6. Kept(Amend(rows, Z, {[r EXCEPT !.upd = @ + 1] : r \in Z}).rows, c)
  BY <1>2, KeptAmend
<1>7. Kept(Amend(rows, Z, {[r EXCEPT !.val = v, !.upd = w] : r \in Z}).rows, c)
  BY <1>3, KeptAmend
<1>8. Kept(Amend(rows, Z, {[r EXCEPT !.key = k, !.val = v] : r \in Z}).rows, c)
  BY <1>4, KeptAmend
<1>9. Kept((rows \ Z) \cup {[r EXCEPT !.val = v] : r \in Z}, c)
  BY <1>1, KeptAmended
<1>. QED
  BY <1>5, <1>6, <1>7, <1>8, <1>9

-----------------------------------------------------------------------------
(* The calls, table by table.                                              *)

LEMMA ProvidersKept ==
  ASSUME Inv, table = "providers", NEW c \in Calls(table), NEW b \in Stores3
  PROVE  Kept(Do(b, table, rows, c).rows, c)
<1>0. Do(b, table, rows, c)
        \in {SqliteProviders(rows, c), PgProviders(rows, c), MemProviders(rows, c)}
  BY DoTable
<1>1. \/ c.op = "create" /\ c.user \in Nat
      \/ c.op \in {"get", "list", "delete"}
  BY SizesAssumption DEF Calls, Calls0, Crud, Users
<1>2. CASE c.op = "create"
  <2>1. /\ Handed /\ c.op \in Makers /\ Unset \in Nat /\ 0 \in Nat
        /\ 1 \in Vals /\ c.user \in Nat
    BY <1>1, <1>2 DEF Handed, Makers, Unset, Vals
  <2>. QED
    BY <2>1, <1>2, Maker, <1>0 DEF SqliteProviders, PgProviders, MemProviders
<1>3. CASE c.op \in {"get", "list", "delete"}
  BY <1>3, ScopedKept, <1>0 DEF SqliteProviders, PgProviders, MemProviders
<1>. QED
  BY <1>1, <1>2, <1>3


LEMMA ConnectorsKept ==
  ASSUME Inv, table = "connectors", NEW c \in Calls(table), NEW b \in Stores3
  PROVE  Kept(Do(b, table, rows, c).rows, c)
<1>0. Do(b, table, rows, c)
        \in {SqliteConnectors(rows, c), PgConnectors(rows, c), MemConnectors(rows, c)}
  BY DoTable
<1>1. \/ c.op = "create" /\ c.user \in Nat
      \/ c.op \in {"get", "delete"} \/ c.op = "list"
  BY SizesAssumption DEF Calls, Calls0, Crud, Users
<1>2. CASE c.op = "create"
  <2>1. /\ Handed /\ c.op \in Makers /\ Unset \in Nat /\ 0 \in Nat
        /\ 1 \in Vals /\ c.user \in Nat
    BY <1>1, <1>2 DEF Handed, Makers, Unset, Vals
  <2>. QED
    BY <2>1, <1>2, Maker, <1>0 DEF SqliteConnectors, PgConnectors, MemConnectors
<1>3. CASE c.op \in {"get", "delete"}
  BY <1>3, ScopedKept, <1>0 DEF SqliteConnectors, PgConnectors, MemConnectors
<1>4. CASE c.op = "list"
  BY <1>4, ScopedKept, KeptSame, QuietRows, <1>0 DEF SqliteConnectors, PgConnectors,
     MemConnectors
<1>. QED
  BY <1>1, <1>2, <1>3, <1>4


LEMMA UsersKept ==
  ASSUME Inv, table = "users", NEW c \in Calls(table), NEW b \in Stores3
  PROVE  Kept(Do(b, table, rows, c).rows, c)
<1>0. Do(b, table, rows, c) \in {SqliteUsers(rows, c), PgUsers(rows, c), MemUsers(rows, c)}
  BY DoTable
<1>1. /\ c.user = Unset
      /\ \/ c.op = "create" /\ c.key \in Nat /\ c.val \in {1}
         \/ c.op \in {"byKey", "byID", "list", "count"}
         \/ c.op = "bump"
         \/ c.op = "set" /\ c.val \in {1, 2}
  BY SizesAssumption DEF Calls, Calls0, Keys, O, Unset
<1>2. CASE c.op = "create"
  <2>1. /\ Handed /\ c.op \in Makers /\ Unset \in Nat /\ 0 \in Nat
        /\ c.val \in Vals /\ c.key \in Nat
    BY <1>1, <1>2 DEF Handed, Makers, Unset, Vals
  <2>. QED
    BY <2>1, <1>2, Maker, <1>0 DEF SqliteUsers, PgUsers, MemUsers
<1>3. CASE c.op \in {"byKey", "byID", "list", "count"}
  BY <1>3, KeptSame, QuietRows, <1>0 DEF SqliteUsers, PgUsers, MemUsers, UserCalls
<1>4. CASE c.op = "bump"
  <2>1. /\ ById(rows, c.id) \in SUBSET rows
        /\ \A r \in ById(rows, c.id) : c.user # Unset => r.user = c.user
    BY <1>1, <1>4, Selections
  <2>2. /\ 1 \in Nat /\ 1 \in Vals
    BY <1>1, <1>4 DEF Vals
  <2>3. Kept(Amend(rows, ById(rows, c.id),
                   {[r EXCEPT !.upd = @ + 1] : r \in ById(rows, c.id)}).rows, c)
    BY <2>1, <2>2, EditKept
  <2>. QED
    BY <2>3, <1>4, <1>0 DEF SqliteUsers, PgUsers, MemUsers, UserCalls, Bump
<1>5. CASE c.op = "set"
  <2>1. /\ ById(rows, c.id) \in SUBSET rows
        /\ \A r \in ById(rows, c.id) : c.user # Unset => r.user = c.user
    BY <1>1, <1>5, Selections
  <2>2. /\ 1 \in Nat /\ c.val \in Vals
    BY <1>1, <1>5 DEF Vals
  <2>3. Kept(Amend(rows, ById(rows, c.id),
                   {[r EXCEPT !.val = c.val] : r \in ById(rows, c.id)}).rows, c)
    BY <2>1, <2>2, EditKept
  <2>. QED
    BY <2>3, <1>5, <1>0 DEF SqliteUsers, PgUsers, MemUsers, UserCalls
<1>. QED
  BY <1>1, <1>2, <1>3, <1>4, <1>5


LEMMA AuditKept ==
  ASSUME Inv, table = "audit", NEW c \in Calls(table), NEW b \in Stores3
  PROVE  Kept(Do(b, table, rows, c).rows, c)
<1>0. Do(b, table, rows, c) \in {SqliteAudit(rows, c), PgAudit(rows, c), MemAudit(rows, c)}
  BY DoTable
<1>1. \/ c.op = "append" /\ c.user \in Nat /\ c.key \in Nat
      \/ c.op = "list"
  BY SizesAssumption DEF Calls, Calls0, Users, Keys
<1>2. CASE c.op = "append"
  <2>1. /\ Handed /\ c.op \in Makers /\ Unset \in Nat /\ 0 \in Nat
        /\ 1 \in Vals /\ c.user \in Nat /\ c.key \in Nat
    BY <1>1, <1>2 DEF Handed, Makers, Unset, Vals
  <2>2. Do(b, table, rows, c)
          \in {Insert(rows, New(c.user, c.key, 1, 0)),
               Done(Recent(rows \cup {New(c.user, c.key, 1, 0)}))}
    BY <1>2, <1>0 DEF SqliteAudit, PgAudit, MemAudit
  <2>3. \A Z : Done(Z).rows = Z
    BY DEF Done
  <2>4. /\ Kept(Insert(rows, New(c.user, c.key, 1, 0)).rows, c)
        /\ Kept(Recent(rows \cup {New(c.user, c.key, 1, 0)}), c)
    <3> DEFINE n == New(c.user, c.key, 1, 0)
    <3>1. Kept(Insert(rows, n).rows, c)
      BY <2>1, Maker
    <3>2. n \in Row /\ n.id = now /\ Cuts(c)
      BY <2>1, <1>2, NewRow DEF Inv, Cuts
    <3> HIDE DEF n
    <3>3. Recent(rows \cup {n}) \in SUBSET (rows \cup {n})
      BY DEF Recent
    <3>4. Kept(Recent(rows \cup {n}), c)
      BY <2>1, <3>2, <3>3, KeptCut
    <3>. QED
      BY <3>1, <3>4 DEF n
  <2>. QED
    BY <2>2, <2>3, <2>4
<1>3. CASE c.op = "list"
  BY <1>3, KeptSame, QuietRows, <1>0 DEF SqliteAudit, PgAudit, MemAudit
<1>. QED
  BY <1>1, <1>2, <1>3


LEMMA LineageKept ==
  ASSUME Inv, table = "lineage", NEW c \in Calls(table), NEW b \in Stores3
  PROVE  Kept(Do(b, table, rows, c).rows, c)
<1>0. Do(b, table, rows, c)
        \in {SqliteLineage(rows, c), PgLineage(rows, c), MemLineage(rows, c)}
  BY DoTable
<1>1. \/ c.op = "append" /\ c.user \in Nat /\ c.key \in Nat
      \/ c.op = "list"
  BY SizesAssumption DEF Calls, Calls0, Users, Keys
<1>2. CASE c.op = "append"
  <2>1. /\ Handed /\ c.op \in Makers /\ Unset \in Nat /\ 0 \in Nat
        /\ 1 \in Vals /\ c.user \in Nat /\ c.key \in Nat
    BY <1>1, <1>2 DEF Handed, Makers, Unset, Vals
  <2>2. Do(b, table, rows, c)
          \in {Insert(rows, New(c.user, c.key, 1, 0)),
               Done(rows \cup {New(c.user, c.key, 1, 0)})}
    BY <1>2, <1>0 DEF SqliteLineage, PgLineage, MemLineage
  <2>3. \A Z : Done(Z).rows = Z
    BY DEF Done
  <2>4. /\ Kept(Insert(rows, New(c.user, c.key, 1, 0)).rows, c)
        /\ Kept(rows \cup {New(c.user, c.key, 1, 0)}, c)
    BY <2>1, Maker
  <2>. QED
    BY <2>2, <2>3, <2>4
<1>3. CASE c.op = "list"
  <2>1. \E L : Do(b, table, rows, c) = Answer(rows, L)
    BY <1>3, <1>0 DEF SqliteLineage, PgLineage, MemLineage
  <2>. QED
    BY <2>1, KeptSame, QuietRows
<1>. QED
  BY <1>1, <1>2, <1>3


LEMMA AgentsKept ==
  ASSUME Inv, table = "agents", NEW c \in Calls(table), NEW b \in Stores3
  PROVE  Kept(Do(b, table, rows, c).rows, c)
<1>0. Do(b, table, rows, c) \in {SqliteAgents(rows, c), PgAgents(rows, c), MemAgents(rows, c)}
  BY DoTable
<1>1. \/ c.op = "create" /\ c.user \in Nat
      \/ c.op \in {"get", "list", "delete"}
      \/ c.op = "byID"
      \/ c.op = "bump" /\ c.user = Unset
      \/ c.op = "update" /\ c.val \in {1, 2} /\ c.n \in Nat
  BY SizesAssumption DEF Calls, Calls0, Crud, Users, O, Unset, Inv, World, Typed, Row
<1>2. CASE c.op = "create"
  <2>1. /\ Handed /\ c.op \in Makers /\ Unset \in Nat /\ 0 \in Nat
        /\ 1 \in Vals /\ c.user \in Nat
    BY <1>1, <1>2 DEF Handed, Makers, Unset, Vals
  <2>. QED
    BY <2>1, <1>2, Maker, <1>0 DEF SqliteAgents, PgAgents, MemAgents
<1>3. CASE c.op \in {"get", "list", "delete"}
  <2>1. AgentCalls(rows, c) = Scoped(rows, c)
    BY <1>3 DEF AgentCalls
  <2>. QED
    BY <2>1, <1>3, ScopedKept, <1>0 DEF SqliteAgents, PgAgents, MemAgents
<1>4. CASE c.op = "byID"
  BY <1>4, KeptSame, QuietRows, <1>0 DEF SqliteAgents, PgAgents, MemAgents, AgentCalls
<1>5. CASE c.op = "bump"
  <2>1. /\ ById(rows, c.id) \in SUBSET rows
        /\ \A r \in ById(rows, c.id) : c.user # Unset => r.user = c.user
    BY <1>1, <1>5, Selections
  <2>2. /\ 1 \in Nat /\ 1 \in Vals
    BY <1>1, <1>5 DEF Vals
  <2>3. Kept(Amend(rows, ById(rows, c.id),
                   {[r EXCEPT !.upd = @ + 1] : r \in ById(rows, c.id)}).rows, c)
    BY <2>1, <2>2, EditKept
  <2>. QED
    BY <2>3, <1>5, <1>0 DEF SqliteAgents, PgAgents, MemAgents, AgentCalls, Bump
<1>6. CASE c.op = "update"
  <2>1. /\ OwnId(rows, c) \in SUBSET rows
        /\ \A r \in OwnId(rows, c) : c.user # Unset => r.user = c.user
    BY <1>1, <1>6, Selections
  <2>2. /\ 1 \in Nat /\ c.val \in Vals /\ c.n \in Nat
    BY <1>1, <1>6 DEF Vals
  <2>3. Kept(Amend(rows, OwnId(rows, c),
                   {[r EXCEPT !.val = c.val, !.upd = c.n] : r \in OwnId(rows, c)}).rows, c)
    BY <2>1, <2>2, EditKept
  <2>. QED
    BY <2>3, <1>6, <1>0 DEF SqliteAgents, PgAgents, MemAgents, AgentCalls
<1>. QED
  BY <1>1, <1>2, <1>3, <1>4, <1>5, <1>6


LEMMA BindingsKept ==
  ASSUME Inv, table = "bindings", NEW c \in Calls(table), NEW b \in Stores3
  PROVE  Kept(Do(b, table, rows, c).rows, c)
<1>0. Do(b, table, rows, c)
        \in {SqliteBindings(rows, c), PgBindings(rows, c), MemBindings(rows, c)}
  BY DoTable
<1>1. \/ c.op = "create" /\ c.user \in Nat /\ c.key \in Nat
      \/ c.op = "get" \/ c.op = "list"
      \/ c.op = "update" /\ c.val \in {1, 2}
  BY SizesAssumption DEF Calls, Calls0, Users, Keys
<1>2. CASE c.op = "create"
  <2>1. /\ Handed /\ c.op \in Makers /\ Unset \in Nat /\ 0 \in Nat
        /\ 1 \in Vals /\ c.user \in Nat /\ c.key \in Nat
    BY <1>1, <1>2 DEF Handed, Makers, Unset, Vals
  <2>. QED
    BY <2>1, <1>2, Maker, <1>0 DEF SqliteBindings, PgBindings, MemBindings
<1>3. CASE c.op = "get"
  BY <1>3, ScopedKept, <1>0 DEF SqliteBindings, PgBindings, MemBindings, BindingCalls
<1>4. CASE c.op = "list"
  BY <1>4, KeptSame, QuietRows, <1>0 DEF SqliteBindings, PgBindings, MemBindings,
     BindingCalls
<1>5. CASE c.op = "update"
  <2>1. /\ OwnId(rows, c) \in SUBSET rows
        /\ \A r \in OwnId(rows, c) : c.user # Unset => r.user = c.user
    BY <1>1, <1>5, Selections
  <2>2. /\ 1 \in Nat /\ c.val \in Vals
    BY <1>1, <1>5 DEF Vals
  <2>3. Kept(Amend(rows, OwnId(rows, c),
                   {[r EXCEPT !.val = c.val] : r \in OwnId(rows, c)}).rows, c)
    BY <2>1, <2>2, EditKept
  <2>. QED
    BY <2>3, <1>5, <1>0 DEF SqliteBindings, PgBindings, MemBindings, BindingCalls
<1>. QED
  BY <1>1, <1>2, <1>3, <1>4, <1>5


LEMMA DrivesKept ==
  ASSUME Inv, table = "drives", NEW c \in Calls(table), NEW b \in Stores3
  PROVE  Kept(Do(b, table, rows, c).rows, c)
<1>0. Do(b, table, rows, c) \in {SqliteDrives(rows, c), PgDrives(rows, c), MemDrives(rows, c)}
  BY DoTable
<1>1. \/ c.op = "create" /\ c.user \in Nat /\ c.key \in Nat
      \/ c.op \in {"get", "list", "delete"}
      \/ c.op = "byAlias"
      \/ c.op = "update" /\ c.val \in {1, 2} /\ c.key \in Nat
  BY SizesAssumption DEF Calls, Calls0, Crud, Users, Keys, OrUnset, Unset
<1>2. CASE c.op = "create"
  <2>1. /\ Handed /\ c.op \in Makers /\ Unset \in Nat /\ 0 \in Nat
        /\ 1 \in Vals /\ c.user \in Nat /\ c.key \in Nat
    BY <1>1, <1>2 DEF Handed, Makers, Unset, Vals
  <2>. QED
    BY <2>1, <1>2, Maker, <1>0 DEF SqliteDrives, PgDrives, MemDrives
<1>3. CASE c.op \in {"get", "list", "delete"}
  BY <1>3, ScopedKept, <1>0 DEF SqliteDrives, PgDrives, MemDrives
<1>4. CASE c.op = "byAlias"
  BY <1>4, KeptSame, QuietRows, <1>0 DEF SqliteDrives, PgDrives, MemDrives, ByAlias
<1>5. CASE c.op = "update"
  <2>1. /\ OwnId(rows, c) \in SUBSET rows
        /\ \A r \in OwnId(rows, c) : c.user # Unset => r.user = c.user
    BY <1>1, <1>5, Selections
  <2>2. /\ 1 \in Nat /\ c.val \in Vals /\ c.key \in Nat
    BY <1>1, <1>5 DEF Vals
  <2>3. Kept(Amend(rows, OwnId(rows, c),
                   {[r EXCEPT !.key = c.key, !.val = c.val] : r \in OwnId(rows, c)}).rows, c)
    BY <2>1, <2>2, EditKept
  <2>4. Do(b, table, rows, c) \in {Err(rows), Amend(rows, OwnId(rows, c), Edited(rows, c))}
    BY <1>5, <1>0 DEF SqliteDrives, PgDrives, MemDrives
  <2>5. Kept(Amend(rows, OwnId(rows, c), Edited(rows, c)).rows, c)
    BY <2>3 DEF Edited
  <2>6. Err(rows).rows = rows
    BY DEF Err
  <2>7. Kept(rows, c)
    BY KeptSame
  <2>. QED
    BY <2>4, <2>5, <2>6, <2>7
<1>. QED
  BY <1>1, <1>2, <1>3, <1>4, <1>5


LEMMA JobsKept ==
  ASSUME Inv, table = "jobs", NEW c \in Calls(table), NEW b \in Stores3
  PROVE  Kept(Do(b, table, rows, c).rows, c)
<1>0. Do(b, table, rows, c) \in {SqliteJobs(rows, c), PgJobs(rows, c), MemJobs(rows, c)}
  BY DoTable
<1>1. \/ c.op = "create" /\ c.user \in Nat /\ c.key \in Nat
      \/ c.op \in {"get", "byID", "byKey", "count"}
      \/ c.op \in {"page", "adminPage", "list", "pending", "running"}
      \/ c.op = "claim"
      \/ c.op = "update" /\ c.val \in JobVals
      \/ c.op = "purge" /\ c.user = Unset
  BY SizesAssumption DEF Calls, Calls0, Users, Keys, OrUnset, O, Unset
<1>2. CASE c.op = "create"
  <2>1. /\ Handed /\ c.op \in Makers /\ Unset \in Nat /\ 0 \in Nat
        /\ "pending" \in Vals /\ c.user \in Nat /\ c.key \in Nat
    BY <1>1, <1>2 DEF Handed, Makers, Unset, Vals, JobVals
  <2>. QED
    BY <2>1, <1>2, Maker, <1>0 DEF SqliteJobs, PgJobs, MemJobs
<1>3. CASE c.op \in {"get", "byID", "byKey", "count"}
  <2>1. JobCalls(rows, c).rows = rows
    BY <1>3, QuietRows DEF JobCalls, ByAlias
  <2>2. Do(b, table, rows, c) = JobCalls(rows, c)
    BY <1>3, <1>0 DEF SqliteJobs, PgJobs, MemJobs
  <2>. QED
    BY <2>1, <2>2, KeptSame
<1>4. CASE c.op \in {"page", "adminPage", "list", "pending", "running"}
  BY <1>4, KeptSame, QuietRows, <1>0 DEF SqliteJobs, PgJobs, MemJobs, Page, Running
<1>5. CASE c.op = "claim"
  <2> DEFINE Z == {r \in OwnId(rows, c) : r.val = "pending"}
  <2>1. Z \in SUBSET rows /\ \A r \in Z : c.user # Unset => r.user = c.user
    BY Selections
  <2>2. "running" \in Vals /\ 1 \in Nat
    BY DEF Vals, JobVals
  <2>3. Kept(Amend(rows, Z, {[r EXCEPT !.val = "running"] : r \in Z}).rows, c)
    BY <2>1, <2>2, EditKept
  <2>4. {x \in Z : x.val = "pending"} = Z
    OBVIOUS
  <2>5. Kept(Amend(rows, Z, Claimed(Z)).rows, c)
    BY <2>3, <2>4 DEF Claimed
  <2>. QED
    BY <2>5, <1>5, <1>0 DEF SqliteJobs, PgJobs, MemJobs, JobCalls
<1>6. CASE c.op = "update"
  <2>1. /\ OwnId(rows, c) \in SUBSET rows
        /\ \A r \in OwnId(rows, c) : c.user # Unset => r.user = c.user
    BY <1>1, <1>6, Selections
  <2>2. /\ 1 \in Nat /\ c.val \in Vals /\ (IF c.val \in Terminal THEN now ELSE 0) \in Nat
    BY <1>1, <1>6 DEF Inv, World, Vals
  <2>3. Kept(Amend(rows, OwnId(rows, c),
                   {[r EXCEPT !.val = c.val,
                             !.upd = IF c.val \in Terminal THEN now ELSE 0] :
                        r \in OwnId(rows, c)}).rows, c)
    BY <2>1, <2>2, EditKept
  <2>. QED
    BY <2>3, <1>6, <1>0 DEF SqliteJobs, PgJobs, MemJobs, JobCalls, Settle
<1>7. CASE c.op = "purge"
  <2>1. \A Z : Kept(rows \ Z, c)
    BY <1>1, <1>7, KeptLess
  <2>2. \E Z : Do(b, table, rows, c) = Done(rows \ Z)
    BY <1>7, <1>0 DEF SqliteJobs, PgJobs, MemJobs, OldJobs
  <2>. QED
    BY <2>1, <2>2, QuietRows
<1>. QED
  BY <1>1, <1>2, <1>3, <1>4, <1>5, <1>6, <1>7


LEMMA OutboxKept ==
  ASSUME Inv, table = "outbox", NEW c \in Calls(table), NEW b \in Stores3
  PROVE  Kept(Do(b, table, rows, c).rows, c)
<1>0. Do(b, table, rows, c) \in {SqliteOutbox(rows, c), PgOutbox(rows, c), MemOutbox(rows, c)}
  BY DoTable
<1>1. \/ c.op = "enqueue" /\ c.user \in Nat /\ c.key \in Nat
      \/ c.op \in {"due", "get", "list", "count"}
      \/ c.op = "update" /\ c.user = Unset /\ c.val \in BoxVals /\ c.n \in Nat
      \/ c.op = "ofJob" /\ c.user = Unset
      \/ c.op = "purge" /\ c.user = Unset
  BY SizesAssumption DEF Calls, Calls0, Users, Keys, O, Unset, Inv, World
<1>2. CASE c.op = "enqueue"
  <2>1. /\ Handed /\ c.op \in Makers /\ Unset \in Nat /\ 0 \in Nat
        /\ "pending" \in Vals /\ now \in Nat /\ c.user \in Nat /\ c.key \in Nat
    BY <1>1, <1>2, SizesAssumption DEF Handed, Makers, Unset, Vals, JobVals, Inv, World
  <2>. QED
    BY <2>1, <1>2, Maker, <1>0 DEF SqliteOutbox, PgOutbox, MemOutbox
<1>3. CASE c.op \in {"due", "get", "list", "count"}
  <2>1. \A T : BoxCalls(rows, c, T).rows = rows
    BY <1>3, QuietRows DEF BoxCalls
  <2>2. \E T : Do(b, table, rows, c) = BoxCalls(rows, c, T)
    BY <1>3, <1>0 DEF SqliteOutbox, PgOutbox, MemOutbox
  <2>. QED
    BY <2>1, <2>2, KeptSame
<1>4. CASE c.op = "update"
  <2>1. /\ ById(rows, c.id) \in SUBSET rows
        /\ \A r \in ById(rows, c.id) : c.user # Unset => r.user = c.user
    BY <1>1, <1>4, Selections
  <2>2. /\ 1 \in Nat /\ c.val \in Vals /\ c.n \in Nat
    BY <1>1, <1>4 DEF Vals
  <2>3. Kept(Amend(rows, ById(rows, c.id),
                   {[r EXCEPT !.val = c.val, !.upd = c.n] : r \in ById(rows, c.id)}).rows, c)
    BY <2>1, <2>2, EditKept
  <2>. QED
    BY <2>3, <1>4, <1>0 DEF SqliteOutbox, PgOutbox, MemOutbox, BoxCalls
<1>5. CASE c.op = "ofJob"
  <2>1. \A Z : Kept(rows \ Z, c)
    BY <1>1, <1>5, KeptLess
  <2>2. {r \in rows : r.key # c.key} = rows \ {r \in rows : r.key = c.key}
    OBVIOUS
  <2>3. Kept({r \in rows : r.key # c.key}, c)
    BY <2>1, <2>2
  <2>. QED
    BY <2>3, <1>5, QuietRows, <1>0 DEF SqliteOutbox, PgOutbox, MemOutbox, BoxCalls
<1>6. CASE c.op = "purge"
  <2>1. \A Z : Kept(rows \ Z, c)
    BY <1>1, <1>6, KeptLess
  <2>2. \E T : Do(b, table, rows, c) = BoxCalls(rows, c, T)
    BY <1>6, <1>0 DEF SqliteOutbox, PgOutbox, MemOutbox
  <2>3. \A T : BoxCalls(rows, c, T) = Done(rows \ Doomed(rows, BoxVals \ {"pending"}, c, T))
    BY <1>6 DEF BoxCalls
  <2>4. \A Z : Done(Z).rows = Z
    BY DEF Done
  <2>5. PICK T : Do(b, table, rows, c) = BoxCalls(rows, c, T)
    BY <2>2
  <2>6. Do(b, table, rows, c).rows = rows \ Doomed(rows, BoxVals \ {"pending"}, c, T)
    BY <2>3, <2>4, <2>5
  <2>. QED
    BY <2>1, <2>6
<1>. QED
  BY <1>1, <1>2, <1>3, <1>4, <1>5, <1>6


LEMMA SnapshotsKept ==
  ASSUME Inv, table = "snapshots", NEW c \in Calls(table), NEW b \in Stores3
  PROVE  Kept(Do(b, table, rows, c).rows, c)
<1>0. Do(b, table, rows, c)
        \in {SqliteSnapshots(rows, c), PgSnapshots(rows, c), MemSnapshots(rows, c)}
  BY DoTable
<1>1. \/ c.op = "create" /\ c.user \in Nat /\ c.key \in Nat
      \/ c.op \in {"list", "get"}
      \/ c.op = "delete"
  BY SizesAssumption DEF Calls, Calls0, Users, Keys
<1>2. CASE c.op = "create"
  <2>1. /\ Handed /\ c.op \in Makers /\ Unset \in Nat /\ 0 \in Nat
        /\ 1 \in Vals /\ c.user \in Nat /\ c.key \in Nat
    BY <1>1, <1>2 DEF Handed, Makers, Unset, Vals
  <2>. QED
    BY <2>1, <1>2, Maker, <1>0 DEF SqliteSnapshots, PgSnapshots, MemSnapshots
<1>3. CASE c.op \in {"list", "get"}
  BY <1>3, KeptSame, QuietRows, <1>0 DEF SqliteSnapshots, PgSnapshots, MemSnapshots,
     SnapshotCalls
<1>4. CASE c.op = "delete"
  <2>1. \A r \in rows : r \in ById(OfDrive(rows, c), c.id) /\ c.user # Unset => r.user = c.user
    BY DEF ById, OfDrive, Own
  <2>2. Kept(rows \ ById(OfDrive(rows, c), c.id), c)
    BY <2>1, KeptLess
  <2>. QED
    BY <2>2, <1>4, EraseRows, <1>0 DEF SqliteSnapshots, PgSnapshots, MemSnapshots,
       SnapshotCalls
<1>. QED
  BY <1>1, <1>2, <1>3, <1>4


LEMMA MemoryKept ==
  ASSUME Inv, table = "memory", NEW c \in Calls(table), NEW b \in Stores3
  PROVE  Kept(Do(b, table, rows, c).rows, c)
<1>0. Do(b, table, rows, c) \in {SqliteMemory(rows, c), PgMemory(rows, c), MemMemory(rows, c)}
  BY DoTable
<1>1. \/ c.op = "create" /\ c.user \in Nat /\ c.key \in Nat /\ c.n \in Nat
      \/ c.op \in {"get", "delete"} \/ c.op = "list"
  BY SizesAssumption DEF Calls, Calls0, Users, Keys, Inv, World
<1>2. CASE c.op = "create"
  <2>1. /\ Handed /\ c.op \in Makers /\ Unset \in Nat /\ 0 \in Nat
        /\ 1 \in Vals /\ c.user \in Nat /\ c.key \in Nat /\ c.n \in Nat
    BY <1>1, <1>2 DEF Handed, Makers, Unset, Vals
  <2>. QED
    BY <2>1, <1>2, Maker, <1>0 DEF SqliteMemory, PgMemory, MemMemory
<1>3. CASE c.op \in {"get", "delete"}
  BY <1>3, ScopedKept, <1>0 DEF SqliteMemory, PgMemory, MemMemory
<1>4. CASE c.op = "list"
  BY <1>4, KeptSame, QuietRows, <1>0 DEF SqliteMemory, PgMemory, MemMemory
<1>. QED
  BY <1>1, <1>2, <1>3, <1>4


LEMMA MarketKept ==
  ASSUME Inv, table = "market", NEW c \in Calls(table), NEW b \in Stores3
  PROVE  Kept(Do(b, table, rows, c).rows, c)
<1>0. Do(b, table, rows, c) \in {SqliteMarket(rows, c), PgMarket(rows, c), MemMarket(rows, c)}
  BY DoTable
<1>1. \/ c.op = "create" /\ c.user \in Nat /\ c.val \in {1, 2}
      \/ c.op = "get" \/ c.op = "list" \/ c.op = "delete"
  BY SizesAssumption DEF Calls, Calls0, Users
<1>2. CASE c.op = "create"
  <2>1. /\ Handed /\ c.op \in Makers /\ Unset \in Nat /\ 0 \in Nat
        /\ c.val \in Vals /\ c.user \in Nat
    BY <1>1, <1>2 DEF Handed, Makers, Unset, Vals
  <2>. QED
    BY <2>1, <1>2, Maker, <1>0 DEF SqliteMarket, PgMarket, MemMarket, MarketCalls
<1>3. CASE c.op = "get"
  BY <1>3, KeptSame, QuietRows, <1>0 DEF SqliteMarket, PgMarket, MemMarket, MarketCalls
<1>4. CASE c.op = "list"
  BY <1>4, KeptSame, QuietRows, <1>0 DEF SqliteMarket, PgMarket, MemMarket
<1>5. CASE c.op = "delete"
  <2>1. Kept(rows \ OwnId(rows, c), c)
    <3>1. \A r \in rows : r \in OwnId(rows, c) /\ c.user # Unset => r.user = c.user
      BY Selections
    <3>. QED
      BY <3>1, KeptLess
  <2>. QED
    BY <2>1, <1>5, EraseRows, <1>0 DEF SqliteMarket, PgMarket, MemMarket, MarketCalls
<1>. QED
  BY <1>1, <1>2, <1>3, <1>4, <1>5


LEMMA RefreshKept ==
  ASSUME Inv, table = "refresh", NEW c \in Calls(table), NEW b \in Stores3
  PROVE  Kept(Do(b, table, rows, c).rows, c)
<1>0. Do(b, table, rows, c)
        \in {SqliteRefresh(rows, c), PgRefresh(rows, c), MemRefresh(rows, c)}
  BY DoTable
<1>1. \/ c.op = "create" /\ c.user \in Nat /\ c.n \in Nat
      \/ c.op = "byHash"
      \/ c.op = "revoke" /\ c.user = Unset
      \/ c.op = "revokeUser"
  BY SizesAssumption DEF Calls, Calls0, Users, O, Unset, Inv, World
<1>2. CASE c.op = "create"
  <2>1. /\ Handed /\ c.op \in Makers /\ Unset \in Nat /\ 0 \in Nat
        /\ 1 \in Vals /\ c.user \in Nat /\ c.n \in Nat
    BY <1>1, <1>2 DEF Handed, Makers, Unset, Vals
  <2>. QED
    BY <2>1, <1>2, Maker, <1>0 DEF SqliteRefresh, PgRefresh, MemRefresh
<1>3. CASE c.op = "byHash"
  <2>1. RefreshCalls(rows, c).rows = rows
    BY <1>3, QuietRows DEF RefreshCalls
  <2>2. Do(b, table, rows, c) = RefreshCalls(rows, c)
    BY <1>3, <1>0 DEF SqliteRefresh, PgRefresh, MemRefresh
  <2>. QED
    BY <2>1, <2>2, KeptSame
<1>4. CASE c.op = "revoke"
  <2> DEFINE Z == Unspent(ById(rows, c.id))
  <2>1. Z \in SUBSET rows /\ 2 \in Vals /\ 1 \in Nat /\ \A r \in Z : c.user # Unset => r.user = c.user
    BY <1>1, <1>4 DEF Unspent, ById, Vals
  <2>2. Z # {} => Z = ById(rows, c.id)
    BY DEF Unspent, ById, Inv, Once
  <2>3. Kept((rows \ Z) \cup {[r EXCEPT !.val = 2] : r \in Z}, c)
    BY <2>1, EditKept
  <2>4. Z # {} => Kept((rows \ Z) \cup Spend(ById(rows, c.id)), c)
    BY <2>2, <2>3 DEF Spend
  <2>5. Do(b, table, rows, c) = Amend(rows, Z, Spend(ById(rows, c.id)))
    BY <1>4, <1>0 DEF SqliteRefresh, PgRefresh, MemRefresh, RefreshCalls
  <2>6. Kept(rows, c)
    BY KeptSame
  <2> DEFINE T == Spend(ById(rows, c.id))
  <2> HIDE DEF Z, T
  <2>7. /\ Z = {} => Do(b, table, rows, c).rows = rows
        /\ Z # {} => Do(b, table, rows, c).rows = (rows \ Z) \cup T
    BY <2>5, AmendRows DEF T
  <2>. QED
    BY <2>4, <2>6, <2>7 DEF T
<1>5. CASE c.op = "revokeUser"
  <2>1. /\ Own(rows, c.user) \in SUBSET rows /\ 2 \in Vals /\ 1 \in Nat
        /\ \A r \in Own(rows, c.user) : c.user # Unset => r.user = c.user
    BY DEF Own, Vals
  <2>2. Kept((rows \ Own(rows, c.user)) \cup {[r EXCEPT !.val = 2] : r \in Own(rows, c.user)}, c)
    BY <2>1, EditKept
  <2>3. Kept((rows \ Own(rows, c.user)) \cup Spend(Own(rows, c.user)), c)
    BY <2>2 DEF Spend
  <2>. QED
    BY <2>3, <1>5, QuietRows, <1>0 DEF SqliteRefresh, PgRefresh, MemRefresh
<1>. QED
  BY <1>1, <1>2, <1>3, <1>4, <1>5


LEMMA PurchasesKept ==
  ASSUME Inv, table = "purchases", NEW c \in Calls(table), NEW b \in Stores3
  PROVE  Kept(Do(b, table, rows, c).rows, c)
<1>0. Do(b, table, rows, c)
        \in {SqlitePurchases(rows, c), PgPurchases(rows, c), MemPurchases(rows, c)}
  BY DoTable
<1>1. \/ c.op = "create" /\ c.user \in Nat
      \/ c.op = "list" \/ c.op = "get"
      \/ /\ c.op = "update" /\ c.val \in {1, 2}
         /\ \E r \in rows : c.user = r.user /\ c.id = r.id
  BY SizesAssumption DEF Calls, Calls0, Users
<1>2. CASE c.op = "create"
  <2>1. /\ Handed /\ c.op \in Makers /\ Unset \in Nat /\ 0 \in Nat
        /\ 1 \in Vals /\ c.user \in Nat
    BY <1>1, <1>2 DEF Handed, Makers, Unset, Vals
  <2>. QED
    BY <2>1, <1>2, Maker, <1>0 DEF SqlitePurchases, PgPurchases, MemPurchases, PurchaseCalls
<1>3. CASE c.op = "list"
  BY <1>3, KeptSame, QuietRows, <1>0 DEF SqlitePurchases, PgPurchases, MemPurchases
<1>4. CASE c.op = "get"
  BY <1>4, KeptSame, QuietRows, <1>0 DEF SqlitePurchases, PgPurchases, MemPurchases,
     PurchaseCalls
<1>5. CASE c.op = "update"
  <2> DEFINE n == [id |-> c.id, user |-> c.user, key |-> Unset, val |-> c.val, upd |-> 0]
  <2>1. PICK o \in rows : c.user = o.user /\ c.id = o.id
    BY <1>1, <1>5
  <2>2. n \in Row /\ n.id = o.id /\ n.user = o.user
    BY <1>1, <1>5, <2>1, Edits DEF Row, Vals, Unset
  <2>3. \A x \in rows : x.id = n.id => x.user = c.user
    BY <2>1, <2>2 DEF Inv, Once
  <2>4. Kept({x \in rows : x.id # n.id} \cup {n}, c)
    <3>1. {x \in rows : x.id # n.id} = rows \ {x \in rows : x.id = n.id}
      OBVIOUS
    <3> DEFINE Z == {x \in rows : x.id = n.id}
    <3>2. /\ Z \in SUBSET rows /\ {n} \in SUBSET Row /\ Once({n})
          /\ \A x \in {n} : \E y \in Z : y.id = x.id /\ y.user = x.user
      BY <2>1, <2>2 DEF Once
    <3>3. \A x \in Z : c.user # Unset => x.user = c.user
      BY <2>3
    <3> HIDE DEF n, Z
    <3>4. Kept((rows \ Z) \cup {n}, c)
      BY <3>2, <3>3, KeptAmended
    <3>. QED
      BY <3>1, <3>4 DEF Z
  <2>5. Kept(Put(rows, n).rows, c)
    BY <2>4, PutRows
  <2>6. MemPurchases(rows, c).rows \in {rows, Put(rows, n).rows}
    BY <1>5, QuietRows DEF MemPurchases
  <2>7. /\ OwnId(rows, c) \in SUBSET rows
        /\ \A r \in OwnId(rows, c) : c.user # Unset => r.user = c.user
    BY <1>1, <1>5, Selections
  <2>8. /\ 1 \in Nat /\ c.val \in Vals
    BY <1>1, <1>5 DEF Vals
  <2>9. Kept(Amend(rows, OwnId(rows, c), {[r EXCEPT !.val = c.val] : r \in OwnId(rows, c)}).rows, c)
    BY <2>7, <2>8, EditKept
  <2>. QED
    BY <2>5, <2>6, <2>9, <1>5, KeptSame, <1>0 DEF SqlitePurchases, PgPurchases,
       PurchaseCalls
<1>. QED
  BY <1>1, <1>2, <1>3, <1>4, <1>5


LEMMA DevicesKept ==
  ASSUME Inv, table = "devices", NEW c \in Calls(table), NEW b \in Stores3
  PROVE  Kept(Do(b, table, rows, c).rows, c)
<1>0. Do(b, table, rows, c)
        \in {SqliteDevices(rows, c), PgDevices(rows, c), MemDevices(rows, c)}
  BY DoTable
<1>1. \/ c.op = "upsert" /\ c.user \in Nat /\ c.id \in Nat /\ c.val \in {1, 2}
      \/ c.op \in {"get", "list"}
  BY SizesAssumption DEF Calls, Calls0, Users
<1>2. CASE c.op = "upsert"
  <2> DEFINE n == Device(c)
  <2>1. n \in Row /\ n.id = c.id /\ n.user = c.user
    BY <1>1, <1>2 DEF Device, Row, Vals, Unset
  <2>2. Kept(rows, c)
    BY KeptSame
  <2>3. ASSUME ~ Taken(rows, c) PROVE Kept(Put(rows, n).rows, c)
    <3>1. \A r \in rows : r.id = n.id => r.user = n.user
      BY <2>1, <2>3 DEF Taken, ById
    <3> HIDE DEF n
    <3>2. Kept({x \in rows : x.id # n.id} \cup {n}, c)
      BY <2>1, <3>1 DEF Kept, Once, Inv, Typed, Handed
    <3>. QED
      BY <3>2, PutRows
  <2>. QED
    BY <2>2, <2>3, <1>2, QuietRows, <1>0 DEF SqliteDevices, PgDevices, MemDevices
<1>3. CASE c.op \in {"get", "list"}
  BY <1>3, ScopedKept, <1>0 DEF SqliteDevices, PgDevices, MemDevices
<1>. QED
  BY <1>1, <1>2, <1>3


(* The id of an edge is a number.                                          *)
LEMMA HashNat ==
  ASSUME NEW u \in Users, NEW k \in Keys
  PROVE  Hash(u, k) \in Nat
<1>1. u - 1 \in Nat /\ NKeys \in Nat /\ k \in Nat
  BY SizesAssumption DEF Users, Keys
<1>2. \A p, q \in Nat : p * q \in Nat
  OBVIOUS
<1>3. (u - 1) * NKeys \in Nat
  BY <1>1, <1>2
<1>. QED
  BY <1>1, <1>3 DEF Hash

(* An edge's id tells whose it is.                                         *)
LEMMA HashOnce ==
  ASSUME NEW u \in Users, NEW k \in Keys, NEW v \in Users, NEW l \in Keys,
         Hash(u, k) = Hash(v, l)
  PROVE  u = v
<1>1. /\ u \in Nat /\ v \in Nat /\ NKeys \in Nat /\ k \in 1..NKeys /\ l \in 1..NKeys
  BY SizesAssumption DEF Users, Keys
<1>2. ASSUME NEW p \in Nat, NEW q \in Nat, NEW i \in 1..NKeys, NEW j \in 1..NKeys, p < q
      PROVE  (p - 1) * NKeys + i # (q - 1) * NKeys + j
  <2>1. (q - 1) * NKeys = (p - 1) * NKeys + (q - p) * NKeys
    BY <1>1
  <2>2. (q - p) * NKeys >= NKeys
    <3>1. q - p - 1 \in Nat
      BY <1>2
    <3>2. (q - p - 1) * NKeys >= 0
      BY <1>1, <3>1
    <3>3. (q - p) * NKeys = (q - p - 1) * NKeys + NKeys
      BY <1>1, <1>2
    <3>. QED
      BY <1>1, <3>2, <3>3
  <2>. QED
    BY <1>1, <2>1, <2>2
<1>. QED
  BY <1>1, <1>2 DEF Hash

LEMMA GraphKept ==
  ASSUME Inv, table = "graph", NEW c \in Calls(table), NEW b \in Stores3
  PROVE  Kept(Do(b, table, rows, c).rows, c)
<1>0. Do(b, table, rows, c) \in {SqliteGraph(rows, c), PgGraph(rows, c), MemGraph(rows, c)}
  BY DoTable
<1>1. \/ c.op = "upsert" /\ c.user \in Users /\ c.key \in Keys /\ c.val \in {1, 2}
      \/ c.op = "list"
  BY DEF Calls, Calls0
<1>2. CASE c.op = "upsert"
  <2> DEFINE n == Edge(c)
  <2>1. n \in Row /\ n.id = Hash(c.user, c.key) /\ n.user = c.user
    BY <1>1, <1>2, HashNat DEF Edge, Row, Vals, Hash, Users, Keys
  <2>2. \A r \in rows : r.id = n.id => r.user = n.user
    BY <1>1, <1>2, <2>1, HashOnce DEF Inv, Hashed
  <2> HIDE DEF n
  <2>3. Kept({x \in rows : x.id # n.id} \cup {n}, c)
    BY <2>1, <2>2 DEF Kept, Once, Inv, Typed, Handed
  <2>. QED
    BY <2>3, <1>2, PutRows, <1>0 DEF SqliteGraph, PgGraph, MemGraph, n
<1>3. CASE c.op = "list"
  BY <1>3, KeptSame, QuietRows, <1>0 DEF SqliteGraph, PgGraph, MemGraph
<1>. QED
  BY <1>1, <1>2, <1>3


LEMMA JtisKept ==
  ASSUME Inv, table = "jtis", NEW c \in Calls(table), NEW b \in Stores3
  PROVE  Kept(Do(b, table, rows, c).rows, c)
<1>0. Do(b, table, rows, c) \in {SqliteJtis(rows, c), PgJtis(rows, c), MemJtis(rows, c)}
  BY DoTable
<1>1. /\ c.user = Unset
      /\ \/ c.op = "revoke" /\ c.id \in Nat /\ c.n \in Nat
         \/ c.op = "check"
  BY SizesAssumption DEF Calls, Calls0, O, Unset, Inv, World
<1>2. CASE c.op = "revoke"
  <2> DEFINE n == Jti(c)
  <2>1. n \in Row /\ n.user = Unset
    BY <1>1, <1>2 DEF Jti, Row, Vals, Unset
  <2>2. \A r \in rows : r.user = Unset
    BY DEF Inv, Lasting
  <2> HIDE DEF n
  <2>3. \A t \in SUBSET rows : Kept({x \in t : x.id # n.id} \cup {n}, c)
    BY <1>1, <2>1, <2>2 DEF Kept, Once, Inv, Typed, Handed
  <2>4. \A t \in SUBSET rows : Kept(Put(t, n).rows, c)
    BY <2>3, PutRows
  <2>. QED
    BY <2>4, <1>2, <1>0 DEF SqliteJtis, PgJtis, MemJtis, n
<1>3. CASE c.op = "check"
  <2>1. \A Z : Kept(rows \ Z, c)
    BY <1>1, <1>3, KeptLess
  <2>2. Do(b, table, rows, c) = Revoked(rows, c, Clock)
    BY <1>3, <1>0 DEF SqliteJtis, PgJtis, MemJtis
  <2>3. \E Z : Revoked(rows, c, Clock).rows = rows \ Z
    BY DEF Revoked
  <2>. QED
    BY <2>1, <2>2, <2>3
<1>. QED
  BY <1>1, <1>2, <1>3


(* Every call on every backend, from any state of the invariant.           *)
LEMMA CallKept ==
  ASSUME Inv, NEW c \in Calls(table), NEW b \in Stores3
  PROVE  Kept(Do(b, table, rows, c).rows, c)
<1>1. table \in {"users", "audit", "jtis", "refresh", "agents", "providers", "drives",
                 "bindings", "devices", "jobs", "outbox", "snapshots", "memory",
                 "market", "lineage", "graph", "purchases", "connectors"}
  BY BackendsAssumption DEF Inv, World
<1>2. CASE table \in {"users", "audit", "jtis", "refresh", "agents", "providers"}
  BY <1>2, UsersKept, AuditKept, JtisKept, RefreshKept, AgentsKept, ProvidersKept
<1>3. CASE table \in {"drives", "bindings", "devices", "jobs", "outbox", "snapshots"}
  BY <1>3, DrivesKept, BindingsKept, DevicesKept, JobsKept, OutboxKept, SnapshotsKept
<1>4. CASE table \in {"memory", "market", "lineage", "graph", "purchases", "connectors"}
  BY <1>4, MemoryKept, MarketKept, LineageKept, GraphKept, PurchasesKept, ConnectorsKept
<1>. QED
  BY <1>1, <1>2, <1>3, <1>4

LEMMA GraphHashed ==
  ASSUME Inv, table = "graph", NEW c \in Calls(table), NEW b \in Stores3,
         NEW x \in Do(b, table, rows, c).rows
  PROVE  x.user \in Users /\ x.key \in Keys /\ x.id = Hash(x.user, x.key)
<1>0. Do(b, table, rows, c) \in {SqliteGraph(rows, c), PgGraph(rows, c), MemGraph(rows, c)}
  BY DoTable
<1>1. \/ c.op = "upsert" /\ c.user \in Users /\ c.key \in Keys
      \/ c.op = "list"
  BY DEF Calls, Calls0
<1>2. CASE c.op = "upsert"
  <2>1. Do(b, table, rows, c).rows = {y \in rows : y.id # Edge(c).id} \cup {Edge(c)}
    BY <1>0, <1>2, PutRows DEF SqliteGraph, PgGraph, MemGraph
  <2>2. x \in rows \/ x = Edge(c)
    BY <2>1
  <2>3. /\ Edge(c).user = c.user /\ Edge(c).key = c.key
        /\ Edge(c).id = Hash(c.user, c.key)
    BY DEF Edge, Hash
  <2>. QED
    BY <1>1, <1>2, <2>2, <2>3 DEF Inv, Hashed
<1>3. CASE c.op = "list"
  <2>1. Do(b, table, rows, c).rows = rows
    BY <1>0, <1>3, QuietRows DEF SqliteGraph, PgGraph, MemGraph
  <2>. QED
    BY <2>1 DEF Inv, Hashed
<1>. QED
  BY <1>1, <1>2, <1>3

LEMMA JtisLasting ==
  ASSUME Inv, table = "jtis", NEW c \in Calls(table), NEW b \in Stores3,
         NEW x \in Do(b, table, rows, c).rows
  PROVE  x.upd \in 1..MaxNow /\ x.user = Unset
<1>0. Do(b, table, rows, c) \in {SqliteJtis(rows, c), PgJtis(rows, c), MemJtis(rows, c)}
  BY DoTable
<1>1. \/ c.op = "revoke" /\ c.n \in (now + 1)..MaxNow
      \/ c.op = "check"
  BY DEF Calls, Calls0
<1>2. CASE c.op = "revoke"
  <2>1. Jti(c).upd \in 1..MaxNow /\ Jti(c).user = Unset
    BY <1>1, <1>2, SizesAssumption DEF Jti, Inv, World
  <2>2. \E t \in SUBSET rows : Do(b, table, rows, c) = Put(t, Jti(c))
    BY <1>0, <1>2 DEF SqliteJtis, PgJtis, MemJtis
  <2>3. x \in rows \/ x = Jti(c)
    BY <2>2, PutRows
  <2>. QED
    BY <2>1, <2>3 DEF Inv, Lasting
<1>3. CASE c.op = "check"
  <2>1. Do(b, table, rows, c) = Revoked(rows, c, Clock)
    BY <1>0, <1>3 DEF SqliteJtis, PgJtis, MemJtis
  <2>2. x \in rows
    BY <2>1 DEF Revoked
  <2>. QED
    BY <2>2 DEF Inv, Lasting
<1>. QED
  BY <1>1, <1>2, <1>3

(* Rows that are Kept are finitely many: their ids are.                    *)
LEMMA KeptFinite ==
  ASSUME Inv, NEW c, NEW t2, Kept(t2, c)
  PROVE  IsFiniteSet(t2)
<1> DEFINE f == [r \in rows |-> r.id]
<1>1. f \in Surjection(rows, Ids(rows))
  BY DEF Surjection, Ids
<1>2. IsFiniteSet(Ids(rows))
  BY <1>1, FS_Surjection DEF Inv, Typed
<1>3. PICK n : \A x \in t2 : x.id \in Ids(rows) \cup {n}
  <2>1. CASE \A x \in t2 : \E r \in rows : r.id = x.id /\ r.user = x.user
    BY <2>1 DEF Ids
  <2>2. ASSUME NEW m, \A x \in t2 : x \in rows \/ x = m
        PROVE  \A x \in t2 : x.id \in Ids(rows) \cup {m.id}
    BY <2>2 DEF Ids
  <2>. QED
    BY <2>1, <2>2 DEF Kept
<1>4. IsFiniteSet(Ids(rows) \cup {n})
  BY <1>2, FS_AddElement
<1> DEFINE g == [x \in t2 |-> x.id]
<1>5. g \in Injection(t2, Ids(rows) \cup {n})
  BY <1>3 DEF Injection, IsInjective, Kept, Once
<1>. QED
  BY <1>4, <1>5, FS_Injection

LEMMA InvInit == Init => Inv
  BY SizesAssumption, BackendsAssumption, FS_EmptySet
     DEF Init, Inv, World, Typed, Dated, Once, Hashed, Lasting

LEMMA InvCall ==
  ASSUME Inv, NEW c \in Calls(table), Call(c)
  PROVE  Inv'
<1>1. /\ rows' = Do(backend, table, rows, c).rows
      /\ now' = IF c.op \in Makers THEN now + 1 ELSE now
      /\ UNCHANGED <<backend, table, times, names>>
      /\ c.op \in Makers => now < MaxNow
  BY DEF Call
<1>2. Kept(rows', c)
  BY <1>1, CallKept DEF Inv, World
<1>3. World'
  <2>1. now' \in 1..MaxNow /\ UNCHANGED <<backend, table, times, names>>
    BY <1>1, SizesAssumption DEF Inv, World
  <2>. QED
    BY <2>1 DEF Inv, World
<1>4. Row' = Row /\ Handed' = Handed
  BY <1>1 DEF Row, Vals, Handed
<1>5. Typed'
  BY <1>2, <1>4, KeptFinite DEF Kept, Typed
<1>6. Dated'
  <2>1. SUFFICES ASSUME Handed, NEW x \in rows' PROVE x.id \in 1..(now' - 1)
    BY <1>4 DEF Dated
  <2>2. now \in Nat /\ now' \in Nat /\ now' >= now /\ (c.op \in Makers => now' = now + 1) /\ now >= 1
    BY <1>1, SizesAssumption DEF Inv, World
  <2>3. \A r \in rows : r.id \in 1..(now - 1) /\ r.id \in Nat
    BY <2>1 DEF Inv, Dated, Typed, Row
  <2>4. \/ \E r \in rows : r.id = x.id
        \/ x.id = now /\ c.op \in Makers
    BY <1>2, <2>1 DEF Kept
  <2>. QED
    BY <2>2, <2>3, <2>4
<1>7. Once(rows)'
  BY <1>2 DEF Kept, Once
<1>8. Hashed'
  BY <1>1, GraphHashed DEF Hashed, Inv, World
<1>9. Lasting'
  BY <1>1, JtisLasting DEF Lasting, Inv, World
<1>. QED
  BY <1>3, <1>5, <1>6, <1>7, <1>8, <1>9 DEF Inv

LEMMA InvNext == Inv /\ [Next]_vars => Inv'
<1>1. ASSUME Inv, Tick PROVE Inv'
  <2>1. /\ now' = now + 1 /\ now < MaxNow /\ UNCHANGED <<backend, table, rows, times, names>>
    BY <1>1 DEF Tick
  <2>2. World' /\ now \in Nat
    BY <1>1, <2>1, SizesAssumption DEF Inv, World
  <2>3. Typed' /\ Once(rows)' /\ Hashed' /\ Lasting'
    BY <1>1, <2>1 DEF Inv, Typed, Once, Hashed, Lasting, Row, Vals
  <2>4. Dated'
    BY <1>1, <2>1, <2>2 DEF Inv, Dated, Handed, Typed, Row
  <2>. QED
    BY <2>2, <2>3, <2>4 DEF Inv
<1>2. ASSUME Inv, UNCHANGED vars PROVE Inv'
  BY <1>2 DEF Inv, World, Typed, Dated, Once, Hashed, Lasting, Row, Vals, Handed, vars
<1>. QED
  BY <1>1, <1>2, InvCall DEF Next

(* In every state: rows have their types, no id is handed out twice to two *)
(* users, and those the services make up are of the past, whatever the     *)
(* backend and the table (store.go and its three implementations).         *)
THEOREM RowsInvariant == Spec => []Inv
  BY InvInit, InvNext, PTL DEF Spec

-----------------------------------------------------------------------------
(* Unique keys.                                                            *)

NoClash(t) == ~ \E r \in t : Clash(t, r)

(* Rows that all have the id, user and key of rows without a clash.        *)
LEMMA ClashFree ==
  ASSUME NEW t, NEW t2, NoClash(t),
         \A x \in t2 : \E r \in t : r.id = x.id /\ r.user = x.user /\ r.key = x.key
  PROVE  NoClash(t2)
  BY DEF NoClash, Clash

LEMMA ClashInsert ==
  ASSUME NEW t, NoClash(t), NEW n
  PROVE  NoClash(InsertUnique(t, n).rows)
<1>1. CASE Clash(t, n)
  BY <1>1 DEF InsertUnique, Err
<1>2. CASE ~ Clash(t, n)
  <2>1. InsertUnique(t, n).rows \in {t, t \cup {n}}
    BY <1>2, InsertRows DEF InsertUnique
  <2>2. NoClash(t \cup {n})
    BY <1>2 DEF NoClash, Clash
  <2>. QED
    BY <2>1, <2>2
<1>. QED
  BY <1>1, <1>2

LEMMA DrivesUnique ==
  ASSUME Inv, table = "drives", NoClash(rows),
         NEW c \in Calls(table), NEW b \in {"sqlite", "postgres"}
  PROVE  NoClash(Do(b, table, rows, c).rows)
<1>0. Do(b, table, rows, c) = SqliteDrives(rows, c)
  BY DEF Do, Sqlite, Postgres, SqliteDrives, PgDrives
<1>1. c.op \in {"create", "get", "list", "delete", "byAlias"} \/ (c.op = "update" /\ c.key \in Nat)
  BY SizesAssumption DEF Calls, Crud, Calls0, Keys, OrUnset, Unset
<1>2. CASE c.op = "create"
  <2>1. Do(b, table, rows, c) = InsertUnique(rows, New(c.user, c.key, 1, 0))
    BY <1>0, <1>2 DEF SqliteDrives
  <2>. QED
    BY <2>1, ClashInsert
<1>3. CASE c.op \in {"get", "list", "delete", "byAlias"}
  <2>1. Do(b, table, rows, c).rows \in SUBSET rows
    BY <1>0, <1>3, QuietRows, EraseRows DEF SqliteDrives, Scoped, ByAlias
  <2>. QED
    BY <2>1, ClashFree
<1>4. CASE c.op = "update"
  <2>1. CASE \E r \in Edited(rows, c) : Clash(rows, r)
    BY <1>0, <1>4, <2>1 DEF SqliteDrives, Err
  <2>2. CASE ~ \E r \in Edited(rows, c) : Clash(rows, r)
    <3>1. \A x \in Edited(rows, c) : x.id = c.id
      <4>1. \A r \in OwnId(rows, c) : r.id = c.id /\ r \in Row
        BY DEF OwnId, Inv, Typed
      <4>2. \A r \in OwnId(rows, c) : [r EXCEPT !.key = c.key, !.val = c.val].id = c.id
        BY <4>1 DEF Row
      <4>3. TAKE x \in Edited(rows, c)
      <4>4. PICK r \in OwnId(rows, c) : x = [r EXCEPT !.key = c.key, !.val = c.val]
        BY <4>3 DEF Edited
      <4>. QED
        BY <4>2, <4>4
    <3>2. NoClash((rows \ OwnId(rows, c)) \cup Edited(rows, c))
      BY <2>2, <3>1 DEF NoClash, Clash
    <3>3. Do(b, table, rows, c) = Amend(rows, OwnId(rows, c), Edited(rows, c))
      BY <1>0, <1>4, <2>2 DEF SqliteDrives
    <3>4. Do(b, table, rows, c).rows \in {rows, (rows \ OwnId(rows, c)) \cup Edited(rows, c)}
      BY <3>3, AmendRows
    <3>. QED
      BY <3>2, <3>4
  <2>. QED
    BY <2>1, <2>2
<1>. QED
  BY <1>1, <1>2, <1>3, <1>4

LEMMA JobsUnique ==
  ASSUME Inv, table = "jobs", NoClash(rows),
         NEW c \in Calls(table), NEW b \in {"sqlite", "postgres"}
  PROVE  NoClash(Do(b, table, rows, c).rows)
<1>0. Do(b, table, rows, c) \in {SqliteJobs(rows, c), PgJobs(rows, c)}
  BY DEF Do, Sqlite, Postgres
<1>1. c.op \in {"create", "get", "byID", "byKey", "count", "page", "adminPage", "list",
                "pending", "running", "claim", "update", "purge"}
  BY DEF Calls, Calls0
<1>2. CASE c.op = "create"
  <2>1. Do(b, table, rows, c) = InsertUnique(rows, New(c.user, c.key, "pending", 0))
    BY <1>0, <1>2 DEF SqliteJobs, PgJobs
  <2>. QED
    BY <2>1, ClashInsert
<1>3. CASE c.op \in {"get", "byID", "byKey", "count"}
  <2>1. JobCalls(rows, c).rows = rows
    BY <1>3, QuietRows DEF JobCalls, ByAlias
  <2>2. Do(b, table, rows, c) = JobCalls(rows, c)
    BY <1>0, <1>3 DEF SqliteJobs, PgJobs
  <2>. QED
    BY <2>1, <2>2
<1>4. CASE c.op \in {"page", "adminPage", "list", "pending", "running"}
  <2>1. Do(b, table, rows, c).rows = rows
    BY <1>0, <1>4, QuietRows DEF SqliteJobs, PgJobs, Page, Running
  <2>. QED
    BY <2>1
<1>5. CASE c.op \in {"claim", "update"}
  <2>1. \A r \in rows : \A v, w :
          /\ [r EXCEPT !.val = v].id = r.id /\ [r EXCEPT !.val = v].user = r.user
          /\ [r EXCEPT !.val = v].key = r.key
          /\ [r EXCEPT !.val = v, !.upd = w].id = r.id
          /\ [r EXCEPT !.val = v, !.upd = w].user = r.user
          /\ [r EXCEPT !.val = v, !.upd = w].key = r.key
    BY DEF Inv, Typed, Row
  <2>2. \A Z \in SUBSET rows : \A x \in Claimed(Z) :
          \E r \in rows : r.id = x.id /\ r.user = x.user /\ r.key = x.key
    <3>1. TAKE Z \in SUBSET rows
    <3>2. TAKE x \in Claimed(Z)
    <3>3. PICK r \in Z : x = [r EXCEPT !.val = "running"]
      BY <3>2 DEF Claimed
    <3>. QED
      BY <2>1, <3>3
  <2>3. \A Z \in SUBSET rows : \A x \in {Settle(r, c.val) : r \in Z} :
          \E r \in rows : r.id = x.id /\ r.user = x.user /\ r.key = x.key
    <3>1. TAKE Z \in SUBSET rows
    <3>2. TAKE x \in {Settle(r, c.val) : r \in Z}
    <3>3. PICK r \in Z : x = Settle(r, c.val)
      BY <3>2
    <3> DEFINE w == IF c.val \in Terminal THEN now ELSE 0
    <3>4. x = [r EXCEPT !.val = c.val, !.upd = w] /\ r \in rows
      BY <3>3 DEF Settle
    <3> HIDE DEF w
    <3>. QED
      BY <2>1, <3>4
  <2>4. {r \in OwnId(rows, c) : r.val = "pending"} \in SUBSET rows /\ OwnId(rows, c) \in SUBSET rows
    BY DEF OwnId
  <2>5. Do(b, table, rows, c) = JobCalls(rows, c)
    BY <1>0, <1>5 DEF SqliteJobs, PgJobs
  <2>6. \E Z \in SUBSET rows : \E T :
          /\ \A x \in T : \E r \in rows : r.id = x.id /\ r.user = x.user /\ r.key = x.key
          /\ Do(b, table, rows, c) = Amend(rows, Z, T)
    <3>1. CASE c.op = "claim"
      <4> DEFINE Z == {r \in OwnId(rows, c) : r.val = "pending"}
      <4>1. Do(b, table, rows, c) = Amend(rows, Z, Claimed(Z))
        BY <2>5, <3>1 DEF JobCalls
      <4>. QED
        BY <4>1, <2>2, <2>4
    <3>2. CASE c.op = "update"
      <4>1. Do(b, table, rows, c) =
              Amend(rows, OwnId(rows, c), {Settle(r, c.val) : r \in OwnId(rows, c)})
        BY <2>5, <3>2 DEF JobCalls
      <4>. QED
        BY <4>1, <2>3, <2>4
    <3>. QED
      BY <1>5, <3>1, <3>2
  <2>7. PICK Z \in SUBSET rows : \E T :
          /\ \A x \in T : \E r \in rows : r.id = x.id /\ r.user = x.user /\ r.key = x.key
          /\ Do(b, table, rows, c) = Amend(rows, Z, T)
    BY <2>6
  <2>8. PICK T :
          /\ \A x \in T : \E r \in rows : r.id = x.id /\ r.user = x.user /\ r.key = x.key
          /\ Do(b, table, rows, c) = Amend(rows, Z, T)
    BY <2>7
  <2>9. NoClash((rows \ Z) \cup T)
    BY <2>8, ClashFree
  <2>10. Amend(rows, Z, T).rows = rows \/ Amend(rows, Z, T).rows = (rows \ Z) \cup T
    BY AmendRows
  <2>. QED
    BY <2>8, <2>9, <2>10
<1>6. CASE c.op = "purge"
  <2>1. \E Z : Do(b, table, rows, c) = Done(rows \ Z)
    BY <1>0, <1>6 DEF SqliteJobs, PgJobs, OldJobs
  <2>2. Do(b, table, rows, c).rows \in SUBSET rows
    BY <2>1 DEF Done
  <2>. QED
    BY <2>2, ClashFree
<1>. QED
  BY <1>1, <1>2, <1>3, <1>4, <1>5, <1>6

KeyOnce(t) == \A r, x \in t : r.key = x.key => r = x

LEMMA KeyOnceAmend ==
  ASSUME Inv, KeyOnce(rows), NEW Z \in SUBSET rows, NEW v
  PROVE  /\ KeyOnce(Amend(rows, Z, {[r EXCEPT !.val = v] : r \in Z}).rows)
         /\ KeyOnce(Amend(rows, Z, {[r EXCEPT !.upd = @ + 1] : r \in Z}).rows)
<1>1. \A r \in rows : [r EXCEPT !.val = v].key = r.key /\ [r EXCEPT !.upd = @ + 1].key = r.key
  BY DEF Inv, Typed, Row
<1>2. KeyOnce((rows \ Z) \cup {[r EXCEPT !.val = v] : r \in Z})
  <2>1. SUFFICES ASSUME NEW x \in (rows \ Z) \cup {[r EXCEPT !.val = v] : r \in Z},
                        NEW y \in (rows \ Z) \cup {[r EXCEPT !.val = v] : r \in Z}, x.key = y.key
                 PROVE  x = y
    BY DEF KeyOnce
  <2>2. PICK p \in rows : (p \notin Z /\ x = p) \/ (p \in Z /\ x = [p EXCEPT !.val = v])
    OBVIOUS
  <2>3. PICK q \in rows : (q \notin Z /\ y = q) \/ (q \in Z /\ y = [q EXCEPT !.val = v])
    OBVIOUS
  <2>4. p.key = q.key
    BY <1>1, <2>1, <2>2, <2>3
  <2>5. p = q
    BY <2>4 DEF KeyOnce
  <2>. QED
    BY <2>2, <2>3, <2>5
<1>3. KeyOnce((rows \ Z) \cup {[r EXCEPT !.upd = @ + 1] : r \in Z})
  <2>1. SUFFICES ASSUME NEW x \in (rows \ Z) \cup {[r EXCEPT !.upd = @ + 1] : r \in Z},
                        NEW y \in (rows \ Z) \cup {[r EXCEPT !.upd = @ + 1] : r \in Z},
                        x.key = y.key
                 PROVE  x = y
    BY DEF KeyOnce
  <2>2. PICK p \in rows : (p \notin Z /\ x = p) \/ (p \in Z /\ x = [p EXCEPT !.upd = @ + 1])
    OBVIOUS
  <2>3. PICK q \in rows : (q \notin Z /\ y = q) \/ (q \in Z /\ y = [q EXCEPT !.upd = @ + 1])
    OBVIOUS
  <2>4. p.key = q.key
    BY <1>1, <2>1, <2>2, <2>3
  <2>5. p = q
    BY <2>4 DEF KeyOnce
  <2>. QED
    BY <2>2, <2>3, <2>5
<1>. QED
  BY <1>2, <1>3, AmendRows

LEMMA UsersUnique ==
  ASSUME Inv, table = "users", KeyOnce(rows), NEW c \in Calls(table), NEW b \in Stores3
  PROVE  KeyOnce(Do(b, table, rows, c).rows)
<1>0. Do(b, table, rows, c) = SqliteUsers(rows, c)
  BY DEF Do, Sqlite, Postgres, Memory, SqliteUsers, PgUsers, MemUsers, Stores3
<1>1. c.op \in {"create", "byKey", "byID", "list", "count", "bump", "set"}
  BY DEF Calls, Calls0
<1>2. CASE c.op = "create"
  <2> DEFINE n == New(Unset, c.key, c.val, 0)
  <2>1. Do(b, table, rows, c) = InsertUser(rows, n)
    BY <1>0, <1>2 DEF SqliteUsers
  <2> HIDE DEF n
  <2>2. \/ InsertUser(rows, n).rows = rows
        \/ InsertUser(rows, n).rows = rows \cup {n} /\ \A x \in rows : x.key # n.key
    BY InsertRows, QuietRows DEF InsertUser
  <2>. QED
    BY <2>1, <2>2 DEF KeyOnce
<1>3. CASE c.op \in {"byKey", "byID", "list", "count"}
  <2>0. Do(b, table, rows, c) = UserCalls(rows, c)
    BY <1>0, <1>3 DEF SqliteUsers
  <2>1. Do(b, table, rows, c).rows = rows
    BY <2>0, <1>3, QuietRows DEF UserCalls
  <2>. QED
    BY <2>1
<1>4. ById(rows, c.id) \in SUBSET rows
  BY DEF ById
<1>5. CASE c.op = "bump"
  <2> DEFINE A == ById(rows, c.id)
             B == {[r EXCEPT !.upd = @ + 1] : r \in A}
  <2>1. Do(b, table, rows, c) = Amend(rows, A, B)
    BY <1>0, <1>5 DEF SqliteUsers, UserCalls, Bump
  <2>2. KeyOnce(Amend(rows, A, B).rows)
    BY <1>4, KeyOnceAmend
  <2>. QED
    BY <2>1, <2>2
<1>6. CASE c.op = "set"
  <2> DEFINE A == ById(rows, c.id)
             B == {[r EXCEPT !.val = c.val] : r \in A}
  <2>1. Do(b, table, rows, c) = Amend(rows, A, B)
    BY <1>0, <1>6 DEF SqliteUsers, UserCalls
  <2>2. KeyOnce(Amend(rows, A, B).rows)
    BY <1>4, KeyOnceAmend
  <2>. QED
    BY <2>1, <2>2
<1>. QED
  BY <1>1, <1>2, <1>3, <1>5, <1>6

(* In a SQL store no two drives of a user share an alias and no two jobs   *)
(* an idempotency key, whatever creates, renames and purges come in what   *)
(* order; usernames are unique in every store.                             *)
THEOREM UniqueHolds == Spec => []UniqueKept
<1>1. Init => UniqueKept
  BY DEF Init, UniqueKept
<1>2. Inv /\ UniqueKept /\ [Next]_vars => UniqueKept'
  <2>1. ASSUME Inv, UniqueKept, NEW c \in Calls(table), Call(c) PROVE UniqueKept'
    <3>1. /\ rows' = Do(backend, table, rows, c).rows /\ UNCHANGED <<backend, table>>
          /\ backend \in Stores3
      BY <2>1 DEF Call, Inv, World
    <3>2. backend # "memory" /\ table \in {"drives", "jobs"} => NoClash(rows')
      BY <2>1, <3>1, DrivesUnique, JobsUnique DEF UniqueKept, NoClash, Stores3
    <3>3. table = "users" => KeyOnce(rows')
      BY <2>1, <3>1, UsersUnique DEF UniqueKept, KeyOnce
    <3>. QED
      BY <3>1, <3>2, <3>3 DEF UniqueKept, NoClash, KeyOnce
  <2>2. ASSUME UniqueKept, UNCHANGED <<backend, table, rows>> PROVE UniqueKept'
    BY <2>2 DEF UniqueKept, Clash
  <2>. QED
    BY <2>1, <2>2 DEF Next, Tick, vars
<1>. QED
  BY <1>1, <1>2, RowsInvariant, PTL DEF Spec

-----------------------------------------------------------------------------
(* Revocation.                                                             *)

LEMMA SpentStay ==
  ASSUME Inv, table = "refresh", NEW c \in Calls(table), NEW b \in Stores3,
         NEW r \in rows, r.val = 2
  PROVE  r \in Do(b, table, rows, c).rows
<1>0. Do(b, table, rows, c)
        \in {SqliteRefresh(rows, c), PgRefresh(rows, c), MemRefresh(rows, c)}
  BY DoTable
<1>1. c.op \in {"create", "byHash", "revoke", "revokeUser"}
  BY DEF Calls, Calls0
<1>2. CASE c.op = "create"
  <2> DEFINE n == New(c.user, Unset, 1, c.n)
  <2>1. Do(b, table, rows, c) \in {Insert(rows, n), Put(rows, n)}
    BY <1>0, <1>2 DEF SqliteRefresh, PgRefresh, MemRefresh
  <2>2. n.id = now
    BY DEF New
  <2>3. r.id # n.id
    BY <2>2, SizesAssumption DEF Inv, World, Typed, Dated, Handed, Row
  <2> HIDE DEF n
  <2>4. r \in Put(rows, n).rows
    BY <2>3, PutRows
  <2>5. r \in Insert(rows, n).rows
    BY InsertRows
  <2>. QED
    BY <2>1, <2>4, <2>5
<1>3. CASE c.op = "byHash"
  <2>1. RefreshCalls(rows, c).rows = rows
    BY <1>3, QuietRows DEF RefreshCalls
  <2>2. Do(b, table, rows, c) = RefreshCalls(rows, c)
    BY <1>0, <1>3 DEF SqliteRefresh, PgRefresh, MemRefresh
  <2>. QED
    BY <2>1, <2>2
<1>4. CASE c.op = "revoke"
  <2> DEFINE Z == Unspent(ById(rows, c.id))
             T == Spend(ById(rows, c.id))
  <2>1. Do(b, table, rows, c) = Amend(rows, Z, T)
    BY <1>0, <1>4 DEF SqliteRefresh, PgRefresh, MemRefresh, RefreshCalls
  <2>2. r \notin Z
    BY DEF Unspent
  <2> HIDE DEF Z, T
  <2>. QED
    BY <2>1, <2>2, AmendRows
<1>5. CASE c.op = "revokeUser"
  <2>1. Do(b, table, rows, c).rows = (rows \ Own(rows, c.user)) \cup Spend(Own(rows, c.user))
    BY <1>0, <1>5 DEF SqliteRefresh, PgRefresh, MemRefresh, Done
  <2>2. [r EXCEPT !.val = 2] = r
    BY DEF Inv, Typed, Row
  <2>3. r \in Own(rows, c.user) => r \in Spend(Own(rows, c.user))
    BY <2>2 DEF Spend
  <2>. QED
    BY <2>1, <2>3
<1>. QED
  BY <1>1, <1>2, <1>3, <1>4, <1>5

(* A text of a later instant is no smaller where texts compare like times. *)
LEMMA TextOrder ==
  ASSUME Inv, NEW i \in 1..(MaxNow + 1), Clock[now] =< Clock[i]
  PROVE  /\ ~ Clock[i] < Clock[now] /\ ~ Clock[now] > Clock[i]
         /\ InStep => ~ Text[i] < Text[now]
<1>1. /\ times \in [1..(MaxNow + 1) -> 0..99] /\ now \in 1..(MaxNow + 1)
  <2>1. World /\ now \in 1..MaxNow
    BY DEF Inv, World
  <2>. QED
    BY <2>1, Timescale, SizesAssumption
<1>0. \A p \in 1..(MaxNow + 1) : times[p] \in Nat
  <2>1. \A p \in 1..(MaxNow + 1) : times[p] \in 0..99
    BY <1>1, Zenon
  <2>2. \A f \in 0..99 : f \in Nat
    OBVIOUS
  <2>. QED
    BY <2>1, <2>2, Zenon
<1>2. times[i] \in Nat /\ times[now] \in Nat /\ MaxNow \in Nat
  BY <1>0, <1>1, SizesAssumption
<1>3. ~ Clock[i] < Clock[now] /\ ~ Clock[now] > Clock[i]
  BY <1>2 DEF Clock
<1>5. \A p \in 1..(MaxNow + 1) : Text[p] \in Int
  <2>1. TAKE p \in 1..(MaxNow + 1)
  <2>2. times[p] \in Nat
    BY <1>0
  <2>3. p \in DOMAIN times
    BY <1>1
  <2>. QED
    BY <2>2, <2>3 DEF Text
<1>6. ASSUME InStep PROVE ~ Text[i] < Text[now]
  <2>1. times[now] < times[i] => Text[now] < Text[i]
    BY <1>1, <1>6 DEF InStep
  <2>2. times[now] = times[i] => Text[now] = Text[i]
    BY <1>1 DEF Text
  <2>3. Text[now] \in Int /\ Text[i] \in Int
    BY <1>1, <1>5
  <2>4. times[now] < times[i] \/ times[now] = times[i]
    BY <1>2, <1>3 DEF Clock
  <2>. QED
    BY <2>1, <2>2, <2>3, <2>4
<1>. QED
  BY <1>3, <1>6

LEMMA RevokedStay ==
  ASSUME Inv, table = "jtis", NEW c \in Calls(table), NEW b \in Stores3,
         b = "sqlite" => InStep, NEW r \in rows, Clock[now] =< Clock[r.upd]
  PROVE  r.id \in {x.id : x \in Do(b, table, rows, c).rows}
<1>1. c.op \in {"revoke", "check"}
  BY DEF Calls, Calls0
<1>2. r.upd \in 1..(MaxNow + 1)
  BY SizesAssumption DEF Inv, Lasting
<1>3. /\ ~ Clock[r.upd] < Clock[now] /\ ~ Clock[now] > Clock[r.upd]
      /\ b = "sqlite" => ~ Text[r.upd] < Text[now]
  BY <1>2, TextOrder
<1>4. ASSUME NEW t, r \in t
      PROVE  r.id \in {x.id : x \in Put(t, Jti(c)).rows}
  BY <1>4, PutRows
<1>5. CASE c.op = "revoke"
  <2>1. CASE b = "sqlite"
    <3>1. Do(b, table, rows, c) = Put({x \in rows : ~ Text[x.upd] < Text[now]}, Jti(c))
      BY <1>5, <2>1 DEF Do, Sqlite, SqliteJtis
    <3>. QED
      BY <1>3, <1>4, <2>1, <3>1
  <2>2. CASE b = "postgres"
    <3>1. Do(b, table, rows, c) = Put({x \in rows : ~ Clock[x.upd] < Clock[now]}, Jti(c))
      BY <1>5, <2>2 DEF Do, Postgres, PgJtis
    <3>. QED
      BY <1>3, <1>4, <3>1
  <2>3. CASE b = "memory"
    <3>1. Do(b, table, rows, c) = Put({x \in rows : ~ Clock[now] > Clock[x.upd]}, Jti(c))
      BY <1>5, <2>3 DEF Do, Memory, MemJtis
    <3>. QED
      BY <1>3, <1>4, <3>1
  <2>. QED
    BY <2>1, <2>2, <2>3 DEF Stores3
<1>6. CASE c.op = "check"
  <2>0. Do(b, table, rows, c) \in {SqliteJtis(rows, c), PgJtis(rows, c), MemJtis(rows, c)}
    BY DoTable
  <2>1. Do(b, table, rows, c) = Revoked(rows, c, Clock)
    BY <1>6, <2>0 DEF SqliteJtis, PgJtis, MemJtis
  <2>2. r \in Do(b, table, rows, c).rows
    BY <1>3, <2>1 DEF Revoked
  <2>. QED
    BY <2>2
<1>. QED
  BY <1>1, <1>5, <1>6

LEMMA VersionsRise ==
  ASSUME Inv, table = "users", NEW c \in Calls(table), NEW b \in Stores3, NEW r \in rows
  PROVE  \E x \in Do(b, table, rows, c).rows : x.id = r.id /\ x.upd >= r.upd
<1>0. Do(b, table, rows, c) = SqliteUsers(rows, c)
  BY DEF Do, Sqlite, Postgres, Memory, SqliteUsers, PgUsers, MemUsers, Stores3
<1>1. c.op \in {"create", "byKey", "byID", "list", "count", "bump", "set"}
  BY DEF Calls, Calls0
<1>2. r \in Row /\ r.upd \in Nat /\ r.upd >= r.upd
  BY DEF Inv, Typed, Row
<1>3. CASE c.op = "create"
  <2> DEFINE n == New(Unset, c.key, c.val, 0)
  <2>1. Do(b, table, rows, c) = InsertUser(rows, n)
    BY <1>0, <1>3 DEF SqliteUsers
  <2> HIDE DEF n
  <2>2. r \in InsertUser(rows, n).rows
    BY InsertRows, QuietRows DEF InsertUser
  <2>. QED
    BY <1>2, <2>1, <2>2
<1>4. CASE c.op \in {"byKey", "byID", "list", "count"}
  <2>0. Do(b, table, rows, c) = UserCalls(rows, c)
    BY <1>0, <1>4 DEF SqliteUsers
  <2>1. Do(b, table, rows, c).rows = rows
    BY <2>0, <1>4, QuietRows DEF UserCalls
  <2>. QED
    BY <1>2, <2>1
<1>5. CASE c.op = "bump"
  <2> DEFINE Z == ById(rows, c.id)
             T == {[x EXCEPT !.upd = @ + 1] : x \in Z}
  <2>1. Do(b, table, rows, c) = Amend(rows, Z, T)
    BY <1>0, <1>5 DEF SqliteUsers, UserCalls, Bump
  <2>2. [r EXCEPT !.upd = @ + 1].id = r.id /\ [r EXCEPT !.upd = @ + 1].upd >= r.upd
    BY <1>2 DEF Row
  <2>3. r \in Z => [r EXCEPT !.upd = @ + 1] \in T
    OBVIOUS
  <2> HIDE DEF Z, T
  <2>4. Z # {} => Do(b, table, rows, c).rows = (rows \ Z) \cup T
    BY <2>1, AmendRows
  <2>5. Z = {} => Do(b, table, rows, c).rows = rows
    BY <2>1, AmendRows
  <2>. QED
    BY <1>2, <2>2, <2>3, <2>4, <2>5
<1>6. CASE c.op = "set"
  <2> DEFINE Z == ById(rows, c.id)
             T == {[x EXCEPT !.val = c.val] : x \in Z}
  <2>1. Do(b, table, rows, c) = Amend(rows, Z, T)
    BY <1>0, <1>6 DEF SqliteUsers, UserCalls
  <2>2. [r EXCEPT !.val = c.val].id = r.id /\ [r EXCEPT !.val = c.val].upd >= r.upd
    BY <1>2 DEF Row
  <2>3. r \in Z => [r EXCEPT !.val = c.val] \in T
    OBVIOUS
  <2> HIDE DEF Z, T
  <2>4. Z # {} => Do(b, table, rows, c).rows = (rows \ Z) \cup T
    BY <2>1, AmendRows
  <2>5. Z = {} => Do(b, table, rows, c).rows = rows
    BY <2>1, AmendRows
  <2>. QED
    BY <1>2, <2>2, <2>3, <2>4, <2>5
<1>. QED
  BY <1>1, <1>3, <1>4, <1>5, <1>6

(* No call undoes a revocation: a spent refresh token stays spent, also    *)
(* through RevokeUserRefreshTokens and a create; a revoked token id stays  *)
(* through RevokeJTI's pruning until it expires; a token_version never     *)
(* goes back.                                                              *)
THEOREM RevocationStays == Spec => RevocationSticks
<1> DEFINE Stuck == /\ table = "refresh" => \A r \in rows : r.val = 2 => r \in rows'
                    /\ table = "jtis" /\ (backend = "sqlite" => InStep) =>
                         \A r \in rows : Clock[now] =< Clock[r.upd] => r.id \in {x.id : x \in rows'}
                    /\ table = "users" =>
                         \A r \in rows : \E x \in rows' : x.id = r.id /\ x.upd >= r.upd
<1>1. ASSUME Inv, Next PROVE Stuck
  <2>1. CASE Tick
    <3>1. rows' = rows
      BY <2>1 DEF Tick
    <3>2. \A r \in rows : r.upd >= r.upd
      BY <1>1 DEF Inv, Typed, Row
    <3>. QED
      BY <3>1, <3>2
  <2>2. ASSUME NEW c \in Calls(table), Call(c) PROVE Stuck
    <3>1. rows' = Do(backend, table, rows, c).rows /\ backend \in Stores3
      BY <1>1, <2>2 DEF Call, Inv, World
    <3>2. table = "refresh" => \A r \in rows : r.val = 2 => r \in rows'
      BY <1>1, <3>1, SpentStay
    <3>3. table = "jtis" /\ (backend = "sqlite" => InStep) =>
            \A r \in rows : Clock[now] =< Clock[r.upd] => r.id \in {x.id : x \in rows'}
      BY <1>1, <3>1, RevokedStay
    <3>4. table = "users" => \A r \in rows : \E x \in rows' : x.id = r.id /\ x.upd >= r.upd
      BY <1>1, <3>1, VersionsRise
    <3>. QED
      BY <3>2, <3>3, <3>4
  <2>. QED
    BY <1>1, <2>1, <2>2 DEF Next
<1>2. Inv /\ [Next]_vars => [Stuck]_vars
  BY <1>1
<1>. QED
  BY <1>2, RowsInvariant, PTL DEF Spec, RevocationSticks

-----------------------------------------------------------------------------
(* Lists.                                                                  *)

(* R puts the members of Q in one order.                                   *)
Linear(R, Q) == /\ \A x \in Q : <<x, x>> \notin R
                /\ \A x, y \in Q : x # y => <<x, y>> \in R \/ <<y, x>> \in R
                /\ \A x, y, z \in Q : <<x, y>> \in R /\ <<y, z>> \in R => <<x, z>> \in R

(* A list of Q holds each of its members once.                             *)
LEMMA ListOf ==
  ASSUME NEW Q, IsFiniteSet(Q), NEW l \in SetToSeqs(Q)
  PROVE  /\ Cardinality(Q) \in Nat
         /\ l \in [1..Cardinality(Q) -> Q] /\ l \in Seq(Q) /\ Len(l) = Cardinality(Q)
         /\ \A i, j \in 1..Cardinality(Q) : l[i] = l[j] => i = j
         /\ \A r \in Q : \E i \in 1..Cardinality(Q) : l[i] = r
         /\ ToSet(l) = Q
<1> DEFINE n == Cardinality(Q)
<1>1. n \in Nat
  BY FS_CardinalityType
<1>2. l \in [1..n -> Q] /\ \A i, j \in 1..n : l[i] = l[j] => i = j
  BY DEF SetToSeqs
<1>3. IsFiniteSet(1..n) /\ Cardinality(1..n) = n
  BY <1>1, FS_Interval
<1>4. l \in Injection(1..n, Q)
  BY <1>2 DEF Injection, IsInjective
<1>5. l \in Surjection(1..n, Q)
  BY <1>3, <1>4, FS_Injection
<1>6. \A r \in Q : \E i \in 1..n : l[i] = r
  BY <1>5 DEF Surjection
<1>7. ToSet(l) = Q
  BY <1>2, <1>6 DEF ToSet
<1>8. l \in Seq(Q) /\ Len(l) = n
  BY <1>1, <1>2
<1>. QED
  BY <1>1, <1>2, <1>6, <1>7, <1>8

(* A finite set can be listed in any order: the place of a member is told  *)
(* by how many come before it.                                             *)
LEMMA Sorts ==
  ASSUME NEW Q, IsFiniteSet(Q), NEW R, Linear(R, Q)
  PROVE  \E l \in SetToSeqs(Q) : \A i, j \in DOMAIN l : i < j => <<l[i], l[j]>> \in R
<1> DEFINE n     == Cardinality(Q)
           up(r) == {x \in Q : <<x, r>> \in R}
           p     == [r \in Q |-> Cardinality(up(r)) + 1]
<1>1. n \in Nat /\ IsFiniteSet(1..n) /\ Cardinality(1..n) = n
  BY FS_CardinalityType, FS_Interval
<1>2. \A r \in Q : /\ IsFiniteSet(up(r)) /\ Cardinality(up(r)) \in Nat
                   /\ Cardinality(up(r) \cup {r}) = Cardinality(up(r)) + 1
  <2>1. TAKE r \in Q
  <2>2. IsFiniteSet(up(r)) /\ r \notin up(r)
    BY FS_Subset DEF Linear
  <2> HIDE DEF up
  <2>. QED
    BY <2>2, FS_CardinalityType, FS_AddElement
<1>3. p \in [Q -> 1..n]
  <2>1. ASSUME NEW r \in Q PROVE Cardinality(up(r)) + 1 \in 1..n
    <3>1. up(r) \cup {r} \in SUBSET Q
      OBVIOUS
    <3>2. Cardinality(up(r) \cup {r}) =< n
      BY <3>1, FS_Subset
    <3> HIDE DEF up
    <3>. QED
      BY <1>1, <1>2, <3>2
  <2> HIDE DEF up, n
  <2>. QED
    BY <2>1
<1>4. \A x, r \in Q : <<x, r>> \in R => p[x] < p[r]
  <2>1. TAKE x, r \in Q
  <2>2. HAVE <<x, r>> \in R
  <2>3. up(x) \cup {x} \in SUBSET up(r)
    BY <2>2 DEF Linear
  <2>4. Cardinality(up(x) \cup {x}) =< Cardinality(up(r))
    BY <1>2, <2>3, FS_Subset
  <2>5. p[x] = Cardinality(up(x)) + 1 /\ p[r] = Cardinality(up(r)) + 1
    OBVIOUS
  <2>6. /\ Cardinality(up(x)) \in Nat /\ Cardinality(up(r)) \in Nat
        /\ Cardinality(up(x) \cup {x}) = Cardinality(up(x)) + 1
    BY <1>2
  <2> HIDE DEF up, p
  <2>. QED
    BY <2>4, <2>5, <2>6
<1> HIDE DEF n, up, p
<1>5. \A x, r \in Q : p[x] = p[r] => x = r
  <2>1. \A x, r \in Q : p[x] \in Int /\ p[r] \in Int
    BY <1>3
  <2>2. \A x, r \in Q : p[x] = p[r] => <<x, r>> \notin R /\ <<r, x>> \notin R
    BY <1>4, <2>1
  <2>. QED
    BY <2>2 DEF Linear
<1>6. p \in Injection(Q, 1..n)
  BY <1>3, <1>5 DEF Injection, IsInjective
<1>7. p \in Surjection(Q, 1..n)
  <2>1. Cardinality(Q) = Cardinality(1..n)
    BY <1>1 DEF n
  <2>. QED
    BY <1>1, <1>6, <2>1, FS_Injection
<1>8. \A i \in 1..n : \E r \in Q : p[r] = i
  BY <1>7 DEF Surjection
<1> DEFINE l == [i \in 1..n |-> CHOOSE r \in Q : p[r] = i]
<1>9. \A i \in 1..n : l[i] \in Q /\ p[l[i]] = i
  BY <1>8
<1>10. l \in [1..n -> Q] /\ DOMAIN l = 1..n
  BY <1>9
<1> HIDE DEF l
<1>11. \A i, j \in 1..n : i # j => l[i] # l[j]
  BY <1>9
<1>12. l \in SetToSeqs(Q)
  BY <1>10, <1>11 DEF SetToSeqs, n
<1>13. \A i, j \in 1..n : i < j => <<l[i], l[j]>> \in R
  <2>1. TAKE i, j \in 1..n
  <2>2. HAVE i < j
  <2>3. l[i] \in Q /\ l[j] \in Q /\ p[l[i]] = i /\ p[l[j]] = j
    BY <1>9
  <2>4. <<l[j], l[i]>> \notin R
    BY <1>1, <1>4, <2>2, <2>3
  <2>5. l[i] # l[j]
    BY <1>1, <2>2, <2>3
  <2>. QED
    BY <2>3, <2>4, <2>5 DEF Linear
<1>. QED
  BY <1>10, <1>12, <1>13

LEMMA ListExists ==
  ASSUME NEW Q, IsFiniteSet(Q)
  PROVE  SetToSeqs(Q) # {} /\ SetToSeq(Q) \in SetToSeqs(Q)
<1> DEFINE n == Cardinality(Q)
<1>1. \E f : f \in Bijection(1..n, Q)
  BY FS_CardinalityType DEF ExistsBijection
<1>2. PICK f \in [1..n -> Q] : IsInjective(f)
  BY <1>1 DEF Bijection, Injection
<1>3. SetToSeq(Q) \in [1..n -> Q] /\ IsInjective(SetToSeq(Q))
  BY <1>2 DEF SetToSeq
<1>. QED
  BY <1>3 DEF SetToSeqs, IsInjective

(* Sorting by a number has a result, whatever ties there are.              *)
LEMMA DescSorts ==
  ASSUME NEW Q, IsFiniteSet(Q), NEW rank, \A r \in Q : rank[r] \in Int
  PROVE  Desc(Q, rank) \in Orders(Q, rank) /\ Desc(Q, rank) \in SetToSeqs(Q)
<1>1. PICK e : e \in SetToSeqs(Q)
  BY ListExists
<1> DEFINE n == Cardinality(Q)
           at(r) == CHOOSE i \in 1..n : e[i] = r
           R == {p \in Q \X Q : \/ rank[p[1]] > rank[p[2]]
                                \/ rank[p[1]] = rank[p[2]] /\ at(p[1]) < at(p[2])}
<1>2. \A r \in Q : at(r) \in 1..n /\ e[at(r)] = r
  BY <1>1, ListOf
<1>3. \A r \in Q : at(r) \in Int
  BY <1>2
<1>4. \A x, y \in Q : at(x) = at(y) => x = y
  BY <1>2
<1> HIDE DEF at, n
<1>5. \A x, y \in Q : <<x, y>> \in R <=> \/ rank[x] > rank[y]
                                         \/ rank[x] = rank[y] /\ at(x) < at(y)
  OBVIOUS
<1> HIDE DEF R
<1>6. Linear(R, Q)
  <2>1. \A x \in Q : <<x, x>> \notin R
    BY <1>3, <1>5
  <2>2. \A x, y \in Q : x # y => <<x, y>> \in R \/ <<y, x>> \in R
    BY <1>3, <1>4, <1>5
  <2>3. \A x, y, z \in Q : <<x, y>> \in R /\ <<y, z>> \in R => <<x, z>> \in R
    BY <1>3, <1>5
  <2>. QED
    BY <2>1, <2>2, <2>3 DEF Linear
<1>7. PICK l \in SetToSeqs(Q) : \A i, j \in DOMAIN l : i < j => <<l[i], l[j]>> \in R
  BY <1>6, Sorts
<1>8. \A i \in DOMAIN l : l[i] \in Q
  BY ListOf
<1>9. l \in Orders(Q, rank)
  <2>1. \A x, y \in Q : <<x, y>> \in R => rank[x] >= rank[y]
    BY <1>5
  <2>2. \A i, j \in DOMAIN l : i < j => rank[l[i]] >= rank[l[j]]
    BY <1>7, <1>8, <2>1
  <2>. QED
    BY <2>2 DEF Orders
<1>10. Desc(Q, rank) \in Orders(Q, rank)
  BY <1>9 DEF Desc
<1>. QED
  BY <1>10 DEF Orders

LEMMA CutRows ==
  ASSUME NEW Q, NEW l \in Seq(Q), NEW n \in Nat
  PROVE  /\ Cut(l, n) \in Seq(Q)
         /\ Len(Cut(l, n)) = IF Len(l) < n THEN Len(l) ELSE n
         /\ \A i \in 1..Len(Cut(l, n)) : i \in 1..Len(l) /\ Cut(l, n)[i] = l[i]
         /\ ToSet(Cut(l, n)) \subseteq ToSet(l)
         /\ Len(l) =< n => Cut(l, n) = l
<1> DEFINE m == IF Len(l) < n THEN Len(l) ELSE n
<1>1. Len(l) \in Nat /\ m \in Nat /\ m =< Len(l) /\ DOMAIN l = 1..Len(l)
  OBVIOUS
<1>2. \A i \in 1..m : l[i] \in Q
  BY <1>1
<1> HIDE DEF m
<1>3. /\ SubSeq(l, 1, m) \in Seq(Q) /\ Len(SubSeq(l, 1, m)) = m
      /\ \A i \in 1..m : SubSeq(l, 1, m)[i] = l[i]
  BY <1>1, <1>2, SubSeqProperties
<1>4. Cut(l, n) = SubSeq(l, 1, m)
  BY DEF Cut, m
<1>5. ToSet(Cut(l, n)) \subseteq ToSet(l)
  BY <1>1, <1>3, <1>4 DEF ToSet
<1>6. Len(l) =< n => Cut(l, n) = l
  <2>1. Len(l) =< n => m = Len(l)
    <3>1. \A p \in Nat : p =< n => (IF p < n THEN p ELSE n) = p
      OBVIOUS
    <3>. QED
      BY <1>1, <3>1 DEF m
  <2>. QED
    BY <1>4, <2>1, SubSeqFull
<1>7. \A i \in 1..m : i \in 1..Len(l)
  BY <1>1
<1>. QED
  BY <1>3, <1>4, <1>5, <1>6, <1>7 DEF m

LEMMA PassRows ==
  ASSUME NEW Q, NEW l \in Seq(Q), NEW F
  PROVE  /\ ToSet(Pass(l, F)) = ToSet(l) \cap F
         /\ Pass(l, F) \in Seq(ToSet(l) \cap F) /\ Len(Pass(l, F)) =< Len(l)
<1>1. Len(l) \in Nat /\ l \in [1..Len(l) -> Q]
  OBVIOUS
<1>2. IsFiniteSet(ToSet(l)) /\ Cardinality(ToSet(l)) =< Len(l)
  <2>1. l \in Surjection(1..Len(l), ToSet(l))
    BY <1>1 DEF Surjection, ToSet
  <2>2. IsFiniteSet(1..Len(l)) /\ Cardinality(1..Len(l)) = Len(l)
    BY <1>1, FS_Interval
  <2>. QED
    BY <2>1, <2>2, FS_Surjection
<1>3. \A r \in ToSet(l) : Place(l, r) \in Int
  BY <1>1 DEF Place, ToSet
<1> DEFINE Z == ToSet(l) \cap F
           k == [r \in ToSet(l) |-> -Place(l, r)]
<1>4. IsFiniteSet(Z) /\ \A r \in Z : k[r] \in Int
  BY <1>2, <1>3, FS_Subset
<1>5. Cardinality(Z) =< Cardinality(ToSet(l)) /\ Cardinality(Z) \in Nat
  BY <1>2, FS_Subset, FS_CardinalityType
<1>6. Pass(l, F) = Desc(Z, k)
  BY DEF Pass
<1> HIDE DEF Z, k
<1>7. Pass(l, F) \in SetToSeqs(Z)
  BY <1>4, <1>6, DescSorts
<1>8. ToSet(Pass(l, F)) = Z /\ Pass(l, F) \in Seq(Z) /\ Len(Pass(l, F)) = Cardinality(Z)
  BY <1>4, <1>7, ListOf
<1>9. Cardinality(ToSet(l)) \in Nat
  BY <1>2, FS_CardinalityType
<1>. QED
  BY <1>1, <1>2, <1>5, <1>8, <1>9 DEF Z

LEMMA ReverseRows ==
  ASSUME NEW Q, NEW l \in Seq(Q)
  PROVE  ToSet(Reverse(l)) = ToSet(l)
<1> DEFINE n == Len(l)
<1>1. n \in Nat /\ DOMAIN l = 1..n
  OBVIOUS
<1>2. Reverse(l) = [i \in 1..n |-> l[n - i + 1]]
  BY DEF Reverse
<1> HIDE DEF n
<1>3. \A i \in 1..n : n - i + 1 \in 1..n /\ n - (n - i + 1) + 1 = i
  BY <1>1
<1>4. DOMAIN Reverse(l) = 1..n /\ \A i \in 1..n : Reverse(l)[i] = l[n - i + 1]
  BY <1>2
<1>5. \A i \in 1..n : Reverse(l)[n - i + 1] = l[i]
  BY <1>3, <1>4
<1>. QED
  BY <1>1, <1>3, <1>4, <1>5 DEF ToSet

(* Lists by times that compare alike are the same lists.                   *)
LEMMA SameLatest ==
  ASSUME NEW Q, IsFiniteSet(Q), NEW T, NEW U,
         \A r, x \in Q : T[r.id] >= T[x.id] <=> U[r.id] >= U[x.id]
  PROVE  Latest(Q, T) = Latest(Q, U) /\ \A n : Newest(Q, n, T) = Newest(Q, n, U)
<1> DEFINE f == [r \in Q |-> T[r.id]]
           g == [r \in Q |-> U[r.id]]
<1>1. \A r, x \in Q : f[r] >= f[x] <=> g[r] >= g[x]
  OBVIOUS
<1> HIDE DEF f, g
<1>2. \A l \in SetToSeqs(Q) : \A i \in DOMAIN l : l[i] \in Q
  BY ListOf
<1>3. Orders(Q, f) = Orders(Q, g)
  BY <1>1, <1>2 DEF Orders
<1>4. Latest(Q, T) = Latest(Q, U)
  BY <1>3 DEF Latest, f, g
<1>. QED
  BY <1>4 DEF Newest

LEMMA SameOldest ==
  ASSUME NEW Q, IsFiniteSet(Q), NEW T, NEW U, NEW n,
         \A r, x \in Q : -T[r.upd] >= -T[x.upd] <=> -U[r.upd] >= -U[x.upd]
  PROVE  Oldest(Q, n, T) = Oldest(Q, n, U)
<1> DEFINE f == [r \in Q |-> -T[r.upd]]
           g == [r \in Q |-> -U[r.upd]]
<1>1. \A r, x \in Q : f[r] >= f[x] <=> g[r] >= g[x]
  OBVIOUS
<1> HIDE DEF f, g
<1>2. \A l \in SetToSeqs(Q) : \A i \in DOMAIN l : l[i] \in Q
  BY ListOf
<1>3. Orders(Q, f) = Orders(Q, g)
  BY <1>1, <1>2 DEF Orders
<1>. QED
  BY <1>3 DEF Oldest, f, g

-----------------------------------------------------------------------------
(* Times and purchases.                                                    *)

LEMMA JobsSettled ==
  ASSUME Inv, Settled, table = "jobs", NEW c \in Calls(table), NEW b \in Stores3,
         NEW x \in Do(b, table, rows, c).rows
  PROVE  x.val \in Terminal => x.upd \in 1..(MaxNow + 1)
<1>0. Do(b, table, rows, c) \in {SqliteJobs(rows, c), PgJobs(rows, c), MemJobs(rows, c)}
  BY DoTable
<1>1. c.op \in {"create", "get", "byID", "byKey", "count", "page", "adminPage", "list",
                "pending", "running", "claim", "update", "purge"}
  BY DEF Calls, Calls0
<1>2. \A r \in rows : r.val \in Terminal => r.upd \in 1..(MaxNow + 1)
  BY DEF Settled
<1>3. CASE c.op = "create"
  <2> DEFINE n == New(c.user, c.key, "pending", 0)
  <2>1. Do(b, table, rows, c) \in {InsertUnique(rows, n), Put(rows, n)}
    BY <1>0, <1>3 DEF SqliteJobs, PgJobs, MemJobs
  <2>2. n.val \notin Terminal
    BY DEF New, Terminal
  <2> HIDE DEF n
  <2>3. InsertUnique(rows, n).rows \in {rows, rows \cup {n}}
    BY InsertRows, QuietRows DEF InsertUnique
  <2>4. Put(rows, n).rows = {y \in rows : y.id # n.id} \cup {n}
    BY PutRows
  <2>5. x \in rows \/ x = n
    BY <2>1, <2>3, <2>4
  <2>. QED
    BY <1>2, <2>2, <2>5
<1>4. CASE c.op \in {"get", "byID", "byKey", "count"}
  <2>1. JobCalls(rows, c).rows = rows
    BY <1>4, QuietRows DEF JobCalls, ByAlias
  <2>2. Do(b, table, rows, c) = JobCalls(rows, c)
    BY <1>0, <1>4 DEF SqliteJobs, PgJobs, MemJobs
  <2>. QED
    BY <1>2, <2>1, <2>2
<1>5. CASE c.op \in {"page", "adminPage", "list", "pending", "running"}
  <2>1. Do(b, table, rows, c).rows = rows
    BY <1>0, <1>5, QuietRows DEF SqliteJobs, PgJobs, MemJobs, Page, Running
  <2>. QED
    BY <1>2, <2>1
<1>6. CASE c.op = "claim"
  <2> DEFINE Z == {r \in OwnId(rows, c) : r.val = "pending"}
  <2>1. Do(b, table, rows, c) = Amend(rows, Z, Claimed(Z))
    BY <1>0, <1>6 DEF SqliteJobs, PgJobs, MemJobs, JobCalls
  <2>2. Z \in SUBSET rows
    BY DEF OwnId
  <2> HIDE DEF Z
  <2>3. x \in rows \/ x \in Claimed(Z)
    BY <2>1, AmendRows
  <2>4. ASSUME x \in Claimed(Z) PROVE x.val \notin Terminal
    <3>1. PICK r \in Z : x = [r EXCEPT !.val = "running"]
      BY <2>4 DEF Claimed
    <3>2. r \in Row
      BY <2>2 DEF Inv, Typed
    <3>3. x.val = "running"
      BY <3>1, <3>2 DEF Row
    <3>. QED
      BY <3>3 DEF Terminal
  <2>. QED
    BY <1>2, <2>3, <2>4
<1>7. CASE c.op = "update"
  <2> DEFINE Z == OwnId(rows, c)
             T == {Settle(r, c.val) : r \in Z}
  <2>1. Do(b, table, rows, c) = Amend(rows, Z, T)
    BY <1>0, <1>7 DEF SqliteJobs, PgJobs, MemJobs, JobCalls
  <2>2. Z \in SUBSET rows
    BY DEF OwnId
  <2>3. ASSUME x \in T PROVE x.val \in Terminal => x.upd = now
    <3>1. PICK r \in Z : x = Settle(r, c.val)
      BY <2>3
    <3>2. r \in Row
      BY <2>2, <3>1 DEF Inv, Typed
    <3>3. x.val = c.val /\ x.upd = IF c.val \in Terminal THEN now ELSE 0
      BY <3>1, <3>2 DEF Row, Settle
    <3>. QED
      BY <3>3
  <2> HIDE DEF Z, T
  <2>4. x \in rows \/ x \in T
    BY <2>1, AmendRows
  <2>5. now \in 1..(MaxNow + 1)
    BY SizesAssumption DEF Inv, World
  <2>. QED
    BY <1>2, <2>3, <2>4, <2>5
<1>8. CASE c.op = "purge"
  <2>1. \E Z : Do(b, table, rows, c) = Done(rows \ Z)
    BY <1>0, <1>8 DEF SqliteJobs, PgJobs, MemJobs, OldJobs
  <2>2. x \in rows
    BY <2>1 DEF Done
  <2>. QED
    BY <1>2, <2>2
<1>. QED
  BY <1>1, <1>3, <1>4, <1>5, <1>6, <1>7, <1>8

LEMMA OutboxSettled ==
  ASSUME Inv, Settled, table = "outbox", NEW c \in Calls(table), NEW b \in Stores3,
         NEW x \in Do(b, table, rows, c).rows
  PROVE  x.upd \in 1..(MaxNow + 1)
<1>0. Do(b, table, rows, c) \in {SqliteOutbox(rows, c), PgOutbox(rows, c), MemOutbox(rows, c)}
  BY DoTable
<1>1. \/ c.op \in {"enqueue", "due", "get", "list", "count", "ofJob", "purge"}
      \/ c.op = "update" /\ c.n \in {now, now + 1}
  BY DEF Calls, Calls0
<1>2. /\ \A r \in rows : r.upd \in 1..(MaxNow + 1)
      /\ now \in 1..(MaxNow + 1) /\ now + 1 \in 1..(MaxNow + 1)
  BY SizesAssumption DEF Settled, Inv, World
<1>3. CASE c.op = "enqueue"
  <2> DEFINE n == New(c.user, c.key, "pending", now)
  <2>1. Do(b, table, rows, c) = Insert(rows, n)
    BY <1>0, <1>3 DEF SqliteOutbox, PgOutbox, MemOutbox
  <2>2. n.upd = now
    BY DEF New
  <2> HIDE DEF n
  <2>3. x \in rows \/ x = n
    BY <2>1, InsertRows
  <2>. QED
    BY <1>2, <2>2, <2>3
<1>4. ASSUME c.op # "enqueue" PROVE \E T : Do(b, table, rows, c) = BoxCalls(rows, c, T)
  BY <1>0, <1>4 DEF SqliteOutbox, PgOutbox, MemOutbox
<1>5. CASE c.op \in {"due", "get", "list", "count"}
  <2>1. \A T : BoxCalls(rows, c, T).rows = rows
    BY <1>5, QuietRows DEF BoxCalls
  <2>. QED
    BY <1>2, <1>4, <1>5, <2>1
<1>6. CASE c.op \in {"ofJob", "purge"}
  <2>1. PICK T : Do(b, table, rows, c) = BoxCalls(rows, c, T)
    BY <1>4, <1>6
  <2>2. \E Z : BoxCalls(rows, c, T) = Done(rows \ Z)
    <3>1. {r \in rows : r.key # c.key} = rows \ {r \in rows : r.key = c.key}
      OBVIOUS
    <3>. QED
      BY <1>6, <3>1 DEF BoxCalls
  <2>3. x \in rows
    BY <2>1, <2>2 DEF Done
  <2>. QED
    BY <1>2, <2>3
<1>7. CASE c.op = "update"
  <2> DEFINE Z == ById(rows, c.id)
             T == {[r EXCEPT !.val = c.val, !.upd = c.n] : r \in Z}
  <2>1. Do(b, table, rows, c) = Amend(rows, Z, T)
    BY <1>0, <1>7 DEF SqliteOutbox, PgOutbox, MemOutbox, BoxCalls
  <2>2. Z \in SUBSET rows
    BY DEF ById
  <2>3. ASSUME x \in T PROVE x.upd = c.n
    <3>1. PICK r \in Z : x = [r EXCEPT !.val = c.val, !.upd = c.n]
      BY <2>3
    <3>2. r \in Row
      BY <2>2, <3>1 DEF Inv, Typed
    <3>. QED
      BY <3>1, <3>2 DEF Row
  <2> HIDE DEF Z, T
  <2>4. x \in rows \/ x \in T
    BY <2>1, AmendRows
  <2>. QED
    BY <1>1, <1>2, <1>7, <2>3, <2>4
<1>. QED
  BY <1>1, <1>3, <1>5, <1>6, <1>7

LEMMA PurchasesSettled ==
  ASSUME Inv, Settled, table = "purchases", NEW c \in Calls(table), NEW b \in Stores3,
         NEW x \in Do(b, table, rows, c).rows
  PROVE  x.key = Unset /\ x.upd = 0
<1>0. Do(b, table, rows, c)
        \in {SqlitePurchases(rows, c), PgPurchases(rows, c), MemPurchases(rows, c)}
  BY DoTable
<1>1. c.op \in {"create", "list", "get", "update"}
  BY DEF Calls, Calls0
<1>2. \A r \in rows : r.key = Unset /\ r.upd = 0 /\ r \in Row
  BY DEF Settled, Inv, Typed
<1>3. CASE c.op = "create"
  <2> DEFINE n == New(c.user, Unset, 1, 0)
  <2>1. Do(b, table, rows, c) = Insert(rows, n)
    BY <1>0, <1>3 DEF SqlitePurchases, PgPurchases, MemPurchases, PurchaseCalls
  <2>2. n.key = Unset /\ n.upd = 0
    BY DEF New
  <2> HIDE DEF n
  <2>3. x \in rows \/ x = n
    BY <2>1, InsertRows
  <2>. QED
    BY <1>2, <2>2, <2>3
<1>4. CASE c.op \in {"list", "get"}
  <2>0. \/ \E L : Do(b, table, rows, c) = Answer(rows, L)
        \/ \E Z : Do(b, table, rows, c) = One(rows, Z)
    BY <1>0, <1>4 DEF SqlitePurchases, PgPurchases, MemPurchases, PurchaseCalls
  <2>1. Do(b, table, rows, c).rows = rows
    BY <2>0, QuietRows
  <2>. QED
    BY <1>2, <2>1
<1>5. CASE c.op = "update"
  <2> DEFINE n == [id |-> c.id, user |-> c.user, key |-> Unset, val |-> c.val, upd |-> 0]
             Z == OwnId(rows, c)
             T == {[r EXCEPT !.val = c.val] : r \in Z}
  <2>1. Do(b, table, rows, c) \in {Err(rows), Put(rows, n), Amend(rows, Z, T)}
    BY <1>0, <1>5 DEF SqlitePurchases, PgPurchases, MemPurchases, PurchaseCalls
  <2>2. n.key = Unset /\ n.upd = 0
    OBVIOUS
  <2>3. ASSUME x \in T PROVE x.key = Unset /\ x.upd = 0
    <3>1. PICK r \in Z : x = [r EXCEPT !.val = c.val]
      BY <2>3
    <3>2. r \in rows
      BY <3>1 DEF OwnId
    <3>. QED
      BY <1>2, <3>1, <3>2 DEF Row
  <2> HIDE DEF n, Z, T
  <2>4. x \in rows \/ x = n \/ x \in T
    BY <2>1, AmendRows, PutRows, QuietRows
  <2>. QED
    BY <1>2, <2>2, <2>3, <2>4
<1>. QED
  BY <1>1, <1>3, <1>4, <1>5

(* Rows are Settled in every state.                                        *)
LEMMA SettledInvariant == Spec => []Settled
<1>1. Init => Settled
  BY DEF Init, Settled
<1>2. Inv /\ Settled /\ [Next]_vars => Settled'
  <2>1. ASSUME Inv, Settled, NEW c \in Calls(table), Call(c) PROVE Settled'
    <3>1. rows' = Do(backend, table, rows, c).rows /\ table' = table /\ backend \in Stores3
      BY <2>1 DEF Call, Inv, World
    <3>2. /\ table = "jobs" => \A x \in rows' : x.val \in Terminal => x.upd \in 1..(MaxNow + 1)
          /\ table = "outbox" => \A x \in rows' : x.upd \in 1..(MaxNow + 1)
          /\ table = "purchases" => \A x \in rows' : x.key = Unset /\ x.upd = 0
      BY <2>1, <3>1, JobsSettled, OutboxSettled, PurchasesSettled
    <3>. QED
      BY <3>1, <3>2 DEF Settled
  <2>2. ASSUME Settled, UNCHANGED <<table, rows>> PROVE Settled'
    BY <2>2 DEF Settled
  <2>. QED
    BY <2>1, <2>2 DEF Next, Tick, vars
<1>. QED
  BY <1>1, <1>2, RowsInvariant, PTL DEF Spec

-----------------------------------------------------------------------------
(* Lists by time.                                                          *)

Instants == 1..(MaxNow + 1)

(* A time column; one that never falls while the time rises; one that has  *)
(* equal values at equal times; and one that lists rows of a time by ids.  *)
Timed(T)  == \A i \in Instants : T[i] \in Int
Rising(T) == \A i, j \in Instants : T[i] >= T[j] => times[i] >= times[j]
Level(T)  == \A i, j \in Instants : times[i] = times[j] => T[i] = T[j]
Apart(T)  == \A i, j \in Instants : T[i] = T[j] => i = j
Named(T)  == \A i, j \in Instants : T[i] >= T[j] /\ times[i] = times[j] => names[i] >= names[j]

LEMMA Timeline ==
  ASSUME Inv
  PROVE  /\ DOMAIN times = Instants /\ \A i \in Instants : times[i] \in 0..99
         /\ \A i \in Instants : names[i] \in 1..(MaxNow + 1)
         /\ \A i, j \in Instants : i < j => times[i] =< times[j] /\ names[i] # names[j]
         /\ \A i \in Instants : i \in Nat
<1>1. /\ times \in [1..(MaxNow + 1) -> 0..99]
      /\ names \in [1..(MaxNow + 1) -> 1..(MaxNow + 1)]
      /\ \A p, q \in 1..(MaxNow + 1) : p < q => times[p] =< times[q] /\ names[p] # names[q]
  BY Timescale DEF Inv
<1>2. \A i \in Instants : times[i] \in 0..99
  BY <1>1, Zenon DEF Instants
<1>3. \A i \in Instants : names[i] \in 1..(MaxNow + 1)
  BY <1>1, Zenon DEF Instants
<1>. QED
  BY <1>1, <1>2, <1>3, SizesAssumption DEF Instants

LEMMA Columns ==
  ASSUME Inv
  PROVE  /\ Timed(Clock) /\ Timed(Position) /\ Timed(Text)
         /\ Rising(Clock) /\ Rising(Position) /\ (InStep => Rising(Text))
         /\ Level(Clock) /\ Level(Text)
<1>1. \A i \in Instants : i \in DOMAIN times /\ i \in Int /\ times[i] \in Int /\ times[i] \in Nat
  BY Timeline
<1>2. Timed(Clock) /\ Timed(Position)
  BY <1>1 DEF Timed, Clock, Position
<1>3. Timed(Text)
  <2>1. ASSUME NEW i \in Instants PROVE Text[i] \in Int
    <3>1. times[i] \in Nat /\ i \in DOMAIN times
      BY <1>1
    <3>. QED
      BY <3>1 DEF Text
  <2>. QED
    BY <2>1 DEF Timed
<1>4. Rising(Clock) /\ Level(Clock)
  BY DEF Rising, Level, Clock
<1>5. Rising(Position)
  <2>1. \A i, j \in Instants : i >= j => times[i] >= times[j]
    <3>1. TAKE i, j \in Instants
    <3>2. i \in Int /\ j \in Int /\ times[i] \in Int /\ times[j] \in Int
      BY <1>1
    <3>3. j < i => times[j] =< times[i]
      BY Timeline
    <3>. QED
      BY <3>2, <3>3
  <2>. QED
    BY <1>1, <2>1 DEF Rising, Position
<1>6. ASSUME InStep PROVE Rising(Text)
  <2>1. \A i, j \in Instants : times[i] < times[j] => Text[i] < Text[j]
    BY <1>6, Timeline DEF InStep
  <2>2. SUFFICES ASSUME NEW i \in Instants, NEW j \in Instants, Text[i] >= Text[j]
                 PROVE  times[i] >= times[j]
    BY DEF Rising
  <2>3. times[i] \in Int /\ times[j] \in Int /\ Text[i] \in Int /\ Text[j] \in Int
    BY <1>1, <1>3 DEF Timed
  <2>. QED
    BY <2>1, <2>2, <2>3
<1>7. Level(Text)
  BY <1>1 DEF Level, Text
<1>. QED
  BY <1>2, <1>3, <1>4, <1>5, <1>6, <1>7

(* A pair of numbers, the second below K, compares as K * p + a does.      *)
LEMMA Weighted ==
  ASSUME NEW K \in Nat, NEW p \in Int, NEW q \in Int, NEW a \in 1..(K - 1), NEW b \in 1..(K - 1)
  PROVE  /\ K * p + a >= K * q + b <=> p > q \/ (p = q /\ a >= b)
         /\ K * p + a \in Int
<1>1. ASSUME NEW s \in Int, NEW t \in Int, NEW i \in 1..(K - 1), NEW j \in 1..(K - 1), s < t
      PROVE  K * s + i < K * t + j
  <2>1. K * t = K * s + K * (t - s)
    BY <1>1
  <2>2. K * (t - s) >= K
    <3>1. t - s - 1 \in Nat
      BY <1>1
    <3>2. K * (t - s - 1) >= 0
      BY <3>1
    <3>3. K * (t - s) = K * (t - s - 1) + K
      BY <1>1
    <3>. QED
      BY <3>1, <3>2, <3>3
  <2>3. K * s \in Int /\ K * t \in Int /\ K * (t - s) \in Int
    BY <1>1
  <2> HIDE <1>1
  <2>. QED
    BY <2>1, <2>2, <2>3
<1>2. p < q => K * p + a < K * q + b
  BY <1>1
<1>3. q < p => K * q + b < K * p + a
  BY <1>1
<1>4. K * p \in Int /\ K * q \in Int
  OBVIOUS
<1>5. CASE p = q
  BY <1>4, <1>5
<1>. QED
  BY <1>2, <1>3, <1>4, <1>5

(* The order of a time column, and at one of its values of the ids' texts. *)
LEMMA ByIdsOrder ==
  ASSUME Inv, NEW T, Timed(T)
  PROVE  /\ Timed(ByIds(T)) /\ Apart(ByIds(T))
         /\ \A i, j \in Instants :
              ByIds(T)[i] >= ByIds(T)[j] <=> T[i] > T[j] \/ (T[i] = T[j] /\ names[i] >= names[j])
<1> DEFINE K == MaxNow + 2
<1>1. K \in Nat
  BY SizesAssumption
<1>2. \A i \in Instants : /\ T[i] \in Int /\ names[i] \in 1..(K - 1)
                          /\ ByIds(T)[i] = K * T[i] + names[i]
  <2>1. TAKE i \in Instants
  <2>2. i \in DOMAIN times /\ names[i] \in 1..(MaxNow + 1)
    BY Timeline
  <2>3. K - 1 = MaxNow + 1
    BY SizesAssumption
  <2>. QED
    BY <2>2, <2>3 DEF ByIds, Timed
<1> HIDE DEF K
<1>3. Timed(ByIds(T))
  BY <1>1, <1>2, Weighted DEF Timed
<1>4. \A i, j \in Instants :
        ByIds(T)[i] >= ByIds(T)[j] <=> T[i] > T[j] \/ (T[i] = T[j] /\ names[i] >= names[j])
  <2>1. TAKE i, j \in Instants
  <2>2. K * T[i] + names[i] >= K * T[j] + names[j]
          <=> T[i] > T[j] \/ (T[i] = T[j] /\ names[i] >= names[j])
    BY <1>1, <1>2, Weighted
  <2>. QED
    BY <1>2, <2>2
<1>5. Apart(ByIds(T))
  <2>1. SUFFICES ASSUME NEW i \in Instants, NEW j \in Instants, ByIds(T)[i] = ByIds(T)[j]
                 PROVE  i = j
    BY DEF Apart
  <2>2. /\ ByIds(T)[i] \in Int /\ ByIds(T)[j] \in Int /\ T[i] \in Int /\ T[j] \in Int
        /\ names[i] \in Int /\ names[j] \in Int /\ i \in Int /\ j \in Int
    BY <1>1, <1>2, <1>3, Timeline DEF Timed
  <2>3. /\ T[i] > T[j] \/ (T[i] = T[j] /\ names[i] >= names[j])
        /\ T[j] > T[i] \/ (T[j] = T[i] /\ names[j] >= names[i])
    BY <1>4, <2>1, <2>2
  <2>4. names[i] = names[j]
    BY <2>2, <2>3
  <2>5. ~ i < j /\ ~ j < i
    BY <2>4, Timeline
  <2>. QED
    BY <2>2, <2>5
<1>. QED
  BY <1>3, <1>4, <1>5

LEMMA ByIdsColumn ==
  ASSUME Inv, NEW T, Timed(T), Rising(T), Level(T)
  PROVE  Rising(ByIds(T)) /\ Named(ByIds(T))
<1>1. \A i, j \in Instants : /\ T[i] \in Int /\ T[j] \in Int /\ (T[i] > T[j] => T[i] >= T[j])
                            /\ (T[i] = T[j] => T[i] >= T[j])
  BY DEF Timed
<1>2. Rising(ByIds(T))
  BY <1>1, ByIdsOrder DEF Rising
<1>3. Named(ByIds(T))
  <2>1. \A i, j \in Instants : times[i] = times[j] => ~ T[i] > T[j]
    BY <1>1 DEF Level
  <2>. QED
    BY <2>1, ByIdsOrder DEF Named
<1>. QED
  BY <1>2, <1>3

(* Where ids are made up, they are instants.                               *)
LEMMA IdsTimed ==
  ASSUME Inv, Handed
  PROVE  \A r \in rows : r.id \in Instants
  BY SizesAssumption DEF Inv, World, Dated, Instants

LEMMA LatestRows ==
  ASSUME Inv, Handed, NEW Q \in SUBSET rows, NEW T, Timed(T)
  PROVE  /\ IsFiniteSet(Q) /\ Cardinality(Q) \in Nat /\ Cardinality(Q) =< Cardinality(rows)
         /\ Latest(Q, T) # {} /\ Latest(Q, T) \subseteq SetToSeqs(Q)
         /\ \A l \in Latest(Q, T) :
              /\ l \in Seq(Q) /\ Len(l) = Cardinality(Q) /\ ToSet(l) = Q
              /\ \A i, j \in DOMAIN l : i < j => T[l[i].id] >= T[l[j].id]
<1>1. IsFiniteSet(Q) /\ Cardinality(Q) \in Nat /\ Cardinality(Q) =< Cardinality(rows)
  BY FS_Subset, FS_CardinalityType DEF Inv, Typed
<1> DEFINE k == [r \in Q |-> T[r.id]]
<1>2. \A r \in Q : k[r] \in Int
  BY IdsTimed DEF Timed
<1>3. Latest(Q, T) = Orders(Q, k)
  BY DEF Latest
<1>4. \A r \in Q : k[r] = T[r.id]
  OBVIOUS
<1> HIDE DEF k
<1>5. Orders(Q, k) # {} /\ Orders(Q, k) \subseteq SetToSeqs(Q)
  BY <1>1, <1>2, DescSorts DEF Orders
<1>6. ASSUME NEW l \in Latest(Q, T)
      PROVE  /\ l \in Seq(Q) /\ Len(l) = Cardinality(Q) /\ ToSet(l) = Q
             /\ \A i, j \in DOMAIN l : i < j => T[l[i].id] >= T[l[j].id]
  <2>1. l \in SetToSeqs(Q) /\ l \in Orders(Q, k)
    BY <1>3, <1>5
  <2>2. l \in Seq(Q) /\ Len(l) = Cardinality(Q) /\ ToSet(l) = Q /\ \A i \in DOMAIN l : l[i] \in Q
    BY <1>1, <2>1, ListOf
  <2>. QED
    BY <1>4, <2>1, <2>2 DEF Orders
<1>. QED
  BY <1>1, <1>3, <1>5, <1>6

LEMMA NewestRows ==
  ASSUME Inv, Handed, NEW Q \in SUBSET rows, NEW T, Timed(T), NEW n \in Nat
  PROVE  /\ Newest(Q, n, T) # {}
         /\ \A l \in Newest(Q, n, T) : l \in Seq(Q) /\ ToSet(l) \subseteq Q
         /\ Cardinality(rows) =< n => Newest(Q, n, T) = Latest(Q, T)
<1>1. /\ Cardinality(Q) \in Nat /\ Cardinality(Q) =< Cardinality(rows)
      /\ \A l \in Latest(Q, T) : l \in Seq(Q) /\ Len(l) = Cardinality(Q) /\ ToSet(l) = Q
  BY LatestRows
<1>2. Cardinality(rows) \in Nat
  BY FS_CardinalityType DEF Inv, Typed
<1>3. Newest(Q, n, T) # {}
  <2>1. PICK l \in Latest(Q, T) : TRUE
    BY LatestRows
  <2>2. Cut(l, n) \in Newest(Q, n, T)
    BY DEF Newest
  <2>. QED
    BY <2>2
<1>4. \A l \in Latest(Q, T) :
        /\ Cut(l, n) \in Seq(Q) /\ ToSet(Cut(l, n)) \subseteq Q
        /\ Cardinality(Q) =< n => Cut(l, n) = l
  <2>1. TAKE l \in Latest(Q, T)
  <2>2. l \in Seq(Q) /\ Len(l) = Cardinality(Q) /\ ToSet(l) = Q
    BY <1>1
  <2>. QED
    BY <2>2, CutRows
<1>5. \A l \in Newest(Q, n, T) : l \in Seq(Q) /\ ToSet(l) \subseteq Q
  BY <1>4 DEF Newest
<1>6. Cardinality(Q) =< n => Newest(Q, n, T) = Latest(Q, T)
  BY <1>4 DEF Newest
<1>. QED
  BY <1>1, <1>2, <1>3, <1>5, <1>6

(* Of two rows of a list, the first has the greater time, or they tie.     *)
LEMMA NewestSorted ==
  ASSUME Inv, Handed, NEW Q \in SUBSET rows, NEW T, Timed(T), NEW n \in Nat,
         NEW l \in Newest(Q, n, T), NEW i \in DOMAIN l, NEW j \in DOMAIN l, i < j
  PROVE  /\ T[l[i].id] >= T[l[j].id] /\ l[i].id # l[j].id
         /\ l[i].id \in Instants /\ l[j].id \in Instants
<1>1. PICK k \in Latest(Q, T) : l = Cut(k, n)
  BY DEF Newest
<1>2. /\ IsFiniteSet(Q) /\ k \in SetToSeqs(Q) /\ k \in Seq(Q)
      /\ \A p, q \in DOMAIN k : p < q => T[k[p].id] >= T[k[q].id]
  BY LatestRows
<1>3. /\ DOMAIN k = 1..Len(k) /\ Len(k) \in Nat
      /\ \A p \in 1..Len(k) : k[p] \in Q /\ k[p].id \in Instants /\ k[p] \in rows
      /\ \A p, q \in 1..Len(k) : k[p] = k[q] => p = q
  BY <1>2, ListOf, IdsTimed
<1>4. /\ DOMAIN l = 1..Len(l) /\ Len(l) \in Nat
      /\ \A p \in 1..Len(l) : p \in 1..Len(k) /\ l[p] = k[p]
  <2>1. l \in Seq(Q)
    BY <1>1, <1>2, CutRows
  <2>2. DOMAIN l = 1..Len(l) /\ Len(l) \in Nat
    BY <2>1
  <2>3. \A p \in 1..Len(Cut(k, n)) : p \in 1..Len(k) /\ Cut(k, n)[p] = k[p]
    BY <1>2, CutRows
  <2>. QED
    BY <1>1, <2>2, <2>3
<1>5. i \in 1..Len(k) /\ j \in 1..Len(k) /\ l[i] = k[i] /\ l[j] = k[j] /\ i # j
  BY <1>4
<1>6. k[i].id # k[j].id
  BY <1>3, <1>5 DEF Inv, Once
<1>. QED
  BY <1>2, <1>3, <1>5, <1>6

-----------------------------------------------------------------------------
(* Lists that are newest first.                                            *)

LEMMA LimitNat ==
  ASSUME Inv
  PROVE  Limit \in Nat \ {0} /\ 2 * Limit \in Nat /\ 3 * Limit \in Nat
<1>1. Limit \in Nat \ {0}
  BY SizesAssumption DEF Inv, World, Limit
<1>. QED
  BY <1>1

(* What a newest-first list is on each backend.                            *)
LEMMA NewestListings ==
  ASSUME Inv, backend = "sqlite" => InStep, NEW c \in Calls(table), <<table, c.op>> \in Listing
  PROVE  /\ Handed
         /\ \E Q \in SUBSET rows, T \in {Text, Clock, Position, ByIds(Text), ByIds(Clock)} :
              /\ Timed(T) /\ Rising(T) /\ (table = "jobs" => Named(T))
              /\ Do(backend, table, rows, c).lists = Newest(Q, Limit, T)
<1>0. backend \in {"sqlite", "postgres", "memory"}
  BY DEF Inv, World, Stores3
<1>1. \/ table = "audit" /\ c.op = "list"
      \/ table = "outbox" /\ c.op = "list"
      \/ table = "snapshots" /\ c.op = "list"
      \/ table = "jobs" /\ c.op \in {"page", "adminPage"}
  BY DEF Listing
<1>2. \A L : Answer(rows, L).lists = L
  BY DEF Answer
<1> DEFINE U == IF backend = "sqlite" THEN Text ELSE Clock
           V == IF backend = "memory" THEN Position ELSE U
           D == {Text, Clock, Position, ByIds(Text), ByIds(Clock)}
<1>3. Timed(U) /\ Rising(U) /\ Level(U) /\ U \in {Text, Clock} /\ U \in D
  BY Columns
<1>4. Timed(V) /\ Rising(V) /\ V \in D
  <2> HIDE DEF U
  <2>. QED
    BY <1>3, Columns
<1>5. CASE table = "audit" /\ c.op = "list"
  <2>1. Audited(rows, c) \in SUBSET rows
    BY DEF Audited, With
  <2>2. Do(backend, table, rows, c) = Answer(rows, Newest(Audited(rows, c), Limit, V))
    BY <1>0, <1>5 DEF Do, Sqlite, Postgres, Memory, SqliteAudit, PgAudit, MemAudit
  <2> HIDE DEF U, V
  <2>. QED
    BY <1>2, <1>4, <1>5, <2>1, <2>2 DEF Handed
<1>6. CASE table = "outbox" /\ c.op = "list"
  <2> DEFINE Q == With(ForUser({r \in rows : r.val = c.val}, c.user), c.key)
  <2>1. Q \in SUBSET rows
    BY DEF With, ForUser
  <2>2. Do(backend, table, rows, c) = BoxCalls(rows, c, U)
    BY <1>0, <1>6 DEF Do, Sqlite, Postgres, Memory, SqliteOutbox, PgOutbox, MemOutbox
  <2>3. BoxCalls(rows, c, U) = Answer(rows, Newest(Q, Limit, U))
    BY <1>6 DEF BoxCalls
  <2> HIDE DEF U, Q
  <2>. QED
    BY <1>2, <1>3, <1>6, <2>1, <2>2, <2>3 DEF Handed
<1>7. CASE table = "snapshots" /\ c.op = "list"
  <2>1. OfDrive(rows, c) \in SUBSET rows
    BY DEF OfDrive, Own
  <2>2. Do(backend, table, rows, c) = SnapshotCalls(rows, c, U)
    BY <1>0, <1>7 DEF Do, Sqlite, Postgres, Memory, SqliteSnapshots, PgSnapshots, MemSnapshots
  <2>3. SnapshotCalls(rows, c, U) = Answer(rows, Newest(OfDrive(rows, c), Limit, U))
    BY <1>7 DEF SnapshotCalls
  <2> HIDE DEF U
  <2>. QED
    BY <1>2, <1>3, <1>7, <2>1, <2>2, <2>3 DEF Handed
<1>8. CASE table = "jobs" /\ c.op \in {"page", "adminPage"}
  <2> DEFINE Q == After(InStatus(ForUser(rows, c.user), c), c.n, U)
             T == ByIds(U)
  <2>1. Q \in SUBSET rows
    BY DEF After, InStatus, ForUser
  <2>2. Do(backend, table, rows, c) = Page(rows, c, U)
    BY <1>0, <1>8 DEF Do, Sqlite, Postgres, Memory, SqliteJobs, PgJobs, MemJobs
  <2>3. Page(rows, c, U) = Answer(rows, Newest(Q, Limit, T))
    BY DEF Page
  <2> HIDE DEF U, Q
  <2>4. Timed(T) /\ Rising(T) /\ Named(T) /\ T \in D
    BY <1>3, ByIdsOrder, ByIdsColumn
  <2> HIDE DEF T
  <2>. QED
    BY <1>2, <1>8, <2>1, <2>2, <2>3, <2>4 DEF Handed
<1>. QED
  BY <1>1, <1>5, <1>6, <1>7, <1>8

(* The lists the interface calls newest first are, in every state of every *)
(* table: audit events, deliveries, snapshots and both job pages, whatever *)
(* the backend sorts by (sqlite.go, postgres.go, memory.go), and jobs of   *)
(* one time are in the order of the texts of their ids.                    *)
THEOREM NewestFirst == Spec => []ListsNewestFirst
<1>1. ASSUME Inv PROVE ListsNewestFirst
  <2>1. SUFFICES ASSUME backend = "sqlite" => InStep,
                        NEW c \in Calls(table), <<table, c.op>> \in Listing,
                        NEW l \in Do(backend, table, rows, c).lists,
                        NEW i \in DOMAIN l, NEW j \in DOMAIN l, i < j
                 PROVE  /\ times[l[i].id] >= times[l[j].id]
                        /\ table = "jobs" /\ times[l[i].id] = times[l[j].id]
                             => names[l[i].id] > names[l[j].id]
    BY DEF ListsNewestFirst
  <2>2. PICK Q \in SUBSET rows, T \in {Text, Clock, Position, ByIds(Text), ByIds(Clock)} :
          /\ Timed(T) /\ Rising(T) /\ (table = "jobs" => Named(T))
          /\ Do(backend, table, rows, c).lists = Newest(Q, Limit, T)
    BY <1>1, <2>1, NewestListings
  <2>3. Handed /\ Limit \in Nat
    BY <1>1, <2>1, NewestListings, LimitNat
  <2>4. /\ T[l[i].id] >= T[l[j].id] /\ l[i].id # l[j].id
        /\ l[i].id \in Instants /\ l[j].id \in Instants
    BY <1>1, <2>1, <2>2, <2>3, NewestSorted
  <2> DEFINE p == l[i].id
             q == l[j].id
  <2>5. p \in Instants /\ q \in Instants /\ p # q /\ T[p] >= T[q]
    BY <2>4
  <2> HIDE DEF p, q
  <2>6. times[p] >= times[q] /\ (table = "jobs" /\ times[p] = times[q] => names[p] >= names[q])
    BY <2>2, <2>5 DEF Rising, Named
  <2>7. names[p] # names[q] /\ names[p] \in Int /\ names[q] \in Int
    <3>1. p \in Int /\ q \in Int
      BY <1>1, <2>5, Timeline
    <3>2. p < q \/ q < p
      BY <2>5, <3>1
    <3>. QED
      BY <1>1, <2>5, <3>2, Timeline
  <2>8. names[p] >= names[q] => names[p] > names[q]
    BY <2>7
  <2>. QED
    BY <2>6, <2>8 DEF p, q
<1>. QED
  BY <1>1, RowsInvariant, PTL

-----------------------------------------------------------------------------
(* What calls show.                                                        *)

Shows(a, u) == \A l \in a.lists : \A r \in ToSet(l) : r.user = u

(* A statement that writes shows nothing.                                  *)
LEMMA Silent ==
  ASSUME NEW t, NEW u
  PROVE  /\ Shows(Err(t), u) /\ Shows(Done(t), u)
         /\ \A r : /\ Shows(Insert(t, r), u) /\ Shows(Put(t, r), u)
                   /\ Shows(InsertUnique(t, r), u) /\ Shows(InsertUser(t, r), u)
         /\ \A Z : Shows(Erase(t, Z), u) /\ \A T : Shows(Amend(t, Z, T), u)
<1>1. ToSet(<<>>) = {}
  BY DEF ToSet
<1>2. \A x : Shows(Err(x), u) /\ Shows(Done(x), u)
  BY <1>1 DEF Shows, Err, Done
<1>3. \A r : Shows(Insert(t, r), u) /\ Shows(Put(t, r), u)
  BY <1>2 DEF Insert, Put
<1>4. \A r : Shows(InsertUnique(t, r), u) /\ Shows(InsertUser(t, r), u)
  BY <1>2, <1>3 DEF InsertUnique, InsertUser
<1>5. \A Z : Shows(Erase(t, Z), u) /\ \A T : Shows(Amend(t, Z, T), u)
  BY <1>2 DEF Erase, Amend
<1>. QED
  BY <1>2, <1>3, <1>4, <1>5

(* A query that selects by user shows rows of that user.                   *)
LEMMA ShowsOne ==
  ASSUME NEW t, NEW u, NEW Z, \A r \in Z : r.user = u
  PROVE  Shows(One(t, Z), u)
<1>1. \A r : ToSet(<<r>>) = {r}
  BY DEF ToSet
<1>2. CASE Z = {}
  BY <1>2, Silent DEF One
<1>3. CASE Z # {}
  <2>1. One(t, Z).lists = {<<r>> : r \in Z}
    BY <1>3 DEF One, Answer
  <2>. QED
    BY <1>1, <2>1 DEF Shows
<1>. QED
  BY <1>2, <1>3

LEMMA ShowsAny ==
  ASSUME NEW t, NEW u, NEW Z, IsFiniteSet(Z), \A r \in Z : r.user = u
  PROVE  /\ Shows(Answer(t, SetToSeqs(Z)), u) /\ Shows(Count(t, Z), u)
         /\ \A n \in Nat : Shows(Answer(t, AnyOrder(Z, n)), u)
<1>1. \A l \in SetToSeqs(Z) : l \in Seq(Z) /\ ToSet(l) = Z
  BY ListOf
<1>2. Shows(Answer(t, SetToSeqs(Z)), u)
  BY <1>1 DEF Shows, Answer
<1>3. Shows(Count(t, Z), u)
  BY <1>1, ListExists DEF Shows, Answer, Count
<1>4. ASSUME NEW n \in Nat, NEW l \in AnyOrder(Z, n) PROVE ToSet(l) \subseteq Z
  <2>1. PICK m \in SetToSeqs(Z) : l = Cut(m, n)
    BY <1>4 DEF AnyOrder
  <2>. QED
    BY <1>1, <2>1, CutRows
<1>. QED
  BY <1>2, <1>3, <1>4 DEF Shows, Answer

LEMMA ShowsLists ==
  ASSUME NEW t, NEW u, NEW L, \A l \in L : \A r \in ToSet(l) : r.user = u
  PROVE  Shows(Answer(t, L), u)
  BY DEF Shows, Answer

(* The rows a query by time shows are rows it selects.                     *)
LEMMA ShowsNewest ==
  ASSUME Inv, Handed, NEW u, NEW Q \in SUBSET rows, \A r \in Q : r.user = u,
         NEW T, T \in {Text, Clock, Position, ByIds(Text), ByIds(Clock)}
  PROVE  /\ Shows(Answer(rows, Newest(Q, Limit, T)), u)
         /\ Shows(Answer(rows, Latest(Q, T)), u)
         /\ Shows(Answer(rows, {Reverse(l) : l \in Latest(Q, T)}), u)
<1>1. Timed(T)
  BY Columns, ByIdsOrder
<1>2. \A l \in Latest(Q, T) : l \in Seq(Q) /\ ToSet(l) = Q
  BY <1>1, LatestRows
<1>3. \A l \in Newest(Q, Limit, T) : ToSet(l) \subseteq Q
  BY <1>1, NewestRows, LimitNat
<1>4. ASSUME NEW m \in {Reverse(l) : l \in Latest(Q, T)}
      PROVE  ToSet(m) = Q
  <2>1. PICK l \in Latest(Q, T) : m = Reverse(l)
    BY <1>4
  <2>. QED
    BY <1>2, <2>1, ReverseRows
<1>5. Shows(Answer(rows, Newest(Q, Limit, T)), u)
  BY <1>3, ShowsLists
<1>6. Shows(Answer(rows, Latest(Q, T)), u)
  BY <1>2, ShowsLists
<1>7. Shows(Answer(rows, {Reverse(l) : l \in Latest(Q, T)}), u)
  BY <1>4, ShowsLists
<1>. QED
  BY <1>5, <1>6, <1>7

LEMMA ShowsScoped ==
  ASSUME Inv, NEW c, c.op \in {"get", "list", "delete"}
  PROVE  Shows(Scoped(rows, c), c.user)
<1>1. IsFiniteSet(Own(rows, c.user)) /\ \A r \in Own(rows, c.user) : r.user = c.user
  BY FS_Subset DEF Own, Inv, Typed
<1>2. \A r \in OwnId(rows, c) : r.user = c.user
  BY DEF OwnId
<1>3. /\ Shows(One(rows, OwnId(rows, c)), c.user)
      /\ Shows(Erase(rows, OwnId(rows, c)), c.user)
      /\ Shows(Answer(rows, SetToSeqs(Own(rows, c.user))), c.user)
  BY <1>1, <1>2, ShowsOne, ShowsAny, Silent
<1>4. Scoped(rows, c) \in {One(rows, OwnId(rows, c)), Erase(rows, OwnId(rows, c)),
                           Answer(rows, SetToSeqs(Own(rows, c.user)))}
  BY DEF Scoped
<1>. QED
  BY <1>3, <1>4

LEMMA ProvidersShow ==
  ASSUME Inv, table = "providers", NEW c \in Calls(table), NEW b \in Stores3, c.user # Unset
  PROVE  Shows(Do(b, table, rows, c), c.user)
<1>0. Do(b, table, rows, c)
        \in {SqliteProviders(rows, c), PgProviders(rows, c), MemProviders(rows, c)}
  BY DoTable
<1>1. c.op \in {"create", "get", "list", "delete"}
  BY DEF Calls, Calls0, Crud, O, Unset
<1>2. CASE c.op = "create"
  <2>1. Do(b, table, rows, c)
          \in {Insert(rows, New(c.user, Unset, 1, 0)),
               Put(rows, New(c.user, Unset, 1, 0))}
    BY <1>0, <1>2 DEF SqliteProviders, PgProviders, MemProviders
  <2>. QED
    BY <2>1, Silent
<1>3. CASE c.op \in {"get", "list", "delete"}
  BY <1>0, <1>3, ShowsScoped DEF SqliteProviders, PgProviders, MemProviders
<1>. QED
  BY <1>1, <1>2, <1>3

LEMMA AgentsShow ==
  ASSUME Inv, table = "agents", NEW c \in Calls(table), NEW b \in Stores3, c.user # Unset
  PROVE  Shows(Do(b, table, rows, c), c.user)
<1>0. Do(b, table, rows, c)
        \in {SqliteAgents(rows, c), PgAgents(rows, c), MemAgents(rows, c)}
  BY DoTable
<1>1. c.op \in {"create", "get", "list", "delete", "update"}
  BY DEF Calls, Calls0, Crud, O, Unset
<1>2. CASE c.op = "create"
  <2>1. Do(b, table, rows, c)
          \in {Insert(rows, New(c.user, Unset, 1, 0)),
               Put(rows, New(c.user, Unset, 1, 0))}
    BY <1>0, <1>2 DEF SqliteAgents, PgAgents, MemAgents
  <2>. QED
    BY <2>1, Silent
<1>3. CASE c.op \in {"get", "list", "delete"}
  <2>1. AgentCalls(rows, c) = Scoped(rows, c)
    BY <1>3 DEF AgentCalls
  <2>. QED
    BY <1>0, <2>1, <1>3, ShowsScoped DEF SqliteAgents, PgAgents, MemAgents
<1>4. CASE c.op = "update"
  <2>1. \E Z, T : Do(b, table, rows, c) = Amend(rows, Z, T)
    BY <1>0, <1>4 DEF SqliteAgents, PgAgents, MemAgents, AgentCalls
  <2>. QED
    BY <2>1, Silent
<1>. QED
  BY <1>1, <1>2, <1>3, <1>4

LEMMA DrivesShow ==
  ASSUME Inv, table = "drives", NEW c \in Calls(table), NEW b \in Stores3, c.user # Unset
  PROVE  Shows(Do(b, table, rows, c), c.user)
<1>0. Do(b, table, rows, c)
        \in {SqliteDrives(rows, c), PgDrives(rows, c), MemDrives(rows, c)}
  BY DoTable
<1>1. c.op \in {"create", "get", "list", "delete", "update", "byAlias"}
  BY DEF Calls, Calls0, Crud, O, Unset
<1>2. CASE c.op = "create"
  <2>1. Do(b, table, rows, c)
          \in {InsertUnique(rows, New(c.user, c.key, 1, 0)),
               Put(rows, New(c.user, c.key, 1, 0))}
    BY <1>0, <1>2 DEF SqliteDrives, PgDrives, MemDrives
  <2>. QED
    BY <2>1, Silent
<1>3. CASE c.op \in {"get", "list", "delete"}
  BY <1>0, <1>3, ShowsScoped DEF SqliteDrives, PgDrives, MemDrives
<1>4. CASE c.op = "update"
  <2>1. Do(b, table, rows, c)
          \in {Err(rows),
               Amend(rows, OwnId(rows, c), Edited(rows, c))}
    BY <1>0, <1>4 DEF SqliteDrives, PgDrives, MemDrives
  <2>. QED
    BY <2>1, Silent
<1>5. CASE c.op = "byAlias"
  <2>1. Do(b, table, rows, c) = One(rows, {r \in Own(rows, c.user) : c.key # 0 /\ r.key = c.key})
    BY <1>0, <1>5 DEF SqliteDrives, PgDrives, MemDrives, ByAlias
  <2>. QED
    BY <2>1, ShowsOne DEF Own
<1>. QED
  BY <1>1, <1>2, <1>3, <1>4, <1>5

LEMMA BindingsShow ==
  ASSUME Inv, table = "bindings", NEW c \in Calls(table), NEW b \in Stores3, c.user # Unset
  PROVE  Shows(Do(b, table, rows, c), c.user)
<1>0. Do(b, table, rows, c)
        \in {SqliteBindings(rows, c), PgBindings(rows, c), MemBindings(rows, c)}
  BY DoTable
<1>1. c.op \in {"create", "get", "list", "update"}
  BY DEF Calls, Calls0, Crud, O, Unset
<1>2. CASE c.op = "create"
  <2>1. Do(b, table, rows, c)
          \in {Insert(rows, New(c.user, c.key, 1, 0)),
               Put(rows, New(c.user, c.key, 1, 0))}
    BY <1>0, <1>2 DEF SqliteBindings, PgBindings, MemBindings
  <2>. QED
    BY <2>1, Silent
<1>3. CASE c.op = "get"
  <2>1. BindingCalls(rows, c) = Scoped(rows, c)
    BY <1>3 DEF BindingCalls
  <2>. QED
    BY <1>0, <2>1, <1>3, ShowsScoped DEF SqliteBindings, PgBindings, MemBindings
<1>4. CASE c.op = "update"
  <2>1. \E Z, T : Do(b, table, rows, c) = Amend(rows, Z, T)
    BY <1>0, <1>4 DEF SqliteBindings, PgBindings, MemBindings, BindingCalls
  <2>. QED
    BY <2>1, Silent
<1>5. CASE c.op = "list"
  <2> DEFINE Z == With(Own(rows, c.user), c.key)
  <2>1. Z \in SUBSET rows /\ \A r \in Z : r.user = c.user
    BY DEF With, Own
  <2>2. IsFiniteSet(Z)
    BY <2>1, FS_Subset DEF Inv, Typed
  <2>3. Do(b, table, rows, c) = Answer(rows, SetToSeqs(Z))
    BY <1>0, <1>5 DEF SqliteBindings, PgBindings, MemBindings, BindingCalls
  <2> HIDE DEF Z
  <2>. QED
    BY <2>1, <2>2, <2>3, ShowsAny
<1>. QED
  BY <1>1, <1>2, <1>3, <1>4, <1>5

LEMMA DevicesShow ==
  ASSUME Inv, table = "devices", NEW c \in Calls(table), NEW b \in Stores3, c.user # Unset
  PROVE  Shows(Do(b, table, rows, c), c.user)
<1>0. Do(b, table, rows, c)
        \in {SqliteDevices(rows, c), PgDevices(rows, c), MemDevices(rows, c)}
  BY DoTable
<1>1. c.op \in {"upsert", "get", "list"}
  BY DEF Calls, Calls0, Crud, O, Unset
<1>2. CASE c.op = "upsert"
  <2>1. Do(b, table, rows, c)
          \in {Err(rows),
               Done(rows),
               Put(rows, Device(c))}
    BY <1>0, <1>2 DEF SqliteDevices, PgDevices, MemDevices
  <2>. QED
    BY <2>1, Silent
<1>3. CASE c.op \in {"get", "list"}
  BY <1>0, <1>3, ShowsScoped DEF SqliteDevices, PgDevices, MemDevices
<1>. QED
  BY <1>1, <1>2, <1>3

LEMMA AuditShow ==
  ASSUME Inv, table = "audit", NEW c \in Calls(table), NEW b \in Stores3, c.user # Unset
  PROVE  Shows(Do(b, table, rows, c), c.user)
<1>0. Do(b, table, rows, c)
        \in {SqliteAudit(rows, c), PgAudit(rows, c), MemAudit(rows, c)}
  BY DoTable
<1>1. c.op \in {"append", "list"}
  BY DEF Calls, Calls0, Crud, O, Unset
<1>2. CASE c.op = "append"
  <2>1. Do(b, table, rows, c)
          \in {Insert(rows, New(c.user, c.key, 1, 0)),
               Done(Recent(rows \cup {New(c.user, c.key, 1, 0)}))}
    BY <1>0, <1>2 DEF SqliteAudit, PgAudit, MemAudit
  <2>. QED
    BY <2>1, Silent
<1>3. CASE c.op = "list"
  <2> DEFINE Q == Audited(rows, c)
  <2>1. Handed /\ Q \in SUBSET rows /\ \A r \in Q : r.user = c.user
    BY DEF Handed, Audited, With
  <2>2. Do(b, table, rows, c)
          \in {Answer(rows, Newest(Q, Limit, Text)), Answer(rows, Newest(Q, Limit, Clock)),
               Answer(rows, Newest(Q, Limit, Position))}
    BY <1>0, <1>3 DEF SqliteAudit, PgAudit, MemAudit
  <2> HIDE DEF Q
  <2>. QED
    BY <2>1, <2>2, ShowsNewest
<1>. QED
  BY <1>1, <1>2, <1>3

LEMMA RefreshShow ==
  ASSUME Inv, table = "refresh", NEW c \in Calls(table), NEW b \in Stores3, c.user # Unset
  PROVE  Shows(Do(b, table, rows, c), c.user)
<1>0. Do(b, table, rows, c)
        \in {SqliteRefresh(rows, c), PgRefresh(rows, c), MemRefresh(rows, c)}
  BY DoTable
<1>1. c.op \in {"create", "revokeUser"}
  BY DEF Calls, Calls0, Crud, O, Unset
<1>2. CASE c.op = "create"
  <2>1. Do(b, table, rows, c)
          \in {Insert(rows, New(c.user, Unset, 1, c.n)),
               Put(rows, New(c.user, Unset, 1, c.n))}
    BY <1>0, <1>2 DEF SqliteRefresh, PgRefresh, MemRefresh
  <2>. QED
    BY <2>1, Silent
<1>3. CASE c.op = "revokeUser"
  <2>1. \E t : Do(b, table, rows, c) = Done(t)
    BY <1>0, <1>3 DEF SqliteRefresh, PgRefresh, MemRefresh
  <2>. QED
    BY <2>1, Silent
<1>. QED
  BY <1>1, <1>2, <1>3

LEMMA JobsShow ==
  ASSUME Inv, table = "jobs", NEW c \in Calls(table), NEW b \in Stores3, c.user # Unset
  PROVE  Shows(Do(b, table, rows, c), c.user)
<1>0. Do(b, table, rows, c)
        \in {SqliteJobs(rows, c), PgJobs(rows, c), MemJobs(rows, c)}
  BY DoTable
<1>1. c.op \in {"create", "get", "claim", "byKey", "list", "pending", "running",
                "count", "page", "adminPage", "update"}
  BY DEF Calls, Calls0, Crud, O, Unset
<1>2. CASE c.op = "create"
  <2>1. Do(b, table, rows, c)
          \in {InsertUnique(rows, New(c.user, c.key, "pending", 0)),
               Put(rows, New(c.user, c.key, "pending", 0))}
    BY <1>0, <1>2 DEF SqliteJobs, PgJobs, MemJobs
  <2>. QED
    BY <2>1, Silent
<1>3. CASE c.op \in {"get", "byKey"}
  <2>1. Do(b, table, rows, c) = JobCalls(rows, c)
    BY <1>0, <1>3 DEF SqliteJobs, PgJobs, MemJobs
  <2> DEFINE Y == {r \in Own(rows, c.user) : c.key # 0 /\ r.key = c.key}
             Z == OwnId(rows, c)
  <2>2. JobCalls(rows, c) \in {One(rows, Y), One(rows, Z)}
    BY <1>3 DEF JobCalls, ByAlias
  <2>3. (\A r \in Y : r.user = c.user) /\ (\A r \in Z : r.user = c.user)
    BY DEF Own, OwnId
  <2> HIDE DEF Y, Z
  <2>4. Shows(One(rows, Y), c.user) /\ Shows(One(rows, Z), c.user)
    BY <2>3, ShowsOne
  <2>. QED
    BY <2>1, <2>2, <2>4
<1>4. CASE c.op \in {"claim", "update"}
  <2>1. Do(b, table, rows, c) = JobCalls(rows, c)
    BY <1>0, <1>4 DEF SqliteJobs, PgJobs, MemJobs
  <2>2. \E Z, T : JobCalls(rows, c) = Amend(rows, Z, T)
    BY <1>4 DEF JobCalls
  <2>. QED
    BY <2>1, <2>2, Silent
<1>5. CASE c.op = "count"
  <2>1. Do(b, table, rows, c) = Count(rows, ForUser(rows, c.user))
    BY <1>0, <1>5 DEF SqliteJobs, PgJobs, MemJobs, JobCalls
  <2>2. IsFiniteSet(ForUser(rows, c.user)) /\ \A r \in ForUser(rows, c.user) : r.user = c.user
    BY FS_Subset DEF ForUser, Inv, Typed
  <2>. QED
    BY <2>1, <2>2, ShowsAny
<1>6. CASE c.op \in {"page", "adminPage"}
  <2>1. \E T \in {Text, Clock} : Do(b, table, rows, c) = Page(rows, c, T)
    BY <1>0, <1>6 DEF SqliteJobs, PgJobs, MemJobs
  <2>2. PICK T \in {Text, Clock} : Do(b, table, rows, c) = Page(rows, c, T)
    BY <2>1
  <2> DEFINE Q == After(InStatus(ForUser(rows, c.user), c), c.n, T)
  <2>3. Handed /\ Q \in SUBSET rows /\ \A r \in Q : r.user = c.user
    BY DEF Handed, After, InStatus, ForUser
  <2>4. Do(b, table, rows, c) = Answer(rows, Newest(Q, Limit, ByIds(T)))
    BY <2>2 DEF Page
  <2> HIDE DEF Q
  <2>. QED
    BY <2>2, <2>3, <2>4, ShowsNewest
<1>7. CASE c.op \in {"list", "pending"}
  <2> DEFINE Q == IF c.op = "list" THEN Own(rows, c.user)
                  ELSE {r \in Own(rows, c.user) : r.val = "pending"}
  <2>1. Handed /\ Q \in SUBSET rows /\ \A r \in Q : r.user = c.user
    BY DEF Handed, Own
  <2>2. IsFiniteSet(Q)
    BY <2>1, FS_Subset DEF Inv, Typed
  <2>3. \/ Do(b, table, rows, c) = Answer(rows, SetToSeqs(Q))
        \/ \E T \in {Text, Clock} :
             Do(b, table, rows, c) \in {Answer(rows, Latest(Q, T)), Answer(rows, {Reverse(l) : l \in Latest(Q, T)})}
    BY <1>0, <1>7 DEF SqliteJobs, PgJobs, MemJobs
  <2> HIDE DEF Q
  <2>4. Shows(Answer(rows, SetToSeqs(Q)), c.user)
    BY <2>1, <2>2, ShowsAny
  <2>5. \A T \in {Text, Clock} : /\ Shows(Answer(rows, Latest(Q, T)), c.user)
                                 /\ Shows(Answer(rows, {Reverse(l) : l \in Latest(Q, T)}), c.user)
    BY <2>1, ShowsNewest
  <2>. QED
    BY <2>3, <2>4, <2>5
<1>8. CASE c.op = "running"
  <2> DEFINE Q == {r \in ForUser(rows, c.user) : r.val = "running"}
  <2>1. Handed /\ Q \in SUBSET rows /\ \A r \in Q : r.user = c.user
    BY DEF Handed, ForUser
  <2>2. \E T \in {Text, Clock} :
          Do(b, table, rows, c) = Answer(rows, {Reverse(l) : l \in Latest(Q, ByIds(T))})
    BY <1>0, <1>8 DEF SqliteJobs, PgJobs, MemJobs, Running
  <2> HIDE DEF Q
  <2>. QED
    BY <2>1, <2>2, ShowsNewest
<1>. QED
  BY <1>1, <1>2, <1>3, <1>4, <1>5, <1>6, <1>7, <1>8

LEMMA OutboxShow ==
  ASSUME Inv, table = "outbox", NEW c \in Calls(table), NEW b \in Stores3, c.user # Unset
  PROVE  Shows(Do(b, table, rows, c), c.user)
<1>0. Do(b, table, rows, c)
        \in {SqliteOutbox(rows, c), PgOutbox(rows, c), MemOutbox(rows, c)}
  BY DoTable
<1>1. c.op \in {"enqueue", "list"}
  BY DEF Calls, Calls0, Crud, O, Unset
<1>2. CASE c.op = "enqueue"
  <2>1. Do(b, table, rows, c)
          \in {Insert(rows, New(c.user, c.key, "pending", now))}
    BY <1>0, <1>2 DEF SqliteOutbox, PgOutbox, MemOutbox
  <2>. QED
    BY <2>1, Silent
<1>3. CASE c.op = "list"
  <2> DEFINE Q == With(ForUser({r \in rows : r.val = c.val}, c.user), c.key)
  <2>1. Handed /\ Q \in SUBSET rows /\ \A r \in Q : r.user = c.user
    BY DEF Handed, With, ForUser
  <2>2. Do(b, table, rows, c)
          \in {Answer(rows, Newest(Q, Limit, Text)), Answer(rows, Newest(Q, Limit, Clock))}
    BY <1>0, <1>3 DEF SqliteOutbox, PgOutbox, MemOutbox, BoxCalls
  <2> HIDE DEF Q
  <2>. QED
    BY <2>1, <2>2, ShowsNewest
<1>. QED
  BY <1>1, <1>2, <1>3

LEMMA SnapshotsShow ==
  ASSUME Inv, table = "snapshots", NEW c \in Calls(table), NEW b \in Stores3, c.user # Unset
  PROVE  Shows(Do(b, table, rows, c), c.user)
<1>0. Do(b, table, rows, c)
        \in {SqliteSnapshots(rows, c), PgSnapshots(rows, c), MemSnapshots(rows, c)}
  BY DoTable
<1>1. c.op \in {"create", "list", "get", "delete"}
  BY DEF Calls, Calls0, Crud, O, Unset
<1>2. CASE c.op = "create"
  <2>1. Do(b, table, rows, c)
          \in {Insert(rows, New(c.user, c.key, 1, 0)),
               Put(rows, New(c.user, c.key, 1, 0))}
    BY <1>0, <1>2 DEF SqliteSnapshots, PgSnapshots, MemSnapshots
  <2>. QED
    BY <2>1, Silent
<1>3. CASE c.op = "list"
  <2> DEFINE Q == OfDrive(rows, c)
  <2>1. Handed /\ Q \in SUBSET rows /\ \A r \in Q : r.user = c.user
    BY DEF Handed, OfDrive, Own
  <2>2. Do(b, table, rows, c)
          \in {Answer(rows, Newest(Q, Limit, Text)), Answer(rows, Newest(Q, Limit, Clock))}
    BY <1>0, <1>3 DEF SqliteSnapshots, PgSnapshots, MemSnapshots, SnapshotCalls
  <2> HIDE DEF Q
  <2>. QED
    BY <2>1, <2>2, ShowsNewest
<1>4. CASE c.op = "get"
  <2>1. Do(b, table, rows, c) = One(rows, ById(OfDrive(rows, c), c.id))
    BY <1>0, <1>4 DEF SqliteSnapshots, PgSnapshots, MemSnapshots, SnapshotCalls
  <2>. QED
    BY <2>1, ShowsOne DEF ById, OfDrive, Own
<1>5. CASE c.op = "delete"
  <2>1. \E Z : Do(b, table, rows, c) = Erase(rows, Z)
    BY <1>0, <1>5 DEF SqliteSnapshots, PgSnapshots, MemSnapshots, SnapshotCalls
  <2>. QED
    BY <2>1, Silent
<1>. QED
  BY <1>1, <1>2, <1>3, <1>4, <1>5

LEMMA MemoryShow ==
  ASSUME Inv, table = "memory", NEW c \in Calls(table), NEW b \in Stores3, c.user # Unset
  PROVE  Shows(Do(b, table, rows, c), c.user)
<1>0. Do(b, table, rows, c)
        \in {SqliteMemory(rows, c), PgMemory(rows, c), MemMemory(rows, c)}
  BY DoTable
<1>1. c.op \in {"create", "get", "list", "delete"}
  BY DEF Calls, Calls0, Crud, O, Unset
<1>2. CASE c.op = "create"
  <2>1. Do(b, table, rows, c)
          \in {Insert(rows, New(c.user, c.key, 1, c.n)),
               Put(rows, New(c.user, c.key, 1, c.n))}
    BY <1>0, <1>2 DEF SqliteMemory, PgMemory, MemMemory
  <2>. QED
    BY <2>1, Silent
<1>3. CASE c.op \in {"get", "delete"}
  BY <1>0, <1>3, ShowsScoped DEF SqliteMemory, PgMemory, MemMemory
<1>4. CASE c.op = "list"
  <2> DEFINE Q == Fresh(With(Own(rows, c.user), c.key))
  <2>1. Handed /\ Q \in SUBSET rows /\ \A r \in Q : r.user = c.user
    BY DEF Handed, Fresh, With, Own
  <2>2. /\ Own(rows, c.user) \in SUBSET rows
        /\ \A r \in Own(rows, c.user) : r.user = c.user
    BY DEF Own
  <2>3. \/ Do(b, table, rows, c) = Answer(rows, Newest(Q, Limit, Clock))
        \/ \E T \in {Text, Clock} : Do(b, table, rows, c) =
             Answer(rows, {FreshOnly(l, c.key) : l \in Newest(Own(rows, c.user), 3 * Limit, T)})
    BY <1>0, <1>4 DEF SqliteMemory, PgMemory, MemMemory
  <2>4. ASSUME NEW T \in {Text, Clock},
               NEW m \in {FreshOnly(l, c.key) : l \in Newest(Own(rows, c.user), 3 * Limit, T)}
        PROVE  ToSet(m) \subseteq Own(rows, c.user)
    <3>0. PICK l \in Newest(Own(rows, c.user), 3 * Limit, T) : m = FreshOnly(l, c.key)
      BY <2>4
    <3> DEFINE F == Fresh(With(ToSet(l), c.key))
    <3>1. l \in Seq(Own(rows, c.user)) /\ ToSet(l) \subseteq Own(rows, c.user)
      BY <2>1, <2>2, NewestRows, LimitNat, Columns
    <3>2. ToSet(Pass(l, F)) = ToSet(l) \cap F /\ Pass(l, F) \in Seq(ToSet(l) \cap F)
      BY <3>1, PassRows
    <3>3. FreshOnly(l, c.key) = Cut(Pass(l, F), Limit)
      BY DEF FreshOnly
    <3> HIDE DEF F
    <3>4. ToSet(Cut(Pass(l, F), Limit)) \subseteq ToSet(l) \cap F
      BY <3>2, CutRows, LimitNat
    <3>. QED
      BY <3>0, <3>1, <3>3, <3>4
  <2>5. \A T \in {Text, Clock} :
          Shows(Answer(rows, {FreshOnly(l, c.key) : l \in Newest(Own(rows, c.user), 3 * Limit, T)}), c.user)
    <3>1. TAKE T \in {Text, Clock}
    <3> DEFINE L == {FreshOnly(l, c.key) : l \in Newest(Own(rows, c.user), 3 * Limit, T)}
    <3>2. \A m \in L : \A r \in ToSet(m) : r.user = c.user
      BY <2>2, <2>4
    <3> HIDE DEF L
    <3>3. Shows(Answer(rows, L), c.user)
      BY <3>2, ShowsLists
    <3>. QED
      BY <3>3 DEF L
  <2> HIDE DEF Q
  <2>6. Shows(Answer(rows, Newest(Q, Limit, Clock)), c.user)
    BY <2>1, ShowsNewest
  <2>. QED
    BY <2>3, <2>5, <2>6
<1>. QED
  BY <1>1, <1>2, <1>3, <1>4

LEMMA MarketShow ==
  ASSUME Inv, table = "market", NEW c \in Calls(table), NEW b \in Stores3, c.user # Unset
  PROVE  Shows(Do(b, table, rows, c), c.user)
<1>0. Do(b, table, rows, c)
        \in {SqliteMarket(rows, c), PgMarket(rows, c), MemMarket(rows, c)}
  BY DoTable
<1>1. c.op \in {"create", "list", "delete"}
  BY DEF Calls, Calls0, Crud, O, Unset
<1>2. CASE c.op = "create"
  <2>1. Do(b, table, rows, c)
          \in {Insert(rows, New(c.user, Unset, c.val, 0))}
    BY <1>0, <1>2 DEF SqliteMarket, PgMarket, MemMarket, MarketCalls
  <2>. QED
    BY <2>1, Silent
<1>3. CASE c.op = "delete"
  <2>1. Do(b, table, rows, c)
          \in {Erase(rows, OwnId(rows, c))}
    BY <1>0, <1>3 DEF SqliteMarket, PgMarket, MemMarket, MarketCalls
  <2>. QED
    BY <2>1, Silent
<1>4. CASE c.op = "list"
  <2>1. /\ Handed /\ Shown(rows, c) \in SUBSET rows /\ rows \in SUBSET rows
        /\ \A r \in Shown(rows, c) : r.user = c.user
    BY DEF Handed, Shown, ForUser
  <2>2. IsFiniteSet(Shown(rows, c))
    BY <2>1, FS_Subset DEF Inv, Typed
  <2>3. \/ Do(b, table, rows, c) = Answer(rows, SetToSeqs(Shown(rows, c)))
        \/ \E T \in {Text, Clock} : Do(b, table, rows, c) =
             Answer(rows, {Pass(l, Shown(rows, c)) : l \in Newest(rows, Limit, T)})
    BY <1>0, <1>4 DEF SqliteMarket, PgMarket, MemMarket
  <2>4. \A T \in {Text, Clock} : \A l \in Newest(rows, Limit, T) : l \in Seq(rows)
    BY <2>1, NewestRows, LimitNat, Columns
  <2>5. ASSUME NEW T \in {Text, Clock},
               NEW m \in {Pass(l, Shown(rows, c)) : l \in Newest(rows, Limit, T)}
        PROVE  ToSet(m) \subseteq Shown(rows, c)
    <3>1. PICK l \in Newest(rows, Limit, T) : m = Pass(l, Shown(rows, c))
      BY <2>5
    <3>2. l \in Seq(rows)
      BY <2>4
    <3>3. ToSet(Pass(l, Shown(rows, c))) = ToSet(l) \cap Shown(rows, c)
      BY <3>2, PassRows
    <3>. QED
      BY <3>1, <3>3
  <2>6. \A T \in {Text, Clock} :
          Shows(Answer(rows, {Pass(l, Shown(rows, c)) : l \in Newest(rows, Limit, T)}), c.user)
    <3>1. TAKE T \in {Text, Clock}
    <3> DEFINE L == {Pass(l, Shown(rows, c)) : l \in Newest(rows, Limit, T)}
    <3>2. \A m \in L : \A r \in ToSet(m) : r.user = c.user
      BY <2>1, <2>5
    <3> HIDE DEF L
    <3>3. Shows(Answer(rows, L), c.user)
      BY <3>2, ShowsLists
    <3>. QED
      BY <3>3 DEF L
  <2>7. Shows(Answer(rows, SetToSeqs(Shown(rows, c))), c.user)
    BY <2>1, <2>2, ShowsAny
  <2>. QED
    BY <2>3, <2>6, <2>7
<1>. QED
  BY <1>1, <1>2, <1>3, <1>4

LEMMA KeepRows ==
  ASSUME Inv, NEW Q, NEW l \in Seq(Q), NEW k
  PROVE  ToSet(Keep(l, k, Limit)) \subseteq ToSet(l)
<1> DEFINE F == With(ToSet(l), k)
<1>1. ToSet(Pass(l, F)) = ToSet(l) \cap F /\ Pass(l, F) \in Seq(ToSet(l) \cap F)
  BY PassRows
<1>2. Keep(l, k, Limit) = Cut(Pass(l, F), Limit)
  BY DEF Keep
<1> HIDE DEF F
<1>3. ToSet(Cut(Pass(l, F), Limit)) \subseteq ToSet(l) \cap F
  BY <1>1, CutRows, LimitNat
<1>. QED
  BY <1>2, <1>3

LEMMA LineageShow ==
  ASSUME Inv, table = "lineage", NEW c \in Calls(table), NEW b \in Stores3, c.user # Unset
  PROVE  Shows(Do(b, table, rows, c), c.user)
<1>0. Do(b, table, rows, c)
        \in {SqliteLineage(rows, c), PgLineage(rows, c), MemLineage(rows, c)}
  BY DoTable
<1>1. c.op \in {"append", "list"}
  BY DEF Calls, Calls0, Crud, O, Unset
<1>2. CASE c.op = "append"
  <2>1. Do(b, table, rows, c)
          \in {Insert(rows, New(c.user, c.key, 1, 0)),
               Done(rows \cup {New(c.user, c.key, 1, 0)})}
    BY <1>0, <1>2 DEF SqliteLineage, PgLineage, MemLineage
  <2>. QED
    BY <2>1, Silent
<1>3. CASE c.op = "list"
  <2> DEFINE P == Own(rows, c.user)
             Q == With(P, c.key)
  <2>1. /\ Handed /\ P \in SUBSET rows /\ Q \in SUBSET rows
        /\ \A r \in P : r.user = c.user
        /\ \A r \in Q : r.user = c.user
    BY DEF Handed, With, Own
  <2>2. \/ Do(b, table, rows, c) = Answer(rows, Newest(Q, Limit, Position))
        \/ \E T \in {Text, Clock} :
             Do(b, table, rows, c) = Answer(rows, {Keep(l, c.key, Limit) : l \in Newest(P, 2 * Limit, T)})
    BY <1>0, <1>3 DEF SqliteLineage, PgLineage, MemLineage
  <2> HIDE DEF P, Q
  <2>3. ASSUME NEW T \in {Text, Clock},
               NEW m \in {Keep(l, c.key, Limit) : l \in Newest(P, 2 * Limit, T)}
        PROVE  ToSet(m) \subseteq P
    <3>1. PICK l \in Newest(P, 2 * Limit, T) : m = Keep(l, c.key, Limit)
      BY <2>3
    <3>2. l \in Seq(P) /\ ToSet(l) \subseteq P
      BY <2>1, NewestRows, LimitNat, Columns
    <3>. QED
      BY <3>1, <3>2, KeepRows
  <2>4. \A T \in {Text, Clock} :
          Shows(Answer(rows, {Keep(l, c.key, Limit) : l \in Newest(P, 2 * Limit, T)}), c.user)
    <3>1. TAKE T \in {Text, Clock}
    <3> DEFINE L == {Keep(l, c.key, Limit) : l \in Newest(P, 2 * Limit, T)}
    <3>2. \A m \in L : \A r \in ToSet(m) : r.user = c.user
      BY <2>1, <2>3
    <3> HIDE DEF L
    <3>3. Shows(Answer(rows, L), c.user)
      BY <3>2, ShowsLists
    <3>. QED
      BY <3>3 DEF L
  <2>5. Shows(Answer(rows, Newest(Q, Limit, Position)), c.user)
    BY <2>1, ShowsNewest
  <2>. QED
    BY <2>2, <2>4, <2>5
<1>. QED
  BY <1>1, <1>2, <1>3

LEMMA GraphShow ==
  ASSUME Inv, table = "graph", NEW c \in Calls(table), NEW b \in Stores3, c.user # Unset
  PROVE  Shows(Do(b, table, rows, c), c.user)
<1>0. Do(b, table, rows, c)
        \in {SqliteGraph(rows, c), PgGraph(rows, c), MemGraph(rows, c)}
  BY DoTable
<1>1. c.op \in {"upsert", "list"}
  BY DEF Calls, Calls0, Crud, O, Unset
<1>2. CASE c.op = "upsert"
  <2>1. Do(b, table, rows, c)
          \in {Put(rows, Edge(c))}
    BY <1>0, <1>2 DEF SqliteGraph, PgGraph, MemGraph
  <2>. QED
    BY <2>1, Silent
<1>3. CASE c.op = "list"
  <2> DEFINE P == Own(rows, c.user)
             Q == With(P, c.key)
             L == {Keep(l, c.key, Limit) : l \in AnyOrder(P, 3 * Limit)}
  <2>1. /\ P \in SUBSET rows /\ Q \in SUBSET rows
        /\ \A r \in P : r.user = c.user
        /\ \A r \in Q : r.user = c.user
    BY DEF With, Own
  <2>2. IsFiniteSet(P) /\ IsFiniteSet(Q)
    BY <2>1, FS_Subset DEF Inv, Typed
  <2>3. Do(b, table, rows, c) \in {Answer(rows, AnyOrder(Q, Limit)), Answer(rows, L)}
    BY <1>0, <1>3 DEF SqliteGraph, PgGraph, MemGraph
  <2>4. ASSUME NEW m \in L PROVE ToSet(m) \subseteq P
    <3>1. PICK l \in AnyOrder(P, 3 * Limit) : m = Keep(l, c.key, Limit)
      BY <2>4
    <3>2. PICK e \in SetToSeqs(P) : l = Cut(e, 3 * Limit)
      BY <3>1 DEF AnyOrder
    <3> HIDE DEF P
    <3>3. e \in Seq(P) /\ ToSet(e) = P
      BY <2>2, <3>2, ListOf
    <3>4. l \in Seq(P) /\ ToSet(l) \subseteq P
      BY <3>2, <3>3, CutRows, LimitNat
    <3>. QED
      BY <3>1, <3>4, KeepRows
  <2> HIDE DEF P, Q, L
  <2>5. Shows(Answer(rows, L), c.user)
    BY <2>1, <2>4, ShowsLists
  <2>6. Shows(Answer(rows, AnyOrder(Q, Limit)), c.user)
    BY <2>1, <2>2, ShowsAny, LimitNat
  <2>. QED
    BY <2>3, <2>5, <2>6
<1>. QED
  BY <1>1, <1>2, <1>3

LEMMA PurchasesShow ==
  ASSUME Inv, table = "purchases", NEW c \in Calls(table), NEW b \in Stores3, c.user # Unset
  PROVE  Shows(Do(b, table, rows, c), c.user)
<1>0. Do(b, table, rows, c)
        \in {SqlitePurchases(rows, c), PgPurchases(rows, c), MemPurchases(rows, c)}
  BY DoTable
<1>1. c.op \in {"create", "list", "get", "update"}
  BY DEF Calls, Calls0, Crud, O, Unset
<1>2. CASE c.op = "create"
  <2>1. Do(b, table, rows, c)
          \in {Insert(rows, New(c.user, Unset, 1, 0))}
    BY <1>0, <1>2 DEF SqlitePurchases, PgPurchases, MemPurchases, PurchaseCalls
  <2>. QED
    BY <2>1, Silent
<1>3. CASE c.op = "get"
  <2>1. Do(b, table, rows, c) = One(rows, OwnId(rows, c))
    BY <1>0, <1>3 DEF SqlitePurchases, PgPurchases, MemPurchases, PurchaseCalls
  <2>. QED
    BY <2>1, ShowsOne DEF OwnId
<1>4. CASE c.op = "update"
  <2>1. \/ \E Z, T : Do(b, table, rows, c) = Amend(rows, Z, T)
        \/ \E r : Do(b, table, rows, c) = Put(rows, r)
        \/ Do(b, table, rows, c) = Err(rows)
    BY <1>0, <1>4 DEF SqlitePurchases, PgPurchases, MemPurchases, PurchaseCalls
  <2>. QED
    BY <2>1, Silent
<1>5. CASE c.op = "list"
  <2> DEFINE Q == Own(rows, c.user)
  <2>1. Handed /\ Q \in SUBSET rows /\ \A r \in Q : r.user = c.user
    BY DEF Handed, Own
  <2>2. IsFiniteSet(Q)
    BY <2>1, FS_Subset DEF Inv, Typed
  <2>3. \/ Do(b, table, rows, c) = Answer(rows, AnyOrder(Q, Limit))
        \/ \E T \in {Text, Clock} : Do(b, table, rows, c) = Answer(rows, Newest(Q, Limit, T))
    BY <1>0, <1>5 DEF SqlitePurchases, PgPurchases, MemPurchases
  <2> HIDE DEF Q
  <2>4. Shows(Answer(rows, AnyOrder(Q, Limit)), c.user)
    BY <2>1, <2>2, ShowsAny, LimitNat
  <2>5. \A T \in {Text, Clock} : Shows(Answer(rows, Newest(Q, Limit, T)), c.user)
    BY <2>1, ShowsNewest
  <2>. QED
    BY <2>3, <2>4, <2>5
<1>. QED
  BY <1>1, <1>2, <1>3, <1>4, <1>5

LEMMA ConnectorsShow ==
  ASSUME Inv, table = "connectors", NEW c \in Calls(table), NEW b \in Stores3, c.user # Unset
  PROVE  Shows(Do(b, table, rows, c), c.user)
<1>0. Do(b, table, rows, c)
        \in {SqliteConnectors(rows, c), PgConnectors(rows, c), MemConnectors(rows, c)}
  BY DoTable
<1>1. c.op \in {"create", "get", "list", "delete"}
  BY DEF Calls, Calls0, Crud, O, Unset
<1>2. CASE c.op = "create"
  <2>1. Do(b, table, rows, c)
          \in {Insert(rows, New(c.user, Unset, 1, 0)),
               Put(rows, New(c.user, Unset, 1, 0))}
    BY <1>0, <1>2 DEF SqliteConnectors, PgConnectors, MemConnectors
  <2>. QED
    BY <2>1, Silent
<1>3. CASE c.op \in {"get", "delete"}
  BY <1>0, <1>3, ShowsScoped DEF SqliteConnectors, PgConnectors, MemConnectors
<1>4. CASE c.op = "list"
  <2> DEFINE Q == Own(rows, c.user)
  <2>1. Handed /\ Q \in SUBSET rows /\ \A r \in Q : r.user = c.user
    BY DEF Handed, Own
  <2>2. \/ Do(b, table, rows, c) = Scoped(rows, c)
        \/ \E T \in {Text, Clock} : Do(b, table, rows, c) = Answer(rows, Latest(Q, T))
    BY <1>0, <1>4 DEF SqliteConnectors, PgConnectors, MemConnectors
  <2> HIDE DEF Q
  <2>3. \A T \in {Text, Clock} : Shows(Answer(rows, Latest(Q, T)), c.user)
    BY <2>1, ShowsNewest
  <2>4. Shows(Scoped(rows, c), c.user)
    BY <1>4, ShowsScoped
  <2>. QED
    BY <2>2, <2>3, <2>4
<1>. QED
  BY <1>1, <1>2, <1>3, <1>4

(* Every call made for a user, on every backend.                           *)
LEMMA CallShows ==
  ASSUME Inv, NEW c \in Calls(table), NEW b \in Stores3, c.user # Unset
  PROVE  Shows(Do(b, table, rows, c), c.user)
<1>1. table \in {"users", "audit", "jtis", "refresh", "agents", "providers", "drives",
                 "bindings", "devices", "jobs", "outbox", "snapshots", "memory",
                 "market", "lineage", "graph", "purchases", "connectors"}
  BY BackendsAssumption DEF Inv, World
<1>2. table \notin {"users", "jtis"}
  BY DEF Calls, Calls0, O, Unset
<1>3. CASE table \in {"audit", "refresh", "agents", "providers"}
  BY <1>3, AuditShow, RefreshShow, AgentsShow, ProvidersShow
<1>4. CASE table \in {"drives", "bindings", "devices", "jobs", "outbox", "snapshots"}
  BY <1>4, DrivesShow, BindingsShow, DevicesShow, JobsShow, OutboxShow, SnapshotsShow
<1>5. CASE table \in {"memory", "market", "lineage", "graph", "purchases", "connectors"}
  BY <1>5, MemoryShow, MarketShow, LineageShow, GraphShow, PurchasesShow, ConnectorsShow
<1>. QED
  BY <1>1, <1>2, <1>3, <1>4, <1>5

(* The audit slice of memory keeps all events while there is room, and     *)
(* what it cuts is older than all it keeps.                                *)
LEMMA RecentRows ==
  ASSUME Inv, Handed, NEW n, n.id = now
  PROVE  /\ Cardinality(rows) < AuditCap => Recent(rows \cup {n}) = rows \cup {n}
         /\ \A r \in rows : r \notin Recent(rows \cup {n}) =>
              \A x \in Recent(rows \cup {n}) : r.id < x.id
<1> DEFINE t     == rows \cup {n}
           up(r) == {x \in t : x.id > r.id}
<1>1. /\ IsFiniteSet(rows) /\ Cardinality(rows) \in Nat /\ AuditCap \in Nat /\ AuditCap > 0
      /\ IsFiniteSet(t) /\ \A r \in rows : r.id \in Nat /\ r.id < now
      /\ now \in Nat
  <2>1. IsFiniteSet(rows) /\ \A r \in rows : r.id \in 1..(now - 1)
    BY DEF Inv, Typed, Dated
  <2>2. now \in Nat
    BY SizesAssumption DEF Inv, World
  <2>. QED
    BY <2>1, <2>2, FS_CardinalityType, FS_AddElement, SizesAssumption
<1>2. \A r \in t : IsFiniteSet(up(r)) /\ Cardinality(up(r)) \in Nat /\ r.id \in Nat
  BY <1>1, FS_Subset, FS_CardinalityType
<1>3. \A r \in t : r \in Recent(t) <=> Cardinality(up(r)) < AuditCap
  BY DEF Recent
<1>4. ASSUME Cardinality(rows) < AuditCap PROVE Recent(t) = t
  <2>1. ASSUME NEW r \in rows PROVE Cardinality(up(r)) < AuditCap
    <3> DEFINE Y == rows \ {r}
               Z == Y \cup {n}
    <3>1. IsFiniteSet(Y) /\ Cardinality(Y) = Cardinality(rows) - 1
      BY <1>1, FS_RemoveElement
    <3>2. n \notin Y
      BY <1>1
    <3>4. up(r) \subseteq Z
      BY <1>1
    <3> HIDE DEF Y
    <3>6. IsFiniteSet(Y \cup {n}) /\ Cardinality(Y \cup {n}) = Cardinality(Y) + 1
      BY ONLY <3>1, <3>2, FS_AddElement
    <3>3. IsFiniteSet(Z) /\ Cardinality(Z) = Cardinality(rows)
      BY <1>1, <3>1, <3>6
    <3>5. Cardinality(up(r)) =< Cardinality(Z)
      BY <3>3, <3>4, FS_Subset
    <3> HIDE DEF up, Z
    <3>. QED
      BY <1>1, <1>2, <1>4, <3>3, <3>5 DEF t
  <2>2. Cardinality(up(n)) < AuditCap
    <3>1. up(n) = {}
      BY <1>1
    <3> HIDE DEF up
    <3>. QED
      BY <1>1, <3>1, FS_EmptySet
  <2> HIDE DEF up
  <2>3. \A r \in t : r \in Recent(t)
    BY <1>3, <2>1, <2>2 DEF t
  <2>4. Recent(t) \subseteq t
    BY DEF Recent
  <2>. QED
    BY <2>3, <2>4
<1>5. ASSUME NEW r \in rows, r \notin Recent(t), NEW x \in Recent(t)
      PROVE  r.id < x.id
  <2>1. r \in t /\ x \in t
    BY DEF Recent
  <2>2. x.id =< r.id => up(r) \subseteq up(x)
    <3>1. \A y \in t : y.id \in Nat
      BY <1>2
    <3>. QED
      BY <2>1, <3>1
  <2>3. up(r) \subseteq up(x) => Cardinality(up(r)) =< Cardinality(up(x))
    BY <1>2, <2>1, FS_Subset
  <2>4. Cardinality(up(x)) < AuditCap /\ ~ Cardinality(up(r)) < AuditCap
    BY <1>3, <1>5, <2>1
  <2>5. /\ Cardinality(up(x)) \in Nat /\ Cardinality(up(r)) \in Nat
        /\ x.id \in Nat /\ r.id \in Nat
    BY <1>2, <2>1
  <2> HIDE DEF up, t
  <2>. QED
    BY <1>1, <2>2, <2>3, <2>4, <2>5
<1>. QED
  BY <1>4, <1>5 DEF t

(* In every state, a call made for a user shows rows of that user only and *)
(* leaves the others' as they are, on all three backends: the user_id      *)
(* conditions of the statements of store.go's implementations.  The one    *)
(* exception is memory's AppendAudit, which cuts a full slice from its old *)
(* end whoever the events belong to.                                       *)
THEOREM TenantsStayApart == Spec => []TenantsApart
<1>1. ASSUME Inv PROVE TenantsApart
  <2>1. SUFFICES ASSUME NEW b \in Stores3, NEW c \in Calls(table), c.user # Unset
                 PROVE  LET a == Do(b, table, rows, c)
                        IN /\ \A l \in a.lists : \A r \in ToSet(l) : r.user = c.user
                           /\ \A r \in rows : r.user # c.user =>
                                \/ r \in a.rows
                                \/ Trims(b, c) /\ \A x \in a.rows : r.id < x.id
    BY DEF TenantsApart
  <2> DEFINE a == Do(b, table, rows, c)
  <2>2. Shows(a, c.user)
    BY <1>1, <2>1, CallShows
  <2>3. Kept(a.rows, c)
    BY <1>1, CallKept
  <2>4. ASSUME Cuts(c), NEW r \in rows
        PROVE  r \in a.rows \/ (Trims(b, c) /\ \A x \in a.rows : r.id < x.id)
    <3> DEFINE n == New(c.user, c.key, 1, 0)
    <3>1. n.id = now /\ Handed
      BY <2>4 DEF New, Cuts, Handed
    <3>2. b # "memory" => a = Insert(rows, n)
      BY <2>4 DEF Do, Sqlite, Postgres, SqliteAudit, PgAudit, Cuts, Stores3
    <3>3. b = "memory" => a = Done(Recent(rows \cup {n}))
      BY <2>4 DEF Do, Memory, MemAudit, Cuts
    <3> HIDE DEF n, a
    <3>4. CASE b # "memory"
      BY <3>2, <3>4, InsertRows
    <3>5. CASE b = "memory"
      <4>1. a.rows = Recent(rows \cup {n})
        BY <3>3, <3>5 DEF Done
      <4>2. CASE Cardinality(rows) < AuditCap
        BY <1>1, <3>1, <4>1, <4>2, RecentRows
      <4>3. CASE ~ Cardinality(rows) < AuditCap
        <5>1. Cardinality(rows) >= AuditCap
          BY <1>1, <4>3, FS_CardinalityType, SizesAssumption DEF Inv, Typed
        <5>2. Trims(b, c)
          BY <2>4, <3>5, <5>1 DEF Trims, Cuts
        <5>. QED
          BY <1>1, <3>1, <4>1, <5>2, RecentRows
      <4>. QED
        BY <4>2, <4>3
    <3>. QED
      BY <3>4, <3>5
  <2>5. \A r \in rows : r.user # c.user =>
          r \in a.rows \/ (Trims(b, c) /\ \A x \in a.rows : r.id < x.id)
    BY <2>1, <2>3, <2>4 DEF Kept
  <2>. QED
    BY <2>2, <2>5 DEF Shows
<1>. QED
  BY <1>1, RowsInvariant, PTL

-----------------------------------------------------------------------------
(* The stores agree.                                                       *)

LEMMA SameSelf ==
  ASSUME NEW a, NEW b, a = b
  PROVE  Same(a, b)
  BY DEF Same

(* Answers whose every list shows the same rows.                           *)
LEMMA SameShown ==
  ASSUME NEW t, NEW Z, NEW L, NEW M, L # {}, M # {},
         \A l \in L : ToSet(l) = Z, \A l \in M : ToSet(l) = Z
  PROVE  Same(Answer(t, L), Answer(t, M))
<1>1. {ToSet(l) : l \in L} = {Z} /\ {ToSet(l) : l \in M} = {Z}
  OBVIOUS
<1>. QED
  BY <1>1 DEF Same, Answer

(* A new row's id is free, so that an INSERT and a map assignment agree.   *)
LEMMA InsertIsPut ==
  ASSUME Inv, Handed, NEW u, NEW k, NEW v, NEW x
  PROVE  /\ Insert(rows, New(u, k, v, x)) = Done(rows \cup {New(u, k, v, x)})
         /\ Put(rows, New(u, k, v, x)) = Done(rows \cup {New(u, k, v, x)})
<1> DEFINE n == New(u, k, v, x)
<1>1. n.id = now
  BY DEF New
<1> HIDE DEF n
<1>2. \A r \in rows : r.id # n.id
  BY <1>1, SizesAssumption DEF Inv, World, Dated
<1>3. n.id \notin Ids(rows) /\ {r \in rows : r.id # n.id} = rows
  BY <1>2 DEF Ids
<1>4. Insert(rows, n) = Done(rows \cup {n}) /\ Put(rows, n) = Done(rows \cup {n})
  BY <1>3 DEF Insert, Put
<1>. QED
  BY <1>4 DEF n

(* Nor can an index refuse it, but where a row of the user has its key.    *)
LEMMA UniqueIsInsert ==
  ASSUME Inv, NEW c, ~ \E r \in rows : r.user = c.user /\ r.key = c.key /\ c.key # 0,
         NEW v, NEW x
  PROVE  InsertUnique(rows, New(c.user, c.key, v, x)) = Insert(rows, New(c.user, c.key, v, x))
<1> DEFINE n == New(c.user, c.key, v, x)
<1>1. n.user = c.user /\ n.key = c.key
  BY DEF New
<1> HIDE DEF n
<1>2. ~ Clash(rows, n)
  BY <1>1 DEF Clash
<1>3. InsertUnique(rows, n) = Insert(rows, n)
  BY <1>2 DEF InsertUnique
<1>. QED
  BY <1>3 DEF n

(* Columns that compare alike.                                             *)
Alike(T, U) == \A i, j \in Instants : T[i] >= T[j] <=> U[i] >= U[j]

LEMMA SameColumns ==
  ASSUME Inv, InStep
  PROVE  Alike(Text, Clock) /\ Alike(ByIds(Text), ByIds(Clock))
<1>1. \A i \in Instants : Text[i] \in Int /\ Clock[i] \in Int /\ Clock[i] = times[i]
  BY Columns DEF Timed, Clock
<1>2. ASSUME NEW i \in Instants, NEW j \in Instants
      PROVE  Text[i] >= Text[j] <=> Clock[i] >= Clock[j]
  <2>1. Text[i] >= Text[j] => Clock[i] >= Clock[j]
    BY <1>1, Columns DEF Rising
  <2>2. Text[j] >= Text[i] => Clock[j] >= Clock[i]
    BY <1>1, Columns DEF Rising
  <2>3. Clock[i] = Clock[j] => Text[i] = Text[j]
    BY <1>1, Columns DEF Level
  <2>4. /\ Text[i] \in Int /\ Text[j] \in Int
        /\ Clock[i] \in Int /\ Clock[j] \in Int
    BY <1>1
  <2>. QED
    BY <2>1, <2>2, <2>3, <2>4
<1>3. ASSUME NEW i \in Instants, NEW j \in Instants
      PROVE  ByIds(Text)[i] >= ByIds(Text)[j] <=> ByIds(Clock)[i] >= ByIds(Clock)[j]
  <2>1. /\ Text[i] >= Text[j] <=> Clock[i] >= Clock[j]
        /\ Text[j] >= Text[i] <=> Clock[j] >= Clock[i]
    BY <1>2
  <2>2. /\ Text[i] > Text[j] <=> Clock[i] > Clock[j]
        /\ Text[i] = Text[j] <=> Clock[i] = Clock[j]
    BY <1>1, <2>1
  <2>3. Timed(Text) /\ Timed(Clock)
    BY Columns
  <2>4. /\ ByIds(Text)[i] >= ByIds(Text)[j]
             <=> Text[i] > Text[j] \/ (Text[i] = Text[j] /\ names[i] >= names[j])
        /\ ByIds(Clock)[i] >= ByIds(Clock)[j]
             <=> Clock[i] > Clock[j] \/ (Clock[i] = Clock[j] /\ names[i] >= names[j])
    BY <2>3, ByIdsOrder
  <2>. QED
    BY <2>2, <2>4
<1>. QED
  BY <1>2, <1>3 DEF Alike

LEMMA AlikeLatest ==
  ASSUME Inv, Handed, NEW Q \in SUBSET rows, NEW T, NEW U, Alike(T, U)
  PROVE  Latest(Q, T) = Latest(Q, U) /\ \A n : Newest(Q, n, T) = Newest(Q, n, U)
<1>1. IsFiniteSet(Q) /\ \A r \in Q : r.id \in Instants
  BY FS_Subset, IdsTimed DEF Inv, Typed
<1>2. \A r, x \in Q : T[r.id] >= T[x.id] <=> U[r.id] >= U[x.id]
  BY <1>1 DEF Alike
<1>. QED
  BY <1>1, <1>2, SameLatest

(* Where texts compare like times, SQLite and the others list the same     *)
(* rows in the same orders.                                                *)
LEMMA SameNewest ==
  ASSUME Inv, Handed, InStep, NEW Q \in SUBSET rows
  PROVE  /\ Latest(Q, Text) = Latest(Q, Clock)
         /\ Latest(Q, ByIds(Text)) = Latest(Q, ByIds(Clock))
         /\ \A n : Newest(Q, n, Text) = Newest(Q, n, Clock)
         /\ \A n : Newest(Q, n, ByIds(Text)) = Newest(Q, n, ByIds(Clock))
<1>1. Latest(Q, Text) = Latest(Q, Clock) /\ \A n : Newest(Q, n, Text) = Newest(Q, n, Clock)
  BY SameColumns, AlikeLatest
<1>2. /\ Latest(Q, ByIds(Text)) = Latest(Q, ByIds(Clock))
      /\ \A n : Newest(Q, n, ByIds(Text)) = Newest(Q, n, ByIds(Clock))
  BY SameColumns, AlikeLatest
<1>. QED
  BY <1>1, <1>2

(* Where no two rows are of one time, the order of appending is that of    *)
(* the times.                                                              *)
LEMMA SamePosition ==
  ASSUME Inv, Handed, NEW Q \in SUBSET rows,
         \A r, x \in Q : r.id # x.id => times[r.id] # times[x.id]
  PROVE  \A n : Newest(Q, n, Position) = Newest(Q, n, Clock)
<1>1. IsFiniteSet(Q) /\ \A r \in Q : r.id \in Instants
  BY FS_Subset, IdsTimed DEF Inv, Typed
<1>2. ASSUME NEW r \in Q, NEW x \in Q
      PROVE  Position[r.id] >= Position[x.id] <=> Clock[r.id] >= Clock[x.id]
  <2>1. /\ Position[r.id] = r.id /\ Position[x.id] = x.id
        /\ Clock[r.id] = times[r.id] /\ Clock[x.id] = times[x.id]
        /\ r.id \in Int /\ x.id \in Int /\ times[r.id] \in Int /\ times[x.id] \in Int
    BY <1>1, Timeline DEF Position, Clock
  <2>2. /\ r.id < x.id => times[r.id] =< times[x.id]
        /\ x.id < r.id => times[x.id] =< times[r.id]
    BY <1>1, Timeline
  <2>3. r.id # x.id => times[r.id] # times[x.id]
    OBVIOUS
  <2> DEFINE i == r.id
             j == x.id
  <2>4. /\ i \in Int /\ j \in Int /\ times[i] \in Int /\ times[j] \in Int
        /\ i < j => times[i] =< times[j]
        /\ j < i => times[j] =< times[i]
        /\ i # j => times[i] # times[j]
    BY <2>1, <2>2, <2>3
  <2> HIDE DEF i, j
  <2>5. i >= j <=> times[i] >= times[j]
    BY <2>4
  <2>. QED
    BY <2>1, <2>5 DEF i, j
<1>. QED
  BY <1>1, <1>2, SameLatest

(* Comparisons of instants.                                                *)
LEMMA SameCompare ==
  ASSUME Inv, InStep, NEW i \in Instants, NEW j \in Instants
  PROVE  /\ Text[i] < Text[j] <=> Clock[i] < Clock[j]
         /\ Text[i] = Text[j] <=> Clock[i] = Clock[j]
         /\ Text[i] =< Text[j] <=> Clock[i] =< Clock[j]
         /\ Clock[j] > Clock[i] <=> Clock[i] < Clock[j]
         /\ -Text[i] >= -Text[j] <=> -Clock[i] >= -Clock[j]
<1>1. Text[i] \in Int /\ Text[j] \in Int /\ Clock[i] \in Int /\ Clock[j] \in Int
  BY Columns DEF Timed
<1>2. /\ Text[i] >= Text[j] <=> Clock[i] >= Clock[j]
      /\ Text[j] >= Text[i] <=> Clock[j] >= Clock[i]
  BY SameColumns DEF Alike
<1>. QED
  BY <1>1, <1>2

(* So a purge dooms the same rows.                                         *)
LEMMA SameDoomed ==
  ASSUME Inv, InStep, NEW V, NEW c, c.n \in Instants,
         \A r \in rows : r.val \in V => r.upd \in Instants
  PROVE  Doomed(rows, V, c, Text) = Doomed(rows, V, c, Clock)
<1> DEFINE Q(T) == {r \in rows : r.val \in V /\ T[r.upd] < T[c.n]}
<1>1. Q(Text) = Q(Clock)
  BY SameCompare
<1>2. IsFiniteSet(Q(Clock))
  BY FS_Subset DEF Inv, Typed
<1>3. \A r, x \in Q(Clock) : -Text[r.upd] >= -Text[x.upd] <=> -Clock[r.upd] >= -Clock[x.upd]
  BY SameCompare
<1>4. \A T : Doomed(rows, V, c, T) = ToSet(CHOOSE l \in Oldest(Q(T), Limit, T) : TRUE)
  BY DEF Doomed
<1> HIDE DEF Q
<1>5. Oldest(Q(Clock), Limit, Text) = Oldest(Q(Clock), Limit, Clock)
  BY <1>2, <1>3, SameOldest
<1>. QED
  BY <1>1, <1>4, <1>5

(* A sorted list and the lists in a map's order show the same rows.        *)
LEMMA SortedShowsAll ==
  ASSUME Inv, Handed, NEW Q \in SUBSET rows
  PROVE  /\ SetToSeqs(Q) # {} /\ \A l \in SetToSeqs(Q) : ToSet(l) = Q
         /\ Same(Answer(rows, SetToSeqs(Q)), Answer(rows, Latest(Q, Clock)))
         /\ Same(Answer(rows, SetToSeqs(Q)), Answer(rows, {Reverse(l) : l \in Latest(Q, Clock)}))
<1>1. /\ IsFiniteSet(Q) /\ Latest(Q, Clock) # {}
      /\ \A l \in Latest(Q, Clock) : l \in Seq(Q) /\ ToSet(l) = Q
  BY LatestRows, Columns
<1>2. SetToSeqs(Q) # {} /\ \A l \in SetToSeqs(Q) : ToSet(l) = Q
  BY <1>1, ListExists, ListOf
<1>3. Same(Answer(rows, SetToSeqs(Q)), Answer(rows, Latest(Q, Clock)))
  BY <1>1, <1>2, SameShown
<1> DEFINE M == {Reverse(l) : l \in Latest(Q, Clock)}
<1>4. M # {}
  BY <1>1
<1>5. ASSUME NEW m \in M PROVE ToSet(m) = Q
  <2>1. PICK l \in Latest(Q, Clock) : m = Reverse(l)
    BY <1>5
  <2>. QED
    BY <1>1, <2>1, ReverseRows
<1> HIDE DEF M
<1>6. Same(Answer(rows, SetToSeqs(Q)), Answer(rows, M))
  BY <1>2, <1>4, <1>5, SameShown
<1>. QED
  BY <1>2, <1>3, <1>6 DEF M

(* Where a table holds no more than a page, cutting leaves lists whole.    *)
LEMMA WholePage ==
  ASSUME Inv, Handed, Cardinality(rows) =< Limit, NEW Q \in SUBSET rows,
         NEW T, T \in {Clock, Position}
  PROVE  /\ Newest(Q, Limit, T) = Latest(Q, T)
         /\ Newest(Q, 2 * Limit, T) = Latest(Q, T)
         /\ Newest(Q, 3 * Limit, T) = Latest(Q, T)
         /\ Latest(Q, T) # {}
         /\ \A l \in Latest(Q, T) : /\ ToSet(l) = Q /\ l \in Seq(Q)
                                    /\ Len(l) =< Limit /\ Len(l) \in Nat
<1>1. Limit \in Nat /\ 2 * Limit \in Nat /\ 3 * Limit \in Nat /\ Cardinality(rows) \in Nat
  BY LimitNat, FS_CardinalityType DEF Inv, Typed
<1>2. Cardinality(rows) =< 2 * Limit /\ Cardinality(rows) =< 3 * Limit
  BY <1>1
<1>3. Timed(T)
  BY Columns
<1>4. /\ Latest(Q, T) # {}
      /\ Cardinality(Q) \in Nat /\ Cardinality(Q) =< Cardinality(rows)
      /\ \A l \in Latest(Q, T) : l \in Seq(Q) /\ Len(l) = Cardinality(Q) /\ ToSet(l) = Q
  BY <1>3, LatestRows
<1>5. /\ Newest(Q, Limit, T) = Latest(Q, T)
      /\ Newest(Q, 2 * Limit, T) = Latest(Q, T)
      /\ Newest(Q, 3 * Limit, T) = Latest(Q, T)
  BY <1>1, <1>2, <1>3, NewestRows
<1>6. Cardinality(Q) =< Limit
  BY <1>1, <1>4
<1>. QED
  BY <1>4, <1>5, <1>6

LEMMA SnapshotsAgree ==
  ASSUME Inv, InStep, table = "snapshots", NEW c \in Calls(table)
  PROVE  /\ SqliteSnapshots(rows, c) = PgSnapshots(rows, c)
         /\ MemSnapshots(rows, c) = PgSnapshots(rows, c)
<1>1. Handed /\ OfDrive(rows, c) \in SUBSET rows
  BY DEF Handed, OfDrive, Own
<1>2. Newest(OfDrive(rows, c), Limit, Text) = Newest(OfDrive(rows, c), Limit, Clock)
  BY <1>1, SameNewest
<1>3. SnapshotCalls(rows, c, Text) = SnapshotCalls(rows, c, Clock)
  BY <1>2 DEF SnapshotCalls
<1>4. Put(rows, New(c.user, c.key, 1, 0)) = Insert(rows, New(c.user, c.key, 1, 0))
  BY <1>1, InsertIsPut
<1>. QED
  BY <1>3, <1>4 DEF SqliteSnapshots, PgSnapshots, MemSnapshots

LEMMA AuditAgree ==
  ASSUME Inv, InStep, table = "audit", NEW c \in Calls(table)
  PROVE  /\ SqliteAudit(rows, c) = PgAudit(rows, c)
         /\ \/ Trims("memory", c)
            \/ TiedAudit(c)
            \/ Same(MemAudit(rows, c), PgAudit(rows, c))
<1> DEFINE Q == Audited(rows, c)
           n == New(c.user, c.key, 1, 0)
<1>1. Handed /\ Q \in SUBSET rows
  BY DEF Handed, Audited, With
<1>2. CASE c.op = "append"
  <2>1. Done(rows \cup {n}) = Insert(rows, n)
    BY <1>1, InsertIsPut
  <2>2. n.id = now
    BY DEF New
  <2>3. /\ SqliteAudit(rows, c) = Insert(rows, n) /\ PgAudit(rows, c) = Insert(rows, n)
        /\ MemAudit(rows, c) = Done(Recent(rows \cup {n}))
    BY <1>2 DEF SqliteAudit, PgAudit, MemAudit
  <2> HIDE DEF n
  <2>4. ASSUME ~ Trims("memory", c) PROVE MemAudit(rows, c) = PgAudit(rows, c)
    <3>1. Cardinality(rows) < AuditCap
      BY <1>2, <2>4, FS_CardinalityType, SizesAssumption DEF Trims, Inv, Typed
    <3>2. Recent(rows \cup {n}) = rows \cup {n}
      BY <1>1, <2>2, <3>1, RecentRows
    <3>. QED
      BY <2>1, <2>3, <3>2
  <2>. QED
    BY <2>3, <2>4, SameSelf
<1>3. CASE c.op = "list"
  <2>1. Newest(Q, Limit, Text) = Newest(Q, Limit, Clock)
    BY <1>1, SameNewest
  <2>2. /\ SqliteAudit(rows, c) = Answer(rows, Newest(Q, Limit, Text))
        /\ PgAudit(rows, c) = Answer(rows, Newest(Q, Limit, Clock))
        /\ MemAudit(rows, c) = Answer(rows, Newest(Q, Limit, Position))
    BY <1>3 DEF SqliteAudit, PgAudit, MemAudit
  <2> HIDE DEF Q
  <2>3. CASE Cardinality(rows) =< Limit
    <3>1. /\ Newest(Q, Limit, Clock) # {} /\ Newest(Q, Limit, Position) # {}
          /\ \A l \in Newest(Q, Limit, Clock) : ToSet(l) = Q
          /\ \A l \in Newest(Q, Limit, Position) : ToSet(l) = Q
      BY <1>1, <2>3, WholePage
    <3>2. Same(MemAudit(rows, c), PgAudit(rows, c))
      BY <2>2, <3>1, SameShown
    <3>. QED
      BY <2>1, <2>2, <3>2
  <2>4. CASE Cardinality(rows) > Limit
    <3>1. ASSUME ~ TiedAudit(c) PROVE MemAudit(rows, c) = PgAudit(rows, c)
      <4>1. \A r, x \in rows : r.id # x.id => times[r.id] # times[x.id]
        BY <1>3, <2>4, <3>1 DEF TiedAudit
      <4>2. \A r, x \in Q : r.id # x.id => times[r.id] # times[x.id]
        BY <1>1, <4>1
      <4>3. Newest(Q, Limit, Position) = Newest(Q, Limit, Clock)
        BY <1>1, <4>2, SamePosition
      <4>. QED
        BY <2>2, <4>3
    <3>. QED
      BY <2>1, <2>2, <3>1, SameSelf
  <2>5. Limit \in Int /\ Cardinality(rows) \in Int
    BY LimitNat, FS_CardinalityType DEF Inv, Typed
  <2>. QED
    BY <2>3, <2>4, <2>5
<1>4. c.op \in {"append", "list"}
  BY DEF Calls, Calls0
<1>. QED
  BY <1>2, <1>3, <1>4

LEMMA JtisAgree ==
  ASSUME Inv, InStep, table = "jtis", NEW c \in Calls(table)
  PROVE  /\ SqliteJtis(rows, c) = PgJtis(rows, c)
         /\ MemJtis(rows, c) = PgJtis(rows, c)
<1>1. now \in Instants /\ \A r \in rows : r.upd \in Instants
  BY SizesAssumption DEF Inv, World, Lasting, Instants
<1>2. /\ {r \in rows : ~ Text[r.upd] < Text[now]} = {r \in rows : ~ Clock[r.upd] < Clock[now]}
      /\ {r \in rows : ~ Clock[now] > Clock[r.upd]} = {r \in rows : ~ Clock[r.upd] < Clock[now]}
  BY <1>1, SameCompare
<1>. QED
  BY <1>2 DEF SqliteJtis, PgJtis, MemJtis

LEMMA OutboxAgree ==
  ASSUME Inv, Settled, InStep, table = "outbox", NEW c \in Calls(table)
  PROVE  /\ SqliteOutbox(rows, c) = PgOutbox(rows, c)
         /\ MemOutbox(rows, c) = PgOutbox(rows, c)
<1>1. now \in Instants /\ \A r \in rows : r.upd \in Instants
  BY SizesAssumption DEF Inv, World, Settled, Instants
<1>2. c.op = "purge" => c.n \in Instants
  BY SizesAssumption DEF Calls, Calls0, Inv, World, Instants
<1>3. c.op = "purge" => \A V : Doomed(rows, V, c, Text) = Doomed(rows, V, c, Clock)
  BY <1>1, <1>2, SameDoomed
<1> DEFINE Q == With(ForUser({r \in rows : r.val = c.val}, c.user), c.key)
           D(T) == {r \in rows : r.val = "pending" /\ T[r.upd] =< T[now]}
<1>4. Newest(Q, Limit, Text) = Newest(Q, Limit, Clock)
  <2>1. Handed /\ Q \in SUBSET rows
    BY DEF Handed, With, ForUser
  <2> HIDE DEF Q
  <2>. QED
    BY <2>1, SameNewest
<1>5. Oldest(D(Text), Limit, Text) = Oldest(D(Clock), Limit, Clock)
  <2>1. D(Text) = D(Clock)
    BY <1>1, SameCompare
  <2>2. IsFiniteSet(D(Clock))
    BY FS_Subset DEF Inv, Typed
  <2>3. \A r, x \in D(Clock) : -Text[r.upd] >= -Text[x.upd] <=> -Clock[r.upd] >= -Clock[x.upd]
    BY <1>1, SameCompare
  <2> HIDE DEF D
  <2>4. Oldest(D(Clock), Limit, Text) = Oldest(D(Clock), Limit, Clock)
    BY <2>2, <2>3, SameOldest
  <2>. QED
    BY <2>1, <2>4
<1>6. ASSUME c.op # "enqueue" PROVE BoxCalls(rows, c, Text) = BoxCalls(rows, c, Clock)
  <2>1. CASE c.op = "due"
    BY <1>5, <2>1 DEF BoxCalls
  <2>2. CASE c.op = "list"
    BY <1>4, <2>2 DEF BoxCalls
  <2>3. CASE c.op = "purge"
    BY <1>3, <2>3 DEF BoxCalls
  <2>4. CASE c.op \in {"update", "get", "count", "ofJob"}
    BY <2>4 DEF BoxCalls
  <2>5. c.op \in {"due", "list", "purge", "update", "get", "count", "ofJob"}
    BY <1>6 DEF Calls, Calls0
  <2>. QED
    BY <2>1, <2>2, <2>3, <2>4, <2>5
<1>. QED
  BY <1>6 DEF SqliteOutbox, PgOutbox, MemOutbox

LEMMA DrivesAgree ==
  ASSUME Inv, table = "drives", NEW c \in Calls(table)
  PROVE  /\ SqliteDrives(rows, c) = PgDrives(rows, c)
         /\ Clashes(c) \/ MemDrives(rows, c) = PgDrives(rows, c)
<1>1. SqliteDrives(rows, c) = PgDrives(rows, c)
  BY DEF SqliteDrives, PgDrives
<1>2. ASSUME c.op \in {"create", "update"}, ~ Clashes(c)
      PROVE  MemDrives(rows, c) = PgDrives(rows, c)
  <2>1. ~ \E r \in rows : r.user = c.user /\ r.key = c.key /\ c.key # 0
    BY <1>2 DEF Clashes
  <2>2. CASE c.op = "create"
    <3>1. PgDrives(rows, c) = InsertUnique(rows, New(c.user, c.key, 1, 0))
      BY <2>2 DEF PgDrives
    <3>2. MemDrives(rows, c) = Put(rows, New(c.user, c.key, 1, 0))
      BY <2>2 DEF MemDrives
    <3>3. Handed
      BY DEF Handed
    <3>4. PgDrives(rows, c) = Insert(rows, New(c.user, c.key, 1, 0))
      BY <2>1, <3>1, UniqueIsInsert
    <3>5. Put(rows, New(c.user, c.key, 1, 0)) = Insert(rows, New(c.user, c.key, 1, 0))
      BY <3>3, InsertIsPut
    <3>. QED
      BY <3>2, <3>4, <3>5
  <2>3. CASE c.op = "update"
    <3>1. \A x \in Edited(rows, c) : x.user = c.user /\ x.key = c.key
      <4>1. TAKE x \in Edited(rows, c)
      <4>2. PICK r \in OwnId(rows, c) : x = [r EXCEPT !.key = c.key, !.val = c.val]
        BY DEF Edited
      <4>3. r \in Row /\ r.user = c.user
        BY DEF OwnId, Inv, Typed
      <4>. QED
        BY <4>2, <4>3 DEF Row
    <3>2. ~ \E x \in Edited(rows, c) : Clash(rows, x)
      BY <2>1, <3>1 DEF Clash
    <3>3. PgDrives(rows, c) = Amend(rows, OwnId(rows, c), Edited(rows, c))
      BY <2>3, <3>2 DEF PgDrives
    <3>4. MemDrives(rows, c) = Amend(rows, OwnId(rows, c), Edited(rows, c))
      BY <2>3 DEF MemDrives
    <3>. QED
      BY <3>3, <3>4
  <2>. QED
    BY <1>2, <2>2, <2>3
<1>3. ASSUME c.op \notin {"create", "update"}
      PROVE  MemDrives(rows, c) = PgDrives(rows, c)
  <2>1. CASE c.op = "byAlias"
    BY <2>1 DEF PgDrives, MemDrives
  <2>2. CASE c.op # "byAlias"
    <3>1. PgDrives(rows, c) = Scoped(rows, c)
      BY <1>3, <2>2 DEF PgDrives
    <3>2. MemDrives(rows, c) = Scoped(rows, c)
      BY <1>3, <2>2 DEF MemDrives
    <3>. QED
      BY <3>1, <3>2
  <2>. QED
    BY <2>1, <2>2
<1>. QED
  BY <1>1, <1>2, <1>3

LEMMA JobsAgree ==
  ASSUME Inv, Settled, InStep, table = "jobs", NEW c \in Calls(table)
  PROVE  /\ SqliteJobs(rows, c) = PgJobs(rows, c)
         /\ Clashes(c) \/ Same(MemJobs(rows, c), PgJobs(rows, c))
<1>0. Handed
  BY DEF Handed
<1>1. /\ c.op \in {"create", "get", "byID", "byKey", "count", "page", "adminPage", "list",
                   "pending", "running", "claim", "update", "purge"}
      /\ c.op \in {"page", "adminPage"} => c.n \in OrUnset(Known)
      /\ c.op = "purge" => c.n \in 1..now
  BY DEF Calls, Calls0
<1>2. CASE c.op = "create"
  <2>1. /\ SqliteJobs(rows, c) = InsertUnique(rows, New(c.user, c.key, "pending", 0))
        /\ PgJobs(rows, c) = InsertUnique(rows, New(c.user, c.key, "pending", 0))
        /\ MemJobs(rows, c) = Put(rows, New(c.user, c.key, "pending", 0))
    BY <1>2 DEF SqliteJobs, PgJobs, MemJobs
  <2>2. ASSUME ~ Clashes(c) PROVE MemJobs(rows, c) = PgJobs(rows, c)
    <3>1. ~ \E r \in rows : r.user = c.user /\ r.key = c.key /\ c.key # 0
      BY <1>2, <2>2 DEF Clashes
    <3>2. PgJobs(rows, c) = Insert(rows, New(c.user, c.key, "pending", 0))
      BY <2>1, <3>1, UniqueIsInsert
    <3>3. Put(rows, New(c.user, c.key, "pending", 0)) = Insert(rows, New(c.user, c.key, "pending", 0))
      BY <1>0, InsertIsPut
    <3>. QED
      BY <2>1, <3>2, <3>3
  <2>. QED
    BY <2>1, <2>2, SameSelf
<1>3. CASE c.op \in {"page", "adminPage"}
  <2> DEFINE Z == InStatus(ForUser(rows, c.user), c)
  <2>1. Z \in SUBSET rows
    BY DEF InStatus, ForUser
  <2>2. c.n = 0 \/ c.n \in Instants
    BY <1>0, <1>1, <1>3, IdsTimed DEF OrUnset, Unset, Known
  <2> HIDE DEF Z
  <2>3. After(Z, c.n, Text) = After(Z, c.n, Clock)
    BY <1>0, <2>1, <2>2, IdsTimed, SameCompare DEF After
  <2>4. After(Z, c.n, Clock) \in SUBSET rows
    BY <2>1 DEF After
  <2>5. Newest(After(Z, c.n, Text), Limit, ByIds(Text))
          = Newest(After(Z, c.n, Clock), Limit, ByIds(Clock))
    BY <1>0, <2>3, <2>4, SameNewest
  <2>6. Page(rows, c, Text) = Page(rows, c, Clock)
    BY <2>5 DEF Page, Z
  <2>7. /\ SqliteJobs(rows, c) = Page(rows, c, Text) /\ PgJobs(rows, c) = Page(rows, c, Clock)
        /\ MemJobs(rows, c) = Page(rows, c, Clock)
    BY <1>3 DEF SqliteJobs, PgJobs, MemJobs
  <2>. QED
    BY <2>6, <2>7, SameSelf
<1>4. CASE c.op = "purge"
  <2>1. c.n \in Instants
    BY <1>1, <1>4, SizesAssumption DEF Inv, World, Instants
  <2>2. \A r \in rows : r.val \in Terminal => r.upd \in Instants
    BY DEF Settled, Instants
  <2>3. OldJobs(rows, c, Text) = OldJobs(rows, c, Clock)
    BY <2>1, <2>2, SameDoomed DEF OldJobs
  <2>4. /\ SqliteJobs(rows, c) = OldJobs(rows, c, Text) /\ PgJobs(rows, c) = OldJobs(rows, c, Clock)
        /\ MemJobs(rows, c) = OldJobs(rows, c, Clock)
    BY <1>4 DEF SqliteJobs, PgJobs, MemJobs
  <2>. QED
    BY <2>3, <2>4, SameSelf
<1>5. CASE c.op \in {"list", "pending"}
  <2> DEFINE Q == IF c.op = "list" THEN Own(rows, c.user)
                  ELSE {r \in Own(rows, c.user) : r.val = "pending"}
             M(T) == IF c.op = "list" THEN Latest(Q, T) ELSE {Reverse(l) : l \in Latest(Q, T)}
  <2>1. Q \in SUBSET rows
    BY DEF Own
  <2>2. /\ SqliteJobs(rows, c) = Answer(rows, M(Text)) /\ PgJobs(rows, c) = Answer(rows, M(Clock))
        /\ MemJobs(rows, c) = Answer(rows, SetToSeqs(Q))
    <3>1. CASE c.op = "list"
      BY <3>1 DEF SqliteJobs, PgJobs, MemJobs
    <3>2. CASE c.op = "pending"
      BY <3>2 DEF SqliteJobs, PgJobs, MemJobs
    <3>. QED
      BY <1>5, <3>1, <3>2
  <2> HIDE DEF Q
  <2>3. M(Text) = M(Clock)
    BY <1>0, <2>1, SameNewest
  <2>4. Same(Answer(rows, SetToSeqs(Q)), Answer(rows, M(Clock)))
    <3>1. CASE c.op = "list"
      BY <1>0, <2>1, <3>1, SortedShowsAll
    <3>2. CASE c.op # "list"
      BY <1>0, <2>1, <3>2, SortedShowsAll
    <3>. QED
      BY <3>1, <3>2
  <2> HIDE DEF M
  <2>. QED
    BY <2>2, <2>3, <2>4, SameSelf
<1>7. CASE c.op = "running"
  <2> DEFINE Q == {r \in ForUser(rows, c.user) : r.val = "running"}
  <2>1. Q \in SUBSET rows
    BY DEF ForUser
  <2>2. \A T : Running(rows, c, T) = Answer(rows, {Reverse(l) : l \in Latest(Q, ByIds(T))})
    BY DEF Running
  <2> HIDE DEF Q
  <2>3. Running(rows, c, Text) = Running(rows, c, Clock)
    BY <1>0, <2>1, <2>2, SameNewest
  <2>4. /\ SqliteJobs(rows, c) = Running(rows, c, Text) /\ PgJobs(rows, c) = Running(rows, c, Clock)
        /\ MemJobs(rows, c) = Running(rows, c, Clock)
    BY <1>7 DEF SqliteJobs, PgJobs, MemJobs
  <2>. QED
    BY <2>3, <2>4, SameSelf
<1>6. CASE c.op \in {"get", "byID", "byKey", "count", "claim", "update"}
  <2>1. /\ SqliteJobs(rows, c) = JobCalls(rows, c) /\ PgJobs(rows, c) = JobCalls(rows, c)
        /\ MemJobs(rows, c) = JobCalls(rows, c)
    BY <1>6 DEF SqliteJobs, PgJobs, MemJobs
  <2>. QED
    BY <2>1, SameSelf
<1>. QED
  BY <1>1, <1>2, <1>3, <1>4, <1>5, <1>6, <1>7

(* Tables whose lists no store sorts.                                      *)
LEMMA PlainAgree ==
  ASSUME Inv, table \in {"users", "refresh", "agents", "providers", "bindings", "devices"},
         NEW c \in Calls(table), ~ (table = "devices" /\ c.op = "upsert" /\ Taken(rows, c))
  PROVE  /\ Sqlite(table, rows, c) = Postgres(table, rows, c)
         /\ Memory(table, rows, c) = Postgres(table, rows, c)
<1>1. CASE table = "users"
  <2>1. /\ Sqlite(table, rows, c) = SqliteUsers(rows, c)
        /\ Postgres(table, rows, c) = PgUsers(rows, c)
        /\ Memory(table, rows, c) = MemUsers(rows, c)
    BY <1>1 DEF Sqlite, Postgres, Memory
  <2>. QED
    BY <2>1 DEF SqliteUsers, PgUsers, MemUsers
<1>2. CASE table = "refresh"
  <2>1. /\ Sqlite(table, rows, c) = SqliteRefresh(rows, c)
        /\ Postgres(table, rows, c) = PgRefresh(rows, c)
        /\ Memory(table, rows, c) = MemRefresh(rows, c)
    BY <1>2 DEF Sqlite, Postgres, Memory
  <2>2. Put(rows, New(c.user, Unset, 1, c.n)) = Insert(rows, New(c.user, Unset, 1, c.n))
    BY <1>2, InsertIsPut DEF Handed
  <2>3. SqliteRefresh(rows, c) = PgRefresh(rows, c)
    BY DEF SqliteRefresh, PgRefresh
  <2>4. CASE c.op = "create"
    BY <2>1, <2>2, <2>3, <2>4 DEF PgRefresh, MemRefresh
  <2>5. CASE c.op = "revokeUser"
    BY <2>1, <2>3, <2>5 DEF PgRefresh, MemRefresh
  <2>6. CASE c.op \notin {"create", "revokeUser"}
    <3>1. PgRefresh(rows, c) = RefreshCalls(rows, c)
      BY <2>6 DEF PgRefresh
    <3>2. MemRefresh(rows, c) = RefreshCalls(rows, c)
      BY <2>6 DEF MemRefresh
    <3>. QED
      BY <2>1, <2>3, <3>1, <3>2
  <2>. QED
    BY <2>4, <2>5, <2>6
<1>3. CASE table \in {"agents", "providers"}
  <2>1. Put(rows, New(c.user, Unset, 1, 0)) = Insert(rows, New(c.user, Unset, 1, 0))
    BY <1>3, InsertIsPut DEF Handed
  <2>2. CASE table = "agents"
    <3>1. /\ Sqlite(table, rows, c) = SqliteAgents(rows, c)
          /\ Postgres(table, rows, c) = PgAgents(rows, c)
          /\ Memory(table, rows, c) = MemAgents(rows, c)
      BY <2>2 DEF Sqlite, Postgres, Memory
    <3>. QED
      BY <2>1, <3>1 DEF SqliteAgents, PgAgents, MemAgents
  <2>3. CASE table = "providers"
    <3>1. /\ Sqlite(table, rows, c) = SqliteProviders(rows, c)
          /\ Postgres(table, rows, c) = PgProviders(rows, c)
          /\ Memory(table, rows, c) = MemProviders(rows, c)
      BY <2>3 DEF Sqlite, Postgres, Memory
    <3>. QED
      BY <2>1, <3>1 DEF SqliteProviders, PgProviders, MemProviders
  <2>. QED
    BY <1>3, <2>2, <2>3
<1>4. CASE table = "bindings"
  <2>1. /\ Sqlite(table, rows, c) = SqliteBindings(rows, c)
        /\ Postgres(table, rows, c) = PgBindings(rows, c)
        /\ Memory(table, rows, c) = MemBindings(rows, c)
    BY <1>4 DEF Sqlite, Postgres, Memory
  <2>2. Put(rows, New(c.user, c.key, 1, 0)) = Insert(rows, New(c.user, c.key, 1, 0))
    BY <1>4, InsertIsPut DEF Handed
  <2>. QED
    BY <2>1, <2>2 DEF SqliteBindings, PgBindings, MemBindings
<1>5. CASE table = "devices"
  <2>1. /\ Sqlite(table, rows, c) = SqliteDevices(rows, c)
        /\ Postgres(table, rows, c) = PgDevices(rows, c)
        /\ Memory(table, rows, c) = MemDevices(rows, c)
    BY <1>5 DEF Sqlite, Postgres, Memory
  <2>. QED
    BY <1>5, <2>1 DEF SqliteDevices, PgDevices, MemDevices
<1>. QED
  BY <1>1, <1>2, <1>3, <1>4, <1>5

LEMMA ConnectorsAgree ==
  ASSUME Inv, InStep, table = "connectors", NEW c \in Calls(table)
  PROVE  /\ SqliteConnectors(rows, c) = PgConnectors(rows, c)
         /\ Same(MemConnectors(rows, c), PgConnectors(rows, c))
<1>1. Handed /\ Own(rows, c.user) \in SUBSET rows
  BY DEF Handed, Own
<1>2. CASE c.op = "create"
  <2>1. Put(rows, New(c.user, Unset, 1, 0)) = Insert(rows, New(c.user, Unset, 1, 0))
    BY <1>1, InsertIsPut
  <2>2. SqliteConnectors(rows, c) = PgConnectors(rows, c)
    BY <1>2 DEF SqliteConnectors, PgConnectors
  <2>3. MemConnectors(rows, c) = PgConnectors(rows, c)
    BY <1>2, <2>1 DEF MemConnectors, PgConnectors
  <2>. QED
    BY <2>2, <2>3, SameSelf
<1>3. CASE c.op = "list"
  <2>1. Latest(Own(rows, c.user), Text) = Latest(Own(rows, c.user), Clock)
    BY <1>1, SameNewest
  <2>2. /\ SqliteConnectors(rows, c) = Answer(rows, Latest(Own(rows, c.user), Text))
        /\ PgConnectors(rows, c) = Answer(rows, Latest(Own(rows, c.user), Clock))
    BY <1>3 DEF SqliteConnectors, PgConnectors
  <2>3. MemConnectors(rows, c) = Answer(rows, SetToSeqs(Own(rows, c.user)))
    BY <1>3 DEF MemConnectors, Scoped
  <2>. QED
    BY <1>1, <2>1, <2>2, <2>3, SortedShowsAll
<1>4. CASE c.op \notin {"create", "list"}
  <2>1. SqliteConnectors(rows, c) = Scoped(rows, c)
    BY <1>4 DEF SqliteConnectors
  <2>2. PgConnectors(rows, c) = Scoped(rows, c)
    BY <1>4 DEF PgConnectors
  <2>3. MemConnectors(rows, c) = Scoped(rows, c)
    BY <1>4 DEF MemConnectors
  <2>. QED
    BY <2>1, <2>2, <2>3, SameSelf
<1>. QED
  BY <1>2, <1>3, <1>4

(* What is left of a list of at most a page after a filter.                *)
LEMMA WholePass ==
  ASSUME Inv, NEW Q \in SUBSET rows, NEW l \in Seq(Q), Len(l) =< Limit, NEW F
  PROVE  /\ Cut(Pass(l, F), Limit) = Pass(l, F)
         /\ ToSet(Pass(l, F)) = ToSet(l) \cap F
<1>1. Limit \in Nat /\ Len(l) \in Nat
  BY LimitNat
<1>2. /\ ToSet(Pass(l, F)) = ToSet(l) \cap F
      /\ Pass(l, F) \in Seq(ToSet(l) \cap F) /\ Len(Pass(l, F)) =< Len(l)
  BY PassRows
<1>3. Len(Pass(l, F)) \in Nat /\ Len(Pass(l, F)) =< Limit
  BY <1>1, <1>2
<1>4. Cut(Pass(l, F), Limit) = Pass(l, F)
  BY <1>1, <1>2, <1>3, CutRows
<1>. QED
  BY <1>2, <1>4

LEMMA MemoryAgree ==
  ASSUME Inv, InStep, table = "memory", NEW c \in Calls(table)
  PROVE  /\ SqliteMemory(rows, c) = PgMemory(rows, c)
         /\ Crowded(c) \/ Same(MemMemory(rows, c), PgMemory(rows, c))
<1> DEFINE Q == Own(rows, c.user)
           P == Fresh(With(Q, c.key))
<1>1. Handed /\ Q \in SUBSET rows /\ P \in SUBSET rows /\ P \in SUBSET Q
  BY DEF Handed, Own, Fresh, With
<1>2. CASE c.op = "create"
  <2>1. Put(rows, New(c.user, c.key, 1, c.n)) = Insert(rows, New(c.user, c.key, 1, c.n))
    BY <1>1, InsertIsPut
  <2>2. /\ SqliteMemory(rows, c) = Insert(rows, New(c.user, c.key, 1, c.n))
        /\ PgMemory(rows, c) = Insert(rows, New(c.user, c.key, 1, c.n))
        /\ MemMemory(rows, c) = Put(rows, New(c.user, c.key, 1, c.n))
    BY <1>2 DEF SqliteMemory, PgMemory, MemMemory
  <2>. QED
    BY <2>1, <2>2, SameSelf
<1>3. CASE c.op = "list"
  <2>1. Newest(Q, 3 * Limit, Text) = Newest(Q, 3 * Limit, Clock)
    BY <1>1, SameNewest
  <2>2. /\ SqliteMemory(rows, c) = Answer(rows, {FreshOnly(l, c.key) : l \in Newest(Q, 3 * Limit, Text)})
        /\ PgMemory(rows, c) = Answer(rows, {FreshOnly(l, c.key) : l \in Newest(Q, 3 * Limit, Clock)})
        /\ MemMemory(rows, c) = Answer(rows, Newest(P, Limit, Clock))
    BY <1>3 DEF SqliteMemory, PgMemory, MemMemory
  <2>3. P = Fresh(With(Q, c.key))
    OBVIOUS
  <2> HIDE DEF Q, P
  <2>4. ASSUME ~ Crowded(c) PROVE Same(MemMemory(rows, c), PgMemory(rows, c))
    <3>1. Cardinality(rows) =< Limit
      BY <1>3, <2>4, LimitNat, FS_CardinalityType DEF Crowded, Inv, Typed
    <3> DEFINE L == Latest(Q, Clock)
               M == {FreshOnly(l, c.key) : l \in Newest(Q, 3 * Limit, Clock)}
    <3>2. /\ Newest(Q, 3 * Limit, Clock) = L /\ L # {}
          /\ \A l \in L : ToSet(l) = Q /\ l \in Seq(Q) /\ Len(l) =< Limit
      BY <1>1, <3>1, WholePage
    <3>3. /\ Newest(P, Limit, Clock) # {}
          /\ \A l \in Newest(P, Limit, Clock) : ToSet(l) = P
      BY <1>1, <3>1, WholePage
    <3> HIDE DEF L
    <3>4. M # {}
      BY <3>2
    <3>5. ASSUME NEW m \in M PROVE ToSet(m) = P
      <4>1. PICK l \in Newest(Q, 3 * Limit, Clock) : m = FreshOnly(l, c.key)
        BY <3>5
      <4>2. ToSet(l) = Q /\ l \in Seq(Q) /\ Len(l) =< Limit
        BY <3>2, <4>1
      <4>3. FreshOnly(l, c.key) = Cut(Pass(l, P), Limit)
        BY <2>3, <4>2 DEF FreshOnly
      <4>4. Cut(Pass(l, P), Limit) = Pass(l, P) /\ ToSet(Pass(l, P)) = ToSet(l) \cap P
        BY <1>1, <4>2, WholePass
      <4>. QED
        BY <1>1, <4>1, <4>2, <4>3, <4>4
    <3>6. PgMemory(rows, c) = Answer(rows, M)
      BY <2>2
    <3> HIDE DEF M
    <3>7. Same(Answer(rows, Newest(P, Limit, Clock)), Answer(rows, M))
      BY <3>3, <3>4, <3>5, SameShown
    <3>. QED
      BY <2>2, <3>6, <3>7
  <2>. QED
    BY <2>1, <2>2, <2>4
<1>4. CASE c.op \notin {"create", "list"}
  <2>1. SqliteMemory(rows, c) = Scoped(rows, c)
    BY <1>4 DEF SqliteMemory
  <2>2. PgMemory(rows, c) = Scoped(rows, c)
    BY <1>4 DEF PgMemory
  <2>3. MemMemory(rows, c) = Scoped(rows, c)
    BY <1>4 DEF MemMemory
  <2>. QED
    BY <2>1, <2>2, <2>3, SameSelf
<1>. QED
  BY <1>2, <1>3, <1>4

LEMMA LineageAgree ==
  ASSUME Inv, InStep, table = "lineage", NEW c \in Calls(table)
  PROVE  /\ SqliteLineage(rows, c) = PgLineage(rows, c)
         /\ Crowded(c) \/ Same(MemLineage(rows, c), PgLineage(rows, c))
<1> DEFINE Q == Own(rows, c.user)
           P == With(Q, c.key)
<1>1. Handed /\ Q \in SUBSET rows /\ P \in SUBSET rows /\ P \in SUBSET Q
  BY DEF Handed, Own, With
<1>2. CASE c.op = "append"
  <2>1. Done(rows \cup {New(c.user, c.key, 1, 0)}) = Insert(rows, New(c.user, c.key, 1, 0))
    BY <1>1, InsertIsPut
  <2>2. /\ SqliteLineage(rows, c) = Insert(rows, New(c.user, c.key, 1, 0))
        /\ PgLineage(rows, c) = Insert(rows, New(c.user, c.key, 1, 0))
        /\ MemLineage(rows, c) = Done(rows \cup {New(c.user, c.key, 1, 0)})
    BY <1>2 DEF SqliteLineage, PgLineage, MemLineage
  <2>. QED
    BY <2>1, <2>2, SameSelf
<1>3. CASE c.op = "list"
  <2>1. Newest(Q, 2 * Limit, Text) = Newest(Q, 2 * Limit, Clock)
    BY <1>1, SameNewest
  <2>2. /\ SqliteLineage(rows, c) = Answer(rows, {Keep(l, c.key, Limit) : l \in Newest(Q, 2 * Limit, Text)})
        /\ PgLineage(rows, c) = Answer(rows, {Keep(l, c.key, Limit) : l \in Newest(Q, 2 * Limit, Clock)})
        /\ MemLineage(rows, c) = Answer(rows, Newest(P, Limit, Position))
    BY <1>3 DEF SqliteLineage, PgLineage, MemLineage
  <2>3. P = With(Q, c.key)
    OBVIOUS
  <2> HIDE DEF Q, P
  <2>4. ASSUME ~ Crowded(c) PROVE Same(MemLineage(rows, c), PgLineage(rows, c))
    <3>1. Cardinality(rows) =< Limit
      BY <1>3, <2>4, LimitNat, FS_CardinalityType DEF Crowded, Inv, Typed
    <3> DEFINE L == Latest(Q, Clock)
               M == {Keep(l, c.key, Limit) : l \in Newest(Q, 2 * Limit, Clock)}
    <3>2. /\ Newest(Q, 2 * Limit, Clock) = L /\ L # {}
          /\ \A l \in L : ToSet(l) = Q /\ l \in Seq(Q) /\ Len(l) =< Limit
      BY <1>1, <3>1, WholePage
    <3>3. /\ Newest(P, Limit, Position) # {}
          /\ \A l \in Newest(P, Limit, Position) : ToSet(l) = P
      BY <1>1, <3>1, WholePage
    <3> HIDE DEF L
    <3>4. M # {}
      BY <3>2
    <3>5. ASSUME NEW m \in M PROVE ToSet(m) = P
      <4>1. PICK l \in Newest(Q, 2 * Limit, Clock) : m = Keep(l, c.key, Limit)
        BY <3>5
      <4>2. ToSet(l) = Q /\ l \in Seq(Q) /\ Len(l) =< Limit
        BY <3>2, <4>1
      <4>3. Keep(l, c.key, Limit) = Cut(Pass(l, P), Limit)
        BY <2>3, <4>2 DEF Keep
      <4>4. Cut(Pass(l, P), Limit) = Pass(l, P) /\ ToSet(Pass(l, P)) = ToSet(l) \cap P
        BY <1>1, <4>2, WholePass
      <4>. QED
        BY <1>1, <4>1, <4>2, <4>3, <4>4
    <3>6. PgLineage(rows, c) = Answer(rows, M)
      BY <2>2
    <3> HIDE DEF M
    <3>7. Same(Answer(rows, Newest(P, Limit, Position)), Answer(rows, M))
      BY <3>3, <3>4, <3>5, SameShown
    <3>. QED
      BY <2>2, <3>6, <3>7
  <2>. QED
    BY <2>1, <2>2, <2>4
<1>4. c.op \in {"append", "list"}
  BY DEF Calls, Calls0
<1>. QED
  BY <1>2, <1>3, <1>4

LEMMA MarketAgree ==
  ASSUME Inv, InStep, table = "market", NEW c \in Calls(table)
  PROVE  /\ SqliteMarket(rows, c) = PgMarket(rows, c)
         /\ Crowded(c) \/ Same(MemMarket(rows, c), PgMarket(rows, c))
<1> DEFINE P == Shown(rows, c)
<1>1. Handed /\ rows \in SUBSET rows /\ P \in SUBSET rows
  BY DEF Handed, Shown, ForUser
<1>2. CASE c.op = "list"
  <2>1. Newest(rows, Limit, Text) = Newest(rows, Limit, Clock)
    BY <1>1, SameNewest
  <2>2. /\ SqliteMarket(rows, c) = Answer(rows, {Pass(l, P) : l \in Newest(rows, Limit, Text)})
        /\ PgMarket(rows, c) = Answer(rows, {Pass(l, P) : l \in Newest(rows, Limit, Clock)})
        /\ MemMarket(rows, c) = Answer(rows, SetToSeqs(P))
    BY <1>2 DEF SqliteMarket, PgMarket, MemMarket
  <2> HIDE DEF P
  <2>3. ASSUME ~ Crowded(c) PROVE Same(MemMarket(rows, c), PgMarket(rows, c))
    <3>1. Cardinality(rows) =< Limit
      BY <1>2, <2>3, LimitNat, FS_CardinalityType DEF Crowded, Inv, Typed
    <3> DEFINE L == Latest(rows, Clock)
               M == {Pass(l, P) : l \in Newest(rows, Limit, Clock)}
    <3>2. /\ Newest(rows, Limit, Clock) = L /\ L # {}
          /\ \A l \in L : ToSet(l) = rows /\ l \in Seq(rows) /\ Len(l) =< Limit
      BY <1>1, <3>1, WholePage
    <3> HIDE DEF L
    <3>3. M # {}
      BY <3>2
    <3>4. ASSUME NEW m \in M PROVE ToSet(m) = P
      <4>1. PICK l \in Newest(rows, Limit, Clock) : m = Pass(l, P)
        BY <3>4
      <4>2. ToSet(l) = rows /\ l \in Seq(rows) /\ Len(l) =< Limit
        BY <3>2, <4>1
      <4>3. ToSet(Pass(l, P)) = ToSet(l) \cap P
        BY <1>1, <4>2, WholePass
      <4>. QED
        BY <1>1, <4>1, <4>2, <4>3
    <3>5. SetToSeqs(P) # {} /\ \A k \in SetToSeqs(P) : ToSet(k) = P
      BY <1>1, SortedShowsAll
    <3>6. PgMarket(rows, c) = Answer(rows, M)
      BY <2>2
    <3> HIDE DEF M
    <3>7. Same(Answer(rows, SetToSeqs(P)), Answer(rows, M))
      BY <3>3, <3>4, <3>5, SameShown
    <3>. QED
      BY <2>2, <3>6, <3>7
  <2>. QED
    BY <2>1, <2>2, <2>3
<1>3. CASE c.op # "list"
  <2>1. /\ SqliteMarket(rows, c) = MarketCalls(rows, c)
        /\ PgMarket(rows, c) = MarketCalls(rows, c)
        /\ MemMarket(rows, c) = MarketCalls(rows, c)
    BY <1>3 DEF SqliteMarket, PgMarket, MemMarket
  <2>. QED
    BY <2>1, SameSelf
<1>. QED
  BY <1>2, <1>3

(* Lists in no order, of a table of at most a page.                        *)
LEMMA WholeAny ==
  ASSUME Inv, Cardinality(rows) =< Limit, NEW Q \in SUBSET rows, NEW n \in Nat, Limit =< n
  PROVE  /\ AnyOrder(Q, n) # {} /\ AnyOrder(Q, n) \subseteq Seq(Q)
         /\ \A l \in AnyOrder(Q, n) : ToSet(l) = Q /\ Len(l) =< Limit
<1>1. /\ IsFiniteSet(Q) /\ Cardinality(Q) \in Nat /\ Cardinality(Q) =< Cardinality(rows)
      /\ Cardinality(rows) \in Nat /\ Limit \in Nat
  BY FS_Subset, FS_CardinalityType, LimitNat DEF Inv, Typed
<1>2. \A l \in SetToSeqs(Q) : l \in Seq(Q) /\ Len(l) = Cardinality(Q) /\ ToSet(l) = Q
  BY <1>1, ListOf
<1>3. \A l \in SetToSeqs(Q) : Cut(l, n) = l
  <2>1. TAKE l \in SetToSeqs(Q)
  <2>2. l \in Seq(Q) /\ Len(l) =< n
    BY <1>1, <1>2
  <2>. QED
    BY <2>2, CutRows
<1>4. AnyOrder(Q, n) = SetToSeqs(Q)
  BY <1>3 DEF AnyOrder
<1>. QED
  BY <1>1, <1>2, <1>4, ListExists

LEMMA GraphAgree ==
  ASSUME Inv, table = "graph", NEW c \in Calls(table)
  PROVE  /\ SqliteGraph(rows, c) = PgGraph(rows, c)
         /\ Crowded(c) \/ Same(MemGraph(rows, c), PgGraph(rows, c))
<1> DEFINE Q == Own(rows, c.user)
           P == With(Q, c.key)
<1>1. Q \in SUBSET rows /\ P \in SUBSET rows /\ P \in SUBSET Q
  BY DEF Own, With
<1>2. SqliteGraph(rows, c) = PgGraph(rows, c)
  BY DEF SqliteGraph, PgGraph
<1>3. ASSUME c.op = "upsert" PROVE MemGraph(rows, c) = PgGraph(rows, c)
  BY <1>3 DEF MemGraph, PgGraph
<1>4. ASSUME c.op = "list", ~ Crowded(c) PROVE Same(MemGraph(rows, c), PgGraph(rows, c))
  <2> DEFINE K == {Keep(l, c.key, Limit) : l \in AnyOrder(Q, 3 * Limit)}
  <2>1. /\ PgGraph(rows, c) = Answer(rows, K)
        /\ MemGraph(rows, c) = Answer(rows, AnyOrder(P, Limit))
    BY <1>4 DEF PgGraph, MemGraph
  <2>2. P = With(Q, c.key)
    OBVIOUS
  <2> HIDE DEF Q, P
  <2>3. Cardinality(rows) =< Limit
    BY <1>4, LimitNat, FS_CardinalityType DEF Crowded, Inv, Typed
  <2>4. Limit \in Nat /\ 3 * Limit \in Nat /\ Limit =< Limit /\ Limit =< 3 * Limit
    BY LimitNat
  <2>5. AnyOrder(P, Limit) # {} /\ \A l \in AnyOrder(P, Limit) : ToSet(l) = P
    BY <1>1, <2>3, <2>4, WholeAny
  <2>6. /\ AnyOrder(Q, 3 * Limit) # {}
        /\ \A l \in AnyOrder(Q, 3 * Limit) : l \in Seq(Q) /\ ToSet(l) = Q /\ Len(l) =< Limit
    BY <1>1, <2>3, <2>4, WholeAny
  <2>7. \A l \in AnyOrder(Q, 3 * Limit) : ToSet(Keep(l, c.key, Limit)) = P
    <3>1. TAKE l \in AnyOrder(Q, 3 * Limit)
    <3>2. l \in Seq(Q) /\ ToSet(l) = Q /\ Len(l) =< Limit
      BY <2>6
    <3>3. Keep(l, c.key, Limit) = Cut(Pass(l, P), Limit)
      BY <2>2, <3>2 DEF Keep
    <3>4. Cut(Pass(l, P), Limit) = Pass(l, P) /\ ToSet(Pass(l, P)) = ToSet(l) \cap P
      BY <1>1, <3>2, WholePass
    <3>. QED
      BY <1>1, <3>2, <3>3, <3>4
  <2>8. K # {} /\ \A k \in K : ToSet(k) = P
    BY <2>6, <2>7
  <2> HIDE DEF K
  <2>9. Same(Answer(rows, AnyOrder(P, Limit)), Answer(rows, K))
    BY <2>5, <2>8, SameShown
  <2>. QED
    BY <2>1, <2>9
<1>5. c.op \in {"upsert", "list"}
  BY DEF Calls, Calls0
<1>. QED
  BY <1>2, <1>3, <1>4, <1>5, SameSelf

LEMMA PurchasesAgree ==
  ASSUME Inv, Settled, InStep, table = "purchases", NEW c \in Calls(table)
  PROVE  /\ SqlitePurchases(rows, c) = PgPurchases(rows, c)
         /\ Crowded(c) \/ Same(MemPurchases(rows, c), PgPurchases(rows, c))
<1> DEFINE Q == Own(rows, c.user)
<1>1. Handed /\ Q \in SUBSET rows
  BY DEF Handed, Own
<1>2. CASE c.op = "list"
  <2>1. Newest(Q, Limit, Text) = Newest(Q, Limit, Clock)
    BY <1>1, SameNewest
  <2>2. /\ SqlitePurchases(rows, c) = Answer(rows, Newest(Q, Limit, Text))
        /\ PgPurchases(rows, c) = Answer(rows, Newest(Q, Limit, Clock))
        /\ MemPurchases(rows, c) = Answer(rows, AnyOrder(Q, Limit))
    BY <1>2 DEF SqlitePurchases, PgPurchases, MemPurchases
  <2> HIDE DEF Q
  <2>3. ASSUME ~ Crowded(c) PROVE Same(MemPurchases(rows, c), PgPurchases(rows, c))
    <3>1. Cardinality(rows) =< Limit
      BY <1>2, <2>3, LimitNat, FS_CardinalityType DEF Crowded, Inv, Typed
    <3>2. /\ Newest(Q, Limit, Clock) # {}
          /\ \A l \in Newest(Q, Limit, Clock) : ToSet(l) = Q
      BY <1>1, <3>1, WholePage
    <3>3. Limit \in Nat /\ Limit =< Limit
      BY LimitNat
    <3>4. AnyOrder(Q, Limit) # {} /\ \A l \in AnyOrder(Q, Limit) : ToSet(l) = Q
      BY <1>1, <3>1, <3>3, WholeAny
    <3>5. Same(Answer(rows, AnyOrder(Q, Limit)), Answer(rows, Newest(Q, Limit, Clock)))
      BY <3>2, <3>4, SameShown
    <3>. QED
      BY <2>2, <3>5
  <2>. QED
    BY <2>1, <2>2, <2>3
<1>3. CASE c.op = "update"
  <2>1. PICK r \in rows : c.user = r.user /\ c.id = r.id
    BY <1>3 DEF Calls, Calls0
  <2>2. OwnId(rows, c) = {r} /\ ById(rows, c.id) = {r}
    BY <2>1 DEF OwnId, ById, Inv, Once
  <2> DEFINE x == [r EXCEPT !.val = c.val]
             y == [id |-> c.id, user |-> c.user, key |-> Unset, val |-> c.val, upd |-> 0]
  <2>3. x = y
    BY <2>1 DEF Settled, Inv, Typed, Row
  <2>4. Amend(rows, {r}, {x}) = Done((rows \ {r}) \cup {x})
    BY DEF Amend
  <2>5. Put(rows, y) = Done({z \in rows : z.id # c.id} \cup {y})
    BY DEF Put
  <2>6. {z \in rows : z.id # c.id} = rows \ {r}
    BY <2>1 DEF Inv, Once
  <2>7. {[z EXCEPT !.val = c.val] : z \in {r}} = {x}
    OBVIOUS
  <2>8. /\ SqlitePurchases(rows, c) = PurchaseCalls(rows, c)
        /\ PgPurchases(rows, c) = PurchaseCalls(rows, c)
        /\ PurchaseCalls(rows, c) = Amend(rows, {r}, {[z EXCEPT !.val = c.val] : z \in {r}})
    BY <1>3, <2>2 DEF SqlitePurchases, PgPurchases, PurchaseCalls
  <2>9. MemPurchases(rows, c) = Put(rows, y)
    BY <1>3, <2>2 DEF MemPurchases
  <2> HIDE DEF x, y
  <2>10. MemPurchases(rows, c) = PgPurchases(rows, c)
    BY <2>3, <2>4, <2>5, <2>6, <2>7, <2>8, <2>9
  <2>. QED
    BY <2>8, <2>10, SameSelf
<1>4. CASE c.op \notin {"list", "update"}
  <2>1. SqlitePurchases(rows, c) = PurchaseCalls(rows, c)
    BY <1>4 DEF SqlitePurchases
  <2>2. PgPurchases(rows, c) = PurchaseCalls(rows, c)
    BY <1>4 DEF PgPurchases
  <2>3. MemPurchases(rows, c) = PurchaseCalls(rows, c)
    BY <1>4 DEF MemPurchases
  <2>. QED
    BY <2>1, <2>2, <2>3, SameSelf
<1>. QED
  BY <1>2, <1>3, <1>4

LEMMA TablesAgree ==
  ASSUME Inv, Settled, InStep, NEW c \in Calls(table),
         ~ (table = "devices" /\ c.op = "upsert" /\ Taken(rows, c))
  PROVE  /\ Same(Sqlite(table, rows, c), Postgres(table, rows, c))
         /\ \/ Crowded(c)
            \/ Clashes(c)
            \/ Trims("memory", c)
            \/ TiedAudit(c)
            \/ Same(Memory(table, rows, c), Postgres(table, rows, c))
<1>0. CASE table \in {"users", "refresh", "agents", "providers", "bindings", "devices"}
  BY <1>0, PlainAgree, SameSelf
<1>1. CASE table = "audit"
  <2>1. /\ Sqlite(table, rows, c) = SqliteAudit(rows, c)
        /\ Postgres(table, rows, c) = PgAudit(rows, c)
        /\ Memory(table, rows, c) = MemAudit(rows, c)
    BY <1>1 DEF Sqlite, Postgres, Memory
  <2>. QED
    BY <1>1, <2>1, AuditAgree, SameSelf
<1>2. CASE table = "jtis"
  <2>1. /\ Sqlite(table, rows, c) = SqliteJtis(rows, c)
        /\ Postgres(table, rows, c) = PgJtis(rows, c)
        /\ Memory(table, rows, c) = MemJtis(rows, c)
    BY <1>2 DEF Sqlite, Postgres, Memory
  <2>. QED
    BY <1>2, <2>1, JtisAgree, SameSelf
<1>3. CASE table = "drives"
  <2>1. /\ Sqlite(table, rows, c) = SqliteDrives(rows, c)
        /\ Postgres(table, rows, c) = PgDrives(rows, c)
        /\ Memory(table, rows, c) = MemDrives(rows, c)
    BY <1>3 DEF Sqlite, Postgres, Memory
  <2>. QED
    BY <1>3, <2>1, DrivesAgree, SameSelf
<1>4. CASE table = "jobs"
  <2>1. /\ Sqlite(table, rows, c) = SqliteJobs(rows, c)
        /\ Postgres(table, rows, c) = PgJobs(rows, c)
        /\ Memory(table, rows, c) = MemJobs(rows, c)
    BY <1>4 DEF Sqlite, Postgres, Memory
  <2>. QED
    BY <1>4, <2>1, JobsAgree, SameSelf
<1>5. CASE table = "outbox"
  <2>1. /\ Sqlite(table, rows, c) = SqliteOutbox(rows, c)
        /\ Postgres(table, rows, c) = PgOutbox(rows, c)
        /\ Memory(table, rows, c) = MemOutbox(rows, c)
    BY <1>5 DEF Sqlite, Postgres, Memory
  <2>. QED
    BY <1>5, <2>1, OutboxAgree, SameSelf
<1>6. CASE table = "snapshots"
  <2>1. /\ Sqlite(table, rows, c) = SqliteSnapshots(rows, c)
        /\ Postgres(table, rows, c) = PgSnapshots(rows, c)
        /\ Memory(table, rows, c) = MemSnapshots(rows, c)
    BY <1>6 DEF Sqlite, Postgres, Memory
  <2>. QED
    BY <1>6, <2>1, SnapshotsAgree, SameSelf
<1>7. CASE table = "memory"
  <2>1. /\ Sqlite(table, rows, c) = SqliteMemory(rows, c)
        /\ Postgres(table, rows, c) = PgMemory(rows, c)
        /\ Memory(table, rows, c) = MemMemory(rows, c)
    BY <1>7 DEF Sqlite, Postgres, Memory
  <2>. QED
    BY <1>7, <2>1, MemoryAgree, SameSelf
<1>8. CASE table = "market"
  <2>1. /\ Sqlite(table, rows, c) = SqliteMarket(rows, c)
        /\ Postgres(table, rows, c) = PgMarket(rows, c)
        /\ Memory(table, rows, c) = MemMarket(rows, c)
    BY <1>8 DEF Sqlite, Postgres, Memory
  <2>. QED
    BY <1>8, <2>1, MarketAgree, SameSelf
<1>9. CASE table = "lineage"
  <2>1. /\ Sqlite(table, rows, c) = SqliteLineage(rows, c)
        /\ Postgres(table, rows, c) = PgLineage(rows, c)
        /\ Memory(table, rows, c) = MemLineage(rows, c)
    BY <1>9 DEF Sqlite, Postgres, Memory
  <2>. QED
    BY <1>9, <2>1, LineageAgree, SameSelf
<1>10. CASE table = "graph"
  <2>1. /\ Sqlite(table, rows, c) = SqliteGraph(rows, c)
        /\ Postgres(table, rows, c) = PgGraph(rows, c)
        /\ Memory(table, rows, c) = MemGraph(rows, c)
    BY <1>10 DEF Sqlite, Postgres, Memory
  <2>. QED
    BY <1>10, <2>1, GraphAgree, SameSelf
<1>11. CASE table = "purchases"
  <2>1. /\ Sqlite(table, rows, c) = SqlitePurchases(rows, c)
        /\ Postgres(table, rows, c) = PgPurchases(rows, c)
        /\ Memory(table, rows, c) = MemPurchases(rows, c)
    BY <1>11 DEF Sqlite, Postgres, Memory
  <2>. QED
    BY <1>11, <2>1, PurchasesAgree, SameSelf
<1>12. CASE table = "connectors"
  <2>1. /\ Sqlite(table, rows, c) = SqliteConnectors(rows, c)
        /\ Postgres(table, rows, c) = PgConnectors(rows, c)
        /\ Memory(table, rows, c) = MemConnectors(rows, c)
    BY <1>12 DEF Sqlite, Postgres, Memory
  <2>. QED
    BY <1>12, <2>1, ConnectorsAgree, SameSelf
<1>13. table \in {"users", "refresh", "agents", "providers", "bindings", "devices", "audit",
                "jtis", "drives", "jobs", "outbox", "snapshots", "memory", "market",
                "lineage", "graph", "purchases", "connectors"}
  BY BackendsAssumption DEF Inv, World
<1>. QED
  BY <1>0, <1>1, <1>2, <1>3, <1>4, <1>5, <1>6, <1>7, <1>8, <1>9, <1>10, <1>11, <1>12, <1>13

(* SQLite, PostgreSQL and the in-memory store accept the same calls, show  *)
(* the same rows and leave the same table behind, where the texts of       *)
(* SQLite's times compare like the times: all but UpsertDevice of another  *)
(* user's id, aliases and idempotency keys in memory, memory's cut of its  *)
(* full audit slice, lists of more than a page, and ties in them.          *)
THEOREM StoresAlike == Spec => []StoresAgree
<1>1. Inv /\ Settled => StoresAgree
  <2>1. ASSUME Inv, Settled, InStep, NEW c \in Calls(table),
               ~ (table = "devices" /\ c.op = "upsert" /\ Taken(rows, c))
        PROVE  /\ Same(Sqlite(table, rows, c), Postgres(table, rows, c))
               /\ \/ Crowded(c)
                  \/ Clashes(c)
                  \/ Trims("memory", c)
                  \/ TiedAudit(c)
                  \/ Same(Memory(table, rows, c), Postgres(table, rows, c))
    BY <2>1, TablesAgree
  <2>. QED
    BY <2>1 DEF StoresAgree
<1>. QED
  BY <1>1, RowsInvariant, SettledInvariant, PTL

-----------------------------------------------------------------------------
(* Pages that join.                                                        *)

(* The place of a member in a list by falling ranks is the number of       *)
(* members that rank at least as high.                                     *)
LEMMA PlaceCounts ==
  ASSUME NEW Q, IsFiniteSet(Q), NEW rank, \A r \in Q : rank[r] \in Int,
         \A r, x \in Q : rank[r] = rank[x] => r = x,
         NEW l \in Orders(Q, rank), NEW p \in 1..Cardinality(Q)
  PROVE  Cardinality({x \in Q : rank[x] >= rank[l[p]]}) = p
<1> DEFINE n == Cardinality(Q)
           U == {x \in Q : rank[x] >= rank[l[p]]}
           f == [i \in 1..p |-> l[i]]
<1>1. /\ l \in SetToSeqs(Q) /\ n \in Nat /\ l \in [1..n -> Q]
      /\ \A i, j \in 1..n : l[i] = l[j] => i = j
      /\ \A r \in Q : \E i \in 1..n : l[i] = r
  BY ListOf DEF Orders
<1>2. \A i, j \in 1..n : i < j => rank[l[i]] >= rank[l[j]]
  BY <1>1 DEF Orders
<1>3. p \in 1..n /\ p \in Nat /\ 1..p \in SUBSET (1..n) /\ \A i \in 1..n : l[i] \in Q /\ i \in Int
  BY <1>1
<1> HIDE DEF n
<1>4. \A i \in 1..p : l[i] \in U
  <2>1. TAKE i \in 1..p
  <2>2. i \in 1..n /\ l[i] \in Q /\ (i < p \/ i = p) /\ rank[l[i]] \in Int
    BY <1>3
  <2>3. rank[l[i]] >= rank[l[p]]
    BY <1>2, <1>3, <2>2
  <2>. QED
    BY <2>2, <2>3
<1>5. \A x \in U : \E i \in 1..p : l[i] = x
  <2>1. TAKE x \in U
  <2>2. PICK i \in 1..n : l[i] = x
    BY <1>1
  <2>3. rank[l[i]] >= rank[l[p]] /\ rank[l[i]] \in Int /\ rank[l[p]] \in Int
    BY <1>3, <2>2
  <2>4. ASSUME p < i PROVE FALSE
    <3>1. rank[l[p]] >= rank[l[i]]
      BY <1>2, <1>3, <2>4
    <3>2. rank[l[p]] = rank[l[i]]
      BY <2>3, <3>1
    <3>3. l[p] = l[i]
      BY <1>3, <3>2
    <3>. QED
      BY <1>1, <1>3, <2>4, <3>3
  <2>. QED
    BY <1>3, <2>2, <2>4
<1>6. f \in [1..p -> U] /\ \A i, j \in 1..p : f[i] = f[j] => i = j
  <2> HIDE DEF U
  <2>. QED
    BY <1>1, <1>3, <1>4
<1>7. \A x \in U : \E i \in 1..p : f[i] = x
  BY <1>5
<1> HIDE DEF f, U
<1>8. f \in Bijection(1..p, U)
  BY <1>6, <1>7 DEF Bijection, Injection, Surjection, IsInjective
<1>9. IsFiniteSet(1..p) /\ Cardinality(1..p) = p
  BY <1>3, FS_Interval
<1>10. Cardinality(U) = Cardinality(1..p)
  BY <1>8, <1>9, FS_Bijection DEF ExistsBijection
<1>. QED
  BY <1>9, <1>10 DEF U

(* So there is only one list by ranks that differ.                         *)
LEMMA OneOrder ==
  ASSUME NEW Q, IsFiniteSet(Q), NEW rank, \A r \in Q : rank[r] \in Int,
         \A r, x \in Q : rank[r] = rank[x] => r = x,
         NEW k \in Orders(Q, rank), NEW l \in Orders(Q, rank)
  PROVE  k = l
<1> DEFINE n == Cardinality(Q)
           h(r) == Cardinality({x \in Q : rank[x] >= rank[r]})
<1>2. /\ k \in SetToSeqs(Q) /\ l \in SetToSeqs(Q)
  BY DEF Orders
<1>3. /\ k \in [1..n -> Q] /\ l \in [1..n -> Q]
      /\ \A r \in Q : \E i \in 1..n : l[i] = r
  BY <1>2, ListOf
<1>4. \A p \in 1..n : h(k[p]) = p /\ h(l[p]) = p
  BY PlaceCounts
<1> HIDE DEF n, h
<1>5. \A p \in 1..n : k[p] = l[p]
  <2>1. TAKE p \in 1..n
  <2>2. k[p] \in Q
    BY <1>3
  <2>3. PICK q \in 1..n : l[q] = k[p]
    BY <1>3, <2>2
  <2>. QED
    BY <1>4, <2>3
<1>6. k = [p \in 1..n |-> k[p]] /\ l = [p \in 1..n |-> l[p]]
  BY <1>3
<1>. QED
  BY <1>5, <1>6

(* A list by a column P that is apart is one list, the rows that come      *)
(* after a row in it, and its first rows.                                  *)
TheList(Q, P)      == CHOOSE l \in Latest(Q, P) : TRUE
Below(Q, i, P)     == {r \in Q : i # 0 => P[r.id] < P[i]}
FirstRows(Q, n, P) == Cut(TheList(Q, P), n)

LEMMA OneList ==
  ASSUME Inv, Handed, NEW Q \in SUBSET rows, NEW P, Timed(P), Apart(P)
  PROVE  /\ TheList(Q, P) \in Latest(Q, P) /\ TheList(Q, P) \in Seq(Q)
         /\ \A l \in Latest(Q, P) : l = TheList(Q, P)
<1> DEFINE rank == [r \in Q |-> P[r.id]]
<1>1. IsFiniteSet(Q) /\ Latest(Q, P) # {} /\ \A l \in Latest(Q, P) : l \in Seq(Q)
  BY LatestRows
<1>2. TheList(Q, P) \in Latest(Q, P)
  BY <1>1 DEF TheList
<1>3. \A r \in Q : r.id \in Instants /\ rank[r] = P[r.id] /\ rank[r] \in Int
  BY IdsTimed DEF Timed
<1>4. Latest(Q, P) = Orders(Q, rank)
  BY DEF Latest
<1> HIDE DEF rank
<1>5. \A r, x \in Q : rank[r] = rank[x] => r = x
  BY <1>3 DEF Apart, Inv, Once
<1>6. \A k, l \in Latest(Q, P) : k = l
  BY <1>1, <1>3, <1>4, <1>5, OneOrder
<1>. QED
  BY <1>1, <1>2, <1>6

(* What comes after a cursor by time and then id is what comes below it.   *)
LEMMA AfterCursor ==
  ASSUME Inv, Handed, NEW Q \in SUBSET rows, NEW T, Timed(T), NEW i \in Instants \cup {0}
  PROVE  After(Q, i, T) = Below(Q, i, ByIds(T))
<1> DEFINE P == ByIds(T)
<1>1. CASE i = 0
  BY <1>1 DEF After, Below
<1>2. CASE i # 0
  <2>1. i \in Instants
    BY <1>2
  <2>2. Timed(P) /\ Apart(P)
        /\ \A p, q \in Instants : P[p] >= P[q] <=> T[p] > T[q] \/ (T[p] = T[q] /\ names[p] >= names[q])
    BY ByIdsOrder
  <2> HIDE DEF P
  <2>3. ASSUME NEW j \in Instants
        PROVE  P[j] < P[i] <=> T[j] < T[i] \/ (T[j] = T[i] /\ names[j] < names[i])
    <3>1. /\ P[j] \in Int /\ P[i] \in Int /\ T[j] \in Int /\ T[i] \in Int
          /\ names[i] \in Int /\ names[j] \in Int
      BY <2>1, <2>2, Timeline, SizesAssumption DEF Timed
    <3>2. P[j] >= P[i] <=> T[j] > T[i] \/ (T[j] = T[i] /\ names[j] >= names[i])
      BY <2>1, <2>2
    <3>. QED
      BY <3>1, <3>2
  <2>4. \A r \in Q : r.id \in Instants
    BY IdsTimed
  <2>5. \A r \in Q : P[r.id] < P[i] <=> T[r.id] < T[i] \/ (T[r.id] = T[i] /\ names[r.id] < names[i])
    BY <2>3, <2>4
  <2>6. After(Q, i, T) = {r \in Q : T[r.id] < T[i] \/ (T[r.id] = T[i] /\ names[r.id] < names[i])}
    BY <1>2 DEF After
  <2>7. Below(Q, i, P) = {r \in Q : P[r.id] < P[i]}
    BY <1>2 DEF Below
  <2>. QED
    BY <2>5, <2>6, <2>7 DEF P
<1>. QED
  BY <1>1, <1>2

(* The rest of a list, after its first m rows.                             *)
LEMMA RestRows ==
  ASSUME NEW Q, NEW l \in Seq(Q), NEW m \in 0..Len(l)
  PROVE  /\ SubSeq(l, m + 1, Len(l)) \in Seq(Q)
         /\ Len(SubSeq(l, m + 1, Len(l))) = Len(l) - m
         /\ \A i \in 1..(Len(l) - m) : SubSeq(l, m + 1, Len(l))[i] = l[m + i]
<1> DEFINE n == Len(l)
           s == SubSeq(l, m + 1, n)
<1>1. n \in Nat /\ m \in Nat /\ m =< n /\ m + 1 \in Int /\ n \in Int
  OBVIOUS
<1>2. \A i \in (m + 1)..n : l[i] \in Q
  BY <1>1
<1>3. /\ s \in Seq(Q) /\ Len(s) = IF m + 1 =< n THEN n - (m + 1) + 1 ELSE 0
      /\ \A i \in 1..(n - (m + 1) + 1) : s[i] = l[(m + 1) + i - 1]
  BY <1>1, <1>2, SubSeqProperties
<1> HIDE DEF s, n
<1>4. Len(s) = n - m
  BY <1>1, <1>3
<1>5. ASSUME NEW i \in 1..(n - m) PROVE s[i] = l[m + i]
  <2>1. i \in 1..(n - (m + 1) + 1) /\ (m + 1) + i - 1 = m + i
    BY <1>1
  <2>. QED
    BY <1>3, <2>1
<1>. QED
  BY <1>3, <1>4, <1>5 DEF s, n

(* A page of the rest, after the first k rows.                             *)
LEMMA JoinCut ==
  ASSUME NEW Q, NEW l \in Seq(Q), NEW k \in Nat, NEW d \in Nat,
         NEW m \in 0..Len(l), Len(l) < k => m = Len(l), Len(l) >= k => m = k
  PROVE  /\ SubSeq(l, m + 1, Len(l)) \in Seq(Q)
         /\ Cut(l, k) \o Cut(SubSeq(l, m + 1, Len(l)), d) = Cut(l, k + d)
<1> DEFINE n == Len(l)
           s == SubSeq(l, m + 1, n)
           a == Cut(l, k)
           b == Cut(s, d)
           e == Cut(l, k + d)
<1>1. n \in Nat /\ m \in Nat /\ m =< n /\ \A i \in 1..n : l[i] \in Q
  OBVIOUS
<1>2. s \in Seq(Q) /\ Len(s) = n - m /\ \A i \in 1..(n - m) : s[i] = l[m + i]
  <2>1. m \in 0..Len(l)
    BY <1>1
  <2>. QED
    BY <2>1, RestRows
<1>3. a \in Seq(Q) /\ Len(a) = m /\ \A i \in 1..m : a[i] = l[i]
  BY CutRows
<1>4. /\ e \in Seq(Q) /\ Len(e) = IF n < k + d THEN n ELSE k + d
      /\ \A i \in 1..Len(e) : e[i] = l[i]
  <2>1. k + d \in Nat
    OBVIOUS
  <2>. QED
    BY <2>1, CutRows
<1> HIDE DEF s
<1>5. /\ b \in Seq(Q) /\ Len(b) = IF n - m < d THEN n - m ELSE d
      /\ \A i \in 1..Len(b) : i \in 1..(n - m) /\ b[i] = s[i]
  <2>1. s \in Seq(Q)
    BY <1>2
  <2>2. /\ Cut(s, d) \in Seq(Q) /\ Len(Cut(s, d)) = IF Len(s) < d THEN Len(s) ELSE d
        /\ \A i \in 1..Len(Cut(s, d)) : i \in 1..Len(s) /\ Cut(s, d)[i] = s[i]
    BY ONLY d \in Nat, <2>1, CutRows
  <2>. QED
    BY <1>2, <2>2
<1>6. (n < k => m = n) /\ (~ n < k => m = k)
  OBVIOUS
<1> HIDE DEF n, a, b, e
<1>7. m + Len(b) = Len(e) /\ Len(b) \in Nat
  <2>1. (n < k + d => Len(e) = n) /\ (~ n < k + d => Len(e) = k + d)
    BY <1>4
  <2>2. (n - m < d => Len(b) = n - m) /\ (~ n - m < d => Len(b) = d)
    BY <1>5
  <2>. QED
    BY <1>1, <1>6, <2>1, <2>2
<1>8. /\ a \o b \in Seq(Q) /\ Len(a \o b) = Len(e)
      /\ \A i \in 1..Len(e) : (a \o b)[i] = IF i <= m THEN a[i] ELSE b[i - m]
  <2>1. /\ a \o b \in Seq(Q) /\ Len(a \o b) = Len(a) + Len(b)
        /\ \A i \in 1..(Len(a) + Len(b)) : (a \o b)[i] = IF i <= Len(a) THEN a[i] ELSE b[i - Len(a)]
    <3>1. a \in Seq(Q) /\ b \in Seq(Q)
      BY <1>3, <1>5
    <3>. QED
      BY ONLY <3>1, ConcatProperties
  <2>. QED
    BY <1>3, <1>7, <2>1
<1>9. \A i \in 1..Len(e) : (a \o b)[i] = e[i]
  <2>1. TAKE i \in 1..Len(e)
  <2>2. CASE i <= m
    BY <1>1, <1>3, <1>4, <1>8, <2>2
  <2>3. CASE ~ i <= m
    <3>1. i - m \in 1..Len(b) /\ m + (i - m) = i
      BY <1>1, <1>7, <2>3
    <3>2. b[i - m] = s[i - m] /\ i - m \in 1..(n - m)
      BY <1>5, <3>1
    <3>3. s[i - m] = l[i]
      BY <1>2, <3>1, <3>2
    <3>. QED
      BY <1>4, <1>8, <2>3, <3>2, <3>3
  <2>. QED
    BY <2>2, <2>3
<1>10. a \o b = e
  BY <1>4, <1>8, <1>9, SeqEqual
<1>. QED
  BY <1>2, <1>10 DEF a, b, e, s, n

(* What a store lists from a row on is the rest of what it lists.          *)
LEMMA RestOfList ==
  ASSUME Inv, Handed, NEW Q \in SUBSET rows, NEW P, Timed(P), Apart(P),
         NEW l \in Seq(Q), l = TheList(Q, P), NEW m \in 0..Len(l),
         NEW i \in Nat, m = 0 => i = 0, m # 0 => i = l[m].id
  PROVE  /\ Below(Q, i, P) \in SUBSET rows
         /\ TheList(Below(Q, i, P), P) = SubSeq(l, m + 1, Len(l))
<1> DEFINE n == Len(l)
           B == Below(Q, i, P)
           s == SubSeq(l, m + 1, n)
           rank == [r \in B |-> P[r.id]]
<1>1. /\ IsFiniteSet(Q) /\ l \in SetToSeqs(Q) /\ l \in Seq(Q) /\ n \in Nat /\ n = Cardinality(Q)
      /\ \A p, q \in DOMAIN l : p < q => P[l[p].id] >= P[l[q].id]
  <2>1. l \in Latest(Q, P)
    BY OneList
  <2>. QED
    BY <2>1, LatestRows
<1>2. /\ DOMAIN l = 1..n /\ \A p \in 1..n : l[p] \in Q /\ l[p].id \in Instants /\ P[l[p].id] \in Int
      /\ \A p, q \in 1..n : l[p] = l[q] => p = q
      /\ \A r \in Q : \E p \in 1..n : l[p] = r
  BY <1>1, ListOf, IdsTimed DEF Timed
<1>3. \A p, q \in 1..n : p < q => P[l[p].id] > P[l[q].id]
  <2>1. TAKE p, q \in 1..n
  <2>2. HAVE p < q
  <2>3. P[l[p].id] >= P[l[q].id]
    BY <1>1, <1>2, <2>2
  <2>4. l[p] # l[q] /\ l[p] \in rows /\ l[q] \in rows
    BY <1>2, <2>2
  <2>5. l[p].id # l[q].id
    BY <2>4 DEF Inv, Once
  <2>6. P[l[p].id] # P[l[q].id]
    BY <1>2, <2>5 DEF Apart
  <2>. QED
    BY <1>2, <2>3, <2>6
<1>4. B \in SUBSET Q /\ B \in SUBSET rows
  BY DEF Below
<1>5. m \in Nat /\ m =< n
  BY <1>1
<1>6. /\ \A p \in 1..n : m < p => l[p] \in B
      /\ \A p \in 1..n : l[p] \in B => m < p
  <2>1. CASE m = 0
    BY <1>2, <2>1 DEF Below
  <2>2. CASE m # 0
    <3>1. i = l[m].id /\ i # 0 /\ m \in 1..n
      BY <1>2, <1>5, <2>2 DEF Instants
    <3>2. \A p \in 1..n : l[p] \in B <=> P[l[p].id] < P[i]
      BY <1>2, <3>1 DEF Below
    <3>3. \A p \in 1..n : P[l[p].id] < P[l[m].id] <=> m < p
      <4>1. TAKE p \in 1..n
      <4>2. (p < m => P[l[p].id] > P[l[m].id]) /\ (m < p => P[l[m].id] > P[l[p].id])
        BY <1>3, <3>1
      <4>3. P[l[p].id] \in Int /\ P[l[m].id] \in Int
        BY <1>2, <3>1
      <4>4. p \in Int /\ m \in Int /\ (p = m => P[l[p].id] = P[l[m].id])
        BY <1>5
      <4>. QED
        BY <4>2, <4>3, <4>4
    <3> HIDE DEF B
    <3>. QED
      BY <3>1, <3>2, <3>3
  <2>. QED
    BY <2>1, <2>2
<1>7. s \in Seq(Q) /\ Len(s) = n - m /\ \A p \in 1..(n - m) : s[p] = l[m + p]
  BY <1>1, RestRows
<1> HIDE DEF n, s, B
<1>8. s \in [1..(n - m) -> B] /\ \A p, q \in 1..(n - m) : s[p] = s[q] => p = q
  <2>1. \A p \in 1..(n - m) : m + p \in 1..n /\ m < m + p /\ p \in Int
    BY <1>1, <1>5
  <2>2. \A p \in 1..(n - m) : s[p] \in B
    BY <1>6, <1>7, <2>1
  <2>3. DOMAIN s = 1..(n - m)
    BY <1>7
  <2>4. ASSUME NEW p \in 1..(n - m), NEW q \in 1..(n - m), s[p] = s[q] PROVE p = q
    <3>1. l[m + p] = l[m + q] /\ m + p \in 1..n /\ m + q \in 1..n
      BY <1>7, <2>1, <2>4
    <3>2. m + p = m + q
      BY <1>2, <3>1
    <3>. QED
      BY <1>5, <2>1, <3>2
  <2>5. s \in [1..(n - m) -> B]
    BY <1>7, <2>2, <2>3
  <2>. QED
    BY <2>4, <2>5
<1>9. \A r \in B : \E p \in 1..(n - m) : s[p] = r
  <2>1. TAKE r \in B
  <2>2. PICK p \in 1..n : l[p] = r
    BY <1>2, <1>4
  <2>3. m < p
    BY <1>6, <2>2
  <2>4. p - m \in 1..(n - m) /\ m + (p - m) = p
    BY <1>1, <1>5, <2>3
  <2>5. s[p - m] = r
    BY <1>7, <2>2, <2>4
  <2>. QED
    BY <2>4, <2>5
<1>10. IsFiniteSet(B) /\ Cardinality(B) = n - m
  <2>1. s \in Bijection(1..(n - m), B)
    BY <1>8, <1>9 DEF Bijection, Injection, Surjection, IsInjective
  <2>2. n - m \in Nat
    BY <1>1, <1>5
  <2> DEFINE d == n - m
  <2> HIDE DEF d
  <2>3. d \in Nat => IsFiniteSet(1..d) /\ Cardinality(1..d) = d
    BY ONLY FS_Interval
  <2>4. IsFiniteSet(1..(n - m)) /\ Cardinality(1..(n - m)) = n - m
    BY <2>2, <2>3 DEF d
  <2>. QED
    BY <2>1, <2>4, FS_Bijection DEF ExistsBijection
<1>11. s \in SetToSeqs(B)
  BY <1>8, <1>10 DEF SetToSeqs, IsInjective
<1>12. \A p, q \in 1..(n - m) : p < q => rank[s[p]] >= rank[s[q]]
  <2>1. TAKE p, q \in 1..(n - m)
  <2>2. HAVE p < q
  <2>3. /\ m + p \in 1..n /\ m + q \in 1..n /\ m + p < m + q
        /\ s[p] = l[m + p] /\ s[q] = l[m + q] /\ s[p] \in B /\ s[q] \in B
    <3>1. m + p \in 1..n /\ m + q \in 1..n /\ m + p < m + q
      BY <1>1, <1>5, <2>2
    <3>2. s[p] = l[m + p] /\ s[q] = l[m + q]
      BY <1>7
    <3>3. s[p] \in B /\ s[q] \in B
      BY <1>8
    <3>. QED
      BY <3>1, <3>2, <3>3
  <2>4. P[l[m + p].id] > P[l[m + q].id] /\ P[l[m + p].id] \in Int /\ P[l[m + q].id] \in Int
    BY <1>2, <1>3, <2>3
  <2>5. rank[s[p]] = P[s[p].id] /\ rank[s[q]] = P[s[q].id]
    BY <2>3
  <2>. QED
    BY <2>3, <2>4, <2>5
<1>13. Latest(B, P) = Orders(B, rank)
  BY DEF Latest
<1> HIDE DEF rank
<1>14. s \in Latest(B, P)
  BY <1>8, <1>11, <1>12, <1>13 DEF Orders
<1>15. TheList(B, P) = s
  BY <1>4, <1>14, OneList
<1>. QED
  BY <1>4, <1>15 DEF B, s, n

(* A page after a prefix of a list makes it a longer prefix.               *)
LEMMA NextPage ==
  ASSUME Inv, Handed, NEW Q \in SUBSET rows, NEW P, Timed(P), Apart(P), NEW k \in Nat,
         NEW w, w = FirstRows(Q, k, P)
  PROVE  w \o FirstRows(Below(Q, IF w = <<>> THEN 0 ELSE Last(w).id, P), Limit, P)
           = FirstRows(Q, k + Limit, P)
<1> DEFINE l == TheList(Q, P)
           m == IF Len(l) < k THEN Len(l) ELSE k
           i == IF w = <<>> THEN 0 ELSE Last(w).id
           j == IF m = 0 THEN 0 ELSE l[m].id
<1>1. l \in Seq(Q) /\ Limit \in Nat
  BY OneList, LimitNat
<1>2. w = Cut(l, k) /\ FirstRows(Q, k + Limit, P) = Cut(l, k + Limit)
  BY DEF FirstRows
<1>3. l = TheList(Q, P)
  OBVIOUS
<1> HIDE DEF l
<1>4. m \in 0..Len(l) /\ m \in Nat
  BY <1>1
<1>5. (Len(l) < k => m = Len(l)) /\ (Len(l) >= k => m = k)
  BY <1>1
<1>6. w \in Seq(Q) /\ Len(w) = m /\ \A p \in 1..m : w[p] = l[p]
  BY <1>1, <1>2, CutRows
<1> HIDE DEF m
<1>7. i = j
  <2>1. CASE m = 0
    BY <1>6, <2>1
  <2>2. CASE m # 0
    BY <1>4, <1>6, <2>2 DEF Last
  <2>. QED
    BY <2>1, <2>2
<1>8. TheList(Below(Q, j, P), P) = SubSeq(l, m + 1, Len(l))
  <2>1. j \in Nat
    <3>1. \A p \in 1..Len(l) : l[p].id \in Nat
      BY <1>1, IdsTimed DEF Instants
    <3>. QED
      BY <1>4, <3>1
  <2>2. (m = 0 => j = 0) /\ (m # 0 => j = l[m].id)
    OBVIOUS
  <2> HIDE DEF j
  <2>3. /\ Inv /\ Handed /\ Q \in SUBSET rows /\ Timed(P) /\ Apart(P)
        /\ l \in Seq(Q) /\ l = TheList(Q, P) /\ m \in 0..Len(l)
    BY <1>1, <1>3, <1>4
  <2>. QED
    BY ONLY <2>1, <2>2, <2>3, RestOfList, SMTT(40)
<1>9. Cut(l, k) \o Cut(SubSeq(l, m + 1, Len(l)), Limit) = Cut(l, k + Limit)
  <2>1. l \in Seq(Q) /\ k \in Nat /\ Limit \in Nat /\ m \in 0..Len(l)
    BY <1>1, <1>4
  <2>. QED
    BY ONLY <2>1, <1>5, JoinCut, ZenonT(60)
<1>10. FirstRows(Below(Q, j, P), Limit, P) = Cut(TheList(Below(Q, j, P), P), Limit)
  BY DEF FirstRows
<1> HIDE DEF j
<1>. QED
  BY <1>2, <1>7, <1>8, <1>9, <1>10

(* What a page shows on each store.                                        *)
LEMMA PageShows ==
  ASSUME Inv, table = "jobs", NEW b \in Stores3, NEW c \in Calls(table),
         c.op \in {"page", "adminPage"}
  PROVE  \E T \in {Text, Clock} : \A i \in Instants \cup {0} :
           Cursor(b, c, i) = FirstRows(Below(InStatus(ForUser(rows, c.user), c), i, ByIds(T)),
                                       Limit, ByIds(T))
<1> DEFINE T == IF b = "sqlite" THEN Text ELSE Clock
           Q == InStatus(ForUser(rows, c.user), c)
<1>1. ASSUME NEW i \in Instants \cup {0}
      PROVE  Cursor(b, c, i) = FirstRows(Below(Q, i, ByIds(T)), Limit, ByIds(T))
  <2> DEFINE d == [c EXCEPT !.n = i]
  <2>1. d.op = c.op /\ d.user = c.user /\ d.val = c.val /\ d.n = i
    BY DEF Calls, Calls0
  <2>2. Cursor(b, c, i) = CHOOSE l \in Do(b, table, rows, d).lists : TRUE
    BY DEF Cursor
  <2> HIDE DEF d
  <2>3. b \in {"sqlite", "postgres", "memory"}
    BY DEF Stores3
  <2>4. Do(b, table, rows, d) = Page(rows, d, T)
    <3>1. /\ SqliteJobs(rows, d) = Page(rows, d, Text) /\ PgJobs(rows, d) = Page(rows, d, Clock)
          /\ MemJobs(rows, d) = Page(rows, d, Clock)
      BY <2>1 DEF SqliteJobs, PgJobs, MemJobs
    <3>2. /\ Sqlite(table, rows, d) = SqliteJobs(rows, d) /\ Postgres(table, rows, d) = PgJobs(rows, d)
          /\ Memory(table, rows, d) = MemJobs(rows, d)
      BY DEF Sqlite, Postgres, Memory
    <3>3. CASE b = "sqlite"
      BY <3>1, <3>2, <3>3 DEF Do
    <3>4. CASE b = "postgres"
      BY <3>1, <3>2, <3>4 DEF Do
    <3>5. CASE b = "memory"
      BY <3>1, <3>2, <3>5 DEF Do
    <3>. QED
      BY <2>3, <3>3, <3>4, <3>5
  <2>5. InStatus(ForUser(rows, d.user), d) = Q
    BY <2>1 DEF InStatus
  <2>7. Handed /\ Q \in SUBSET rows /\ Timed(T)
    BY Columns DEF Handed, InStatus, ForUser
  <2> HIDE DEF Q, T
  <2> DEFINE B == Below(Q, i, ByIds(T))
  <2>6. Page(rows, d, T).lists = Newest(After(Q, i, T), Limit, ByIds(T))
    BY <2>1, <2>5 DEF Page, Answer
  <2>8. After(Q, i, T) = B /\ B \in SUBSET rows
    BY <2>7, AfterCursor DEF Below
  <2> HIDE DEF B
  <2>9. Timed(ByIds(T)) /\ Apart(ByIds(T))
    BY <2>7, ByIdsOrder
  <2>10. /\ TheList(B, ByIds(T)) \in Latest(B, ByIds(T))
         /\ \A l \in Latest(B, ByIds(T)) : l = TheList(B, ByIds(T))
    BY <2>7, <2>8, <2>9, OneList
  <2>11. Newest(B, Limit, ByIds(T)) = {FirstRows(B, Limit, ByIds(T))}
    BY <2>10 DEF Newest, FirstRows
  <2>12. Cursor(b, c, i) = CHOOSE l \in {FirstRows(B, Limit, ByIds(T))} : TRUE
    BY <2>2, <2>4, <2>6, <2>8, <2>11
  <2>13. \A e : (CHOOSE l \in {e} : TRUE) = e
    OBVIOUS
  <2>. QED
    BY <2>12, <2>13 DEF B
<1>2. T \in {Text, Clock}
  OBVIOUS
<1> HIDE DEF T
<1>. QED
  BY <1>1, <1>2

(* The least of a set of numbers.                                          *)
LEMMA LeastOf ==
  ASSUME NEW D \in SUBSET Nat, IsFiniteSet(D), D # {}
  PROVE  \E d \in D : \A x \in D : d =< x
<1> DEFINE rank == [x \in D |-> -x]
           l == Desc(D, rank)
<1>1. \A x \in D : rank[x] \in Int /\ rank[x] = -x
  OBVIOUS
<1> HIDE DEF rank
<1>2. l \in SetToSeqs(D) /\ l \in Orders(D, rank)
  BY <1>1, DescSorts
<1> HIDE DEF l
<1>3. /\ Cardinality(D) \in Nat /\ l \in [1..Cardinality(D) -> D]
      /\ \A x \in D : \E i \in 1..Cardinality(D) : l[i] = x
  BY <1>2, ListOf
<1>4. 1 \in 1..Cardinality(D) /\ l[1] \in D
  <2>1. PICK x \in D : TRUE
    OBVIOUS
  <2>2. PICK i \in 1..Cardinality(D) : l[i] = x
    BY <1>3
  <2>3. 1 \in 1..Cardinality(D)
    BY <1>3
  <2>. QED
    BY <1>3, <2>3
<1>5. ASSUME NEW x \in D PROVE l[1] =< x
  <2>1. PICK i \in 1..Cardinality(D) : l[i] = x
    BY <1>3
  <2>2. CASE i = 1
    BY <1>4, <2>1, <2>2
  <2>3. CASE i # 1
    <3>1. 1 < i
      BY <1>3, <2>3
    <3>2. rank[l[1]] >= rank[l[i]]
      BY <1>2, <1>3, <1>4, <3>1 DEF Orders
    <3>3. rank[l[1]] = -l[1] /\ rank[l[i]] = -x /\ l[1] \in Nat /\ x \in Nat
      BY <1>1, <1>4, <2>1
    <3>. QED
      BY <3>2, <3>3
  <2>. QED
    BY <2>2, <2>3
<1>. QED
  BY <1>4, <1>5

(* There are no more jobs than instants.                                   *)
LEMMA RowsCounted ==
  ASSUME Inv, Handed
  PROVE  Cardinality(rows) \in Nat /\ Cardinality(rows) =< MaxNow
<1> DEFINE f == [r \in rows |-> r.id]
<1>1. MaxNow \in Nat /\ \A r \in rows : r.id \in 1..MaxNow
  BY SizesAssumption DEF Inv, World, Dated
<1>2. f \in Injection(rows, 1..MaxNow)
  BY <1>1 DEF Injection, IsInjective, Inv, Once
<1>3. IsFiniteSet(1..MaxNow) /\ Cardinality(1..MaxNow) = MaxNow
  BY <1>1, FS_Interval
<1> HIDE DEF f
<1>. QED
  BY <1>2, <1>3, FS_Injection, FS_CardinalityType DEF Inv, Typed

(* A client that follows the cursors gathers what one list would show: the *)
(* function of the pages' number that the walk defines is the one whose    *)
(* value is the list's prefix of that many pages.                          *)
LEMMA WalkGathers ==
  ASSUME Inv, table = "jobs", NEW b \in Stores3, NEW c \in Calls(table),
         c.op \in {"page", "adminPage"}
  PROVE  \E T \in {Text, Clock} :
           Walk(b, c) = TheList(InStatus(ForUser(rows, c.user), c), ByIds(T))
<1> DEFINE Q == InStatus(ForUser(rows, c.user), c)
<1>1. PICK T \in {Text, Clock} :
        \A i \in Instants \cup {0} :
          Cursor(b, c, i) = FirstRows(Below(Q, i, ByIds(T)), Limit, ByIds(T))
  BY PageShows
<1> DEFINE P == ByIds(T)
<1>2. Handed /\ Q \in SUBSET rows /\ Timed(P) /\ Apart(P)
  BY Columns, ByIdsOrder DEF Handed, InStatus, ForUser
<1>13. \A i \in Instants \cup {0} : Cursor(b, c, i) = FirstRows(Below(Q, i, P), Limit, P)
  BY <1>1
<1> HIDE DEF Q, P
<1> DEFINE D == 0..MaxNow
           at(w) == IF w = <<>> THEN 0 ELSE Last(w).id
           V == [n \in D |-> FirstRows(Q, n * Limit, P)]
           G(X) == [n \in D |-> IF n = 0 THEN <<>> ELSE X[n - 1] \o Cursor(b, c, at(X[n - 1]))]
           W == CHOOSE X : X = G(X)
<1>3. MaxNow \in Nat /\ Limit \in Nat \ {0}
  BY SizesAssumption, LimitNat
<1>4. \A n \in D : n * Limit \in Nat /\ (n # 0 => n - 1 \in D /\ (n - 1) * Limit + Limit = n * Limit)
  BY <1>3
<1>5. V = G(V)
  <2>1. ASSUME NEW n \in D, n = 0 PROVE V[n] = <<>>
    <3>1. V[n] = FirstRows(Q, 0, P)
      BY <1>3, <2>1
    <3>2. TheList(Q, P) \in Seq(Q)
      BY <1>2, OneList
    <3>3. Len(Cut(TheList(Q, P), 0)) = 0 /\ Cut(TheList(Q, P), 0) \in Seq(Q)
      BY <3>2, CutRows
    <3>. QED
      BY <3>1, <3>3 DEF FirstRows
  <2>2. ASSUME NEW n \in D, n # 0 PROVE V[n] = V[n - 1] \o Cursor(b, c, at(V[n - 1]))
    <3> DEFINE w == V[n - 1]
    <3>1. w = FirstRows(Q, (n - 1) * Limit, P) /\ (n - 1) * Limit \in Nat /\ n * Limit = (n - 1) * Limit + Limit
      BY <1>4, <2>2
    <3>2. V[n] = FirstRows(Q, n * Limit, P)
      OBVIOUS
    <3>3. Cursor(b, c, at(w)) = FirstRows(Below(Q, at(w), P), Limit, P)
      <4>1. TheList(Q, P) \in Seq(Q)
        BY <1>2, OneList
      <4>2. w \in Seq(Q)
        BY <3>1, <4>1, CutRows DEF FirstRows
      <4>3. \A r \in Q : r.id \in Instants
        BY <1>2, IdsTimed
      <4> HIDE DEF w, V
      <4>4. w # <<>> => Last(w) \in Q
        BY <4>2 DEF Last
      <4>5. at(w) \in Instants \cup {0}
        BY <4>3, <4>4
      <4> HIDE DEF at
      <4>. QED
        BY <1>13, <4>5
    <3> HIDE DEF w, V
    <3>4. w \o FirstRows(Below(Q, at(w), P), Limit, P) = FirstRows(Q, (n - 1) * Limit + Limit, P)
      BY <1>2, <3>1, NextPage
    <3>5. V[n] = w \o Cursor(b, c, at(w))
      BY <3>1, <3>2, <3>3, <3>4
    <3>. QED
      BY <3>5 DEF w
  <2>3. V = [n \in D |-> V[n]]
    OBVIOUS
  <2> HIDE DEF V, D, at
  <2>4. \A n \in D : V[n] = IF n = 0 THEN <<>> ELSE V[n - 1] \o Cursor(b, c, at(V[n - 1]))
    BY <2>1, <2>2
  <2>. QED
    BY <2>3, <2>4
<1>6. W = G(W)
  <2> HIDE DEF V, G
  <2>. QED
    BY <1>5
<1>7. Walk(b, c) = W[MaxNow]
  BY DEF Walk
<1> HIDE DEF W, V
<1>8. \A n \in D : W[n] = V[n]
  <2> DEFINE E == {n \in D : W[n] # V[n]}
  <2>1. SUFFICES ASSUME E # {} PROVE FALSE
    OBVIOUS
  <2>2. E \in SUBSET Nat /\ IsFiniteSet(E)
    <3>1. IsFiniteSet(D) /\ D \in SUBSET Nat /\ E \in SUBSET D
      BY <1>3, FS_Interval
    <3>. QED
      BY <3>1, FS_Subset
  <2>3. PICK n \in E : \A x \in E : n =< x
    BY <2>1, <2>2, LeastOf
  <2>4. n \in D /\ W[n] # V[n]
    OBVIOUS
  <2>5. W[n] = IF n = 0 THEN <<>> ELSE W[n - 1] \o Cursor(b, c, at(W[n - 1]))
    BY <1>6, <2>4
  <2>6. V[n] = IF n = 0 THEN <<>> ELSE V[n - 1] \o Cursor(b, c, at(V[n - 1]))
    BY <1>5, <2>4
  <2>7. n # 0
    BY <2>4, <2>5, <2>6
  <2>8. n - 1 \in D /\ ~ n =< n - 1
    BY <1>4, <2>4, <2>7
  <2>9. W[n - 1] = V[n - 1]
    BY <2>3, <2>8
  <2> HIDE DEF at
  <2>. QED
    BY <2>4, <2>5, <2>6, <2>9
<1>9. W[MaxNow] = FirstRows(Q, MaxNow * Limit, P)
  BY <1>3, <1>8 DEF V
<1>10. Cardinality(rows) =< MaxNow * Limit /\ MaxNow * Limit \in Nat
  <2>1. Cardinality(rows) \in Nat /\ Cardinality(rows) =< MaxNow
    BY <1>2, RowsCounted
  <2>2. MaxNow =< MaxNow * Limit /\ MaxNow * Limit \in Nat
    BY <1>3
  <2>. QED
    BY <1>3, <2>1, <2>2
<1>11. FirstRows(Q, MaxNow * Limit, P) = TheList(Q, P)
  <2>1. TheList(Q, P) \in Seq(Q) /\ Len(TheList(Q, P)) =< Cardinality(rows)
        /\ Cardinality(rows) \in Nat
    <3>1. TheList(Q, P) \in Latest(Q, P) /\ TheList(Q, P) \in Seq(Q)
      BY <1>2, OneList
    <3>2. Len(TheList(Q, P)) = Cardinality(Q) /\ Cardinality(Q) =< Cardinality(rows)
      BY <1>2, <3>1, LatestRows
    <3>3. Cardinality(rows) \in Nat
      BY <1>2, RowsCounted
    <3>. QED
      BY <3>1, <3>2, <3>3
  <2>2. Len(TheList(Q, P)) =< MaxNow * Limit
    BY <1>10, <2>1
  <2>. QED
    BY <1>10, <2>1, <2>2, CutRows DEF FirstRows
<1>12. Walk(b, c) = TheList(Q, P)
  BY <1>7, <1>9, <1>11
<1>. QED
  BY <1>12 DEF Q, P

(* The pages of a job list that follow each other's cursors hold every     *)
(* matching job exactly once, on every backend, whatever the page size,    *)
(* whichever jobs have one created_at and whatever their ids, and in       *)
(* SQLite even where the texts of created_at do not compare like the       *)
(* times: order and cursor go by the same text, and then both by id.       *)
THEOREM PagesComplete == Spec => []PagesJoin
<1>1. Inv => PagesJoin
  <2>1. SUFFICES ASSUME Inv, table = "jobs", NEW b \in Stores3, NEW c \in Calls(table),
                        c.op \in {"page", "adminPage"}
                 PROVE  /\ ToSet(Walk(b, c)) = InStatus(ForUser(rows, c.user), c)
                        /\ Len(Walk(b, c)) = Cardinality(InStatus(ForUser(rows, c.user), c))
    BY DEF PagesJoin
  <2> DEFINE Q == InStatus(ForUser(rows, c.user), c)
  <2>2. PICK T \in {Text, Clock} : Walk(b, c) = TheList(Q, ByIds(T))
    BY <2>1, WalkGathers
  <2>3. Handed /\ Q \in SUBSET rows /\ Timed(ByIds(T)) /\ Apart(ByIds(T))
    BY <2>1, Columns, ByIdsOrder DEF Handed, InStatus, ForUser
  <2> HIDE DEF Q
  <2>4. TheList(Q, ByIds(T)) \in Latest(Q, ByIds(T))
    BY <2>1, <2>3, OneList
  <2>5. ToSet(TheList(Q, ByIds(T))) = Q /\ Len(TheList(Q, ByIds(T))) = Cardinality(Q)
    BY <2>1, <2>3, <2>4, LatestRows
  <2>. QED
    BY <2>2, <2>5 DEF Q
<1>. QED
  BY <1>1, RowsInvariant, PTL
=============================================================================
