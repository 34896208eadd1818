----------------------------- MODULE MCAccounts -----------------------------
(* Instances of Accounts for TLC.                                          *)
EXTENDS Accounts, TLC

\* Threads differ in nothing but their names.
ThreadSymmetry == Permutations(Threads)

U1 == "u1"
U2 == "u2"

\* An empty table, and one from before passwords were hashed.
Empty  == [u \in Users |-> NoUser]
Old    == [u \in Users |->
             IF u = U1 THEN [UserRow("admin", "old") EXCEPT !.legacy = TRUE]
                       ELSE UserRow("user", "old")]
BothSeeds == {Empty, Old}
OldSeed   == {Old}

\* The operations that meet on the same rows.
AllMixes == {{"register", "login", "createuser"},
             {"register", "open"},
             {"login", "setrole", "createuser"},
             {"login", "refresh", "revokeall"},
             {"login", "refresh", "logout"},
             {"login", "refresh", "password"},
             {"login", "agent", "update", "mint"},
             {"login", "revokeall", "agent", "mint"}}
RevokeMix == {{"login", "refresh", "revokeall"}}

Full  == [status |-> "active", scopes |-> {}, drives |-> {},
          read |-> {}, write |-> {}]
Tight == [status |-> "active", scopes |-> {"drive.read"}, drives |-> {"d1"},
          read |-> {}, write |-> {"p1"}]
TwoGrants == {Full, Tight}

\* A mint names no scopes, or one more than any agent here has.
NoneOrMore == {{}, {"drive.read", "job.run"}}

SomePatches == {[status |-> "disabled"], [status |-> "active"],
                [scopes |-> {"drive.read"}],
                [drives |-> {"d1"}], [drives |-> {}],
                [drives |-> {"d1", "d2"}, read |-> {"p1"}],
                [read |-> {}, write |-> {"p1", "p2"}]}
=============================================================================
