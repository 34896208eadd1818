------------------------------ MODULE MCStores ------------------------------
(* Instances of Stores for TLC.                                            *)
EXTENDS Stores

AllTables == {"users", "audit", "jtis", "refresh", "agents", "providers",
              "drives", "bindings", "devices", "jobs", "outbox", "snapshots",
              "memory", "market", "lineage", "graph", "purchases",
              "connectors"}
AllBackends == {"sqlite", "postgres", "memory"}

\* Two rows where a row has many states, three in the other tables.
TwoOrThree == [tb \in Tables |->
                 IF tb \in {"jobs", "outbox", "drives", "agents"} THEN 2 ELSE 3]

\* Pages shorter than a table can be.
OneOrTwo == [tb \in Tables |-> IF tb \in {"jobs", "outbox"} THEN 1 ELSE 2]

\* Instants whose texts are of one length, two of which are equal; and some of
\* which the second has its last zero dropped: as a text, .2Z is greater than
\* .21Z.  Neither the order of ids is that of creation.
FullLength == [at |-> <<11, 11, 23, 34, 45>>, name |-> <<1, 4, 3, 2, 5>>]
CutShort   == [at |-> <<20, 20, 21, 34, 45>>, name |-> <<5, 4, 3, 2, 1>>]
BothLengths == {FullLength, CutShort}
=============================================================================
