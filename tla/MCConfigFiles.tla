----------------------------- MODULE MCConfigFiles -----------------------------
(* A small instance of ConfigFiles: one server in the default catalog and one of the user's. *)
EXTENDS ConfigFiles

CONSTANTS ra, other, c1, c2

Everyone == Permutations(Writers) \cup Permutations(Clients)

TwoIds == {ra, other}
TwoCommands == {c1, c2}
DefaultCatalog == [id \in TwoIds |-> IF id = ra THEN c1 ELSE Absent]

\* The user names a server of their own, or nothing; the project's file is missing, sets no
\* command for an entry, or was written by hand with an id twice.
SomeUserFiles == {Missing, [lsp |-> <<Entry(other, c1), Entry(ra, c2)>>, ttl |-> 1]}
SomeProjectFiles ==
    {Missing,
     [lsp |-> <<Entry(ra, None), Entry(other, Empty)>>, ttl |-> None],
     [lsp |-> <<Entry(ra, c1), Entry(ra, c2)>>, ttl |-> 2]}

================================================================================
