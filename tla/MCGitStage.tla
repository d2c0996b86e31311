----------------------------- MODULE MCGitStage -----------------------------
(***************************************************************************)
(* Three paths: a file and a directory compete for the name "a", and "a"   *)
(* may be a link to the directory "c".  A file of size 2 fits, two of them *)
(* do not; one of size 3 is too large by itself.                           *)
(***************************************************************************)
EXTENDS GitStage

a == <<"a">>
ab == <<"a", "b">>
cb == <<"c", "b">>

File(mode, size) == [mode |-> mode, size |-> size, to |-> <<>>]
LinkTo(p) == [mode |-> Link, size |-> 1, to |-> p]

MCPaths == {a, ab, cb}
MCOrder == <<a, ab, cb>>
MCEntries == {Absent, File("100644", 1), File("100755", 1), File("100644", 2), File("100644", 3),
              LinkTo(<<"c">>), File("fifo", 0)}
MCBaseTrees == {[p \in MCPaths |-> IF p = ab THEN File("100644", 1) ELSE Absent],
                [p \in MCPaths |-> IF p = a THEN LinkTo(<<"c">>) ELSE
                                   IF p = cb THEN File("100644", 1) ELSE Absent]}

=============================================================================
