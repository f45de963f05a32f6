----------------------------- MODULE MCOverlay -----------------------------
(***************************************************************************)
(* Instances of Overlay.                                                    *)
(***************************************************************************)
EXTENDS Overlay

MCNames == {"a", "b"}
Dir == [kind |-> "dir", data |-> <<>>]
File(byte) == [kind |-> "file", data |-> <<byte>>]
\* a directory with a file and a file beside it; the same names the other way
\* round; a file that hides a directory
TreeA == (<<"a">> :> Dir) @@ (<<"a", "a">> :> File(1)) @@ (<<"b">> :> File(1))
TreeB == (<<"a">> :> Dir) @@ (<<"a", "b">> :> File(2)) @@ (<<"b">> :> Dir) @@ (<<"b", "b">> :> File(2))
TreeC == <<"b">> :> File(2)
MCTrees == {<<TreeA>>, <<TreeA, TreeB>>, <<TreeB, TreeA>>, <<TreeC, TreeB>>}
============================================================================
