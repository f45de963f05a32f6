------------------------------- MODULE MCVfs -------------------------------
(***************************************************************************)
(* Instances of Vfs.                                                        *)
(***************************************************************************)
EXTENDS Vfs

Abs(cs) == [abs |-> TRUE, comps |-> cs]
Rel(cs) == [abs |-> FALSE, comps |-> cs]

MCNames == {"a", "b"}
MCPaths == {Abs(<<>>), Abs(<<"a">>), Abs(<<"a", "b">>), Rel(<<"b">>)}
MCDirs == <<Abs(<<"a">>), Abs(<<"a", "b">>)>>
MCTargets == {Abs(<<"a">>), Rel(<<"a">>)}
============================================================================
