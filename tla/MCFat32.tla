------------------------------ MODULE MCFat32 ------------------------------
(* A disk of five data clusters of three slots or two bytes: a short name,  *)
(* two long ones with the same 8.3 stem, and a directory.                   *)
EXTENDS Fat32

MCFileNames == {[text |-> <<"s">>, stem |-> "s"],
                [text |-> <<"long", "er">>, stem |-> "l"],
                [text |-> <<"lost">>, stem |-> "l"]}
MCDirNames == {[text |-> <<"d">>, stem |-> "d"]}
MCBuffers == {<<1>>, <<2, 3, 4>>}
=============================================================================
