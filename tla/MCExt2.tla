------------------------------- MODULE MCExt2 -------------------------------
(* A disk of two groups with room for one file that reaches the double      *)
(* indirect block.                                                          *)
EXTENDS Ext2

\* Names are only compared with each other.
Symmetry == Permutations(Names)
=============================================================================
