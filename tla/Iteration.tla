----------------------------- MODULE Iteration -----------------------------
(***************************************************************************)
(* A loop of the source: Step is its body, which takes what the rounds     *)
(* before it made and the item of this round.                              *)
(***************************************************************************)
EXTENDS Naturals, Sequences

CONSTANT Step(_, _)

\* What the rounds over all the items make of start.
Iterate(start, items) ==
    LET run[k \in 0 .. Len(items)] ==
            IF k = 0 THEN start ELSE Step(run[k - 1], items[k])
    IN run[Len(items)]
=============================================================================
