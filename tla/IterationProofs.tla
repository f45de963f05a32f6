-------------------------- MODULE IterationProofs --------------------------
(***************************************************************************)
(* Induction over the rounds of a loop.  A module that instantiates this   *)
(* one for the body of its loop cites the theorem for that body, and gives *)
(* it the induction principle CountsUp, which it has from the library.     *)
(***************************************************************************)
EXTENDS Iteration, TLAPS

(* Induction up to n, for sets: one that holds 0 and, with every number    *)
(* below n, the next, holds the numbers up to n.                           *)
CountsUp(n) ==
    \A S : 0 \in S /\ (\A k \in 0 .. n : k \in S /\ k < n => k + 1 \in S)
               => 0 .. n \subseteq S

(* r is what the first n rounds make, one after the other. *)
Rounds(start, items, n, r) ==
    r = [k \in 0 .. n |-> IF k = 0 THEN start ELSE Step(r[k - 1], items[k])]

(* There is such a function for every number of rounds. *)
LEMMA RoundsExist ==
  ASSUME NEW start, NEW items, NEW n \in Nat, CountsUp(n)
  PROVE  \E r : Rounds(start, items, n, r)
<1> DEFINE S == {m \in 0 .. n : \E r : Rounds(start, items, m, r)}
<1>1. 0 \in S
  <2> DEFINE r == [k \in 0 .. 0 |-> start]
  <2>1. r = [k \in 0 .. 0 |-> IF k = 0 THEN start ELSE Step(r[k - 1], items[k])]
    OBVIOUS
  <2>2. Rounds(start, items, 0, r)
    BY <2>1, Zenon DEF Rounds
  <2>3. QED BY <2>2
<1>2. ASSUME NEW m \in 0 .. n, m \in S, m < n
      PROVE  m + 1 \in S
  <2>1. PICK r : Rounds(start, items, m, r)
    BY <1>2
  <2> DEFINE q == [k \in 0 .. (m + 1) |-> IF k = m + 1 THEN Step(r[m], items[m + 1]) ELSE r[k]]
  <2>2. ASSUME NEW k \in 0 .. (m + 1)
        PROVE  q[k] = IF k = 0 THEN start ELSE Step(q[k - 1], items[k])
    <3>1. CASE k = m + 1
      BY <3>1
    <3>2. CASE k \in 0 .. m
      <4>1. r[k] = IF k = 0 THEN start ELSE Step(r[k - 1], items[k])
        BY <2>1, <3>2, Zenon DEF Rounds
      <4>2. q[k] = r[k]
        BY <3>2
      <4>3. k # 0 => q[k - 1] = r[k - 1]
        BY <3>2
      <4>4. QED BY <4>1, <4>2, <4>3, Zenon
    <3>3. QED BY <3>1, <3>2
  <2>3. Rounds(start, items, m + 1, q)
    BY <2>2 DEF Rounds
  <2>4. m + 1 \in 0 .. n
    BY <1>2
  <2>5. QED BY <2>3, <2>4, Zenon
<1> HIDE DEF S
<1>3. 0 .. n \subseteq S
  BY <1>1, <1>2 DEF CountsUp
<1>4. QED BY <1>3 DEF S

(* run goes from start, by one Step for every item, to what Iterate is. *)
Runs(start, items, run) ==
    /\ run[0] = start
    /\ \A k \in 1 .. Len(items) : run[k] = Step(run[k - 1], items[k])
    /\ Iterate(start, items) = run[Len(items)]

(* Iterate is a loop: it goes from start, by one Step for every item, to   *)
(* its result.                                                             *)
THEOREM IterateIsALoop ==
  ASSUME NEW start, NEW items, Len(items) \in Nat, CountsUp(Len(items))
  PROVE  \E run : Runs(start, items, run)
<1> DEFINE n == Len(items)
           run == CHOOSE r : r = [k \in 0 .. n |->
                      IF k = 0 THEN start ELSE Step(r[k - 1], items[k])]
<1>1. run = [k \in 0 .. n |-> IF k = 0 THEN start ELSE Step(run[k - 1], items[k])]
  <2>1. \E r : Rounds(start, items, n, r)
    BY RoundsExist, Zenon
  <2>2. \E r : r = [k \in 0 .. n |-> IF k = 0 THEN start ELSE Step(r[k - 1], items[k])]
    BY <2>1, Zenon DEF Rounds
  <2>3. QED BY <2>2, Zenon
<1>2. Iterate(start, items) = run[n]
  BY DEF Iterate
<1> HIDE DEF run
<1>3. run[0] = start
  BY <1>1
<1>4. \A k \in 1 .. n : run[k] = Step(run[k - 1], items[k])
  BY <1>1
<1>5. QED BY <1>2, <1>3, <1>4, Zenon DEF Runs
=============================================================================
