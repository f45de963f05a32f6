---------------------------- MODULE ProcessTable ----------------------------
(***************************************************************************)
(* What fork, exit and wait promise a program, without scheduler, queues,  *)
(* wakers or task pool: the exit of a child whose parent is alive is kept  *)
(* until that parent, and nobody else, has collected it, once.             *)
(***************************************************************************)
EXTENDS Naturals

CONSTANTS
  Pids,
  First     (* the process the kernel starts *)

VARIABLES
  status,   (* of every process: "free", "alive", "zombie" or "done" *)
  kids      (* the children that a process has not collected *)

Init ==
  /\ status = [p \in Pids |-> IF p = First THEN "alive" ELSE "free"]
  /\ kids = [p \in Pids |-> {}]

(* The kernel starts a process that has no parent. *)
Spawn(c) ==
  /\ status[c] = "free"
  /\ status' = [status EXCEPT ![c] = "alive"]
  /\ UNCHANGED kids

Fork(p, c) ==
  /\ status[p] = "alive"
  /\ status[c] = "free"
  /\ status' = [status EXCEPT ![c] = "alive"]
  /\ kids' = [kids EXCEPT ![p] = @ \cup {c}]

HasLiveParent(c) == \E p \in Pids : c \in kids[p] /\ status[p] = "alive"

Exit(p) ==
  /\ status[p] = "alive"
  /\ \E s \in {"zombie", "done"} :
       /\ HasLiveParent(p) => s = "zombie"
       /\ status' = [status EXCEPT ![p] = s]
  /\ UNCHANGED kids

Collect(p, c) ==
  /\ status[p] = "alive"
  /\ c \in kids[p]
  /\ status[c] = "zombie"
  /\ status' = [status EXCEPT ![c] = "done"]
  /\ kids' = [kids EXCEPT ![p] = @ \ {c}]

Next ==
  \/ \E p \in Pids : Spawn(p) \/ Exit(p)
  \/ \E p, c \in Pids : Fork(p, c) \/ Collect(p, c)

Spec == Init /\ [][Next]_<<status, kids>>
=============================================================================
