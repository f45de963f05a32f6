--------------------------------- MODULE Pipe ---------------------------------
(***************************************************************************)
(* A pipe (kernel/src/ipc/pipe.rs) between tasks on the scheduler: read,   *)
(* write, duplication and drop of its ends.                                *)
(*                                                                         *)
(* PipeState is behind a spin lock.  Interrupts are off in a system call   *)
(* and one CPU runs tasks, so a call that finds the lock taken spins for   *)
(* ever (cpu = "spin"): its holder never runs.  `lock' is the task that    *)
(* keeps the guard across a switch; a call that does not wait takes and    *)
(* releases it within its step.                                            *)
(***************************************************************************)
EXTENDS Scheduler

CONSTANTS
  Users,      (* the tasks 1 .. Users hold both ends at the start         *)
  Capacity,   (* max_size                                                 *)
  MaxBytes,   (* bound on the bytes ever written                          *)
  MaxEnds     (* bound on the handles of one task for one end             *)

ASSUME PipeAssumption == Capacity \in Nat /\ Users \in Ids

VARIABLES
  buffer,         (* the ordinals of the bytes in it                      *)
  reader_count,
  writer_count,
  closed,
  lock,
  ends,           (* the handles that every task holds                    *)
  sent, got       (* bytes written and read so far                        *)

pipeVars == <<buffer, reader_count, writer_count, closed, lock, ends, sent, got>>
vars == <<schedVars, pipeVars>>

ReadWaker  == <<"pipe_read", None>>
WriteWaker == <<"pipe_write", None>>

End == {"read", "write"}

Init ==
  /\ StartWith(Users)
  /\ buffer = <<>>
  /\ reader_count = Users
  /\ writer_count = Users
  /\ closed = FALSE
  /\ lock = None
  /\ ends = [t \in Ids |-> [e \in End |-> IF t <= Users THEN 1 ELSE 0]]
  /\ sent = 0
  /\ got = 0

-----------------------------------------------------------------------------
Smaller(a, b) == IF a < b THEN a ELSE b

(* state.lock() while another task keeps the guard, or the caller itself   *)
(* when it retries inside the guard it still holds.                        *)
SpinOnLock ==
  /\ lock # None
  /\ cpu' = "spin"
  /\ UNCHANGED <<CallUnchanged, state, old_task_id, pc, wait_queue, wakeq, pipeVars>>

(* A call that returns without touching the pipe. *)
ReturnAtOnce ==
  /\ lock = None
  /\ Return
  /\ UNCHANGED <<CallUnchanged, state, old_task_id, wait_queue, wakeq, pipeVars>>

(* The guard is a local of the call that waits: it is kept. *)
WaitWithGuard(w, continuation) ==
  /\ lock = None
  /\ lock' = Me
  /\ Wait(w, continuation)
  /\ UNCHANGED <<CallUnchanged, wakeq, buffer, reader_count, writer_count, closed,
                 ends, sent, got>>

(* Mutant of Taken: the bytes are popped from the back. *)
TakenFromBack(k) == SubSeq(buffer, 1, Len(buffer) - k)

(* What k times pop_front leaves. *)
Taken(k) == SubSeq(buffer, k + 1, Len(buffer))

Read(n) ==
  /\ InCall("read", n)
  /\ ends[Me]["read"] > 0
  /\ \/ SpinOnLock
     \/ /\ closed \/ (buffer = <<>> /\ writer_count = 0)
        /\ ReturnAtOnce
     \/ /\ ~closed /\ buffer = <<>> /\ writer_count > 0
        /\ WaitWithGuard(ReadWaker, [op |-> "read", arg |-> n])
     \/ /\ lock = None /\ ~closed /\ buffer # <<>>
        /\ LET k == Smaller(n, Len(buffer))
           IN /\ buffer' = Taken(k)
              /\ got' = got + k
              /\ IF k > 0
                 THEN Drain({WriteWaker}, wait_queue[WriteWaker])
                 ELSE UNCHANGED <<wait_queue, wakeq>>
        /\ Return
        /\ UNCHANGED <<CallUnchanged, state, old_task_id, reader_count,
                       writer_count, closed, lock, ends, sent>>

Space == Capacity - Len(buffer)

Write(n) ==
  /\ InCall("write", n)
  /\ ends[Me]["write"] > 0
  /\ sent + n <= MaxBytes
  /\ \/ SpinOnLock
     \/ /\ closed \/ reader_count = 0
        /\ ReturnAtOnce
     \/ /\ ~closed /\ reader_count > 0 /\ Space = 0
        /\ WaitWithGuard(WriteWaker, [op |-> "write", arg |-> n])
     \/ /\ lock = None /\ ~closed /\ reader_count > 0 /\ Space > 0
        /\ LET k == Smaller(n, Space)
           IN /\ buffer' = buffer \o [i \in 1 .. k |-> sent + i]
              /\ sent' = sent + k
              /\ IF k > 0
                 THEN Drain({ReadWaker}, wait_queue[ReadWaker])
                 ELSE UNCHANGED <<wait_queue, wakeq>>
        /\ Return
        /\ UNCHANGED <<CallUnchanged, state, old_task_id, reader_count,
                       writer_count, closed, lock, ends, got>>

-----------------------------------------------------------------------------
(* The counters of PipeState after one more or one less end of a kind. *)
Count(e) == IF e = "read" THEN reader_count ELSE writer_count

SetCount(e, n) ==
  /\ reader_count' = IF e = "read" THEN n ELSE reader_count
  /\ writer_count' = IF e = "write" THEN n ELSE writer_count

DupCount(e) == SetCount(e, Count(e) + 1)

(* custom_clone, of a handle that is duplicated or inherited by a child. *)
Dup(e) ==
  /\ Calls
  /\ ends[Me][e] \in 1 .. MaxEnds - 1
  /\ \/ SpinOnLock
     \/ /\ lock = None
        /\ DupCount(e)
        /\ ends' = [ends EXCEPT ![Me][e] = @ + 1]
        /\ UNCHANGED <<schedVars, buffer, closed, lock, sent, got>>

(* Drop of an end.  Nobody is woken. *)
Close(e) ==
  /\ Calls
  /\ ends[Me][e] > 0
  /\ \/ SpinOnLock
     \/ /\ lock = None
        /\ SetCount(e, IF Count(e) > 0 THEN Count(e) - 1 ELSE 0)
        /\ ends' = [ends EXCEPT ![Me][e] = @ - 1]
        /\ IF reader_count' = 0 /\ writer_count' = 0
           THEN closed' = TRUE /\ buffer' = <<>>
           ELSE UNCHANGED <<closed, buffer>>
        /\ UNCHANGED <<schedVars, lock, sent, got>>

-----------------------------------------------------------------------------
Tick ==
  /\ At("user")
  /\ cpu' = "tick"
  /\ UNCHANGED <<CallUnchanged, state, old_task_id, pc, wait_queue, wakeq, pipeVars>>

Machine == (Run \/ WakeTask \/ OnTick) /\ UNCHANGED pipeVars

(* A call that spins, spins. *)
Spins == cpu \in {"spin", "panic", "full"} /\ UNCHANGED vars

Next ==
  \/ Machine \/ Tick \/ Spins
  \/ \E n \in 0 .. Capacity + 1 : Read(n) \/ Write(n)
  \/ \E e \in End : Dup(e) \/ Close(e)

Spec == Init /\ [][Next]_vars
-----------------------------------------------------------------------------
(* The bytes come out once each, in the order they went in, whoever reads  *)
(* and writes, until the last end is dropped.                              *)
BytesInOrder == ~closed => buffer = [i \in 1 .. sent - got |-> got + i]

(* A call spins only behind a task that waits on this pipe. *)
SpinsBehindWaiter ==
  cpu = "spin" => lock \in task_pool /\ pc[lock].op \in End /\ state[lock] = "Blocked"

=============================================================================
