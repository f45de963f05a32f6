---------------------------------- MODULE Tty ----------------------------------
(***************************************************************************)
(* The terminal (kernel/src/device/char/tty.rs) between the interrupt of   *)
(* the UART, which brings one byte at a time, and tasks that read from it  *)
(* (CharDevice::read) on the scheduler.  The mode is canonical, the only   *)
(* one TtyDevice::new sets.  Unlike a pipe, the terminal drops its lock    *)
(* before it waits.                                                        *)
(***************************************************************************)
EXTENDS Scheduler

CONSTANTS
  Readers,   (* the tasks 1 .. Readers                                     *)
  MaxRead,   (* bound on the length of one read                            *)
  MaxTyped   (* bound on the bytes that arrive                             *)

VARIABLES
  input_buffer,   (* records: the ordinal of the byte and its class        *)
  typed,          (* bytes arrived so far                                  *)
  got             (* the bytes handed to readers, in the order handed      *)

ttyVars == <<input_buffer, typed, got>>
vars == <<schedVars, ttyVars>>

InputWaker == <<"tty_input", None>>

(* Backspace and DEL; \r and \n; Ctrl-C and Ctrl-Z; NUL; all others. *)
Byte == {"erase", "newline", "signal", "nul", "char"}

Init ==
  /\ StartWith(Readers)
  /\ input_buffer = <<>>
  /\ typed = 0
  /\ got = <<>>

-----------------------------------------------------------------------------
(* Mutant of Commits: the end of a line does not wake the readers. *)
CommitsNever(b) == FALSE

(* The bytes after which handle_input_byte calls wake_all. *)
Commits(b) == b = "newline"

(* The buffer after a byte: pop_back, push_back or nothing. *)
Edited(b) ==
  IF b = "erase" /\ input_buffer # <<>>
  THEN SubSeq(input_buffer, 1, Len(input_buffer) - 1)
  ELSE IF b \in {"newline", "char"}
       THEN Append(input_buffer, [at |-> typed + 1, class |-> b])
       ELSE input_buffer

(* The UART interrupt: handle_interrupt reads one byte, drops a NUL, emits *)
(* an InputEvent for any other, and the terminal, which listens, handles   *)
(* it.  Interrupts are taken in user mode and in the idle task.            *)
Interrupt(b) ==
  /\ At("user")
  /\ typed < MaxTyped
  /\ typed' = typed + 1
  /\ input_buffer' = Edited(b)
  /\ IF Commits(b)
     THEN Drain({InputWaker}, wait_queue[InputWaker])
     ELSE UNCHANGED <<wait_queue, wakeq>>
  /\ UNCHANGED <<CallUnchanged, state, old_task_id, pc, cpu, got>>

(* Mutant of Front: the newest bytes are read first. *)
FrontIsBack(k) == SubSeq(input_buffer, Len(input_buffer) - k + 1, Len(input_buffer))

Front(k) == SubSeq(input_buffer, 1, k)

(* CharDevice::read of n bytes: read_byte for each.  When the buffer runs  *)
(* dry the task waits and, once woken, goes on with the bytes it lacks.    *)
Read(n) ==
  /\ InCall("tty_read", n)
  /\ \/ /\ Len(input_buffer) >= n
        /\ got' = got \o Front(n)
        /\ input_buffer' = SubSeq(input_buffer, n + 1, Len(input_buffer))
        /\ Return
        /\ UNCHANGED <<state, old_task_id, wait_queue>>
     \/ /\ Len(input_buffer) < n
        /\ got' = got \o Front(Len(input_buffer))
        /\ input_buffer' = <<>>
        /\ Wait(InputWaker, [op |-> "tty_read", arg |-> n - Len(input_buffer)])
  /\ UNCHANGED <<CallUnchanged, wakeq, typed>>

Tick ==
  /\ At("user")
  /\ cpu' = "tick"
  /\ UNCHANGED <<CallUnchanged, state, old_task_id, pc, wait_queue, wakeq, ttyVars>>

Machine == (Run \/ WakeTask \/ OnTick) /\ UNCHANGED ttyVars

ReadCall == \E n \in 1 .. MaxRead : Read(n)

Next == Machine \/ Tick \/ ReadCall \/ \E b \in Byte : Interrupt(b)

Spec == Init /\ [][Next]_vars

(* As in TaskLife: kernel steps end and the timer keeps ticking.  Neither  *)
(* bytes nor reads are assumed to come.                                    *)
Kernel == Machine \/ (cpu = "resume" /\ ReadCall)

FairSpec == Spec /\ WF_vars(Kernel) /\ SF_vars(Tick)
-----------------------------------------------------------------------------
(* The readers get the bytes in the order they were typed and none twice,  *)
(* however their reads interleave with each other and with the interrupt.  *)
InOrderOnce ==
  LET all == got \o input_buffer
  IN \A i, j \in 1 .. Len(all) : i < j => all[i].at < all[j].at

HasLine == \E i \in 1 .. Len(input_buffer) : input_buffer[i].class = "newline"

(* A reader that is in its call when a line is there gets to read: its     *)
(* call ends, or the line is gone because readers, or backspaces, took it. *)
LineIsRead ==
  \A t \in 1 .. Readers : (pc[t].op = "tty_read" /\ HasLine) ~> (pc[t] = User \/ ~HasLine)
=============================================================================
