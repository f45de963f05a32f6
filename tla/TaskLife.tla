------------------------------- MODULE TaskLife -------------------------------
(***************************************************************************)
(* The life of a task: clone, exit, waitpid and sleep of the native ABI    *)
(* (kernel/src/task/mod.rs, kernel/src/task/syscall.rs) with the timer     *)
(* interrupt (kernel/src/timer.rs), on top of the scheduler.               *)
(*                                                                         *)
(* A system call runs from the trap to its return, or to the schedule() of *)
(* Waker::wait or Task::exit, in one step: interrupts are off.  A task     *)
(* that blocked in a call continues it in a step of its own when it is     *)
(* dispatched (cpu = "resume").                                            *)
(***************************************************************************)
EXTENDS Scheduler

CONSTANT MaxSleep    (* bound on the ticks a task asks to sleep for *)

ASSUME TaskLifeAssumption == MaxSleep \in Nat

VARIABLES
  children,   (* Task.children; the vector is in order of id              *)
  timers      (* SOFTWARE_TIMER_HEAP; `left' is expires - TICK_COUNT      *)

vars == <<schedVars, children, timers>>

Timer == [task : Ids, left : -1 .. MaxSleep]

Continuation == [op : {"user", "waitpid", "waitany", "sleep", "exited"},
                 arg : Ids \cup {None}]

(* main adds the init task, created and initialised, and starts the        *)
(* scheduler: with no current task, the first timer interrupt schedules.   *)
Init ==
  /\ task_pool = {1}
  /\ state = [id \in Ids |-> IF id = 1 THEN "Ready" ELSE "NotInitialized"]
  /\ parent_id = [id \in Ids |-> None]
  /\ children = [id \in Ids |-> {}]
  /\ ready_queue = <<1>>
  /\ blocked_queue = {}
  /\ zombie_queue = {}
  /\ current_task_id = None
  /\ old_task_id = None
  /\ time_slice = 0
  /\ idle_id = None
  /\ next_id = 2
  /\ wait_queue = [w \in Wakers |-> <<>>]
  /\ wakeq = <<>>
  /\ pc = [id \in Ids |-> User]
  /\ cpu = "user"
  /\ timers = {}

-----------------------------------------------------------------------------
(* sys_clone.  The child starts in the state of its parent and is added to *)
(* the scheduler; clone_task may also fail before it links the two.        *)
CloneLinks ==
  /\ parent_id' = [parent_id EXCEPT ![next_id] = Me]
  /\ children' = [children EXCEPT ![Me] = @ \cup {next_id}]

Clone ==
  /\ Calls
  /\ next_id < MaxId
  /\ next_id' = next_id + 1
  /\ \/ /\ PoolHasRoom
        /\ CloneLinks
        /\ state' = [state EXCEPT ![next_id] = state[Me]]
        /\ AddTask(next_id)
        /\ UNCHANGED cpu
     \/ /\ ~PoolHasRoom
        /\ CloneLinks
        /\ cpu' = "full"
        /\ UNCHANGED <<state, task_pool, ready_queue>>
     \/ UNCHANGED <<parent_id, children, state, task_pool, ready_queue, cpu>>
  /\ UNCHANGED <<blocked_queue, zombie_queue, current_task_id, old_task_id,
                 time_slice, idle_id, wait_queue, wakeq, pc, timers>>

(* Task::exit: what becomes of a task that exits. *)
Orphaned(t) == parent_id[t] # None /\ parent_id[t] \notin task_pool

ExitState(t) ==
  IF parent_id[t] # None /\ parent_id[t] \in task_pool THEN "Zombie" ELSE "Terminated"

(* sys_exit.  Task::exit of an orphan returns before it calls schedule(),  *)
(* and the call is made again from user mode until the next tick.          *)
Exit ==
  /\ Calls
  /\ state' = [state EXCEPT ![Me] = ExitState(Me)]
  /\ pc' = [pc EXCEPT ![Me] = [op |-> "exited", arg |-> None]]
  /\ IF Orphaned(Me) THEN UNCHANGED <<cpu, old_task_id>> ELSE EnterRun
  /\ UNCHANGED <<task_pool, parent_id, ready_queue, blocked_queue, zombie_queue,
                 current_task_id, time_slice, idle_id, next_id, wait_queue,
                 wakeq, children, timers>>

(* Mutants of Reap: the parent keeps the child in its list; the status is  *)
(* not taken, and the call looks again when it is next dispatched.         *)
ReapForgetsToRemove(c) ==
  /\ state' = [state EXCEPT ![c] = "Terminated"]
  /\ UNCHANGED children
  /\ Return
  /\ UNCHANGED <<wait_queue, old_task_id>>

ReapLater(c) ==
  /\ pc' = [pc EXCEPT ![Me] = [op |-> "waitpid", arg |-> c]]
  /\ EnterRun
  /\ UNCHANGED <<state, children, wait_queue>>

(* Task::wait of a Zombie child: its status is collected, once. *)
Reap(c) ==
  /\ state' = [state EXCEPT ![c] = "Terminated"]
  /\ children' = [children EXCEPT ![Me] = @ \ {c}]
  /\ Return
  /\ UNCHANGED <<wait_queue, old_task_id>>

Fail ==
  /\ Return
  /\ UNCHANGED <<state, children, wait_queue, old_task_id>>

Block(w, op, arg) ==
  /\ Wait(w, [op |-> op, arg |-> arg])
  /\ UNCHANGED children

waitUnchanged == <<task_pool, parent_id, ready_queue, blocked_queue,
                   zombie_queue, current_task_id, time_slice, idle_id, next_id,
                   wakeq, timers>>

(* sys_waitpid(pid): reap the child, or wait for its waker and look again. *)
WaitPid(c) ==
  /\ InCall("waitpid", c)
  /\ \/ /\ c \in children[Me] /\ c \in task_pool /\ state[c] = "Zombie"
        /\ Reap(c)
     \/ /\ c \in children[Me] /\ c \in task_pool /\ state[c] # "Zombie"
        /\ Block(TaskWaker(c), "waitpid", c)
     \/ /\ ~(c \in children[Me] /\ c \in task_pool)
        /\ Fail
  /\ UNCHANGED waitUnchanged

(* sys_waitpid(-1): the children in order, up to the first that can be     *)
(* reaped or that has no task any more.                                    *)
Stops(c) == c \notin task_pool \/ state[c] = "Zombie"

WaitAny ==
  /\ InCall("waitany", None)
  /\ \/ \E c \in children[Me] :
          /\ Stops(c)
          /\ \A d \in children[Me] : d < c => ~Stops(d)
          /\ IF c \in task_pool THEN Reap(c) ELSE Fail
     \/ /\ \A c \in children[Me] : ~Stops(c)
        /\ Block(ParentWaker(Me), "waitany", None)
  /\ UNCHANGED waitUnchanged

(* Mutant of SleepWaker: a sleeper shares the waker of its children. *)
SleepWakerOfParent(t) == ParentWaker(t)

SleepWaker(t) == TaskWaker(t)

(* Task::sleep: a timer that will wake the task, then its own waker. *)
Sleep(ticks) ==
  /\ Calls
  /\ timers' = timers \cup {[task |-> Me, left |-> ticks]}
  /\ Block(SleepWaker(Me), "sleep", None)
  /\ UNCHANGED <<task_pool, parent_id, ready_queue, blocked_queue, zombie_queue,
                 current_task_id, time_slice, idle_id, next_id, wakeq>>

SleepReturns ==
  /\ At("resume")
  /\ pc[Me].op = "sleep"
  /\ Fail
  /\ UNCHANGED waitUnchanged

-----------------------------------------------------------------------------
(* timer::tick: one more tick, then the expired timers, then on_tick. *)
Tick ==
  /\ At("user")
  /\ timers' = {[tm EXCEPT !.left = @ - 1] : tm \in timers}
  /\ cpu' = "tick"
  /\ UNCHANGED <<task_pool, state, parent_id, ready_queue, blocked_queue,
                 zombie_queue, current_task_id, old_task_id, time_slice,
                 idle_id, next_id, wait_queue, wakeq, pc, children>>

Expired(tm) == tm.left <= 0

(* The handler of a sleep wakes the waker of its task. *)
OnTimerExpired(t) == Drain({SleepWaker(t)}, wait_queue[SleepWaker(t)])

(* check_software_timers pops the earliest timer; those that expire on the *)
(* same tick come in any order.                                            *)
FireTimer ==
  /\ At("tick")
  /\ \E tm \in timers :
       /\ Expired(tm)
       /\ \A other \in timers : tm.left <= other.left
       /\ timers' = timers \ {tm}
       /\ IF tm.task \in task_pool
          THEN OnTimerExpired(tm.task)
          ELSE UNCHANGED <<wakeq, wait_queue>>
  /\ UNCHANGED <<task_pool, state, parent_id, ready_queue, blocked_queue,
                 zombie_queue, current_task_id, old_task_id, time_slice,
                 idle_id, next_id, pc, cpu, children>>

TimersDone == \A tm \in timers : ~Expired(tm)

(* The tick ends with on_tick. *)
TickEnds ==
  /\ TimersDone
  /\ OnTick
  /\ UNCHANGED <<children, timers>>

-----------------------------------------------------------------------------
SchedulerStep == (Run \/ WakeTask) /\ UNCHANGED <<children, timers>>

SysCall ==
  \/ Clone
  \/ Exit
  \/ \E c \in Ids : WaitPid(c)
  \/ WaitAny
  \/ \E ticks \in 0 .. MaxSleep : Sleep(ticks)
  \/ SleepReturns

(* A panic prints and loops for ever. *)
Halted == cpu \in {"panic", "full"} /\ UNCHANGED vars

Next == SchedulerStep \/ SysCall \/ Tick \/ FireTimer \/ TickEnds \/ Halted

Spec == Init /\ [][Next]_vars

(* The kernel does not stop in the middle of a step, and the timer         *)
(* interrupt, armed again by every tick, stays pending until it is taken.  *)
(* No fairness is assumed of the calls of a task.                          *)
Kernel ==
  \/ SchedulerStep \/ FireTimer \/ TickEnds
  \/ cpu = "resume" /\ SysCall

Fairness == WF_vars(Kernel) /\ SF_vars(Tick)

FairSpec == Spec /\ Fairness
-----------------------------------------------------------------------------
TypeOK ==
  /\ task_pool \in SUBSET Ids
  /\ state \in [Ids -> TaskState]
  /\ parent_id \in [Ids -> Ids \cup {None}]
  /\ children \in [Ids -> SUBSET Ids]
  /\ ready_queue \in Seq(Ids)
  /\ blocked_queue \in SUBSET Ids
  /\ zombie_queue \in SUBSET Ids
  /\ current_task_id \in Ids \cup {None}
  /\ old_task_id \in Ids \cup {None}
  /\ time_slice \in {0, 1}
  /\ idle_id \in Ids \cup {None}
  /\ next_id \in 1 .. MaxId + 1
  /\ wait_queue \in [Wakers -> Seq(Ids)]
  /\ wakeq \in Seq(Ids)
  /\ pc \in [Ids -> Continuation]
  /\ cpu \in CpuModes
  /\ timers \in SUBSET Timer

NoDuplicates(s) == \A i, j \in 1 .. Len(s) : s[i] = s[j] => i = j

(* Every task of the pool is in exactly one of the three queues, once: a   *)
(* wake that comes before run has parked the task does not queue it twice  *)
(* (the comment in wake_task), and no task falls out of the queues.        *)
QueueDiscipline ==
  /\ NoDuplicates(ready_queue)
  /\ Elements(ready_queue) \cap blocked_queue = {}
  /\ Elements(ready_queue) \cap zombie_queue = {}
  /\ blocked_queue \cap zombie_queue = {}
  /\ Elements(ready_queue) \cup blocked_queue \cup zombie_queue = task_pool

(* The wakers in whose queues a task stands. *)
WaitsIn(t) == {w \in Wakers : t \in Elements(wait_queue[w])}

(* A task is Blocked exactly while it is in the wait queue of one waker or *)
(* is about to be woken from it, and a parked task is Blocked: no wake is  *)
(* lost between Waker::wait and the scheduler parking the task, and none   *)
(* is left over in a second queue.                                         *)
BlockedIsWaiting ==
  /\ \A w \in Wakers : NoDuplicates(wait_queue[w])
  /\ \A t \in Ids :
       /\ t \in Elements(wakeq) => WaitsIn(t) = {}
       /\ \A w1, w2 \in WaitsIn(t) : w1 = w2
       /\ state[t] = "Blocked" <=> t \in Elements(wakeq) \/ WaitsIn(t) # {}
       /\ t \in blocked_queue => state[t] = "Blocked"

(* A task blocked in sys_waitpid has not missed the exit it waits for: a   *)
(* child whose exit was announced, that is, that run has parked as a       *)
(* Zombie, has no waiter left, neither for it nor for any child.           *)
NoLostExit ==
  \A p, c \in Ids :
    (c \in children[p] /\ c \in zombie_queue) =>
      /\ p \notin Elements(wait_queue[TaskWaker(c)])
      /\ p \notin Elements(wait_queue[ParentWaker(p)])

(* A sleeping task is Blocked exactly until its own timer has fired: the   *)
(* waker it shares with waitpid on it neither ends the sleep early nor     *)
(* leaves it asleep without a timer.                                       *)
SleepsUntilTimer ==
  \A t \in task_pool :
    (pc[t].op = "sleep" /\ t \notin Elements(wakeq)) =>
      (state[t] = "Blocked" <=> \E tm \in timers : tm.task = t)

(* TaskLife implements ProcessTable.  A task is alive from the moment it   *)
(* is added to the scheduler to its exit; a child that was linked to its   *)
(* parent and never added (add_task panics) does not count.                *)
StatusOf(s) ==
  CASE s = "NotInitialized" -> "free"
    [] s = "Zombie"         -> "zombie"
    [] s = "Terminated"     -> "done"
    [] OTHER                -> "alive"

Started(t) == state[t] # "NotInitialized"

Table == INSTANCE ProcessTable WITH
           Pids   <- Ids,
           First  <- 1,
           status <- [t \in Ids |-> StatusOf(state[t])],
           kids   <- [t \in Ids |-> {c \in children[t] : Started(c)}]

(* The exit of a child with a living parent is kept until that parent, and *)
(* nobody else, collects it with waitpid, once.                            *)
KeepsExits == Table!Spec

(* Round robin: a task that can run is dispatched, unless the kernel       *)
(* panics first.                                                           *)
NoStarvation ==
  \A t \in Ids :
    (t \in task_pool /\ Runnable(t))
      ~> ((current_task_id = t /\ cpu \in {"user", "resume"}) \/ cpu \in {"panic", "full"})

(* A waitpid returns once the child it names is a Zombie, whether the      *)
(* child exits before, while or after the parent goes to sleep.            *)
WaitPidReturns ==
  \A p \in Ids :
    (pc[p].op = "waitpid" /\ state[pc[p].arg] = "Zombie")
      ~> (pc[p].op # "waitpid" \/ cpu \in {"panic", "full"})
=============================================================================
