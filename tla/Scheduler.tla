------------------------------ MODULE Scheduler ------------------------------
(***************************************************************************)
(* The task scheduler and the wakers: kernel/src/sched/scheduler.rs and    *)
(* kernel/src/sync/waker.rs.                                               *)
(*                                                                         *)
(* One CPU runs tasks (start_ap parks the others) and the kernel is not    *)
(* preemptive, so while `cpu' is not "user" exactly one kernel step is     *)
(* enabled and no interrupt is taken.  The loop of Scheduler::run is one   *)
(* step per iteration, and the loop of Waker::wake_all one step per woken  *)
(* task: `wakeq' holds the ids it has drained and not yet woken.           *)
(*                                                                         *)
(* This module has no next-state relation of its own; TaskLife composes    *)
(* its steps with the system calls.                                        *)
(***************************************************************************)
EXTENDS Integers, Sequences, FiniteSets

CONSTANTS
  MaxId,      (* bound on the ids TASK_ID hands out                          *)
  MaxTasks,   (* MAX_TASKS, the number of slots of the task pool             *)
  Devices     (* wakers that belong to devices rather than to tasks          *)

ASSUME SchedulerAssumption ==
  /\ MaxId \in Nat \ {0}
  /\ MaxTasks \in Nat \ {0}

Ids == 1 .. MaxId

(* Option::None for an Option<usize> that holds a task id; ids start at 1. *)
None == 0

TaskState == {"NotInitialized", "Ready", "Running", "Blocked", "Zombie", "Terminated"}

(* WAITPID_WAKERS has a waker for each task, PARENT_WAITPID_WAKERS another. *)
TaskWaker(id)   == <<"task", id>>
ParentWaker(id) == <<"parent", id>>
Wakers == ({"task", "parent"} \X Ids) \cup Devices

VARIABLES
  task_pool,        (* ids that TaskPool.id_to_index maps to a slot          *)
  state,            (* Task.state                                            *)
  parent_id,        (* Task.parent_id                                        *)
  ready_queue,
  blocked_queue,    (* only searched and removed from: its order is not kept *)
  zombie_queue,     (* only pushed to: likewise                              *)
  current_task_id,
  old_task_id,      (* the local old_current_task_id of run                  *)
  time_slice,       (* of the current task; run resets it on dispatch        *)
  idle_id,          (* the idle task, once run has created it                *)
  next_id,          (* TASK_ID                                               *)
  wait_queue,       (* Waker.wait_queue of every waker                       *)
  wakeq,            (* the drained task_ids of the wake_all in progress      *)
  pc,               (* where a task continues when it is dispatched          *)
  cpu               (* what the CPU is doing                                 *)

schedVars == <<task_pool, state, parent_id, ready_queue, blocked_queue,
               zombie_queue, current_task_id, old_task_id, time_slice,
               idle_id, next_id, wait_queue, wakeq, pc, cpu>>

(* "panic" is a panic of the scheduler itself, "full" that of add_task.    *)
CpuModes == {"user", "tick", "run", "resume", "panic", "full"}

User == [op |-> "user", arg |-> None]

Elements(s) == {s[i] : i \in 1 .. Len(s)}

Runnable(t) == state[t] \in {"Ready", "Running"}

-----------------------------------------------------------------------------
(* TaskPool::add_task fails when every slot is taken, and add_task panics. *)
PoolHasRoom == Cardinality(task_pool) < MaxTasks

(* Scheduler::add_task of the task `id', the next one TASK_ID gives. *)
AddTask(id) ==
  /\ task_pool' = task_pool \cup {id}
  /\ ready_queue' = Append(ready_queue, id)

(* The kernel runs something other than a wake_all loop. *)
At(mode) == cpu = mode /\ wakeq = <<>>

(* Call of schedule(): run starts from the current task. *)
EnterRun ==
  /\ cpu' = "run"
  /\ old_task_id' = current_task_id

(* Mutant of Wait: the task is not marked Blocked. *)
WaitNotBlocked(w, continuation) ==
  /\ wait_queue' = [wait_queue EXCEPT ![w] = Append(@, current_task_id)]
  /\ pc' = [pc EXCEPT ![current_task_id] = continuation]
  /\ UNCHANGED state
  /\ EnterRun

(* Waker::wait: the current task queues itself, is marked Blocked, yields. *)
Wait(w, continuation) ==
  LET t == current_task_id
  IN /\ wait_queue' = [wait_queue EXCEPT ![w] = Append(@, t)]
     /\ state' = [state EXCEPT ![t] = "Blocked"]
     /\ pc' = [pc EXCEPT ![t] = continuation]
     /\ EnterRun

(* Scheduler::wake_task of a task that run has parked. *)
Unpark(t) ==
  /\ t \in blocked_queue
  /\ blocked_queue' = blocked_queue \ {t}
  /\ IF t \in task_pool
     THEN /\ state' = [state EXCEPT ![t] = "Running"]
          /\ ready_queue' = Append(ready_queue, t)
     ELSE UNCHANGED <<state, ready_queue>>

(* Mutants of WakeEarly: the task is queued a second time; it is ignored.  *)
WakeEarlyQueuesAgain(t) ==
  /\ t \notin blocked_queue
  /\ state' = [state EXCEPT ![t] = "Running"]
  /\ ready_queue' = Append(ready_queue, t)
  /\ UNCHANGED blocked_queue

WakeEarlyIgnored(t) ==
  /\ t \notin blocked_queue
  /\ UNCHANGED <<state, blocked_queue, ready_queue>>

(* wake_task of a task that is Blocked and that run has not parked yet: it *)
(* is still in the ready queue.                                            *)
WakeEarly(t) ==
  /\ t \notin blocked_queue
  /\ state' = IF t \in task_pool /\ state[t] = "Blocked"
              THEN [state EXCEPT ![t] = "Running"]
              ELSE state
  /\ UNCHANGED <<blocked_queue, ready_queue>>

(* The next id of a wake_all loop. *)
WakeTask ==
  /\ cpu \notin {"panic", "full"}
  /\ wakeq # <<>>
  /\ wakeq' = Tail(wakeq)
  /\ Unpark(Head(wakeq)) \/ WakeEarly(Head(wakeq))
  /\ UNCHANGED <<task_pool, parent_id, zombie_queue, current_task_id,
                 old_task_id, time_slice, idle_id, next_id, wait_queue, pc, cpu>>

-----------------------------------------------------------------------------
(* The iterations of the loop of Scheduler::run, by what pop_front yields. *)

Popped == Head(ready_queue)
Rest   == Tail(ready_queue)
IsLast == Rest = <<>>

NewIdle(id) ==
  /\ idle_id' = id
  /\ state' = [state EXCEPT ![id] = "Ready"]

(* None: an idle kernel task is created, initialised and added. *)
RunCreatesIdle ==
  /\ At("run")
  /\ ready_queue = <<>>
  /\ next_id \in Ids
  /\ next_id' = next_id + 1
  /\ \/ /\ PoolHasRoom
        /\ AddTask(next_id)
        /\ NewIdle(next_id)
        /\ UNCHANGED cpu
     \/ /\ ~PoolHasRoom
        /\ cpu' = "full"
        /\ UNCHANGED <<task_pool, ready_queue, state, idle_id>>
  /\ UNCHANGED <<parent_id, blocked_queue, zombie_queue, current_task_id,
                 old_task_id, time_slice, wait_queue, wakeq, pc>>

(* wake_task_waiters and wake_parent_waiters: the queues are drained.      *)
Drain(ws, ids) ==
  /\ wakeq' = ids
  /\ wait_queue' = [w \in Wakers |-> IF w \in ws THEN <<>> ELSE wait_queue[w]]

(* Mutant of Announce: only one of the two wakers is woken. *)
AnnounceToTaskWaker(t) == Drain({TaskWaker(t)}, wait_queue[TaskWaker(t)])

Announce(t) ==
  LET p == parent_id[t]
  IN IF p = None
     THEN Drain({TaskWaker(t)}, wait_queue[TaskWaker(t)])
     ELSE Drain({TaskWaker(t), ParentWaker(p)},
                wait_queue[TaskWaker(t)] \o wait_queue[ParentWaker(p)])

(* Zombie: parked for good; whoever waits for it, or for any child of its  *)
(* parent, is woken.                                                       *)
RunParksZombie ==
  /\ At("run")
  /\ ready_queue # <<>>
  /\ Popped \in task_pool
  /\ state[Popped] = "Zombie"
  /\ ready_queue' = Rest
  /\ zombie_queue' = zombie_queue \cup {Popped}
  /\ current_task_id' = IF IsLast THEN None ELSE current_task_id
  /\ Announce(Popped)
  /\ UNCHANGED <<task_pool, state, parent_id, blocked_queue, old_task_id,
                 time_slice, idle_id, next_id, pc, cpu>>

(* Terminated, with more tasks queued: the slot is freed. *)
RunDropsTerminated ==
  /\ At("run")
  /\ ready_queue # <<>>
  /\ Popped \in task_pool
  /\ state[Popped] = "Terminated"
  /\ ~IsLast
  /\ ready_queue' = Rest
  /\ task_pool' = task_pool \ {Popped}
  /\ UNCHANGED <<state, parent_id, blocked_queue, zombie_queue, current_task_id,
                 old_task_id, time_slice, idle_id, next_id, wait_queue, wakeq,
                 pc, cpu>>

(* Blocked: moved to the blocked queue. *)
RunParksBlocked ==
  /\ At("run")
  /\ ready_queue # <<>>
  /\ Popped \in task_pool
  /\ state[Popped] = "Blocked"
  /\ ready_queue' = Rest
  /\ blocked_queue' = blocked_queue \cup {Popped}
  /\ current_task_id' = IF current_task_id = Popped THEN None ELSE current_task_id
  /\ UNCHANGED <<task_pool, state, parent_id, zombie_queue, old_task_id,
                 time_slice, idle_id, next_id, wait_queue, wakeq, pc, cpu>>

(* The three ways an iteration panics. *)
RunPanics ==
  /\ At("run")
  /\ ready_queue # <<>>
  /\ \/ Popped \notin task_pool
     \/ state[Popped] = "NotInitialized"
     \/ state[Popped] = "Terminated" /\ IsLast
  /\ cpu' = "panic"
  /\ UNCHANGED <<task_pool, state, parent_id, ready_queue, blocked_queue,
                 zombie_queue, current_task_id, old_task_id, time_slice,
                 idle_id, next_id, wait_queue, wakeq, pc>>

(* schedule, after run: the state of the previous task is saved, which     *)
(* unwraps its entry of the pool, and the next one goes on where it was.   *)
SwitchTo(t) ==
  cpu' = IF old_task_id \notin {None, t} /\ old_task_id \notin task_pool
         THEN "panic"
         ELSE IF pc[t].op = "user" THEN "user" ELSE "resume"

(* Mutant of Requeued: the task stays at the front of the queue. *)
RequeuedInFront(t) == <<t>> \o Rest

Requeued(t) == Append(Rest, t)

(* Ready or Running: dispatched, and queued again behind all others. *)
RunDispatches ==
  /\ At("run")
  /\ ready_queue # <<>>
  /\ Popped \in task_pool
  /\ Runnable(Popped)
  /\ ready_queue' = Requeued(Popped)
  /\ state' = IF IsLast THEN [state EXCEPT ![Popped] = "Running"] ELSE state
  /\ current_task_id' = Popped
  /\ time_slice' = 1
  /\ SwitchTo(Popped)
  /\ old_task_id' = None
  /\ UNCHANGED <<task_pool, parent_id, blocked_queue, zombie_queue, idle_id,
                 next_id, wait_queue, wakeq, pc>>

Run ==
  \/ RunCreatesIdle
  \/ RunParksZombie
  \/ RunDropsTerminated
  \/ RunParksBlocked
  \/ RunPanics
  \/ RunDispatches

-----------------------------------------------------------------------------
(* Scheduler::on_tick, the last part of a timer interrupt: schedule() when *)
(* the time slice is used up, or when there is no current task.            *)
OnTick ==
  /\ At("tick")
  /\ time_slice' = IF current_task_id \in task_pool /\ time_slice > 0
                   THEN time_slice - 1 ELSE time_slice
  /\ IF current_task_id = None \/ (current_task_id \in task_pool /\ time_slice' = 0)
     THEN EnterRun
     ELSE cpu' = "user" /\ UNCHANGED old_task_id
  /\ UNCHANGED <<task_pool, state, parent_id, ready_queue, blocked_queue,
                 zombie_queue, current_task_id, idle_id, next_id, wait_queue,
                 wakeq, pc>>

-----------------------------------------------------------------------------
(* The current task enters a system call, or goes on with it once woken. *)
Me == current_task_id

Calls ==
  /\ At("user")
  /\ Me \notin {None, idle_id}
  /\ pc[Me] = User

InCall(op, arg) ==
  \/ Calls
  \/ At("resume") /\ pc[Me] = [op |-> op, arg |-> arg]

Return ==
  /\ cpu' = "user"
  /\ pc' = [pc EXCEPT ![Me] = User]

(* The rest of the machine when a call runs to its end. *)
CallUnchanged == <<task_pool, parent_id, ready_queue, blocked_queue,
                   zombie_queue, current_task_id, time_slice, idle_id, next_id>>

(* A kernel that has started tasks 1 .. n; start_scheduler arms the timer, *)
(* whose first interrupt finds no current task and schedules.              *)
StartWith(n) ==
  /\ task_pool = 1 .. n
  /\ state = [id \in Ids |-> IF id <= n THEN "Ready" ELSE "NotInitialized"]
  /\ parent_id = [id \in Ids |-> None]
  /\ ready_queue = [i \in 1 .. n |-> i]
  /\ blocked_queue = {}
  /\ zombie_queue = {}
  /\ current_task_id = None
  /\ old_task_id = None
  /\ time_slice = 0
  /\ idle_id = None
  /\ next_id = n + 1
  /\ wait_queue = [w \in Wakers |-> <<>>]
  /\ wakeq = <<>>
  /\ pc = [id \in Ids |-> User]
  /\ cpu = "user"
=============================================================================
