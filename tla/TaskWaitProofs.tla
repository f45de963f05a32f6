---------------------------- MODULE TaskWaitProofs ----------------------------
(***************************************************************************)
(* Theorems about TaskLife: no wake and no exit is lost, and the life of   *)
(* tasks is that of ProcessTable, for every number of tasks, of pool slots *)
(* and of ticks.                                                           *)
(***************************************************************************)
EXTENDS TaskLifeProofs

-----------------------------------------------------------------------------
Alive(t)  == state[t] \in {"Ready", "Running", "Blocked"}
Exited(t) == state[t] \in {"Zombie", "Terminated"}

(* A task is in the kernel or in user mode, on the CPU. *)
Executing == cpu \in {"user", "resume", "tick"} /\ current_task_id # None

(* The life of a task.  Ids are handed out in order; a task that can run   *)
(* or wait is in the pool; a task that has exited does not run again; the  *)
(* task on the CPU is queued behind the others and can run, unless it has  *)
(* just exited; a child knows its parent; a parked child is a Zombie until *)
(* its parent has collected it.                                            *)
Unborn       == \A t \in Ids : t >= next_id => state[t] = "NotInitialized"
AliveInPool  == \A t \in Ids : Alive(t) => t \in task_pool
ExitIsFinal  == \A t \in Ids : pc[t].op = "exited" => Exited(t)
OnCpu        == Executing => /\ Me \in Elements(ready_queue)
                             /\ pc[Me].op # "exited" => Runnable(Me)
Family       == \A p, c \in Ids : c \in children[p] => parent_id[c] = p /\ c < next_id
ParkedZombie == \A p, c \in Ids : c \in children[p] /\ c \in zombie_queue => state[c] = "Zombie"

LifeInv == Unborn /\ AliveInPool /\ ExitIsFinal /\ OnCpu /\ Family /\ ParkedZombie

WaitInv ==
  /\ BlockedIsWaiting
  /\ NoDuplicates(wakeq)

SleepInv ==
  /\ \A tm \in timers : /\ pc[tm.task].op = "sleep"
                        /\ tm.task \in Elements(wait_queue[SleepWaker(tm.task)])
  /\ \A tm1, tm2 \in timers : tm1.task = tm2.task => tm1 = tm2
  /\ \A t \in Ids :
       (pc[t].op = "sleep" /\ state[t] = "Blocked" /\ t \notin Elements(wakeq)) =>
         \E tm \in timers : tm.task = t

-----------------------------------------------------------------------------
(* What a waitpid, or a sleep that is over, does to the task that calls. *)
Reaps(c) ==
  /\ c \in children[Me] /\ c \in task_pool /\ state[c] = "Zombie"
  /\ Reap(c)

WaitsForChild(c) ==
  /\ c \in children[Me] /\ c \in task_pool /\ state[c] # "Zombie"
  /\ Block(TaskWaker(c), "waitpid", c)

WaitsForAny ==
  /\ \A c \in children[Me] : ~Stops(c)
  /\ Block(ParentWaker(Me), "waitany", None)

Caller ==
  /\ Me \in Ids /\ Executing /\ cpu \in {"user", "resume"}
  /\ wakeq = <<>>
  /\ pc[Me].op # "exited"

(* The cases of the calls that wait. *)
LEMMA WaitCases ==
  ASSUME TypeInv, (\E c \in Ids : WaitPid(c)) \/ WaitAny \/ SleepReturns
  PROVE  /\ Caller
         /\ UNCHANGED waitUnchanged
         /\ \/ \E c \in Ids : Reaps(c)
            \/ \E c \in Ids : WaitsForChild(c)
            \/ WaitsForAny
            \/ Fail
<1> USE DEF Caller, Executing, At, Me
<1>1. CASE \E c \in Ids : WaitPid(c)
  BY <1>1, Typing DEF TypeInv, TypeOK, WaitPid, InCall, Calls, User, Reaps, WaitsForChild
<1>2. CASE WaitAny
  BY <1>2, Typing DEF TypeInv, TypeOK, WaitAny, InCall, Calls, User, Reaps, WaitsForAny, Stops
<1>3. CASE SleepReturns
  BY <1>3, Typing DEF TypeInv, TypeOK, SleepReturns
<1>4. QED BY <1>1, <1>2, <1>3

(* Whoever makes a call from user mode. *)
LEMMA CallerCalls ==
  ASSUME TypeInv, Calls
  PROVE  Caller /\ cpu = "user"
  BY Typing DEF TypeInv, TypeOK, Calls, Caller, Executing, At, Me, User

(* Whoever calls can run, is in the ready queue and is not parked. *)
LEMMA CallerRuns ==
  ASSUME QueueInv, LifeInv, Caller
  PROVE  /\ Me \in Ids /\ Runnable(Me)
         /\ Me \in task_pool /\ Me \notin zombie_queue /\ Me \notin blocked_queue
  BY DEF Caller, LifeInv, OnCpu, QueueInv, QueueDiscipline

(* A step of a wake_all loop makes one Blocked task runnable. *)
LEMMA WakeEffect ==
  ASSUME TypeInv, QueueInv, LifeInv, WaitInv, WakeTask, NEW h, h = Head(wakeq)
  PROVE  /\ h \in Ids /\ h \in task_pool /\ state[h] = "Blocked"
         /\ state' = [state EXCEPT ![h] = "Running"]
         /\ blocked_queue' = blocked_queue \ {h}
         /\ Elements(ready_queue) \subseteq Elements(ready_queue')
         /\ Elements(wakeq) = Elements(wakeq') \cup {h}
         /\ h \notin Elements(wakeq')
         /\ NoDuplicates(wakeq')
<1>1. wakeq \in Seq(Ids) /\ wakeq # <<>> /\ wakeq' = Tail(wakeq) /\ NoDuplicates(wakeq)
  BY DEF TypeInv, TypeOK, WakeTask, WaitInv
<1>2. /\ h \in Ids
      /\ Elements(wakeq) = Elements(wakeq') \cup {h}
      /\ h \notin Elements(wakeq')
      /\ NoDuplicates(wakeq')
  BY <1>1, ElementsTail, NoDuplicatesTail
<1>3. state[h] = "Blocked" /\ h \in task_pool
  BY <1>2 DEF WaitInv, BlockedIsWaiting, LifeInv, AliveInPool, Alive
<1>4. ready_queue \in Seq(Ids)
  BY DEF TypeInv, TypeOK
<1>5. /\ state' = [state EXCEPT ![h] = "Running"]
      /\ blocked_queue' = blocked_queue \ {h}
      /\ ready_queue' \in {ready_queue, Append(ready_queue, h)}
  BY <1>3 DEF WakeTask, Unpark, WakeEarly
<1>6. Elements(ready_queue) \subseteq Elements(ready_queue')
  <2>1. Elements(Append(ready_queue, h)) = Elements(ready_queue) \cup {h}
    BY <1>2, <1>4, ElementsAppend
  <2>2. QED BY <1>5, <2>1, Zenon
<1>7. QED BY <1>2, <1>3, <1>5, <1>6

-----------------------------------------------------------------------------
(* The life of a task, step by step. *)
LEMMA LifeInvStep == TypeInv /\ QueueInv /\ LifeInv /\ WaitInv /\ [Next]_vars => LifeInv'
<1> SUFFICES ASSUME TypeInv, QueueInv, LifeInv, WaitInv, [Next]_vars
             PROVE  LifeInv'
  OBVIOUS
<1> DEFINE Queued == Elements(ready_queue)
<1>t. /\ state \in [Ids -> TaskState] /\ pc \in [Ids -> Continuation]
      /\ parent_id \in [Ids -> Ids \cup {None}] /\ children \in [Ids -> SUBSET Ids]
      /\ task_pool \subseteq Ids /\ zombie_queue \subseteq task_pool
      /\ next_id \in Int /\ Ids \subseteq Int
      /\ \A t \in task_pool : t < next_id
  BY DEF TypeInv, TypeOK, Ids, QueueInv, QueueDiscipline
<1> USE DEF LifeInv, Unborn, AliveInPool, ExitIsFinal, OnCpu, Family, ParkedZombie,
            Executing, Alive, Exited, Runnable, Me
<1>1. CASE RunCreatesIdle /\ UNCHANGED <<children, timers>>
  BY <1>1, <1>t DEF RunCreatesIdle, At, AddTask, NewIdle
<1>2. CASE RunParksZombie /\ UNCHANGED <<children, timers>>
  BY <1>2, <1>t, Zenon DEF RunParksZombie, At
<1>3. CASE RunDropsTerminated /\ UNCHANGED <<children, timers>>
  BY <1>3, <1>t DEF RunDropsTerminated, At
<1>4. CASE RunParksBlocked /\ UNCHANGED <<children, timers>>
  BY <1>4, <1>t DEF RunParksBlocked, At
<1>5. CASE RunPanics /\ UNCHANGED <<children, timers>>
  BY <1>5, <1>t DEF RunPanics, At
<1>6. CASE RunDispatches /\ UNCHANGED <<children, timers>>
  <2>1. /\ Popped \in Ids /\ Rest \in Seq(Ids) /\ ready_queue' = Append(Rest, Popped)
        /\ Popped \in task_pool /\ Popped \notin zombie_queue
    BY <1>6, QueuePop DEF RunDispatches, Requeued
  <2>2. Popped \in Elements(ready_queue')
    BY <2>1, ElementsAppend
  <2>3. QED BY <1>6, <1>t, <2>1, <2>2 DEF RunDispatches, At
<1>7. CASE WakeTask /\ UNCHANGED <<children, timers>>
  <2> DEFINE h == Head(wakeq)
  <2>1. /\ h \in Ids /\ h \in task_pool /\ state[h] = "Blocked"
        /\ state' = [state EXCEPT ![h] = "Running"]
        /\ Elements(ready_queue) \subseteq Elements(ready_queue')
    BY <1>7, WakeEffect
  <2> HIDE DEF h
  <2>2. QED BY <1>7, <1>t, <2>1 DEF WakeTask
<1>8. CASE Clone
  <2>1. Caller /\ cpu = "user"
    BY <1>8, CallerCalls DEF Clone
  <2>2. /\ Me \in Ids /\ Runnable(Me) /\ next_id \in Ids
    BY <1>8, <1>t, <2>1, CallerRuns, SchedulerAssumption DEF Clone, TypeInv, TypeOK, Ids
  <2>3. /\ next_id' = next_id + 1
        /\ UNCHANGED <<zombie_queue, current_task_id, pc>>
    BY <1>8 DEF Clone
  <2>4. ASSUME AddTask(next_id), CloneLinks, cpu' = cpu,
               state' = [state EXCEPT ![next_id] = state[Me]]
        PROVE  LifeInv'
    <3>1. Elements(ready_queue') = Elements(ready_queue) \cup {next_id}
      <4>1. ready_queue \in Seq(Ids) /\ ready_queue' = Append(ready_queue, next_id)
        BY <2>4 DEF TypeInv, TypeOK, AddTask
      <4>2. QED BY <2>2, <4>1, ElementsAppend
    <3>2. Unborn' /\ AliveInPool' /\ ExitIsFinal' /\ OnCpu'
      BY <1>t, <2>1, <2>2, <2>3, <2>4, <3>1 DEF AddTask
    <3>3. Family' /\ ParkedZombie'
      BY <1>t, <2>2, <2>3, <2>4 DEF CloneLinks
    <3>4. QED BY <3>2, <3>3
  <2>5. ASSUME CloneLinks, cpu' = "full", UNCHANGED <<state, task_pool, ready_queue>>
        PROVE  LifeInv'
    <3>1. Unborn' /\ AliveInPool' /\ ExitIsFinal' /\ OnCpu'
      BY <1>t, <2>3, <2>5
    <3>2. Family' /\ ParkedZombie'
      BY <1>t, <2>2, <2>3, <2>5 DEF CloneLinks
    <3>3. QED BY <3>1, <3>2
  <2>6. CASE UNCHANGED <<parent_id, children, state, task_pool, ready_queue, cpu>>
    BY <1>t, <2>1, <2>3, <2>6
  <2>7. QED BY <1>8, <2>4, <2>5, <2>6 DEF Clone
<1>9. CASE Exit
  <2>1. Caller /\ cpu = "user" /\ Me \in Ids /\ Me \notin zombie_queue
    BY <1>9, CallerCalls, CallerRuns DEF Exit
  <2>2. /\ ExitState(Me) \in {"Zombie", "Terminated"}
        /\ state' = [state EXCEPT ![Me] = ExitState(Me)]
        /\ pc' = [pc EXCEPT ![Me] = [op |-> "exited", arg |-> None]]
        /\ cpu' \in {cpu, "run"}
        /\ UNCHANGED <<task_pool, parent_id, ready_queue, zombie_queue, current_task_id,
                       next_id, children>>
    BY <1>9 DEF Exit, ExitState, EnterRun
  <2>3. state'[Me] \in {"Zombie", "Terminated"} /\ \A t \in Ids \ {Me} : state'[t] = state[t]
    BY <1>t, <2>1, <2>2
  <2>4. pc'[Me].op = "exited" /\ \A t \in Ids \ {Me} : pc'[t] = pc[t]
    BY <1>t, <2>1, <2>2
  <2>5. Unborn' /\ AliveInPool'
    BY <1>t, <2>1, <2>2, <2>3, CallerRuns
  <2>6. ExitIsFinal' /\ OnCpu'
    BY <1>t, <2>1, <2>2, <2>3, <2>4
  <2>7. Family' /\ ParkedZombie'
    BY <1>t, <2>1, <2>2, <2>3
  <2>8. QED BY <2>5, <2>6, <2>7
<1>10. CASE (\E c \in Ids : WaitPid(c)) \/ WaitAny \/ SleepReturns
  <2>1. /\ Caller /\ UNCHANGED waitUnchanged
        /\ Me \in Ids /\ Runnable(Me) /\ Me \in task_pool /\ Me \notin zombie_queue
    BY <1>10, WaitCases, CallerRuns, Zenon
  <2>2. ASSUME NEW c \in Ids, Reaps(c)
        PROVE  LifeInv'
    BY <1>t, <2>1, <2>2 DEF Reaps, Reap, Return, User, waitUnchanged, Caller
  <2>3. ASSUME NEW w, NEW op \in {"waitpid", "waitany"}, NEW arg, Block(w, op, arg)
        PROVE  LifeInv'
    BY <1>t, <2>1, <2>3 DEF Block, Wait, EnterRun, waitUnchanged
  <2>4. CASE Fail
    BY <1>t, <2>1, <2>4 DEF Fail, Return, User, waitUnchanged, Caller
  <2>5. QED BY <1>10, <2>2, <2>3, <2>4, WaitCases, Zenon DEF WaitsForChild, WaitsForAny
<1>11. ASSUME NEW ticks \in 0 .. MaxSleep, Sleep(ticks)
       PROVE  LifeInv'
  <2>1. Caller /\ Me \in Ids /\ Me \in task_pool /\ Me \notin zombie_queue
    BY <1>11, CallerCalls, CallerRuns, Zenon DEF Sleep
  <2>2. QED BY <1>11, <1>t, <2>1 DEF Sleep, Block, Wait, EnterRun
<1>12. CASE Tick \/ FireTimer \/ TickEnds \/ UNCHANGED vars
  BY <1>12, <1>t DEF Tick, FireTimer, TickEnds, OnTick, EnterRun, At, vars, schedVars
<1>13. QED
  BY <1>1, <1>2, <1>3, <1>4, <1>5, <1>6, <1>7, <1>8, <1>9, <1>10, <1>11, <1>12, Zenon
  DEF Next, SchedulerStep, Run, SysCall, Halted

-----------------------------------------------------------------------------
(* Waiting, step by step. *)

(* BlockedIsWaiting without the sets of wakers. *)
LEMMA WaitInvDef ==
  WaitInv <=>
    /\ NoDuplicates(wakeq)
    /\ \A w \in Wakers : NoDuplicates(wait_queue[w])
    /\ \A t \in Elements(wakeq), w \in Wakers : t \in Ids => t \notin Elements(wait_queue[w])
    /\ \A t \in Ids, w1, w2 \in Wakers :
         t \in Elements(wait_queue[w1]) /\ t \in Elements(wait_queue[w2]) => w1 = w2
    /\ \A t \in Ids :
         state[t] = "Blocked" <=>
           t \in Elements(wakeq) \/ \E w \in Wakers : t \in Elements(wait_queue[w])
    /\ \A t \in Ids : t \in blocked_queue => state[t] = "Blocked"
  BY DEF WaitInv, BlockedIsWaiting, WaitsIn

(* A step that blocks and wakes nobody. *)
LEMMA WaitFrame ==
  ASSUME WaitInv, UNCHANGED <<wait_queue, wakeq>>,
         \A t \in Ids : state'[t] = "Blocked" <=> state[t] = "Blocked",
         \A t \in Ids : t \in blocked_queue' => state[t] = "Blocked"
  PROVE  WaitInv'
  BY WaitInvDef DEF WaitInv, BlockedIsWaiting, WaitsIn

(* Waker::wait of a task that waits nowhere. *)
LEMMA WaitBlock ==
  ASSUME TypeInv, WaitInv, NEW w \in Wakers, NEW cont, Wait(w, cont),
         Me \in Ids, state[Me] # "Blocked", UNCHANGED <<wakeq, blocked_queue>>
  PROVE  WaitInv'
<1>1. /\ wait_queue \in [Wakers -> Seq(Ids)] /\ state \in [Ids -> TaskState]
      /\ wait_queue' = [wait_queue EXCEPT ![w] = Append(@, Me)]
      /\ state' = [state EXCEPT ![Me] = "Blocked"]
  BY DEF TypeInv, TypeOK, Wait, Me
<1>2. \A v \in Wakers : Me \notin Elements(wait_queue[v])
  BY WaitInvDef
<1>3. /\ Elements(wait_queue'[w]) = Elements(wait_queue[w]) \cup {Me}
      /\ NoDuplicates(wait_queue'[w])
  <2>1. wait_queue[w] \in Seq(Ids) /\ wait_queue'[w] = Append(wait_queue[w], Me)
    BY <1>1
  <2>2. NoDuplicates(wait_queue[w]) /\ Me \notin Elements(wait_queue[w])
    BY <1>2, WaitInvDef
  <2>3. QED BY <2>1, <2>2, ElementsAppend, NoDuplicatesAppend
<1>4. \A v \in Wakers \ {w} : wait_queue'[v] = wait_queue[v]
  BY <1>1
<1>5. Me \notin Elements(wakeq)
  BY WaitInvDef
<1>6. \A v \in Wakers : NoDuplicates(wait_queue'[v])
  BY <1>3, <1>4, WaitInvDef
<1>7. \A t \in Ids, v \in Wakers :
        t \in Elements(wait_queue'[v]) <=> t \in Elements(wait_queue[v]) \/ (t = Me /\ v = w)
  BY <1>3, <1>4
<1>8. \A t \in Ids : state'[t] = IF t = Me THEN "Blocked" ELSE state[t]
  BY <1>1
<1>9. QED BY <1>2, <1>5, <1>6, <1>7, <1>8, WaitInvDef DEF WaitInv, BlockedIsWaiting, WaitsIn

(* wake_all drains the queues of some wakers. *)
LEMMA WaitDrain ==
  ASSUME WaitInv, wakeq = <<>>, NEW ws \in SUBSET Wakers, NEW ids,
         NoDuplicates(ids),
         \A t \in Ids : t \in Elements(ids) <=> \E w \in ws : t \in Elements(wait_queue[w]),
         Drain(ws, ids), UNCHANGED <<state, blocked_queue>>
  PROVE  WaitInv'
<1>1. /\ wakeq' = ids
      /\ \A w \in Wakers : wait_queue'[w] = IF w \in ws THEN <<>> ELSE wait_queue[w]
  BY DEF Drain
<1>2. \A w \in Wakers : NoDuplicates(wait_queue'[w])
  BY <1>1, EmptyQueue, WaitInvDef
<1>3. \A t \in Ids, w \in Wakers :
        t \in Elements(wait_queue'[w]) <=> w \notin ws /\ t \in Elements(wait_queue[w])
  BY <1>1, EmptyQueue
<1>4. \A t \in Ids : t \notin Elements(wakeq)
  BY EmptyQueue
<1>5. QED BY <1>1, <1>2, <1>3, <1>4, WaitInvDef, Zenon DEF WaitInv, BlockedIsWaiting, WaitsIn

(* The exit of t drains its own waker and that of its parent. *)
LEMMA AnnounceEffect ==
  ASSUME TypeInv, WaitInv, NEW t \in Ids, Announce(t)
  PROVE  \E ws \in SUBSET Wakers, ids \in Seq(Ids) :
           /\ TaskWaker(t) \in ws
           /\ parent_id[t] # None => ParentWaker(parent_id[t]) \in ws
           /\ \A w \in ws : w = TaskWaker(t) \/ \E p \in Ids : w = ParentWaker(p)
           /\ Drain(ws, ids)
           /\ NoDuplicates(ids)
           /\ \A u \in Ids : u \in Elements(ids) <=> \E w \in ws : u \in Elements(wait_queue[w])
<1> DEFINE p == parent_id[t]
           tw == TaskWaker(t)
           pw == ParentWaker(p)
<1>1. /\ tw \in Wakers /\ wait_queue[tw] \in Seq(Ids) /\ NoDuplicates(wait_queue[tw])
      /\ p \in Ids \cup {None}
  BY Typing, WaitInvDef DEF TypeInv, TypeOK
<1>2. CASE p = None
  <2>1. Drain({tw}, wait_queue[tw])
    BY <1>2 DEF Announce
  <2>2. QED BY <1>1, <1>2, <2>1, Zenon
<1>3. CASE p # None
  <2>1. /\ pw \in Wakers /\ wait_queue[pw] \in Seq(Ids) /\ NoDuplicates(wait_queue[pw])
        /\ tw # pw /\ p \in Ids
    BY <1>1, <1>3, Typing, WaitInvDef, Zenon DEF TypeInv, TypeOK, TaskWaker, ParentWaker
  <2>2. Drain({tw, pw}, wait_queue[tw] \o wait_queue[pw])
    BY <1>3 DEF Announce
  <2>3. \A u \in Ids : ~(u \in Elements(wait_queue[tw]) /\ u \in Elements(wait_queue[pw]))
    BY <1>1, <2>1, WaitInvDef
  <2>4. Elements(wait_queue[tw]) \subseteq Ids
    BY <1>1 DEF Elements
  <2> HIDE DEF tw, pw
  <2>5. /\ wait_queue[tw] \o wait_queue[pw] \in Seq(Ids)
        /\ Elements(wait_queue[tw] \o wait_queue[pw])
             = Elements(wait_queue[tw]) \cup Elements(wait_queue[pw])
        /\ NoDuplicates(wait_queue[tw] \o wait_queue[pw])
    <3>1. Elements(wait_queue[tw]) \cap Elements(wait_queue[pw]) = {}
      BY <2>3, <2>4
    <3>2. QED BY <1>1, <2>1, <3>1, NoDuplicatesConcat
  <2>6. {tw, pw} \in SUBSET Wakers /\ tw \in {tw, pw} /\ pw \in {tw, pw}
    BY <1>1, <2>1
  <2>7. \A w \in {tw, pw} : w = TaskWaker(t) \/ \E q \in Ids : w = ParentWaker(q)
    BY <2>1 DEF tw, pw
  <2>8. \A u \in Ids : u \in Elements(wait_queue[tw] \o wait_queue[pw])
                         <=> \E w \in {tw, pw} : u \in Elements(wait_queue[w])
    BY <2>5
  <2>9. tw = TaskWaker(t) /\ pw = ParentWaker(parent_id[t])
    BY DEF tw, pw
  <2> {tw, pw} \in SUBSET Wakers /\ wait_queue[tw] \o wait_queue[pw] \in Seq(Ids)
    BY <2>5, <2>6
  <2> WITNESS {tw, pw} \in SUBSET Wakers, wait_queue[tw] \o wait_queue[pw] \in Seq(Ids)
  <2>10. QED BY <2>2, <2>5, <2>6, <2>7, <2>8, <2>9, Zenon
<1>4. QED BY <1>2, <1>3

(* The handler of a sleep drains one waker. *)
LEMMA TimerEffect ==
  ASSUME TypeInv, QueueInv, LifeInv, WaitInv, FireTimer
  PROVE  \E tm \in timers :
           /\ tm.task \in Ids /\ timers' = timers \ {tm}
           /\ \/ tm.task \in task_pool /\ OnTimerExpired(tm.task)
              \/ tm.task \notin task_pool /\ UNCHANGED <<wakeq, wait_queue>>
  BY DEF FireTimer, TypeInv, TypeOK, Timer

(* Every step of the kernel keeps each blocked task where a wake reaches it. *)
LEMMA WaitInvStep == TypeInv /\ QueueInv /\ LifeInv /\ WaitInv /\ [Next]_vars => WaitInv'
<1> SUFFICES ASSUME TypeInv, QueueInv, LifeInv, WaitInv, [Next]_vars
             PROVE  WaitInv'
  OBVIOUS
<1>t. /\ state \in [Ids -> TaskState]
      /\ \A t \in blocked_queue : t \in Ids /\ state[t] = "Blocked"
  BY WaitInvDef DEF TypeInv, TypeOK
<1>1. CASE RunCreatesIdle
  <2>1. next_id \in Ids /\ state[next_id] = "NotInitialized"
    BY <1>1 DEF RunCreatesIdle, LifeInv, Unborn, Ids
  <2>2. QED BY <1>1, <1>t, <2>1, WaitFrame DEF RunCreatesIdle, NewIdle
<1>2. CASE RunParksZombie
  <2>1. /\ Popped \in Ids /\ Announce(Popped) /\ wakeq = <<>>
        /\ UNCHANGED <<state, blocked_queue>>
    BY <1>2, QueuePop DEF RunParksZombie, At
  <2>2. QED BY <2>1, AnnounceEffect, WaitDrain
<1>3. CASE RunParksBlocked
  BY <1>3, <1>t, WaitFrame DEF RunParksBlocked
<1>4. CASE RunDispatches
  <2>1. Popped \in Ids /\ Runnable(Popped)
    BY <1>4, QueuePop DEF RunDispatches
  <2>2. QED BY <1>4, <1>t, <2>1, WaitFrame DEF RunDispatches, Runnable
<1>5. CASE WakeTask
  <2> DEFINE h == Head(wakeq)
  <2>1. /\ h \in Ids
        /\ state' = [state EXCEPT ![h] = "Running"]
        /\ blocked_queue' = blocked_queue \ {h}
        /\ Elements(wakeq) = Elements(wakeq') \cup {h}
        /\ h \notin Elements(wakeq')
        /\ NoDuplicates(wakeq')
    BY <1>5, WakeEffect
  <2>2. wait_queue' = wait_queue
    BY <1>5 DEF WakeTask
  <2> HIDE DEF h
  <2>3. \A t \in Ids : state'[t] = IF t = h THEN "Running" ELSE state[t]
    BY <1>t, <2>1
  <2>4. QED BY <2>1, <2>2, <2>3, WaitInvDef DEF WaitInv, BlockedIsWaiting, WaitsIn
<1>6. CASE Clone
  <2>1. Me \in Ids /\ Runnable(Me) /\ next_id \in Ids /\ state[next_id] = "NotInitialized"
    BY <1>6, CallerCalls, CallerRuns, SchedulerAssumption
    DEF Clone, LifeInv, Unborn, Ids, TypeInv, TypeOK
  <2>2. \/ state' = [state EXCEPT ![next_id] = state[Me]]
        \/ state' = state
    BY <1>6 DEF Clone
  <2>3. \A t \in Ids : state'[t] = "Blocked" <=> state[t] = "Blocked"
    BY <1>t, <2>1, <2>2 DEF Runnable
  <2>4. QED BY <1>6, <1>t, <2>3, WaitFrame DEF Clone
<1>7. CASE Exit
  <2>1. Me \in Ids /\ Runnable(Me)
    BY <1>7, CallerCalls, CallerRuns DEF Exit
  <2>2. ExitState(Me) # "Blocked" /\ state' = [state EXCEPT ![Me] = ExitState(Me)]
    BY <1>7 DEF Exit, ExitState
  <2>3. \A t \in Ids : state'[t] = "Blocked" <=> state[t] = "Blocked"
    BY <1>t, <2>1, <2>2 DEF Runnable
  <2>4. QED BY <1>7, <1>t, <2>3, WaitFrame DEF Exit
<1>8. CASE (\E c \in Ids : WaitPid(c)) \/ WaitAny \/ SleepReturns
  <2>1. UNCHANGED <<blocked_queue, wakeq>> /\ Me \in Ids /\ state[Me] # "Blocked"
    BY <1>8, WaitCases, CallerRuns DEF waitUnchanged, Runnable
  <2>2. ASSUME NEW c \in Ids, Reaps(c)
        PROVE  WaitInv'
    BY <1>t, <2>1, <2>2, WaitFrame DEF Reaps, Reap
  <2>3. CASE Fail
    BY <1>t, <2>1, <2>3, WaitFrame DEF Fail
  <2>4. ASSUME NEW w \in Wakers, NEW op, NEW arg, Block(w, op, arg)
        PROVE  WaitInv'
    BY <2>1, <2>4, WaitBlock DEF Block
  <2>5. QED BY <1>8, <2>1, <2>2, <2>3, <2>4, WaitCases, Typing, Zenon DEF WaitsForChild, WaitsForAny
<1>9. ASSUME NEW ticks \in 0 .. MaxSleep, Sleep(ticks)
      PROVE  WaitInv'
  <2>1. Me \in Ids /\ state[Me] # "Blocked" /\ SleepWaker(Me) \in Wakers
    BY <1>9, CallerCalls, CallerRuns, Typing DEF Sleep, Runnable, SleepWaker
  <2>2. QED BY <1>9, <2>1, WaitBlock DEF Sleep, Block
<1>10. CASE FireTimer
  <2>1. PICK tm \in timers :
           /\ tm.task \in Ids
           /\ \/ OnTimerExpired(tm.task)
              \/ UNCHANGED <<wakeq, wait_queue>>
    BY <1>10, TimerEffect
  <2>2. wakeq = <<>> /\ UNCHANGED <<state, blocked_queue>>
    BY <1>10 DEF FireTimer, At
  <2>3. CASE OnTimerExpired(tm.task)
    <3> DEFINE w == SleepWaker(tm.task)
    <3>1. w \in Wakers /\ NoDuplicates(wait_queue[w]) /\ Drain({w}, wait_queue[w])
      BY <2>1, <2>3, Typing, WaitInvDef DEF SleepWaker, OnTimerExpired
    <3> HIDE DEF w
    <3>2. QED BY <2>2, <3>1, WaitDrain
  <2>4. CASE UNCHANGED <<wakeq, wait_queue>>
    BY <1>t, <2>2, <2>4, WaitFrame
  <2>5. QED BY <2>1, <2>3, <2>4
<1>11. CASE UNCHANGED <<state, wait_queue, wakeq, blocked_queue>>
  BY <1>11, <1>t, WaitFrame
<1>12. QED
  BY <1>1, <1>2, <1>3, <1>4, <1>5, <1>6, <1>7, <1>8, <1>9, <1>10, <1>11
  DEF Next, SchedulerStep, Run, RunDropsTerminated, RunPanics, SysCall, Halted, Tick, TickEnds,
      OnTick, vars, schedVars

-----------------------------------------------------------------------------
(* Exits.  A wait queue only grows by the caller of a waitpid or a sleep,  *)
(* and the zombie queue by a task whose waiters are drained with it.       *)
LEMMA NoLostExitStep ==
  TypeInv /\ QueueInv /\ LifeInv /\ WaitInv /\ NoLostExit /\ [Next]_vars => NoLostExit'
<1> SUFFICES ASSUME TypeInv, QueueInv, LifeInv, WaitInv, NoLostExit, [Next]_vars,
                    NEW p \in Ids, NEW c \in Ids, c \in children'[p], c \in zombie_queue'
             PROVE  /\ p \notin Elements(wait_queue'[TaskWaker(c)])
                    /\ p \notin Elements(wait_queue'[ParentWaker(p)])
  BY DEF NoLostExit
<1> DEFINE Kept == c \in children[p] /\ c \in zombie_queue
<1>t. /\ wait_queue \in [Wakers -> Seq(Ids)]
      /\ TaskWaker(c) \in Wakers /\ ParentWaker(p) \in Wakers
      /\ Kept => /\ p \notin Elements(wait_queue[TaskWaker(c)])
                 /\ p \notin Elements(wait_queue[ParentWaker(p)])
                 /\ state[c] = "Zombie"
  BY Typing, Zenon DEF TypeInv, TypeOK, NoLostExit, LifeInv, ParkedZombie
<1>1. CASE RunParksZombie /\ UNCHANGED <<children, timers>>
  <2>1. Popped \in Ids /\ Announce(Popped)
    BY <1>1, QueuePop DEF RunParksZombie
  <2>2. PICK ws \in SUBSET Wakers, ids \in Seq(Ids) :
           /\ TaskWaker(Popped) \in ws
           /\ parent_id[Popped] # None => ParentWaker(parent_id[Popped]) \in ws
           /\ Drain(ws, ids)
    BY <2>1, AnnounceEffect
  <2>3. \A w \in Wakers : wait_queue'[w] = IF w \in ws THEN <<>> ELSE wait_queue[w]
    BY <2>2 DEF Drain
  <2>4. CASE c = Popped
    <3>1. parent_id[Popped] = p /\ p # None
      BY <1>1, <2>4, Typing DEF LifeInv, Family
    <3>2. QED BY <1>t, <2>2, <2>3, <2>4, <3>1, EmptyQueue, Zenon
  <2>5. CASE c # Popped
    <3>1. Kept
      BY <1>1, <2>5 DEF RunParksZombie
    <3>2. \A w \in Wakers : Elements(wait_queue'[w]) \subseteq Elements(wait_queue[w])
      BY <2>3, EmptyQueue, Zenon
    <3>3. QED BY <1>t, <3>1, <3>2, Zenon
  <2>6. QED BY <2>4, <2>5
<1>2. CASE Clone
  <2>1. next_id \notin zombie_queue /\ Me \in Ids
    BY <1>2, CallerCalls DEF Clone, Caller, QueueInv, QueueDiscipline, TypeInv, TypeOK, Ids
  <2>2. zombie_queue' = zombie_queue /\ wait_queue' = wait_queue
    BY <1>2 DEF Clone
  <2>3. children' = [children EXCEPT ![Me] = @ \cup {next_id}] \/ children' = children
    BY <1>2 DEF Clone, CloneLinks
  <2>4. Kept
    BY <2>1, <2>2, <2>3 DEF TypeInv, TypeOK
  <2>5. QED BY <1>t, <2>2, <2>4
<1>3. ASSUME NEW w \in Wakers, NEW op, NEW arg, Block(w, op, arg), Kept, Me \in Ids,
             ~(w \in {TaskWaker(c), ParentWaker(p)} /\ p = Me)
      PROVE  /\ p \notin Elements(wait_queue'[TaskWaker(c)])
             /\ p \notin Elements(wait_queue'[ParentWaker(p)])
  <2>1. wait_queue' = [wait_queue EXCEPT ![w] = Append(@, Me)] /\ wait_queue[w] \in Seq(Ids)
    BY <1>3, <1>t, Zenon DEF Block, Wait, Me
  <2>2. Elements(Append(wait_queue[w], Me)) = Elements(wait_queue[w]) \cup {Me}
    BY <1>3, <2>1, ElementsAppend
  <2>3. \A v \in Wakers : Elements(wait_queue'[v])
                            = IF v = w THEN Elements(wait_queue[w]) \cup {Me} ELSE Elements(wait_queue[v])
    BY <1>t, <2>1, <2>2, Zenon
  <2>4. QED BY <1>3, <1>t, <2>3, Zenon
<1>4. CASE (\E d \in Ids : WaitPid(d)) \/ WaitAny \/ SleepReturns
  <2>1. /\ Me \in Ids /\ UNCHANGED <<zombie_queue, task_pool>>
        /\ \/ \E d \in Ids : Reaps(d)
           \/ \E d \in Ids : WaitsForChild(d)
           \/ WaitsForAny
           \/ Fail
    BY <1>4, WaitCases DEF waitUnchanged, Caller
  <2>2. children'[p] \subseteq children[p]
    <3>1. \/ \E d \in Ids : children' = [children EXCEPT ![Me] = @ \ {d}]
          \/ children' = children
      BY <2>1, Zenon DEF Reaps, Reap, WaitsForChild, WaitsForAny, Block, Fail
    <3>2. children \in [Ids -> SUBSET Ids]
      BY DEF TypeInv, TypeOK
    <3>3. QED BY <2>1, <3>1, <3>2
  <2>3. Kept
    BY <2>1, <2>2
  <2>4. CASE (\E d \in Ids : Reaps(d)) \/ Fail
    BY <1>t, <2>3, <2>4 DEF Reaps, Reap, Fail
  <2>5. ASSUME NEW d \in Ids, WaitsForChild(d)
        PROVE  /\ p \notin Elements(wait_queue'[TaskWaker(c)])
               /\ p \notin Elements(wait_queue'[ParentWaker(p)])
    <3>1. d # c
      BY <1>t, <2>3, <2>5 DEF WaitsForChild
    <3>2. TaskWaker(d) \in Wakers /\ TaskWaker(d) \notin {TaskWaker(c), ParentWaker(p)}
      BY <3>1, Typing, Zenon DEF TaskWaker, ParentWaker
    <3>3. QED BY <1>3, <2>1, <2>3, <2>5, <3>2, Zenon DEF WaitsForChild
  <2>6. CASE WaitsForAny
    <3>1. p # Me
      BY <1>t, <2>3, <2>6 DEF WaitsForAny, Stops
    <3>2. QED BY <1>3, <2>1, <2>3, <2>6, <3>1, Typing, Zenon DEF WaitsForAny
  <2>7. QED BY <2>1, <2>4, <2>5, <2>6, Zenon
<1>5. ASSUME NEW ticks \in 0 .. MaxSleep, Sleep(ticks)
      PROVE  /\ p \notin Elements(wait_queue'[TaskWaker(c)])
             /\ p \notin Elements(wait_queue'[ParentWaker(p)])
  <2>1. Me \in Ids /\ Me \notin zombie_queue
    BY <1>5, CallerCalls, CallerRuns DEF Sleep
  <2>2. Kept /\ Block(SleepWaker(Me), "sleep", None)
    BY <1>5, Zenon DEF Sleep, Block
  <2>3. /\ SleepWaker(Me) \in Wakers
        /\ ~(SleepWaker(Me) \in {TaskWaker(c), ParentWaker(p)} /\ p = Me)
    BY <2>1, <2>2, Typing, Zenon DEF SleepWaker, TaskWaker, ParentWaker
  <2>4. QED BY <1>3, <2>1, <2>2, <2>3, Zenon
<1>6. CASE FireTimer
  <2>1. Kept
    BY <1>6, Zenon DEF FireTimer
  <2>2. \A w \in Wakers : wait_queue'[w] \in {<<>>, wait_queue[w]}
    BY <1>6 DEF FireTimer, OnTimerExpired, Drain
  <2>3. QED BY <1>t, <2>1, <2>2, EmptyQueue, Zenon
<1>7. CASE UNCHANGED <<children, zombie_queue, wait_queue>>
  BY <1>t, <1>7
<1>8. QED
  BY <1>1, <1>2, <1>4, <1>5, <1>6, <1>7
  DEF Next, SchedulerStep, Run, RunCreatesIdle, RunDropsTerminated, RunParksBlocked, RunPanics,
      RunDispatches, WakeTask, SysCall, Exit, Halted, Tick, TickEnds, OnTick, vars, schedVars

-----------------------------------------------------------------------------
(* Sleeping.  The task of a timer waits in its own waker. *)

(* A task that can run has no timer. *)
LEMMA TimersAreAsleep ==
  ASSUME TypeInv, WaitInv, SleepInv
  PROVE  \A tm \in timers : tm.task \in Ids /\ state[tm.task] = "Blocked"
<1>1. \A tm \in timers : tm.task \in Ids
  BY DEF TypeInv, TypeOK, Timer
<1>2. \A tm \in timers : SleepWaker(tm.task) \in Wakers
  BY <1>1, Typing DEF SleepWaker
<1>3. QED BY <1>1, <1>2, WaitInvDef DEF SleepInv

(* A step that leaves the sleepers, their timers and their waits alone. *)
LEMMA SleepFrame ==
  ASSUME TypeInv, WaitInv, SleepInv, UNCHANGED timers,
         \A t \in Ids : state[t] = "Blocked" => pc'[t] = pc[t],
         \A t \in Ids : state[t] = "Blocked" /\ t \in Elements(wait_queue[SleepWaker(t)])
                          => t \in Elements(wait_queue'[SleepWaker(t)]),
         \A t \in Ids : pc'[t].op = "sleep" /\ state'[t] = "Blocked" /\ t \notin Elements(wakeq')
                          => pc[t].op = "sleep" /\ state[t] = "Blocked" /\ t \notin Elements(wakeq)
  PROVE  SleepInv'
<1>1. \A tm \in timers : tm.task \in Ids /\ state[tm.task] = "Blocked"
  BY TimersAreAsleep, Zenon
<1>2. QED BY <1>1, Zenon DEF SleepInv

(* Every step keeps each sleeper's timer pending. *)
LEMMA SleepInvStep ==
  TypeInv /\ QueueInv /\ LifeInv /\ WaitInv /\ SleepInv /\ [Next]_vars => SleepInv'
<1> SUFFICES ASSUME TypeInv, QueueInv, LifeInv, WaitInv, SleepInv, [Next]_vars
             PROVE  SleepInv'
  OBVIOUS
<1>t. /\ state \in [Ids -> TaskState] /\ pc \in [Ids -> Continuation]
      /\ wait_queue \in [Wakers -> Seq(Ids)]
      /\ \A t \in Ids : SleepWaker(t) \in Wakers
  BY Typing DEF TypeInv, TypeOK, SleepWaker
<1>1. CASE RunCreatesIdle /\ UNCHANGED <<children, timers>>
  <2>1. \A t \in Ids : state'[t] = "Blocked" => state[t] = "Blocked"
    BY <1>1, <1>t DEF RunCreatesIdle, NewIdle
  <2>2. QED BY <1>1, <2>1, SleepFrame, Zenon DEF RunCreatesIdle
<1>2. CASE RunParksZombie /\ UNCHANGED <<children, timers>>
  <2>1. /\ Popped \in Ids /\ Announce(Popped) /\ wakeq = <<>> /\ state[Popped] = "Zombie"
        /\ UNCHANGED <<state, pc>>
    BY <1>2, QueuePop DEF RunParksZombie, At
  <2>2. PICK ws \in SUBSET Wakers, ids \in Seq(Ids) :
           /\ \A w \in ws : w = TaskWaker(Popped) \/ \E p \in Ids : w = ParentWaker(p)
           /\ Drain(ws, ids)
    BY <2>1, AnnounceEffect, Zenon
  <2>3. \A t \in Ids : state[t] = "Blocked" => SleepWaker(t) \notin ws
    BY <2>1, <2>2 DEF SleepWaker, TaskWaker, ParentWaker
  <2>4. \A t \in Ids : state[t] = "Blocked" => wait_queue'[SleepWaker(t)] = wait_queue[SleepWaker(t)]
    BY <1>t, <2>2, <2>3 DEF Drain
  <2>5. \A t \in Ids : t \notin Elements(wakeq)
    BY <2>1, EmptyQueue
  <2>6. QED BY <1>2, <2>1, <2>4, <2>5, SleepFrame
<1>3. CASE RunDispatches /\ UNCHANGED <<children, timers>>
  <2>1. \A t \in Ids : state'[t] = "Blocked" => state[t] = "Blocked"
    BY <1>3, <1>t DEF RunDispatches
  <2>2. QED BY <1>3, <2>1, SleepFrame, Zenon DEF RunDispatches
<1>4. CASE WakeTask /\ UNCHANGED <<children, timers>>
  <2> DEFINE h == Head(wakeq)
  <2>1. /\ h \in Ids
        /\ state' = [state EXCEPT ![h] = "Running"]
        /\ Elements(wakeq) = Elements(wakeq') \cup {h}
    BY <1>4, WakeEffect
  <2>2. UNCHANGED <<wait_queue, pc>>
    BY <1>4 DEF WakeTask
  <2> HIDE DEF h
  <2>3. \A t \in Ids : state'[t] = "Blocked" => t # h /\ state[t] = "Blocked"
    BY <1>t, <2>1
  <2>4. QED BY <1>4, <2>1, <2>2, <2>3, SleepFrame
<1>5. CASE Clone
  <2>1. Me \in Ids /\ Runnable(Me)
    BY <1>5, CallerCalls, CallerRuns DEF Clone
  <2>2. \/ state' = [state EXCEPT ![next_id] = state[Me]]
        \/ state' = state
    BY <1>5 DEF Clone
  <2>3. \A t \in Ids : state'[t] = "Blocked" => state[t] = "Blocked"
    BY <1>t, <2>1, <2>2 DEF Runnable
  <2>4. QED BY <1>5, <2>3, SleepFrame DEF Clone
<1>6. CASE Exit
  <2>1. Me \in Ids /\ Runnable(Me)
    BY <1>6, CallerCalls, CallerRuns DEF Exit
  <2>2. /\ ExitState(Me) # "Blocked" /\ state' = [state EXCEPT ![Me] = ExitState(Me)]
        /\ pc' = [pc EXCEPT ![Me] = [op |-> "exited", arg |-> None]]
        /\ UNCHANGED <<wait_queue, wakeq, timers>>
    BY <1>6 DEF Exit, ExitState
  <2>3. \A t \in Ids : state'[t] = "Blocked" => state[t] = "Blocked"
    BY <1>t, <2>1, <2>2
  <2>4. \A t \in Ids : state[t] = "Blocked" => pc'[t] = pc[t]
    BY <1>t, <2>1, <2>2 DEF Runnable
  <2>5. QED BY <2>2, <2>3, <2>4, SleepFrame
<1>7. CASE (\E c \in Ids : WaitPid(c)) \/ WaitAny \/ SleepReturns
  <2>1. /\ UNCHANGED <<wakeq, timers>> /\ Me \in Ids /\ state[Me] # "Blocked"
        /\ \/ \E c \in Ids : Reaps(c)
           \/ \E c \in Ids : WaitsForChild(c)
           \/ WaitsForAny
           \/ Fail
    BY <1>7, WaitCases, CallerRuns DEF waitUnchanged, Runnable
  <2>2. ASSUME NEW c \in Ids, Reaps(c)
        PROVE  SleepInv'
    <3>1. /\ state' = [state EXCEPT ![c] = "Terminated"] /\ pc' = [pc EXCEPT ![Me] = User]
          /\ wait_queue' = wait_queue
      BY <2>2 DEF Reaps, Reap, Return
    <3>2. \A t \in Ids : state'[t] = "Blocked" => state[t] = "Blocked"
      BY <1>t, <2>2, <3>1
    <3>3. \A t \in Ids : pc'[t] = IF t = Me THEN User ELSE pc[t]
      BY <1>t, <3>1
    <3>4. QED BY <2>1, <3>1, <3>2, <3>3, SleepFrame DEF User
  <2>3. CASE Fail
    <3>1. pc' = [pc EXCEPT ![Me] = User] /\ UNCHANGED <<state, wait_queue>>
      BY <2>3 DEF Fail, Return
    <3>2. \A t \in Ids : pc'[t] = IF t = Me THEN User ELSE pc[t]
      BY <1>t, <3>1
    <3>3. QED BY <2>1, <3>1, <3>2, SleepFrame DEF User
  <2>4. ASSUME NEW w \in Wakers, NEW op \in {"waitpid", "waitany"}, NEW arg, Block(w, op, arg)
        PROVE  SleepInv'
    <3>1. /\ state' = [state EXCEPT ![Me] = "Blocked"]
          /\ pc' = [pc EXCEPT ![Me] = [op |-> op, arg |-> arg]]
          /\ wait_queue' = [wait_queue EXCEPT ![w] = Append(@, Me)]
      BY <2>4 DEF Block, Wait, Me
    <3>2. \A t \in Ids : /\ pc'[t] = IF t = Me THEN [op |-> op, arg |-> arg] ELSE pc[t]
                         /\ state'[t] = IF t = Me THEN "Blocked" ELSE state[t]
      BY <1>t, <3>1
    <3>3. Elements(Append(wait_queue[w], Me)) = Elements(wait_queue[w]) \cup {Me}
      BY <1>t, <2>1, ElementsAppend
    <3>4. \A v \in Wakers : Elements(wait_queue[v]) \subseteq Elements(wait_queue'[v])
      BY <1>t, <3>1, <3>3
    <3>5. \A t \in Ids : /\ state[t] = "Blocked" => pc'[t] = pc[t]
                         /\ pc'[t].op = "sleep" => pc'[t] = pc[t] /\ state'[t] = state[t]
      <4>1. [op |-> op, arg |-> arg].op # "sleep"
        BY <2>4
      <4>2. QED BY <2>1, <3>2, <4>1, Zenon
    <3>6. \A t \in Ids : SleepWaker(t) \in Wakers
      BY Typing DEF SleepWaker
    <3>7. UNCHANGED <<timers, wakeq>>
      BY <2>1
    <3>8. QED BY <3>4, <3>5, <3>6, <3>7, SleepFrame, Zenon
  <2>5. QED BY <2>1, <2>2, <2>3, <2>4, Typing, Zenon DEF WaitsForChild, WaitsForAny
<1>8. ASSUME NEW ticks \in 0 .. MaxSleep, Sleep(ticks)
      PROVE  SleepInv'
  <2> DEFINE new == [task |-> Me, left |-> ticks]
             w   == SleepWaker(Me)
  <2>1. Me \in Ids /\ state[Me] # "Blocked" /\ wakeq = <<>> /\ w \in Wakers
    BY <1>8, <1>t, CallerCalls, CallerRuns DEF Sleep, Caller, Runnable
  <2>2. /\ timers' = timers \cup {new}
        /\ wakeq' = wakeq
        /\ state' = [state EXCEPT ![Me] = "Blocked"]
        /\ pc' = [pc EXCEPT ![Me] = [op |-> "sleep", arg |-> None]]
        /\ wait_queue' = [wait_queue EXCEPT ![w] = Append(@, Me)]
    BY <1>8 DEF Sleep, Block, Wait, Me
  <2>3. new.task = Me
    OBVIOUS
  <2> HIDE DEF new, w
  <2>4. Elements(Append(wait_queue[w], Me)) = Elements(wait_queue[w]) \cup {Me}
    BY <1>t, <2>1, ElementsAppend
  <2>5. \A v \in Wakers : Elements(wait_queue[v]) \subseteq Elements(wait_queue'[v])
    BY <1>t, <2>2, <2>4
  <2>6. Me \in Elements(wait_queue'[w]) /\ w = SleepWaker(Me)
    BY <1>t, <2>1, <2>2, <2>4 DEF w
  <2>7. \A t \in Ids : /\ pc'[t] = IF t = Me THEN [op |-> "sleep", arg |-> None] ELSE pc[t]
                       /\ state'[t] = IF t = Me THEN "Blocked" ELSE state[t]
    BY <1>t, <2>2
  <2>8. \A tm \in timers : tm.task \in Ids /\ tm.task # Me
    BY <2>1, TimersAreAsleep
  <2>9. \A tm \in timers' : /\ pc'[tm.task].op = "sleep"
                            /\ tm.task \in Elements(wait_queue'[SleepWaker(tm.task)])
    BY <1>t, <2>1, <2>2, <2>3, <2>5, <2>6, <2>7, <2>8, Zenon DEF SleepInv
  <2>10. \A tm1, tm2 \in timers' : tm1.task = tm2.task => tm1 = tm2
    BY <2>2, <2>3, <2>8, Zenon DEF SleepInv
  <2>11. \A t \in Ids : (pc'[t].op = "sleep" /\ state'[t] = "Blocked" /\ t \notin Elements(wakeq'))
                          => \E tm \in timers' : tm.task = t
    <3>1. ASSUME NEW t \in Ids, pc'[t].op = "sleep", state'[t] = "Blocked", t \notin Elements(wakeq')
          PROVE  \E tm \in timers' : tm.task = t
      <4>1. CASE t = Me
        BY <2>2, <2>3, <4>1, Zenon
      <4>2. CASE t # Me
        <5>1. pc[t].op = "sleep" /\ state[t] = "Blocked"
          BY <2>7, <3>1, <4>2, Zenon
        <5>2. t \notin Elements(wakeq)
          BY <2>2, <3>1, Zenon
        <5>3. \E tm \in timers : tm.task = t
          BY <5>1, <5>2, Zenon DEF SleepInv
        <5>4. QED BY <2>2, <5>3, Zenon
      <4>3. QED BY <4>1, <4>2
    <3>2. QED BY <3>1, Zenon
  <2>12. QED BY <2>9, <2>10, <2>11, Zenon DEF SleepInv
<1>9. CASE Tick
  <2> DEFINE Aged(tm) == [tm EXCEPT !.left = @ - 1]
  <2>1. timers' = {Aged(tm) : tm \in timers} /\ UNCHANGED <<state, pc, wait_queue, wakeq>>
    BY <1>9 DEF Tick
  <2>2. \A tm \in timers : Aged(tm).task = tm.task
    BY DEF TypeInv, TypeOK, Timer
  <2> HIDE DEF Aged
  <2>3. /\ \A tm \in timers' : /\ pc[tm.task].op = "sleep"
                               /\ tm.task \in Elements(wait_queue[SleepWaker(tm.task)])
        /\ \A t \in Ids : (\E tm \in timers : tm.task = t) => \E tm \in timers' : tm.task = t
    <3>1. ASSUME NEW tm \in timers'
          PROVE  /\ pc[tm.task].op = "sleep"
                 /\ tm.task \in Elements(wait_queue[SleepWaker(tm.task)])
      <4>1. PICK old \in timers : tm = Aged(old)
        BY <2>1, <3>1, Zenon
      <4>2. tm.task = old.task
        BY <2>2, <4>1, Zenon
      <4>3. QED BY <4>2, Zenon DEF SleepInv
    <3>2. ASSUME NEW tm \in timers
          PROVE  Aged(tm) \in timers' /\ Aged(tm).task = tm.task
      BY <2>1, <2>2, Zenon
    <3>3. QED BY <3>1, <3>2, Zenon
  <2>4. ASSUME NEW tm1 \in timers', NEW tm2 \in timers', tm1.task = tm2.task
        PROVE  tm1 = tm2
    <3>1. PICK old1 \in timers : tm1 = Aged(old1)
      BY <2>1, Zenon
    <3>2. PICK old2 \in timers : tm2 = Aged(old2)
      BY <2>1, Zenon
    <3>3. old1.task = old2.task
      BY <2>2, <2>4, <3>1, <3>2, Zenon
    <3>4. old1 = old2
      BY <3>3, Zenon DEF SleepInv
    <3>5. QED BY <3>1, <3>2, <3>4, Zenon
  <2>5. QED BY <2>1, <2>3, <2>4, Zenon DEF SleepInv
<1>10. CASE FireTimer
  <2>1. PICK tm \in timers :
           /\ tm.task \in Ids /\ timers' = timers \ {tm}
           /\ \/ tm.task \in task_pool /\ OnTimerExpired(tm.task)
              \/ tm.task \notin task_pool
    BY <1>10, TimerEffect
  <2> DEFINE w == SleepWaker(tm.task)
  <2>2. state[tm.task] = "Blocked" /\ tm.task \in task_pool
    BY <2>1, TimersAreAsleep DEF LifeInv, AliveInPool, Alive
  <2>3. /\ wakeq' = wait_queue[w]
        /\ \A v \in Wakers : v # w => wait_queue'[v] = wait_queue[v]
        /\ wakeq = <<>> /\ UNCHANGED <<state, pc>>
    BY <1>10, <2>1, <2>2 DEF OnTimerExpired, Drain, FireTimer, At
  <2>4. tm.task \in Elements(wakeq')
    BY <2>1, <2>3, Zenon DEF SleepInv
  <2>5. \A other \in timers' : /\ other.task \in Ids /\ other.task # tm.task
                               /\ SleepWaker(other.task) # w
    BY <2>1, TimersAreAsleep, Zenon DEF SleepInv, SleepWaker, TaskWaker
  <2> HIDE DEF w
  <2>6. \A other \in timers' : /\ pc'[other.task].op = "sleep"
                               /\ other.task \in Elements(wait_queue'[SleepWaker(other.task)])
    BY <1>t, <2>1, <2>3, <2>5, Zenon DEF SleepInv
  <2>7. \A t \in Ids : (pc'[t].op = "sleep" /\ state'[t] = "Blocked" /\ t \notin Elements(wakeq'))
                         => \E other \in timers' : other.task = t
    BY <2>1, <2>3, <2>4, EmptyQueue, Zenon DEF SleepInv
  <2>8. QED BY <2>1, <2>6, <2>7, Zenon DEF SleepInv
<1>11. CASE UNCHANGED <<state, pc, wait_queue, wakeq, timers>>
  BY <1>11, SleepFrame, Zenon
<1>12. QED
  BY <1>1, <1>2, <1>3, <1>4, <1>5, <1>6, <1>7, <1>8, <1>9, <1>10, <1>11, Zenon
  DEF Next, SchedulerStep, Run, RunDropsTerminated, RunParksBlocked, RunPanics, SysCall, Halted,
      TickEnds, OnTick, vars, schedVars

-----------------------------------------------------------------------------
(* Everything that is inductive, together. *)
Inv == TypeInv /\ QueueInv /\ LifeInv /\ WaitInv /\ NoLostExit /\ SleepInv

(* The whole inductive invariant holds when the first task is ready. *)
LEMMA InvInit == Init => Inv
<1> SUFFICES ASSUME Init
             PROVE  Inv
  OBVIOUS
<1>1. TypeInv /\ QueueInv
  <2>1. Elements(<<1>>) = {1} /\ NoDuplicates(<<1>>)
    BY DEF Elements, NoDuplicates
  <2>2. QED BY <2>1, TypeInvInit DEF Init, QueueInv, QueueDiscipline
<1>2. LifeInv
  BY Typing, SMTT(40)
  DEF Init, LifeInv, Unborn, AliveInPool, ExitIsFinal, OnCpu, Family, ParkedZombie, Executing, Alive,
      Exited, Runnable, User, Ids
<1>3. WaitInv /\ NoLostExit /\ SleepInv
  <2>1. /\ wakeq = <<>> /\ \A w \in Wakers : wait_queue[w] = <<>>
        /\ \A t \in Ids : state[t] # "Blocked"
        /\ blocked_queue = {} /\ zombie_queue = {} /\ timers = {}
    BY DEF Init
  <2>2. QED BY <2>1, EmptyQueue, WaitInvDef, Zenon DEF NoLostExit, SleepInv
<1>4. QED BY <1>1, <1>2, <1>3 DEF Inv

(* Every step of the kernel keeps the whole inductive invariant. *)
LEMMA InvStep == Inv /\ [Next]_vars => Inv'
  BY TypeInvStep, QueueInvStep, LifeInvStep, WaitInvStep, NoLostExitStep, SleepInvStep DEF Inv

(* The inductive invariant holds in every reachable state. *)
LEMMA Invariance == Spec => []Inv
  BY InvInit, InvStep, PTL DEF Spec

(* A task is Blocked exactly while a wake_all is still to reach it, and    *)
(* waits in one queue only: Waker::wait and wake_task lose no wake.        *)
THEOREM NoLostWake == Spec => []BlockedIsWaiting
  BY Invariance, PTL DEF Inv, WaitInv

(* No parent waits for a child whose exit has been announced. *)
THEOREM NoExitIsLost == Spec => []NoLostExit
  BY Invariance, PTL DEF Inv

(* A sleeper is woken by its own timer and by nothing else. *)
THEOREM SleepersHaveTimers == Spec => []SleepsUntilTimer
<1>1. Inv => SleepsUntilTimer
  <2>1. SUFFICES ASSUME Inv, NEW t \in task_pool, pc[t].op = "sleep", t \notin Elements(wakeq)
                 PROVE  state[t] = "Blocked" <=> \E tm \in timers : tm.task = t
    BY DEF SleepsUntilTimer
  <2>2. t \in Ids
    BY <2>1 DEF Inv, TypeInv, TypeOK
  <2>3. (\E tm \in timers : tm.task = t) => state[t] = "Blocked"
    BY <2>1, TimersAreAsleep, Zenon DEF Inv
  <2>4. QED BY <2>1, <2>2, <2>3 DEF Inv, SleepInv
<1>2. QED BY <1>1, Invariance, PTL

-----------------------------------------------------------------------------
(* TaskLife implements ProcessTable: the scheduler, the queues, the wakers *)
(* and the pool keep the promise of fork, exit and wait.                   *)

(* The state functions that implement the variables of ProcessTable. *)
tableStatus == [t \in Ids |-> StatusOf(state[t])]
tableKids   == [t \in Ids |-> {c \in children[t] : Started(c)}]

-----------------------------------------------------------------------------
(* What the states of a task stand for. *)
LEMMA StatusCases ==
  ASSUME NEW s \in TaskState
  PROVE  /\ StatusOf(s) = "alive"  <=> s \in {"Ready", "Running", "Blocked"}
         /\ StatusOf(s) = "free"   <=> s = "NotInitialized"
         /\ StatusOf(s) = "zombie" <=> s = "Zombie"
         /\ StatusOf(s) = "done"   <=> s = "Terminated"
         /\ StatusOf(s) \in {"alive", "free", "zombie", "done"}
<1>1. s \in {"NotInitialized", "Ready", "Running", "Blocked", "Zombie", "Terminated"}
  BY DEF TaskState
<1>2. CASE s = "NotInitialized"
  BY <1>2 DEF StatusOf
<1>3. CASE s = "Zombie"
  BY <1>3 DEF StatusOf
<1>4. CASE s = "Terminated"
  BY <1>4 DEF StatusOf
<1>5. CASE s \in {"Ready", "Running", "Blocked"}
  BY <1>5 DEF StatusOf
<1>6. QED BY <1>1, <1>2, <1>3, <1>4, <1>5

(* The states a step does not change keep what they stand for. *)
LEMMA TableFrame ==
  ASSUME \A t \in Ids : StatusOf(state'[t]) = StatusOf(state[t]),
         \A t \in Ids : Started(t)' <=> Started(t),
         children \in [Ids -> SUBSET Ids], UNCHANGED children
  PROVE  UNCHANGED <<tableStatus, tableKids>>
<1>1. tableStatus' = tableStatus
  BY DEF tableStatus
<1>2. \A t \in Ids : {c \in children'[t] : Started(c)'} = {c \in children[t] : Started(c)}
  OBVIOUS
<1>3. QED BY <1>1, <1>2 DEF tableKids

(* A task stays alive, or whatever it was, when it blocks, is woken or is  *)
(* dispatched.                                                             *)
LEMMA TableStutter ==
  ASSUME TypeInv, NEW t \in Ids, NEW s \in {"Ready", "Running", "Blocked"}, Alive(t),
         state' = [state EXCEPT ![t] = s], UNCHANGED children
  PROVE  UNCHANGED <<tableStatus, tableKids>>
<1>1. state \in [Ids -> TaskState] /\ children \in [Ids -> SUBSET Ids] /\ s \in TaskState
  BY DEF TypeInv, TypeOK, TaskState
<1>2. StatusOf(s) = "alive" /\ StatusOf(state[t]) = "alive"
  BY <1>1, StatusCases DEF Alive
<1>3. \A u \in Ids : state'[u] = IF u = t THEN s ELSE state[u]
  BY <1>1
<1>4. \A u \in Ids : StatusOf(state'[u]) = StatusOf(state[u])
  BY <1>2, <1>3
<1>5. \A u \in Ids : Started(u)' <=> Started(u)
  BY <1>3 DEF Started, Alive
<1>6. QED BY <1>1, <1>4, <1>5, TableFrame

(* A new task. *)
LEMMA TableNew ==
  ASSUME TypeInv, NEW t \in Ids, NEW s \in {"Ready", "Running"}, state[t] = "NotInitialized",
         state' = [state EXCEPT ![t] = s]
  PROVE  /\ tableStatus[t] = "free"
         /\ tableStatus' = [tableStatus EXCEPT ![t] = "alive"]
         /\ \A u \in Ids : Started(u)' <=> (Started(u) \/ u = t)
<1>1. state \in [Ids -> TaskState] /\ s \in TaskState
  BY DEF TypeInv, TypeOK, TaskState
<1>2. StatusOf(s) = "alive" /\ StatusOf(state[t]) = "free"
  BY <1>1, StatusCases
<1>3. \A u \in Ids : state'[u] = IF u = t THEN s ELSE state[u]
  BY <1>1
<1>4. \A u \in Ids : tableStatus'[u] = IF u = t THEN "alive" ELSE tableStatus[u]
  BY <1>2, <1>3 DEF tableStatus
<1>5. tableStatus' = [tableStatus EXCEPT ![t] = "alive"]
  BY <1>4, Zenon DEF tableStatus
<1>6. QED BY <1>2, <1>3, <1>5 DEF tableStatus, Started

-----------------------------------------------------------------------------
(* The kernel starts where the abstract process table starts. *)
LEMMA TableInit == Init => Table!Init
<1> SUFFICES ASSUME Init
             PROVE  Table!Init
  OBVIOUS
<1>1. StatusOf("Ready") = "alive" /\ StatusOf("NotInitialized") = "free"
  BY StatusCases DEF TaskState
<1>2. tableStatus = [t \in Ids |-> IF t = 1 THEN "alive" ELSE "free"]
  BY <1>1 DEF Init, tableStatus
<1>3. tableKids = [t \in Ids |-> {}]
  BY DEF Init, tableKids
<1>4. QED BY <1>2, <1>3 DEF Table!Init, tableStatus, tableKids

(* The steps of ProcessTable, in terms of its two state functions. *)
LEMMA TableSteps ==
  /\ \A c \in Ids :
       /\ tableStatus[c] = "free"
       /\ tableStatus' = [tableStatus EXCEPT ![c] = "alive"]
       /\ UNCHANGED tableKids
       => Table!Next
  /\ \A p, c \in Ids :
       /\ tableStatus[p] = "alive" /\ tableStatus[c] = "free"
       /\ tableStatus' = [tableStatus EXCEPT ![c] = "alive"]
       /\ tableKids' = [tableKids EXCEPT ![p] = @ \cup {c}]
       => Table!Next
  /\ \A p \in Ids, s \in {"zombie", "done"} :
       /\ tableStatus[p] = "alive"
       /\ (\E q \in Ids : p \in tableKids[q] /\ tableStatus[q] = "alive") => s = "zombie"
       /\ tableStatus' = [tableStatus EXCEPT ![p] = s]
       /\ UNCHANGED tableKids
       => Table!Next
  /\ \A p, c \in Ids :
       /\ tableStatus[p] = "alive" /\ c \in tableKids[p] /\ tableStatus[c] = "zombie"
       /\ tableStatus' = [tableStatus EXCEPT ![c] = "done"]
       /\ tableKids' = [tableKids EXCEPT ![p] = @ \ {c}]
       => Table!Next
  BY Zenon DEF tableStatus, tableKids, Table!Next, Table!Spawn, Table!Fork, Table!Exit, Table!Collect,
         Table!HasLiveParent

(* Every step of TaskLife is a step of ProcessTable or none. *)
LEMMA TableStep ==
  Inv /\ [Next]_vars => Table!Next \/ UNCHANGED <<tableStatus, tableKids>>
<1> SUFFICES ASSUME Inv, [Next]_vars
             PROVE  Table!Next \/ UNCHANGED <<tableStatus, tableKids>>
  OBVIOUS
<1>i. TypeInv /\ QueueInv /\ LifeInv /\ WaitInv
  BY DEF Inv
<1>t. /\ state \in [Ids -> TaskState] /\ children \in [Ids -> SUBSET Ids]
      /\ parent_id \in [Ids -> Ids \cup {None}] /\ next_id \in Int /\ Ids \subseteq Int
  BY <1>i DEF TypeInv, TypeOK, Ids
<1>k. \A p \in Ids : next_id \notin children[p]
  BY <1>i, <1>t DEF LifeInv, Family
<1>1. CASE RunCreatesIdle /\ UNCHANGED <<children, timers>>
  <2>1. next_id \in Ids /\ state[next_id] = "NotInitialized"
    BY <1>1, <1>i, <1>t DEF RunCreatesIdle, LifeInv, Unborn
  <2>2. CASE state' = [state EXCEPT ![next_id] = "Ready"]
    <3>1. /\ tableStatus[next_id] = "free"
          /\ tableStatus' = [tableStatus EXCEPT ![next_id] = "alive"]
          /\ \A u \in Ids : Started(u)' <=> (Started(u) \/ u = next_id)
      BY <1>i, <2>1, <2>2, TableNew, Zenon
    <3>2. \A p \in Ids : {c \in children'[p] : Started(c)'} = {c \in children[p] : Started(c)}
      BY <1>1, <1>t, <1>k, <3>1, Zenon
    <3>3. tableKids' = tableKids
      BY <3>2 DEF tableKids
    <3>4. QED BY <2>1, <3>1, <3>3, TableSteps, Zenon
  <2>3. CASE state' = state
    BY <1>1, <1>t, <2>3, TableFrame DEF Started
  <2>4. QED BY <1>1, <2>2, <2>3 DEF RunCreatesIdle, NewIdle
<1>2. CASE RunDispatches /\ UNCHANGED <<children, timers>>
  <2>1. Popped \in Ids /\ Alive(Popped)
    BY <1>2, <1>i, QueuePop DEF RunDispatches, Runnable, Alive
  <2>2. CASE state' = [state EXCEPT ![Popped] = "Running"]
    BY <1>2, <1>i, <2>1, <2>2, TableStutter, Zenon
  <2>3. CASE state' = state
    BY <1>2, <1>t, <2>3, TableFrame DEF Started
  <2>4. QED BY <1>2, <2>2, <2>3 DEF RunDispatches
<1>3. CASE WakeTask /\ UNCHANGED <<children, timers>>
  <2> DEFINE h == Head(wakeq)
  <2>1. h \in Ids /\ state[h] = "Blocked" /\ state' = [state EXCEPT ![h] = "Running"]
    BY <1>3, <1>i, WakeEffect
  <2> HIDE DEF h
  <2>2. QED BY <1>3, <1>i, <2>1, TableStutter, Zenon DEF Alive
<1>4. CASE Clone
  <2>1. /\ Me \in Ids /\ state[Me] \in {"Ready", "Running"}
        /\ next_id \in Ids /\ state[next_id] = "NotInitialized"
    BY <1>4, <1>i, CallerCalls, CallerRuns, SchedulerAssumption
    DEF Clone, LifeInv, Unborn, Ids, TypeInv, TypeOK, Runnable
  <2>2. CASE CloneLinks /\ state' = [state EXCEPT ![next_id] = state[Me]]
    <3>1. /\ tableStatus[next_id] = "free"
          /\ tableStatus' = [tableStatus EXCEPT ![next_id] = "alive"]
          /\ \A u \in Ids : Started(u)' <=> (Started(u) \/ u = next_id)
      BY <1>i, <2>1, <2>2, TableNew, Zenon
    <3>2. tableStatus[Me] = "alive"
      BY <1>t, <2>1, StatusCases DEF tableStatus
    <3>3. children' = [children EXCEPT ![Me] = @ \cup {next_id}]
      BY <2>2 DEF CloneLinks
    <3>4. \A p \in Ids : {c \in children'[p] : Started(c)'}
                           = {c \in children[p] : Started(c)} \cup (IF p = Me THEN {next_id} ELSE {})
      BY <1>t, <1>k, <2>1, <3>1, <3>3, Zenon
    <3>5. tableKids' = [tableKids EXCEPT ![Me] = @ \cup {next_id}]
      BY <2>1, <3>4, Zenon DEF tableKids
    <3>6. QED BY <2>1, <3>1, <3>2, <3>5, TableSteps, Zenon
  <2>3. CASE CloneLinks /\ state' = state
    <3>1. children' = [children EXCEPT ![Me] = @ \cup {next_id}]
      BY <2>3 DEF CloneLinks
    <3>2. \A p \in Ids : {c \in children'[p] : Started(c)'} = {c \in children[p] : Started(c)}
      BY <1>t, <2>1, <2>3, <3>1 DEF Started
    <3>3. QED BY <2>3, <3>2 DEF tableStatus, tableKids
  <2>4. CASE UNCHANGED <<state, children>>
    BY <1>t, <2>4, TableFrame DEF Started
  <2>5. QED BY <1>4, <2>2, <2>3, <2>4 DEF Clone
<1>5. CASE Exit
  <2>1. Me \in Ids /\ Alive(Me)
    BY <1>5, <1>i, CallerCalls, CallerRuns DEF Exit, Runnable, Alive
  <2>2. /\ state' = [state EXCEPT ![Me] = ExitState(Me)] /\ children' = children
        /\ ExitState(Me) \in {"Zombie", "Terminated"}
    BY <1>5 DEF Exit, ExitState
  <2> DEFINE s == StatusOf(ExitState(Me))
  <2>3. /\ tableStatus[Me] = "alive" /\ s \in {"zombie", "done"}
        /\ s = "zombie" <=> ExitState(Me) = "Zombie"
    BY <1>t, <2>1, <2>2, StatusCases DEF tableStatus, Alive, TaskState
  <2>4. tableStatus' = [tableStatus EXCEPT ![Me] = s]
    <3>1. \A u \in Ids : state'[u] = IF u = Me THEN ExitState(Me) ELSE state[u]
      BY <1>t, <2>2
    <3>2. QED BY <2>1, <3>1, Zenon DEF tableStatus
  <2>5. tableKids' = tableKids
    <3>1. \A u \in Ids : Started(u)' <=> Started(u)
      BY <1>t, <2>1, <2>2 DEF Started, Alive
    <3>2. \A p \in Ids : {c \in children'[p] : Started(c)'} = {c \in children[p] : Started(c)}
      BY <1>t, <2>2, <3>1, Zenon
    <3>3. QED BY <3>2 DEF tableKids
  <2>6. (\E q \in Ids : Me \in tableKids[q] /\ tableStatus[q] = "alive") => s = "zombie"
    <3>1. SUFFICES ASSUME NEW q \in Ids, Me \in tableKids[q], tableStatus[q] = "alive"
                   PROVE  ExitState(Me) = "Zombie"
      BY <2>3
    <3>2. parent_id[Me] = q
      BY <1>i, <2>1, <3>1 DEF LifeInv, Family, tableKids
    <3>3. Alive(q)
      BY <1>t, <3>1, StatusCases DEF tableStatus, Alive
    <3>4. q \in task_pool /\ q # None
      BY <1>i, <3>3, Typing DEF LifeInv, AliveInPool
    <3>5. QED BY <3>2, <3>4 DEF ExitState
  <2> HIDE DEF s
  <2>7. QED BY <2>1, <2>3, <2>4, <2>5, <2>6, TableSteps, Zenon
<1>6. CASE (\E c \in Ids : WaitPid(c)) \/ WaitAny \/ SleepReturns
  <2>1. Me \in Ids /\ Alive(Me)
    BY <1>6, <1>i, WaitCases, CallerRuns DEF Runnable, Alive
  <2>2. ASSUME NEW c \in Ids, Reaps(c)
        PROVE  Table!Next
    <3>1. /\ c \in children[Me] /\ state[c] = "Zombie"
          /\ state' = [state EXCEPT ![c] = "Terminated"]
          /\ children' = [children EXCEPT ![Me] = @ \ {c}]
      BY <2>2 DEF Reaps, Reap
    <3>2. tableStatus[Me] = "alive" /\ tableStatus[c] = "zombie" /\ c \in tableKids[Me]
      BY <1>t, <2>1, <3>1, StatusCases DEF tableStatus, tableKids, Alive, Started
    <3>3. tableStatus' = [tableStatus EXCEPT ![c] = "done"]
      <4>1. \A u \in Ids : state'[u] = IF u = c THEN "Terminated" ELSE state[u]
        BY <1>t, <3>1
      <4>2. StatusOf("Terminated") = "done"
        BY StatusCases DEF TaskState
      <4>3. QED BY <4>1, <4>2, Zenon DEF tableStatus
    <3>4. tableKids' = [tableKids EXCEPT ![Me] = @ \ {c}]
      <4>1. \A u \in Ids : Started(u)' <=> Started(u)
        BY <1>t, <3>1 DEF Started
      <4>2. \A p \in Ids : {d \in children'[p] : Started(d)'}
                             = {d \in children[p] : Started(d)} \ (IF p = Me THEN {c} ELSE {})
        BY <1>t, <2>1, <3>1, <4>1, Zenon
      <4>3. QED BY <2>1, <4>2, Zenon DEF tableKids
    <3>5. QED BY <2>1, <3>2, <3>3, <3>4, TableSteps, Zenon
  <2>3. CASE Fail
    BY <1>t, <2>3, TableFrame DEF Fail, Started
  <2>4. ASSUME NEW w, NEW op, NEW arg, Block(w, op, arg)
        PROVE  UNCHANGED <<tableStatus, tableKids>>
    BY <1>i, <2>1, <2>4, TableStutter, Zenon DEF Block, Wait, Me
  <2>5. QED BY <1>6, <1>i, <2>2, <2>3, <2>4, WaitCases DEF WaitsForChild, WaitsForAny
<1>7. ASSUME NEW ticks \in 0 .. MaxSleep, Sleep(ticks)
      PROVE  UNCHANGED <<tableStatus, tableKids>>
  <2>1. Me \in Ids /\ Alive(Me)
    BY <1>7, <1>i, CallerCalls, CallerRuns DEF Sleep, Runnable, Alive
  <2>2. QED BY <1>7, <1>i, <2>1, TableStutter, Zenon DEF Sleep, Block, Wait, Me
<1>8. CASE UNCHANGED <<state, children>>
  BY <1>t, <1>8, TableFrame DEF Started
<1>9. QED
  BY <1>1, <1>2, <1>3, <1>4, <1>5, <1>6, <1>7, <1>8
  DEF Next, SchedulerStep, Run, RunParksZombie, RunDropsTerminated, RunParksBlocked, RunPanics,
      SysCall, Halted, Tick, FireTimer, TickEnds, OnTick, vars, schedVars

(* The kernel keeps the exit of every child with a living parent until     *)
(* that parent, and nobody else, collects it with sys_waitpid, once.       *)
THEOREM ImplementsProcessTable == Spec => KeepsExits
<1>1. Inv /\ [Next]_vars => [Table!Next]_<<tableStatus, tableKids>>
  BY TableStep
<1>2. QED
  BY <1>1, TableInit, Invariance, PTL DEF Spec, KeepsExits, Table!Spec, tableStatus, tableKids
=============================================================================
