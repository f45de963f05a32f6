---------------------------- MODULE TaskLifeProofs ----------------------------
(***************************************************************************)
(* Theorems about TaskLife, for every number of tasks, of pool slots, of   *)
(* device wakers and of ticks.                                             *)
(***************************************************************************)
EXTENDS TaskLife, TLAPS

-----------------------------------------------------------------------------
(* Facts about queues. *)

(* Appending to a queue adds one element. *)
LEMMA ElementsAppend ==
  ASSUME NEW S, NEW s \in Seq(S), NEW e \in S
  PROVE  /\ Append(s, e) \in Seq(S)
         /\ Elements(Append(s, e)) = Elements(s) \cup {e}
  BY DEF Elements

(* Popping removes the head. *)
LEMMA ElementsTail ==
  ASSUME NEW S, NEW s \in Seq(S), s # <<>>
  PROVE  /\ Head(s) \in S
         /\ Tail(s) \in Seq(S)
         /\ Elements(s) = Elements(Tail(s)) \cup {Head(s)}
<1>1. Head(s) \in S /\ Tail(s) \in Seq(S)
  OBVIOUS
<1>2. Len(s) \in Nat \ {0} /\ Len(Tail(s)) = Len(s) - 1 /\ Head(s) = s[1]
  OBVIOUS
<1>3. \A i \in 1 .. Len(Tail(s)) : Tail(s)[i] = s[i + 1]
  OBVIOUS
<1>4. Elements(s) \subseteq Elements(Tail(s)) \cup {Head(s)}
  <2>1. SUFFICES ASSUME NEW i \in 1 .. Len(s), s[i] # Head(s)
                 PROVE  s[i] \in Elements(Tail(s))
    BY DEF Elements
  <2>2. i - 1 \in 1 .. Len(Tail(s)) /\ s[i] = Tail(s)[i - 1]
    BY <1>2, <1>3, <2>1
  <2>3. QED BY <2>2 DEF Elements
<1>5. Elements(Tail(s)) \cup {Head(s)} \subseteq Elements(s)
  BY <1>2, <1>3 DEF Elements
<1>6. QED BY <1>1, <1>4, <1>5

(* The head of a queue without duplicates does not stay in it. *)
LEMMA NoDuplicatesTail ==
  ASSUME NEW S, NEW s \in Seq(S), s # <<>>, NoDuplicates(s)
  PROVE  /\ NoDuplicates(Tail(s))
         /\ Head(s) \notin Elements(Tail(s))
<1>1. Len(s) \in Nat \ {0} /\ Len(Tail(s)) = Len(s) - 1 /\ Head(s) = s[1]
  OBVIOUS
<1>2. \A i \in 1 .. Len(Tail(s)) : Tail(s)[i] = s[i + 1]
  OBVIOUS
<1>3. QED BY <1>1, <1>2 DEF NoDuplicates, Elements

(* A new element keeps a queue free of duplicates. *)
LEMMA NoDuplicatesAppend ==
  ASSUME NEW S, NEW s \in Seq(S), NEW e \in S, NoDuplicates(s), e \notin Elements(s)
  PROVE  NoDuplicates(Append(s, e))
<1>1. /\ Len(s) \in Nat
      /\ Len(Append(s, e)) = Len(s) + 1
      /\ Append(s, e)[Len(s) + 1] = e
      /\ \A i \in 1 .. Len(s) : Append(s, e)[i] = s[i]
  OBVIOUS
<1>2. QED BY <1>1 DEF NoDuplicates, Elements

(* Two queues with no common element can be joined. *)
LEMMA NoDuplicatesConcat ==
  ASSUME NEW S, NEW s \in Seq(S), NEW t \in Seq(S)
  PROVE  /\ s \o t \in Seq(S)
         /\ Elements(s \o t) = Elements(s) \cup Elements(t)
         /\ NoDuplicates(s) /\ NoDuplicates(t) /\ Elements(s) \cap Elements(t) = {}
              => NoDuplicates(s \o t)
<1>1. /\ s \o t \in Seq(S)
      /\ Len(s) \in Nat /\ Len(t) \in Nat
      /\ Len(s \o t) = Len(s) + Len(t)
      /\ \A i \in 1 .. Len(s) : (s \o t)[i] = s[i]
      /\ \A i \in Len(s) + 1 .. Len(s) + Len(t) : (s \o t)[i] = t[i - Len(s)]
  OBVIOUS
<1>2. Elements(s \o t) \subseteq Elements(s) \cup Elements(t)
  BY <1>1 DEF Elements
<1>3. Elements(s) \subseteq Elements(s \o t)
  BY <1>1 DEF Elements
<1>4. ASSUME NEW i \in 1 .. Len(t)
      PROVE  t[i] \in Elements(s \o t)
  <2>1. i + Len(s) \in 1 .. Len(s \o t) /\ (s \o t)[i + Len(s)] = t[i]
    BY <1>1
  <2>2. QED BY <2>1 DEF Elements
<1>5. Elements(t) \subseteq Elements(s \o t)
  BY <1>4 DEF Elements
<1>6. ASSUME NoDuplicates(s), NoDuplicates(t), Elements(s) \cap Elements(t) = {}
      PROVE  NoDuplicates(s \o t)
  <2>1. \A i \in 1 .. Len(s), j \in 1 .. Len(t) : s[i] # t[j]
    BY <1>6 DEF Elements
  <2>2. QED BY <1>1, <1>6, <2>1 DEF NoDuplicates
<1>7. QED BY <1>1, <1>2, <1>3, <1>5, <1>6

(* The empty queue. *)
LEMMA EmptyQueue == Elements(<<>>) = {} /\ NoDuplicates(<<>>)
  BY DEF Elements, NoDuplicates

-----------------------------------------------------------------------------
(* Type correctness.  Two facts strengthen it: a task that goes on with a  *)
(* call is the current one, and timers have expired only inside a tick.    *)
TypeInv ==
  /\ TypeOK
  /\ cpu = "resume" => current_task_id # None
  /\ cpu # "tick" => \A tm \in timers : tm.left >= 0

(* Every task and parent waker, and every continuation, is of its type. *)
LEMMA Typing ==
  /\ \A id \in Ids : TaskWaker(id) \in Wakers /\ ParentWaker(id) \in Wakers
  /\ User \in Continuation
  /\ None \notin Ids
  BY DEF TaskWaker, ParentWaker, Wakers, User, Continuation, None, Ids

(* Queue operations keep the type of a queue of ids. *)
LEMMA QueueTyping ==
  /\ <<>> \in Seq(Ids)
  /\ \A q \in Seq(Ids), t \in Ids : Append(q, t) \in Seq(Ids)
  /\ \A q1, q2 \in Seq(Ids) : q1 \o q2 \in Seq(Ids)
  /\ \A q \in Seq(Ids) : q # <<>> => Head(q) \in Ids /\ Tail(q) \in Seq(Ids)
  OBVIOUS

(* Draining a waker keeps the type of the wait queues. *)
LEMMA DrainTyping ==
  ASSUME wait_queue \in [Wakers -> Seq(Ids)], NEW ws, NEW ids \in Seq(Ids), Drain(ws, ids)
  PROVE  wakeq' \in Seq(Ids) /\ wait_queue' \in [Wakers -> Seq(Ids)]
  BY QueueTyping DEF Drain

(* The types are inductive. *)
LEMMA TypeInvStep == TypeInv /\ [Next]_vars => TypeInv'
<1> SUFFICES ASSUME TypeInv, [Next]_vars
             PROVE  TypeInv'
  OBVIOUS
<1> USE SchedulerAssumption, TaskLifeAssumption, Typing, QueueTyping
<1>1. CASE RunCreatesIdle /\ UNCHANGED <<children, timers>>
  <2>1. next_id \in Ids /\ next_id' = next_id + 1 /\ next_id' \in 1 .. MaxId + 1
    BY <1>1 DEF RunCreatesIdle, Ids
  <2>2. CASE PoolHasRoom
    <3>1. task_pool' \in SUBSET Ids
      BY <1>1, <2>1, <2>2, Zenon DEF TypeInv, TypeOK, RunCreatesIdle, AddTask
    <3>2. ready_queue' \in Seq(Ids)
      <4>1. ready_queue \in Seq(Ids) /\ ready_queue' = Append(ready_queue, next_id)
        BY <1>1, <2>2 DEF TypeInv, TypeOK, RunCreatesIdle, AddTask
      <4>2. QED BY <4>1, <2>1
    <3>3. state' \in [Ids -> TaskState]
      BY <1>1, <2>1, <2>2, Zenon DEF TypeInv, TypeOK, RunCreatesIdle, NewIdle, TaskState
    <3>4. idle_id' \in Ids
      BY <1>1, <2>1, <2>2 DEF RunCreatesIdle, NewIdle
    <3>5. QED
      BY <1>1, <2>1, <2>2, <3>1, <3>2, <3>3, <3>4, Zenon DEF TypeInv, TypeOK, RunCreatesIdle, NewIdle, At
  <2>3. CASE ~PoolHasRoom
    BY <1>1, <2>1, <2>3, Zenon DEF TypeInv, TypeOK, RunCreatesIdle, At, CpuModes
  <2>4. QED BY <2>2, <2>3
<1>2. CASE RunParksZombie /\ UNCHANGED <<children, timers>>
  <2>1. /\ Popped \in Ids /\ Rest \in Seq(Ids)
        /\ TaskWaker(Popped) \in Wakers
    BY <1>2, ElementsTail DEF TypeInv, TypeOK, RunParksZombie, Popped, Rest
  <2>2. wakeq' \in Seq(Ids) /\ wait_queue' \in [Wakers -> Seq(Ids)]
    <3> wait_queue \in [Wakers -> Seq(Ids)]
      BY DEF TypeInv, TypeOK
    <3> wait_queue[TaskWaker(Popped)] \in Seq(Ids)
      BY <2>1
    <3>1. CASE parent_id[Popped] = None
      BY <1>2, <3>1, DrainTyping DEF RunParksZombie, Announce
    <3>2. CASE parent_id[Popped] # None
      <4>1. ParentWaker(parent_id[Popped]) \in Wakers
        BY <2>1, <3>2 DEF TypeInv, TypeOK
      <4>2. wait_queue[TaskWaker(Popped)] \o wait_queue[ParentWaker(parent_id[Popped])] \in Seq(Ids)
        BY <4>1
      <4>3. QED BY <1>2, <3>2, <4>2, DrainTyping, Zenon DEF RunParksZombie, Announce
    <3>3. QED BY <3>1, <3>2
  <2>3. QED BY <1>2, <2>1, <2>2, Zenon DEF TypeInv, TypeOK, RunParksZombie, At
<1>3. CASE RunDropsTerminated /\ UNCHANGED <<children, timers>>
  BY <1>3, ElementsTail, Zenon DEF TypeInv, TypeOK, RunDropsTerminated, At, Popped, Rest
<1>4. CASE RunParksBlocked /\ UNCHANGED <<children, timers>>
  BY <1>4, ElementsTail DEF TypeInv, TypeOK, RunParksBlocked, At, Popped, Rest
<1>5. CASE RunPanics /\ UNCHANGED <<children, timers>>
  BY <1>5 DEF TypeInv, TypeOK, RunPanics, At, CpuModes
<1>6. CASE RunDispatches /\ UNCHANGED <<children, timers>>
  BY <1>6, ElementsTail, ElementsAppend
  DEF TypeInv, TypeOK, RunDispatches, Requeued, At, Popped, Rest, SwitchTo, CpuModes, TaskState
<1>7. CASE WakeTask /\ UNCHANGED <<children, timers>>
  <2>1. Head(wakeq) \in Ids /\ wakeq' \in Seq(Ids)
    BY <1>7 DEF TypeInv, TypeOK, WakeTask
  <2>2. ready_queue' \in Seq(Ids)
    <3>1. ready_queue \in Seq(Ids)
      BY DEF TypeInv, TypeOK
    <3>2. ready_queue' = Append(ready_queue, Head(wakeq)) \/ ready_queue' = ready_queue
      BY <1>7 DEF WakeTask, Unpark, WakeEarly
    <3>3. QED BY <2>1, <3>1, <3>2
  <2>3. state' \in [Ids -> TaskState] /\ blocked_queue' \in SUBSET Ids
    BY <1>7, Zenon DEF TypeInv, TypeOK, WakeTask, Unpark, WakeEarly, TaskState
  <2>4. QED BY <1>7, <2>1, <2>2, <2>3, Zenon DEF TypeInv, TypeOK, WakeTask
<1>8. CASE Clone
  <2>1. /\ Me \in Ids /\ cpu = "user" /\ next_id \in Ids
        /\ next_id' = next_id + 1 /\ next_id' \in 1 .. MaxId + 1
    BY <1>8 DEF TypeInv, TypeOK, Clone, Calls, Me, At, Ids
  <2>2. CASE CloneLinks
    <3>1. ready_queue' \in Seq(Ids)
      <4>1. ready_queue \in Seq(Ids)
        BY DEF TypeInv, TypeOK
      <4>2. ready_queue' = Append(ready_queue, next_id) \/ ready_queue' = ready_queue
        BY <1>8 DEF Clone, AddTask
      <4>3. QED BY <2>1, <4>1, <4>2
    <3>2. /\ parent_id' \in [Ids -> Ids \cup {None}]
          /\ children' \in [Ids -> SUBSET Ids]
      BY <2>1, <2>2, Zenon DEF TypeInv, TypeOK, CloneLinks
    <3>3. /\ task_pool' \in SUBSET Ids
          /\ state' \in [Ids -> TaskState]
          /\ cpu' \in {"user", "full"}
      <4>1. task_pool \in SUBSET Ids /\ state \in [Ids -> TaskState]
        BY DEF TypeInv, TypeOK
      <4>2. \/ /\ task_pool' = task_pool \cup {next_id}
               /\ state' = [state EXCEPT ![next_id] = state[Me]]
               /\ cpu' = cpu
            \/ task_pool' = task_pool /\ state' = state /\ cpu' \in {cpu, "full"}
        BY <1>8 DEF Clone, AddTask
      <4>3. QED BY <2>1, <4>1, <4>2
    <3>4. QED BY <1>8, <2>1, <3>1, <3>2, <3>3, Zenon DEF TypeInv, TypeOK, Clone, CpuModes
  <2>3. CASE ~CloneLinks
    BY <1>8, <2>1, <2>3, Zenon DEF TypeInv, TypeOK, Clone
  <2>4. QED BY <2>2, <2>3
<1>9. CASE Exit
  <2>1. [op |-> "exited", arg |-> None] \in Continuation
    BY DEF Continuation
  <2>2. ExitState(Me) \in TaskState
    BY DEF ExitState, TaskState
  <2>3. QED
    BY <1>9, <2>1, <2>2 DEF TypeInv, TypeOK, Exit, Calls, Me, At, EnterRun, CpuModes
<1>10. ASSUME NEW c \in Ids, WaitPid(c)
       PROVE  TypeInv'
  <2>1. [op |-> "waitpid", arg |-> c] \in Continuation
    BY DEF Continuation
  <2>2. Me \in Ids
    BY <1>10 DEF TypeInv, TypeOK, WaitPid, InCall, Calls, Me, At
  <2>3. ASSUME NEW d \in Ids, Reap(d), UNCHANGED waitUnchanged
        PROVE  TypeInv'
    BY <1>10, <2>2, <2>3
    DEF TypeInv, TypeOK, WaitPid, InCall, Calls, At, Reap, Return, CpuModes, TaskState, waitUnchanged
  <2>4. CASE Fail /\ UNCHANGED waitUnchanged
    BY <1>10, <2>2, <2>4, Zenon
    DEF TypeInv, TypeOK, WaitPid, InCall, Calls, At, Fail, Return, CpuModes, waitUnchanged
  <2>5. ASSUME NEW w \in Wakers, Block(w, "waitpid", c), UNCHANGED waitUnchanged
        PROVE  TypeInv'
    BY <1>10, <2>1, <2>2, <2>5
    DEF TypeInv, TypeOK, WaitPid, InCall, Calls, At, Block, Wait, Me, EnterRun, CpuModes, TaskState,
        waitUnchanged
  <2>6. QED BY <1>10, <2>2, <2>3, <2>4, <2>5, Zenon DEF WaitPid, TypeInv, TypeOK
<1>11. CASE WaitAny
  <2>1. [op |-> "waitany", arg |-> None] \in Continuation
    BY DEF Continuation
  <2>2. Me \in Ids
    BY <1>11 DEF TypeInv, TypeOK, WaitAny, InCall, Calls, Me, At
  <2>3. ASSUME NEW d \in Ids, Reap(d), UNCHANGED waitUnchanged
        PROVE  TypeInv'
    BY <1>11, <2>2, <2>3
    DEF TypeInv, TypeOK, WaitAny, InCall, Calls, At, Reap, Return, CpuModes, TaskState, waitUnchanged
  <2>4. CASE Fail /\ UNCHANGED waitUnchanged
    BY <1>11, <2>2, <2>4
    DEF TypeInv, TypeOK, WaitAny, InCall, Calls, At, Fail, Return, CpuModes, waitUnchanged
  <2>5. ASSUME NEW w \in Wakers, Block(w, "waitany", None), UNCHANGED waitUnchanged
        PROVE  TypeInv'
    BY <1>11, <2>1, <2>2, <2>5, Zenon
    DEF TypeInv, TypeOK, WaitAny, InCall, Calls, At, Block, Wait, Me, EnterRun, CpuModes, TaskState,
        waitUnchanged
  <2>6. QED BY <1>11, <2>2, <2>3, <2>4, <2>5, Zenon DEF WaitAny, TypeInv, TypeOK
<1>12. ASSUME NEW ticks \in 0 .. MaxSleep, Sleep(ticks)
       PROVE  TypeInv'
  BY <1>12, ElementsAppend
  DEF TypeInv, TypeOK, Sleep, SleepWaker, Calls, Me, At, Block, Wait, EnterRun, CpuModes, TaskState,
      Continuation, Timer
<1>13. CASE SleepReturns
  BY <1>13 DEF TypeInv, TypeOK, SleepReturns, Me, At, Fail, Return, CpuModes, waitUnchanged
<1>14. CASE Tick
  <2>1. ASSUME NEW tm \in timers
        PROVE  [tm EXCEPT !.left = @ - 1] \in Timer
    <3>1. tm \in Timer /\ tm.left \in 0 .. MaxSleep
      BY <1>14, <2>1 DEF TypeInv, TypeOK, Tick, At, Timer
    <3>2. tm.left - 1 \in -1 .. MaxSleep
      BY <3>1
    <3>3. QED BY <3>1, <3>2 DEF Timer
  <2>2. timers' \in SUBSET Timer
    BY <1>14, <2>1 DEF Tick
  <2>3. QED BY <1>14, <2>2, SMTT(40) DEF TypeInv, TypeOK, Tick, At, CpuModes
<1>15. CASE FireTimer
  <2>1. PICK tm \in timers :
              /\ timers' = timers \ {tm}
              /\ IF tm.task \in task_pool
                 THEN OnTimerExpired(tm.task)
                 ELSE UNCHANGED <<wakeq, wait_queue>>
    BY <1>15 DEF FireTimer
  <2>2. tm.task \in Ids /\ TaskWaker(tm.task) \in Wakers
    BY DEF TypeInv, TypeOK, Timer
  <2>3. wakeq' \in Seq(Ids) /\ wait_queue' \in [Wakers -> Seq(Ids)]
    <3>1. wakeq \in Seq(Ids) /\ wait_queue \in [Wakers -> Seq(Ids)]
      BY DEF TypeInv, TypeOK
    <3>2. CASE tm.task \in task_pool
      <4>1. wait_queue[TaskWaker(tm.task)] \in Seq(Ids)
        BY <2>2, <3>1
      <4>2. QED BY <2>1, <3>1, <3>2, <4>1, DrainTyping DEF OnTimerExpired, SleepWaker
    <3>3. CASE tm.task \notin task_pool
      BY <2>1, <3>1, <3>3
    <3>4. QED BY <3>2, <3>3
  <2>4. QED BY <1>15, <2>1, <2>3 DEF TypeInv, TypeOK, FireTimer, At
<1>16. CASE TickEnds
  BY <1>16, SMTT(40) DEF TypeInv, TypeOK, TickEnds, OnTick, TimersDone, At, EnterRun, CpuModes, Expired, Timer
<1>17. CASE UNCHANGED vars
  BY <1>17 DEF TypeInv, TypeOK, vars, schedVars
<1>18. QED
  BY <1>1, <1>2, <1>3, <1>4, <1>5, <1>6, <1>7, <1>8, <1>9, <1>10, <1>11, <1>12, <1>13,
     <1>14, <1>15, <1>16, <1>17
  DEF Next, SchedulerStep, Run, SysCall, Halted

(* The initial state is well typed. *)
LEMMA TypeInvInit == Init => TypeInv
  BY SchedulerAssumption, TaskLifeAssumption, Typing
  DEF Init, TypeInv, TypeOK, Ids, TaskState, CpuModes, None

(* Every variable keeps its type. *)
THEOREM TypeCorrect == Spec => []TypeOK
  BY TypeInvInit, TypeInvStep, PTL DEF Spec, TypeInv

-----------------------------------------------------------------------------
(* The queues.  Ids are handed out in order, so a new task is in no queue. *)
QueueInv ==
  /\ QueueDiscipline
  /\ \A t \in task_pool : t < next_id

(* A step that leaves the pool and the queues alone keeps the discipline. *)
LEMMA QueueFrame ==
  ASSUME QueueInv, TypeInv, next_id' \in {next_id, next_id + 1},
         UNCHANGED <<task_pool, ready_queue, blocked_queue, zombie_queue>>
  PROVE  QueueInv'
<1>1. QueueDiscipline'
  BY DEF QueueInv, QueueDiscipline
<1>2. ASSUME NEW t \in task_pool
      PROVE  t < next_id'
  <2>1. t \in Int /\ next_id \in Int /\ t < next_id
    BY DEF QueueInv, TypeInv, TypeOK, Ids
  <2>2. QED BY <2>1
<1>3. QED BY <1>1, <1>2 DEF QueueInv

(* Adding the next task keeps the discipline. *)
LEMMA QueueAdd ==
  ASSUME QueueInv, TypeInv, next_id \in Ids, next_id' = next_id + 1, AddTask(next_id),
         UNCHANGED <<blocked_queue, zombie_queue>>
  PROVE  QueueInv'
<1>1. ready_queue \in Seq(Ids) /\ next_id \in Int /\ \A t \in task_pool : t \in Int
  BY DEF TypeInv, TypeOK, Ids
<1>2. /\ ready_queue' = Append(ready_queue, next_id)
      /\ task_pool' = task_pool \cup {next_id}
  BY DEF AddTask
<1>3. next_id \notin task_pool /\ \A t \in task_pool' : t < next_id'
  BY <1>1, <1>2 DEF QueueInv
<1>4. next_id \notin Elements(ready_queue) \cup blocked_queue \cup zombie_queue
  BY <1>3 DEF QueueInv, QueueDiscipline
<1>5. /\ Elements(ready_queue') = Elements(ready_queue) \cup {next_id}
      /\ NoDuplicates(ready_queue')
  BY <1>1, <1>2, <1>4, ElementsAppend, NoDuplicatesAppend DEF QueueInv, QueueDiscipline
<1>6. QED BY <1>2, <1>3, <1>4, <1>5 DEF QueueInv, QueueDiscipline

(* What popping the ready queue leaves behind. *)
LEMMA QueuePop ==
  ASSUME QueueInv, TypeInv, ready_queue # <<>>
  PROVE  /\ Popped \in Ids /\ Rest \in Seq(Ids)
         /\ Popped \in task_pool
         /\ Popped \notin Elements(Rest) \cup blocked_queue \cup zombie_queue
         /\ Elements(ready_queue) = Elements(Rest) \cup {Popped}
         /\ NoDuplicates(Rest)
<1>1. ready_queue \in Seq(Ids) /\ NoDuplicates(ready_queue)
  BY DEF TypeInv, TypeOK, QueueInv, QueueDiscipline
<1>2. /\ Popped \in Ids /\ Rest \in Seq(Ids)
      /\ Elements(ready_queue) = Elements(Rest) \cup {Popped}
      /\ NoDuplicates(Rest) /\ Popped \notin Elements(Rest)
  BY <1>1, ElementsTail, NoDuplicatesTail DEF Popped, Rest
<1>3. QED BY <1>2 DEF QueueInv, QueueDiscipline

(* The discipline is inductive. *)
LEMMA QueueInvStep == TypeInv /\ QueueInv /\ [Next]_vars => QueueInv'
<1> SUFFICES ASSUME TypeInv, QueueInv, [Next]_vars
             PROVE  QueueInv'
  OBVIOUS
<1>1. CASE RunCreatesIdle
  <2>1. CASE PoolHasRoom
    BY <1>1, <2>1, QueueAdd DEF RunCreatesIdle
  <2>2. CASE ~PoolHasRoom
    BY <1>1, <2>2, QueueFrame DEF RunCreatesIdle
  <2>3. QED BY <2>1, <2>2
<1>2. CASE RunParksZombie
  BY <1>2, QueuePop DEF RunParksZombie, QueueInv, QueueDiscipline
<1>3. CASE RunDropsTerminated
  BY <1>3, QueuePop DEF RunDropsTerminated, QueueInv, QueueDiscipline
<1>4. CASE RunParksBlocked
  BY <1>4, QueuePop DEF RunParksBlocked, QueueInv, QueueDiscipline
<1>5. CASE RunDispatches
  <2>1. ready_queue # <<>> /\ ready_queue' = Append(Rest, Popped)
    BY <1>5 DEF RunDispatches, Requeued
  <2>2. /\ Elements(Append(Rest, Popped)) = Elements(Rest) \cup {Popped}
        /\ NoDuplicates(Append(Rest, Popped))
    <3>1. /\ Popped \in Ids /\ Rest \in Seq(Ids)
          /\ Popped \notin Elements(Rest) /\ NoDuplicates(Rest)
      BY <2>1, QueuePop
    <3>2. QED BY <3>1, ElementsAppend, NoDuplicatesAppend
  <2>3. Elements(ready_queue') = Elements(ready_queue) /\ NoDuplicates(ready_queue')
    BY <2>1, <2>2, QueuePop
  <2>4. QED BY <1>5, <2>3 DEF RunDispatches, QueueInv, QueueDiscipline
<1>6. CASE WakeTask
  <2> DEFINE t == Head(wakeq)
  <2>1. CASE t \notin blocked_queue
    BY <1>6, <2>1, QueueFrame DEF WakeTask, Unpark, WakeEarly
  <2>2. CASE t \in blocked_queue
    <3>1. t \in task_pool /\ t \notin Elements(ready_queue) /\ t \notin zombie_queue
      BY <2>2 DEF QueueInv, QueueDiscipline
    <3>2. t \in Ids /\ ready_queue \in Seq(Ids)
      BY <3>1 DEF TypeInv, TypeOK
    <3>3. ready_queue' = Append(ready_queue, t) /\ blocked_queue' = blocked_queue \ {t}
      BY <1>6, <2>2, <3>1 DEF WakeTask, Unpark, WakeEarly
    <3> HIDE DEF t
    <3>4. /\ Elements(ready_queue') = Elements(ready_queue) \cup {t}
          /\ NoDuplicates(ready_queue')
      BY <3>1, <3>2, <3>3, ElementsAppend, NoDuplicatesAppend DEF QueueInv, QueueDiscipline
    <3>5. QED
      BY <1>6, <2>2, <3>1, <3>3, <3>4 DEF WakeTask, Unpark, WakeEarly, QueueInv, QueueDiscipline
  <2>3. QED BY <2>1, <2>2
<1>7. CASE Clone
  <2>1. next_id \in Ids /\ next_id' = next_id + 1
    BY <1>7, SchedulerAssumption DEF Clone, TypeInv, TypeOK, Ids
  <2>2. \/ AddTask(next_id) /\ UNCHANGED <<blocked_queue, zombie_queue>>
        \/ UNCHANGED <<task_pool, ready_queue, blocked_queue, zombie_queue>>
    BY <1>7 DEF Clone
  <2>3. QED BY <2>1, <2>2, QueueAdd, QueueFrame
<1>8. CASE UNCHANGED <<task_pool, ready_queue, blocked_queue, zombie_queue, next_id>>
  BY <1>8, QueueFrame
<1>9. QED
  BY <1>1, <1>2, <1>3, <1>4, <1>5, <1>6, <1>7, <1>8
  DEF Next, SchedulerStep, Run, RunPanics, SysCall, Halted, Exit, WaitPid, WaitAny, Sleep,
      SleepReturns, waitUnchanged, Tick, FireTimer, TickEnds, OnTick, vars, schedVars

(* The types and the queue discipline hold in every reachable state. *)
LEMMA QueueInvariant == Spec => [](TypeInv /\ QueueInv)
<1>1. Init => QueueInv
  <2>1. SUFFICES ASSUME Init PROVE QueueInv
    OBVIOUS
  <2>2. Elements(<<1>>) = {1} /\ NoDuplicates(<<1>>)
    BY DEF Elements, NoDuplicates
  <2>3. QED BY <2>1, <2>2 DEF Init, QueueInv, QueueDiscipline
<1>2. QED BY <1>1, TypeInvInit, TypeInvStep, QueueInvStep, PTL DEF Spec

(* Every task of the pool is in exactly one queue, once. *)
THEOREM QueuesPartitionPool == Spec => []QueueDiscipline
  BY QueueInvariant, PTL DEF QueueInv
=============================================================================
