------------------------------ MODULE PipeProofs ------------------------------
(***************************************************************************)
(* Theorems about Pipe, for every number of tasks and users, every         *)
(* capacity and every bound on bytes and ends.                             *)
(***************************************************************************)
EXTENDS Pipe, SequenceTheorems, TLAPS

-----------------------------------------------------------------------------
(* The bytes. *)

(* The ordinals of the bytes after the first a and up to the b-th. *)
Window(a, b) == [i \in 1 .. b - a |-> a + i]

ByteInv ==
  /\ got \in Nat /\ sent \in Nat /\ got <= sent
  /\ ~closed => buffer = Window(got, sent)

(* A window of the stream is a sequence as long as the bytes it spans. *)
LEMMA WindowIs ==
  ASSUME NEW a \in Nat, NEW b \in Nat, a <= b
  PROVE  /\ Window(a, b) \in Seq(Nat) /\ Len(Window(a, b)) = b - a
         /\ \A i \in 1 .. b - a : Window(a, b)[i] = a + i
  BY DEF Window

(* pop_front k times leaves the rest of the window. *)
LEMMA WindowTaken ==
  ASSUME NEW a \in Nat, NEW b \in Nat, a <= b, NEW k \in 0 .. b - a
  PROVE  SubSeq(Window(a, b), k + 1, Len(Window(a, b))) = Window(a + k, b)
<1> DEFINE w == Window(a, b)
           s == SubSeq(w, k + 1, Len(w))
           x == Window(a + k, b)
<1>1. w \in Seq(Nat) /\ Len(w) = b - a /\ \A i \in 1 .. b - a : w[i] = a + i
  BY WindowIs
<1>2. /\ a + k \in Nat /\ a + k <= b /\ x \in Seq(Nat) /\ Len(x) = b - (a + k)
      /\ \A i \in 1 .. b - (a + k) : x[i] = (a + k) + i
  BY WindowIs
<1> HIDE DEF w, x
<1>3. /\ s \in Seq(Nat) /\ Len(s) = Len(w) - k
      /\ \A i \in 1 .. Len(w) - k : s[i] = w[k + i]
  BY <1>1
<1> HIDE DEF s
<1>4. \A i \in 1 .. Len(x) : s[i] = x[i]
  BY <1>1, <1>2, <1>3
<1>5. s = x
  BY <1>1, <1>2, <1>3, <1>4
<1>6. QED BY <1>5 DEF s, w, x

(* k more bytes extend the window. *)
LEMMA WindowSent ==
  ASSUME NEW a \in Nat, NEW b \in Nat, a <= b, NEW k \in Nat
  PROVE  Window(a, b) \o [i \in 1 .. k |-> b + i] = Window(a, b + k)
<1> DEFINE w == Window(a, b)
           e == [i \in 1 .. k |-> b + i]
           x == Window(a, b + k)
<1>1. w \in Seq(Nat) /\ Len(w) = b - a /\ \A i \in 1 .. b - a : w[i] = a + i
  BY WindowIs
<1>2. e \in Seq(Nat) /\ Len(e) = k /\ \A i \in 1 .. k : e[i] = b + i
  OBVIOUS
<1>3. b + k \in Nat /\ a <= b + k
  OBVIOUS
<1>4. /\ x \in Seq(Nat) /\ Len(x) = b + k - a
      /\ \A i \in 1 .. b + k - a : x[i] = a + i
  BY <1>3, WindowIs
<1> HIDE DEF w, e, x
<1>5. /\ w \o e \in Seq(Nat) /\ Len(w \o e) = Len(w) + Len(e)
      /\ \A i \in 1 .. Len(w) + Len(e) :
             (w \o e)[i] = IF i <= Len(w) THEN w[i] ELSE e[i - Len(w)]
  BY <1>1, <1>2, ConcatProperties, Zenon
<1> DEFINE c == w \o e
<1>6. c \in Seq(Nat) /\ Len(c) = Len(x)
  BY <1>1, <1>2, <1>4, <1>5
<1>7. ASSUME NEW i \in 1 .. Len(c)
      PROVE  c[i] = x[i]
  <2>1. i \in 1 .. b + k - a /\ c[i] = IF i <= b - a THEN w[i] ELSE e[i - (b - a)]
    BY <1>1, <1>2, <1>4, <1>5, <1>6, Zenon
  <2>2. x[i] = a + i
    BY <1>4, <2>1
  <2> HIDE DEF c
  <2>3. CASE i <= b - a
    BY <1>1, <2>1, <2>2, <2>3
  <2>4. CASE i > b - a
    <3>1. i - (b - a) \in 1 .. k
      BY <2>1, <2>4
    <3>2. QED BY <1>2, <2>1, <2>2, <2>4, <3>1
  <2>5. QED BY <2>1, <2>3, <2>4
<1> HIDE DEF c
<1>8. c = x
  BY <1>4, <1>6, <1>7, SeqEqual
<1>9. QED BY <1>8, Zenon DEF c, w, e, x

(* A call that transfers nothing, and any step outside the pipe. *)
LEMMA ByteFrame ==
  ASSUME ByteInv, UNCHANGED <<buffer, closed, sent, got>>
  PROVE  ByteInv'
  BY DEF ByteInv

(* A read takes the front of the window. *)
LEMMA ByteRead ==
  ASSUME ByteInv, NEW n \in 0 .. Capacity + 1, Read(n)
  PROVE  ByteInv'
<1>1. CASE SpinOnLock \/ ReturnAtOnce \/ WaitWithGuard(ReadWaker, [op |-> "read", arg |-> n])
  BY <1>1, ByteFrame DEF SpinOnLock, ReturnAtOnce, WaitWithGuard, pipeVars
<1> DEFINE k == Smaller(n, Len(buffer))
<1>2. CASE /\ ~closed /\ buffer' = Taken(k) /\ got' = got + k
           /\ UNCHANGED <<closed, sent>>
  <2>1. buffer = Window(got, sent) /\ Len(buffer) = sent - got
    BY <1>2, WindowIs DEF ByteInv
  <2>2. k \in 0 .. sent - got
    BY <2>1, PipeAssumption DEF Smaller, ByteInv
  <2> HIDE DEF k
  <2>3. Taken(k) = Window(got + k, sent)
    BY <2>1, <2>2, WindowTaken, Zenon DEF Taken, ByteInv
  <2>4. QED BY <1>2, <2>2, <2>3 DEF ByteInv
<1>3. QED BY <1>1, <1>2 DEF Read

(* A write extends the window. *)
LEMMA ByteWrite ==
  ASSUME ByteInv, NEW n \in 0 .. Capacity + 1, Write(n)
  PROVE  ByteInv'
<1>1. CASE SpinOnLock \/ ReturnAtOnce \/ WaitWithGuard(WriteWaker, [op |-> "write", arg |-> n])
  BY <1>1, ByteFrame DEF SpinOnLock, ReturnAtOnce, WaitWithGuard, pipeVars
<1> DEFINE k == Smaller(n, Space)
<1>2. CASE /\ ~closed /\ Space > 0
           /\ buffer' = buffer \o [i \in 1 .. k |-> sent + i] /\ sent' = sent + k
           /\ UNCHANGED <<closed, got>>
  <2>1. buffer = Window(got, sent) /\ Len(buffer) = sent - got
    BY <1>2, WindowIs DEF ByteInv
  <2>2. k \in Nat
    BY <1>2, <2>1, PipeAssumption DEF Smaller, Space, ByteInv
  <2> HIDE DEF k
  <2>3. buffer' = Window(got, sent + k)
    BY <1>2, <2>1, <2>2, WindowSent, Zenon DEF ByteInv
  <2>4. sent' = sent + k /\ closed' = closed /\ got' = got
    BY <1>2, Zenon
  <2>5. QED BY <2>2, <2>3, <2>4 DEF ByteInv
<1>3. QED BY <1>1, <1>2, Zenon DEF Write

(* Every step keeps the buffer a window of the stream. *)
LEMMA ByteStep == ByteInv /\ [Next]_vars => ByteInv'
<1>1. SUFFICES ASSUME ByteInv, [Next]_vars
               PROVE  ByteInv'
  OBVIOUS
<1>2. CASE Machine \/ Tick \/ Spins \/ UNCHANGED vars
  BY <1>1, <1>2, ByteFrame DEF Machine, Tick, Spins, vars, pipeVars
<1>3. CASE \E n \in 0 .. Capacity + 1 : Read(n) \/ Write(n)
  BY <1>1, <1>3, ByteRead, ByteWrite
<1>4. CASE \E e \in End : Dup(e)
  BY <1>1, <1>4, ByteFrame DEF Dup, SpinOnLock, pipeVars
<1>5. CASE \E e \in End : Close(e)
  <2>1. UNCHANGED <<sent, got>> /\ (UNCHANGED <<closed, buffer>> \/ closed')
    BY <1>5 DEF Close, SpinOnLock, pipeVars
  <2>2. QED BY <1>1, <2>1 DEF ByteInv
<1>6. QED BY <1>1, <1>2, <1>3, <1>4, <1>5 DEF Next

(* The bytes come out once each, in the order they went in: PipeState's    *)
(* ring under any reads, writes, waits, duplications and drops.            *)
THEOREM PipeKeepsOrder == Spec => []BytesInOrder
<1>1. Init => ByteInv
  BY DEF Init, ByteInv, Window
<1>2. ByteInv => BytesInOrder
  BY DEF ByteInv, Window, BytesInOrder
<1>3. QED BY <1>1, <1>2, ByteStep, PTL DEF Spec

-----------------------------------------------------------------------------
(* The lock. *)

(* What the scheduler keeps while nobody exits: the pool only grows, with  *)
(* ids in order, and the task on the CPU is of the pool.                   *)
SchedInv ==
  /\ next_id \in Nat \ {0}
  /\ task_pool \subseteq Ids /\ \A t \in task_pool : t < next_id
  /\ current_task_id \in task_pool \cup {None}
  /\ cpu = "resume" => current_task_id # None
  /\ state \in [Ids -> {"NotInitialized", "Ready", "Running", "Blocked"}]
  /\ pc \in [Ids -> [op : {"user"} \cup End, arg : Nat]]

(* Whoever keeps the guard waits on the pipe, and no wake is under way. *)
LockInv ==
  /\ cpu = "spin" => lock # None
  /\ lock # None => /\ lock \in task_pool /\ state[lock] = "Blocked"
                    /\ pc[lock].op \in End /\ wakeq = <<>>

PipeInv == SchedInv /\ LockInv

(* The loop of run: nobody is a Zombie or Terminated, and a task that is   *)
(* dispatched is not the one that waits.                                   *)
LEMMA RunKeeps ==
  ASSUME PipeInv, Run, UNCHANGED pipeVars
  PROVE  PipeInv'
<1> USE DEF PipeInv, SchedInv, LockInv, pipeVars, At
<1>1. CASE RunCreatesIdle
  <2>1. CASE cpu' = "full" /\ UNCHANGED <<task_pool, ready_queue, state, idle_id>>
    BY <1>1, <2>1 DEF RunCreatesIdle
  <2>2. CASE AddTask(next_id) /\ NewIdle(next_id) /\ UNCHANGED cpu
    <3>1. lock # None => lock # next_id
      BY DEF Ids
    <3>2. QED BY <1>1, <2>2, <3>1 DEF RunCreatesIdle, AddTask, NewIdle
  <2>3. QED BY <1>1, <2>1, <2>2 DEF RunCreatesIdle
<1>2. ~RunParksZombie /\ ~RunDropsTerminated
  BY DEF RunParksZombie, RunDropsTerminated
<1>3. CASE RunParksBlocked
  BY <1>3 DEF RunParksBlocked
<1>4. CASE RunPanics
  BY <1>4 DEF RunPanics
<1>5. CASE RunDispatches
  <2>1. Popped \in task_pool /\ Popped \in Ids /\ Popped # None
    BY <1>5 DEF RunDispatches, Ids, None
  <2>2. lock # None => Popped # lock
    BY <1>5 DEF RunDispatches, Runnable
  <2>3. state' \in [Ids -> {"NotInitialized", "Ready", "Running", "Blocked"}]
    BY <1>5, <2>1 DEF RunDispatches
  <2>4. lock # None => state'[lock] = state[lock]
    BY <1>5, <2>1, <2>2 DEF RunDispatches
  <2>5. cpu' \in {"panic", "user", "resume"}
    BY <1>5 DEF RunDispatches, SwitchTo
  <2>6. QED BY <1>5, <2>1, <2>3, <2>4, <2>5 DEF RunDispatches
<1>6. QED BY <1>2, <1>1, <1>3, <1>4, <1>5 DEF Run

(* A wake loop runs only while the lock is free; the tick touches neither. *)
LEMMA WakeKeeps ==
  ASSUME PipeInv, WakeTask \/ OnTick, UNCHANGED pipeVars
  PROVE  PipeInv'
<1> USE DEF PipeInv, SchedInv, LockInv, pipeVars, At
<1>1. CASE WakeTask
  <2>1. lock = None
    BY <1>1 DEF WakeTask
  <2>2. state' \in [Ids -> {"NotInitialized", "Ready", "Running", "Blocked"}]
    BY <1>1, Zenon DEF WakeTask, Unpark, WakeEarly
  <2>3. QED BY <1>1, <2>1, <2>2 DEF WakeTask
<1>2. CASE OnTick
  BY <1>2 DEF OnTick, EnterRun
<1>3. QED BY <1>1, <1>2

(* A call that spins leaves all as it is. *)
LEMMA SpinKeeps ==
  ASSUME PipeInv, SpinOnLock
  PROVE  PipeInv'
  BY DEF PipeInv, SchedInv, LockInv, SpinOnLock, CallUnchanged, pipeVars

(* A call that returns does so with the lock free. *)
LEMMA ReturnKeeps ==
  ASSUME PipeInv, Me # None, lock = None, Return,
         UNCHANGED <<CallUnchanged, state, old_task_id, lock>>
  PROVE  PipeInv'
<1>1. Me \in Ids
  BY DEF PipeInv, SchedInv, Me
<1>2. pc' \in [Ids -> [op : {"user"} \cup End, arg : Nat]]
  BY <1>1 DEF PipeInv, SchedInv, Return, User, None
<1>3. QED BY <1>2 DEF PipeInv, SchedInv, LockInv, Return, CallUnchanged

(* A call that waits takes the lock with it, and is Blocked. *)
LEMMA WaitKeeps ==
  ASSUME PipeInv, Me # None, wakeq = <<>>, NEW w, NEW e \in End, NEW n \in Nat,
         WaitWithGuard(w, [op |-> e, arg |-> n])
  PROVE  PipeInv'
<1>1. Me \in task_pool /\ Me \in Ids
  BY DEF PipeInv, SchedInv, Me
<1> DEFINE c == [op |-> e, arg |-> n]
<1>2. c \in [op : {"user"} \cup End, arg : Nat] /\ c.op \in End
  OBVIOUS
<1>3. /\ lock' = Me /\ cpu' = "run" /\ wakeq' = <<>>
      /\ state' = [state EXCEPT ![Me] = "Blocked"] /\ pc' = [pc EXCEPT ![Me] = c]
      /\ UNCHANGED CallUnchanged
  BY DEF WaitWithGuard, Wait, EnterRun, Me
<1> HIDE DEF c
<1>4. /\ state' \in [Ids -> {"NotInitialized", "Ready", "Running", "Blocked"}]
      /\ state'[Me] = "Blocked"
  BY <1>1, <1>3 DEF PipeInv, SchedInv
<1>5. pc' \in [Ids -> [op : {"user"} \cup End, arg : Nat]] /\ pc'[Me] = c
  BY <1>1, <1>2, <1>3 DEF PipeInv, SchedInv
<1>6. QED BY <1>1, <1>2, <1>3, <1>4, <1>5 DEF PipeInv, SchedInv, LockInv, CallUnchanged

(* Every step keeps the guard with a task that waits. *)
LEMMA PipeInvStep == PipeInv /\ [Next]_vars => PipeInv'
<1>1. SUFFICES ASSUME PipeInv, [Next]_vars
               PROVE  PipeInv'
  OBVIOUS
<1>2. CASE Machine
  BY <1>1, <1>2, RunKeeps, WakeKeeps DEF Machine
<1>3. CASE Tick
  BY <1>1, <1>3 DEF PipeInv, SchedInv, LockInv, Tick, CallUnchanged, pipeVars
<1>4. CASE Spins \/ UNCHANGED vars
  BY <1>1, <1>4 DEF PipeInv, SchedInv, LockInv, Spins, vars, schedVars, pipeVars
<1>5. ASSUME NEW op, NEW n, InCall(op, n)
      PROVE  Me # None /\ wakeq = <<>>
  BY <1>1, <1>5 DEF InCall, Calls, At, Me, PipeInv, SchedInv
<1>6. ASSUME NEW n \in 0 .. Capacity + 1, Read(n)
      PROVE  PipeInv'
  <2>1. Me # None /\ wakeq = <<>> /\ n \in Nat
    BY <1>5, <1>6, PipeAssumption DEF Read
  <2>2. CASE SpinOnLock
    BY <1>1, <2>2, SpinKeeps
  <2>3. CASE WaitWithGuard(ReadWaker, [op |-> "read", arg |-> n])
    BY <1>1, <2>1, <2>3, WaitKeeps DEF End
  <2>4. CASE lock = None /\ Return /\ UNCHANGED <<CallUnchanged, state, old_task_id, lock>>
    BY <1>1, <2>1, <2>4, ReturnKeeps
  <2>5. QED BY <1>6, <2>2, <2>3, <2>4 DEF Read, ReturnAtOnce, pipeVars
<1>7. ASSUME NEW n \in 0 .. Capacity + 1, Write(n)
      PROVE  PipeInv'
  <2>1. Me # None /\ wakeq = <<>> /\ n \in Nat
    BY <1>5, <1>7, PipeAssumption DEF Write
  <2>2. CASE SpinOnLock
    BY <1>1, <2>2, SpinKeeps
  <2>3. CASE WaitWithGuard(WriteWaker, [op |-> "write", arg |-> n])
    BY <1>1, <2>1, <2>3, WaitKeeps DEF End
  <2>4. CASE lock = None /\ Return /\ UNCHANGED <<CallUnchanged, state, old_task_id, lock>>
    BY <1>1, <2>1, <2>4, ReturnKeeps
  <2>5. QED BY <1>7, <2>2, <2>3, <2>4 DEF Write, ReturnAtOnce, pipeVars
<1>8. ASSUME NEW e \in End, Dup(e) \/ Close(e)
      PROVE  PipeInv'
  <2>1. CASE SpinOnLock
    BY <1>1, <2>1, SpinKeeps
  <2>2. CASE UNCHANGED <<schedVars, lock>>
    BY <1>1, <2>2 DEF PipeInv, SchedInv, LockInv, schedVars
  <2>3. QED BY <1>8, <2>1, <2>2 DEF Dup, Close
<1>9. QED BY <1>1, <1>2, <1>3, <1>4, <1>6, <1>7, <1>8 DEF Next

(* A call hangs on the lock of a pipe only behind a task that waits on     *)
(* this very pipe, and that nothing but a call on the pipe would wake: how *)
(* far the guard kept across Waker::wait reaches.                          *)
THEOREM OnlyWaitersHoldTheLock == Spec => []SpinsBehindWaiter
<1>1. Init => PipeInv
  <2>1. SUFFICES ASSUME Init
                 PROVE  PipeInv
    OBVIOUS
  <2>2. Users \in Nat /\ Users >= 1 /\ 1 .. Users \subseteq Ids
    BY PipeAssumption, SchedulerAssumption DEF Ids
  <2>3. /\ task_pool = 1 .. Users /\ next_id = Users + 1 /\ current_task_id = None
        /\ cpu = "user" /\ lock = None
    BY <2>1 DEF Init, StartWith
  <2>4. /\ state \in [Ids -> {"NotInitialized", "Ready", "Running", "Blocked"}]
        /\ pc \in [Ids -> [op : {"user"} \cup End, arg : Nat]]
    BY <2>1 DEF Init, StartWith, User, None
  <2>5. QED BY <2>2, <2>3, <2>4 DEF PipeInv, SchedInv, LockInv
<1>2. PipeInv => SpinsBehindWaiter
  BY DEF PipeInv, LockInv, SpinsBehindWaiter
<1>3. QED BY <1>1, <1>2, PipeInvStep, PTL DEF Spec
=============================================================================
