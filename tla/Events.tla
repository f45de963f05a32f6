-------------------------------- MODULE Events --------------------------------
(***************************************************************************)
(* Event IPC: the EventManager, the channels with their subscriptions, the *)
(* event queue of every task and the batch of events that the scheduler    *)
(* lets a task handle when it is dispatched.  kernel/src/ipc/event.rs,     *)
(* kernel/src/ipc/syscall.rs, Task::process_pending_events.                *)
(*                                                                         *)
(* No call here waits, so each one is a step.  The contents of an event    *)
(* are abstracted to whether it asks to kill.  Two filters stand for the   *)
(* filters of a task: one takes direct events, one those of channels.      *)
(***************************************************************************)
EXTENDS Integers, Sequences, FiniteSets, SequencesExt, FiniteSetsExt

CONSTANTS
  Tasks,      (* ids of the tasks                                           *)
  Channels,   (* names of channels                                          *)
  Slots,      (* size of a handle table                                     *)
  Sizes,      (* the buffer sizes tasks configure; the largest is default   *)
  Urgencies,  (* the priorities of the events that are sent                 *)
  MaxBatch,   (* MAX_EVENTS_PER_CYCLE                                       *)
  MaxCalls    (* bound on the calls of a behaviour                          *)

ASSUME EventsAssumption ==
  /\ IsFiniteSet(Tasks)
  /\ Sizes \subseteq Nat /\ \E n \in Sizes : \A m \in Sizes : m <= n
  /\ Urgencies \subseteq 1 .. 4
  /\ MaxBatch \in Nat \ {0}

VARIABLES
  alive,          (* tasks that the scheduler finds by id                   *)
  handles,        (* for every task and slot, the object of the handle      *)
  channels,       (* EventManager.channels                                  *)
  subscriptions,  (* the tasks of EventChannelObject.subscriptions, whose   *)
                  (* keys are made of the names of channel and task         *)
  groups,         (* members of the one task group                          *)
  task_filters,
  buffer_size,    (* DeliveryConfig of every task                           *)
  notify,         (* its failure_policy is NotifySender                     *)
  events_enabled,
  queue,          (* TaskEventQueue.events                                  *)
  total_count,    (* TaskEventQueue.total_count                             *)
  next_event,     (* the counter of generate_event_id                       *)
  last,           (* for every priority, the last event the task handled    *)
  family,         (* bound: the calls a behaviour makes besides dispatches  *)
  calls           (* bound: how many it has made                            *)

vars == <<alive, handles, channels, subscriptions, groups, task_filters, buffer_size,
          notify, events_enabled, queue, total_count, next_event, last, family, calls>>

Priority == 1 .. 4
Filters == {"direct", "channel"}
Empty == [kind |-> "none", channel |-> "none", task |-> 0]
ChannelObject(c) == [kind |-> "channel", channel |-> c, task |-> 0]
SubscriptionObject(c, t) == [kind |-> "subscription", channel |-> c, task |-> t]

Init ==
  /\ alive = Tasks
  /\ handles = [t \in Tasks |-> [s \in 1 .. Slots |-> Empty]]
  /\ channels = {}
  /\ subscriptions = [c \in Channels |-> {}]
  /\ groups = {}
  /\ task_filters = [t \in Tasks |-> {}]
  /\ buffer_size = [t \in Tasks |-> Max(Sizes)]
  /\ notify = [t \in Tasks |-> FALSE]
  /\ events_enabled = [t \in Tasks |-> TRUE]
  /\ queue = [t \in Tasks |-> [p \in Priority |-> <<>>]]
  /\ total_count = [t \in Tasks |-> 0]
  /\ next_event = 1
  /\ last = [t \in Tasks |-> [p \in Priority |-> 0]]
  /\ family \in {"direct", "group", "channel"}
  /\ calls = 0

-----------------------------------------------------------------------------
(* Delivery.  A box is the part of the state that it changes: the queues   *)
(* with their counters, and the event counter.                             *)
Box == [queue |-> queue, count |-> total_count, next |-> next_event]

Event(n, delivery, from, priority, kill) ==
  [id |-> n, delivery |-> delivery, from |-> from, priority |-> priority, kill |-> kill]

(* TaskEventQueue::enqueue *)
Enqueue(box, t, ev) ==
  [queue |-> [box.queue EXCEPT ![t][ev.priority] = Append(@, ev)],
   count |-> [box.count EXCEPT ![t] = @ + 1],
   next  |-> box.next]

(* EventFilter::matches, of any of the filters of the task. *)
Passes(t, ev) == task_filters[t] = {} \/ ev.delivery \in task_filters[t]

Full(box, t) == box.count[t] >= buffer_size[t]

(* deliver_to_task: a filtered event is dropped and counts as delivered. *)
Fails(box, t, ev) == Passes(t, ev) /\ (t \notin alive \/ Full(box, t))

DeliverToTask(box, t, ev) ==
  IF Passes(t, ev) /\ ~Fails(box, t, ev) THEN Enqueue(box, t, ev) ELSE box

(* generate_event_id *)
Counted(box) == [queue |-> box.queue, count |-> box.count, next |-> box.next + 1]

(* handle_delivery_failure: with NotifySender the sender gets a notice, if *)
(* that can be delivered.                                                  *)
HandleFailure(box, ev) ==
  IF notify[ev.from]
  THEN DeliverToTask(Counted(box), ev.from, Event(box.next, "direct", ev.from, 1, FALSE))
  ELSE box

(* One target of a send. *)
DeliverOrReport(box, t, ev) ==
  IF Fails(box, t, ev) THEN HandleFailure(box, ev) ELSE DeliverToTask(box, t, ev)

Commit(box) ==
  /\ queue' = box.queue
  /\ total_count' = box.count
  /\ next_event' = box.next

(* The event of a call takes the next number, then its targets take it. *)
Numbered == Counted(Box)

DeliveryUnchanged == <<alive, handles, channels, subscriptions, groups, task_filters,
                       buffer_size, notify, events_enabled, last>>

(* send_event to one task.  The retries of a reliable send follow at once: *)
(* nothing has changed, so they fail as the first attempt did.             *)
SendDirect(t, target, priority, kill) ==
  /\ t \in alive
  /\ Commit(DeliverOrReport(Numbered, target, Event(next_event, "direct", t, priority, kill)))
  /\ UNCHANGED DeliveryUnchanged

(* Several targets, in the order of the map or list they come from: the    *)
(* loop goes on after a failure and reports it.                            *)
SendStep(sent, target) ==
  [ev |-> sent.ev, box |-> DeliverOrReport(sent.box, target, sent.ev)]

Sending == INSTANCE Iteration WITH Step <- SendStep

SendAll(targets, ev) ==
  \E order \in SetToSeqs(targets) :
    Commit(Sending!Iterate([ev |-> ev, box |-> Numbered], order).box)

(* Mutant of Members: the group is taken for all tasks. *)
MembersAll == alive

Members == groups

(* send_event to the task group; it fails when nobody ever joined it. *)
SendGroup(t, priority) ==
  /\ t \in alive
  /\ SendAll(Members, Event(next_event, "group", t, priority, FALSE))
  /\ UNCHANGED DeliveryUnchanged

(* send_event to all tasks of the scheduler. *)
Broadcast(t, priority) ==
  /\ t \in alive
  /\ SendAll(alive, Event(next_event, "broadcast", t, priority, FALSE))
  /\ UNCHANGED DeliveryUnchanged

(* broadcast_to_subscribers ignores failures. *)
PublishStep(sent, target) ==
  [ev |-> sent.ev, box |-> DeliverToTask(sent.box, target, sent.ev)]

Publishing == INSTANCE Iteration WITH Step <- PublishStep

(* sys_event_publish with the handle of a channel. *)
Publish(t, s) ==
  /\ t \in alive
  /\ handles[t][s].kind = "channel"
  /\ LET ev == Event(next_event, "channel", t, 2, FALSE)
     IN \E order \in SetToSeqs(subscriptions[handles[t][s].channel]) :
          Commit(Publishing!Iterate([ev |-> ev, box |-> Numbered], order).box)
  /\ UNCHANGED DeliveryUnchanged

-----------------------------------------------------------------------------
(* Channels, subscriptions and their handles. *)
FreeSlots(t) == {s \in 1 .. Slots : handles[t][s] = Empty}

(* HandleTable::insert, which fails when the table is full. *)
InsertHandle(t, object) ==
  handles' = IF FreeSlots(t) = {} THEN handles
             ELSE [handles EXCEPT ![t][Min(FreeSlots(t))] = object]

CallUnchanged == <<alive, groups, task_filters, buffer_size, notify, events_enabled,
                   queue, total_count, next_event, last>>

(* sys_event_channel_create *)
CreateChannel(t, c) ==
  /\ t \in alive
  /\ channels' = channels \cup {c}
  /\ InsertHandle(t, ChannelObject(c))
  /\ UNCHANGED <<CallUnchanged, subscriptions>>

FoundOrCreated(c) == channels \cup {c}

(* sys_event_subscribe: the channel is created when it is missing, and the *)
(* subscription is registered before the handle is inserted.               *)
Subscribe(t, c) ==
  /\ t \in alive
  /\ channels' = FoundOrCreated(c)
  /\ subscriptions' = [subscriptions EXCEPT ![c] = @ \cup {t}]
  /\ InsertHandle(t, SubscriptionObject(c, t))
  /\ UNCHANGED CallUnchanged

(* remove_subscription_from_channel: the entry under the id of the object, *)
(* which any other subscription of the task to the channel shares.         *)
Unregistered(object) ==
  [subscriptions EXCEPT ![object.channel] = @ \ {object.task}]

(* sys_event_unsubscribe *)
Unsubscribe(t, s) ==
  /\ t \in alive
  /\ handles[t][s].kind = "subscription"
  /\ subscriptions' = Unregistered(handles[t][s])
  /\ handles' = [handles EXCEPT ![t][s] = Empty]
  /\ UNCHANGED <<CallUnchanged, channels>>

(* sys_handle_close: the registry keeps the subscription. *)
CloseHandle(t, s) ==
  /\ t \in alive
  /\ handles[t][s] # Empty
  /\ handles' = [handles EXCEPT ![t][s] = Empty]
  /\ UNCHANGED <<CallUnchanged, channels, subscriptions>>

(* Task::exit closes all handles; the task is found no more once its slot  *)
(* is freed.                                                               *)
Exit(t) ==
  /\ t \in alive
  /\ alive' = alive \ {t}
  /\ handles' = [handles EXCEPT ![t] = [s \in 1 .. Slots |-> Empty]]
  /\ UNCHANGED <<channels, subscriptions, groups, task_filters, buffer_size, notify,
                 events_enabled, queue, total_count, next_event, last>>

-----------------------------------------------------------------------------
(* Settings of the calling task. *)
JoinGroup(t) ==
  /\ t \in alive
  /\ groups' = groups \cup {t}
  /\ UNCHANGED <<alive, handles, channels, subscriptions, task_filters, buffer_size,
                 notify, events_enabled, queue, total_count, next_event, last>>

LeaveGroup(t) ==
  /\ t \in alive
  /\ groups' = groups \ {t}
  /\ UNCHANGED <<alive, handles, channels, subscriptions, task_filters, buffer_size,
                 notify, events_enabled, queue, total_count, next_event, last>>

(* register_filter, unregister_filter_by_id and clear_filters *)
SetFilters(t, fs) ==
  /\ t \in alive
  /\ task_filters' = [task_filters EXCEPT ![t] = fs]
  /\ UNCHANGED <<alive, handles, channels, subscriptions, groups, buffer_size, notify,
                 events_enabled, queue, total_count, next_event, last>>

(* configure_delivery; events that are queued already stay. *)
ConfigureDelivery(t, size, policy) ==
  /\ t \in alive
  /\ buffer_size' = [buffer_size EXCEPT ![t] = size]
  /\ notify' = [notify EXCEPT ![t] = policy]
  /\ UNCHANGED <<alive, handles, channels, subscriptions, groups, task_filters,
                 events_enabled, queue, total_count, next_event, last>>

(* enable_events, disable_events *)
EnableEvents(t, on) ==
  /\ t \in alive
  /\ events_enabled' = [events_enabled EXCEPT ![t] = on]
  /\ UNCHANGED <<alive, handles, channels, subscriptions, groups, task_filters,
                 buffer_size, notify, queue, total_count, next_event, last>>

-----------------------------------------------------------------------------
(* The order in which TaskEventQueue::dequeue yields the events. *)
InOrder(q) == q[4] \o q[3] \o q[2] \o q[1]

(* is_critical_event *)
Critical(ev) == ev.priority = 4 \/ (ev.priority = 3 /\ ev.kill)

(* How many events process_pending_events handles: it stops after MaxBatch *)
(* events and after a critical one.                                        *)
BatchSize(evs) ==
  Min({MaxBatch, Len(evs)} \cup {i \in 1 .. Len(evs) : Critical(evs[i])})

(* The queued events that go before those of each priority. *)
Ahead(q) == <<Len(q[4]) + Len(q[3]) + Len(q[2]), Len(q[4]) + Len(q[3]), Len(q[4]), 0>>

(* How many of the first k events are of priority p. *)
Taken(q, k, p) ==
  LET n == k - Ahead(q)[p]
  IN IF n <= 0 THEN 0 ELSE IF n <= Len(q[p]) THEN n ELSE Len(q[p])

(* Mutant of Remaining: the last handled event stays queued. *)
RemainingOneMore(q, k) ==
  [p \in Priority |-> SubSeq(q[p], IF Taken(q, k, p) = 0 THEN 1 ELSE Taken(q, k, p), Len(q[p]))]

Remaining(q, k) == [p \in Priority |-> SubSeq(q[p], Taken(q, k, p) + 1, Len(q[p]))]

LastHandled(q, k, before) ==
  [p \in Priority |-> IF Taken(q, k, p) = 0 THEN before[p] ELSE q[p][Taken(q, k, p)].id]

(* Mutant of MayHandle: a batch is started only for several events. *)
MayHandleSeveral(t) == events_enabled[t] /\ total_count[t] > 1

MayHandle(t) == events_enabled[t]

(* process_pending_events, called by schedule for the task it switches to. *)
(* The ABIs take the default handle_event, which ignores the event.        *)
ProcessPendingEvents(t) ==
  /\ t \in alive
  /\ MayHandle(t)
  /\ InOrder(queue[t]) # <<>>
  /\ \E k \in {BatchSize(InOrder(queue[t]))} :
        /\ queue' = [queue EXCEPT ![t] = Remaining(@, k)]
        /\ total_count' = [total_count EXCEPT ![t] = @ - k]
        /\ last' = [last EXCEPT ![t] = LastHandled(queue[t], k, @)]
  /\ UNCHANGED <<alive, handles, channels, subscriptions, groups, task_filters,
                 buffer_size, notify, events_enabled, next_event>>

-----------------------------------------------------------------------------
(* Direct events and the settings that their delivery depends on. *)
Direct(t) ==
  \/ \E target \in Tasks, p \in Urgencies :
       \/ SendDirect(t, target, p, FALSE)
       \/ p = 3 /\ SendDirect(t, target, p, TRUE)
  \/ \E size \in Sizes, policy \in BOOLEAN : ConfigureDelivery(t, size, policy)
  \/ \E on \in BOOLEAN : EnableEvents(t, on)

(* Groups and broadcasts, with filters and reports of failures. *)
Group(t) ==
  \/ SendGroup(t, 2) \/ Broadcast(t, 2)
  \/ \E target \in Tasks : SendDirect(t, target, 2, FALSE)
  \/ JoinGroup(t) \/ LeaveGroup(t)
  \/ \E fs \in SUBSET Filters : SetFilters(t, fs)
  \/ \E size \in Sizes : ConfigureDelivery(t, size, TRUE)

(* Channels. *)
Channel(t) ==
  \/ \E c \in Channels : CreateChannel(t, c) \/ Subscribe(t, c)
  \/ \E s \in 1 .. Slots : Publish(t, s) \/ Unsubscribe(t, s) \/ CloseHandle(t, s)
  \/ Exit(t)

Calls(t) ==
  \/ family = "direct" /\ Direct(t)
  \/ family = "group" /\ Group(t)
  \/ family = "channel" /\ Channel(t)

Call(t) == calls < MaxCalls /\ Calls(t) /\ calls' = calls + 1 /\ UNCHANGED family

Dispatch(t) == ProcessPendingEvents(t) /\ UNCHANGED <<family, calls>>

(* No task is left, or the bound on the calls is reached. *)
Over == (alive = {} \/ calls = MaxCalls) /\ UNCHANGED vars

Next ==
  \/ \E t \in Tasks : Call(t) \/ Dispatch(t)
  \/ Over

(* The scheduler dispatches every task again and again. *)
FairDispatch == \A t \in Tasks : WF_vars(Dispatch(t))

Spec == Init /\ [][Next]_vars /\ FairDispatch
-----------------------------------------------------------------------------
(* Events of one priority are handled in the order they were sent, and     *)
(* none is handled twice or put back: what is queued is newer than what    *)
(* was handled, and in order.                                              *)
FifoPerPriority ==
  \A t \in Tasks, p \in Priority :
    LET q == queue[t][p]
    IN /\ \A i \in 1 .. Len(q) : q[i].id > last[t][p]
       /\ \A i, j \in 1 .. Len(q) : i < j => q[i].id < q[j].id

(* A queued event is handled, unless the task exits or disables events. *)
EventsHandled ==
  \A t \in Tasks :
    (total_count[t] > 0) ~> (total_count[t] = 0 \/ t \notin alive \/ ~events_enabled[t])

(* The tasks that an event of each kind is meant for. *)
Audiences(delivery) ==
  CASE delivery = "group"     -> {groups}
    [] delivery = "broadcast" -> {alive}
    [] delivery = "channel"   -> {subscriptions[c] : c \in channels}

(* The i-th event of priority p is the event n. *)
IsCopy(q, p, i, n, delivery) == q[p][i].id = n /\ q[p][i].delivery = delivery

Gets(q, n, delivery) ==
  \E p \in Priority : \E i \in 1 .. Len(q[p]) : IsCopy(q, p, i, n, delivery)

GetsOnce(q, n, delivery) ==
  \A p, r \in Priority : \A i \in 1 .. Len(q[p]), j \in 1 .. Len(q[r]) :
    IsCopy(q, p, i, n, delivery) /\ IsCopy(q, r, j, n, delivery) => p = r /\ i = j

(* A step that sends an event to a group, to all or over a channel. *)
SentToAll ==
  next_event' > next_event => \A d \in {"group", "broadcast", "channel"} :
    (\E t \in Tasks : Gets(queue'[t], next_event, d)) =>
      \E audience \in Audiences(d) : \A t \in Tasks :
        LET meant == t \in audience \cap alive /\ Passes(t, [delivery |-> d])
        IN IF Gets(queue'[t], next_event, d)
           THEN /\ meant /\ total_count[t] < buffer_size[t]
                /\ GetsOnce(queue'[t], next_event, d)
           ELSE meant => total_count'[t] >= buffer_size[t]

(* An event of a group, of a channel or to all that anybody gets, every    *)
(* member, subscriber or task gets, once, and nobody else: one misses it   *)
(* only when it has exited, its filters drop the event or its buffer is    *)
(* full.  The loops of deliver_to_group, broadcast_to_subscribers and      *)
(* deliver_broadcast go on after a failure and report it in between, and   *)
(* the reports may be what fills the buffer of the sender.                 *)
ReachesAudience == [][SentToAll]_vars
=============================================================================
