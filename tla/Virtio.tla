------------------------------- MODULE Virtio -------------------------------
(***************************************************************************)
(* What the virtio drivers share: the handshake that brings a device up     *)
(* (VirtioDevice::init), the virtqueues, the memory the device is shown     *)
(* and the notification.  The device is external: it fetches the chains it  *)
(* has been told of in order, and completes them in any order.              *)
(*                                                                         *)
(* A driver call polls until the device has answered, and the kernel runs   *)
(* one call at a time; only the device moves in between.                    *)
(***************************************************************************)
EXTENDS Virtqueue, FiniteSets, FiniteSetsExt

CONSTANTS
    QueueSize,   \* queue sizes, per driver
    Heap         \* bound: the addresses buffers are allocated from

VARIABLES
    driver,      \* "none", "blk", "net", "gpu", or "panic"
    status,      \* the bits of the device's Status register
    queues,      \* the driver's virtqueues, by index
    device,      \* per queue: the device's index, the chains it works on,
                 \* and whether it has been notified
    mem,         \* what is at every address; Freed if nothing is
    call         \* the driver call in progress

base == <<driver, status, queues, device, mem, call>>

Freed == [kind |-> "freed"]
NoCall == [op |-> "none"]
Idle == call = NoCall

\* An action with a value computed once.
With(x, A(_)) == \E v \in {x} : A(v)

\* The lowest free addresses, in order.
FreshAddrs(n) ==
    SubSeq(SetToSortSeq({a \in Heap : mem[a] = Freed}, <), 1, n)
Drop(addrs) == [a \in Heap |-> IF a \in addrs THEN Freed ELSE mem[a]]

-----------------------------------------------------------------------------
(* The handshake.  A card is what the device answers: whether it is a       *)
(* virtio 2 device, takes the driver's features, and has big enough queues. *)

Cards == [valid : BOOLEAN, features : BOOLEAN, queues : BOOLEAN]

StatusAfter(card) ==
    IF ~card.valid THEN {"failed"}
    ELSE {"acknowledge", "driver"} \cup
         (IF ~card.features THEN {"failed"}
          ELSE {"features_ok"} \cup
               (IF card.queues THEN {"driver_ok"} ELSE {"failed"}))

Queues == 0..1
NoQueue == VirtQueueNew(1)
QueuesOf(d) ==
    CASE d = "blk" -> <<VirtQueueNew(QueueSize[d]), NoQueue>>
      [] d = "net" -> <<VirtQueueNew(QueueSize[d]), VirtQueueNew(QueueSize[d])>>
      [] d = "gpu" -> <<Linked(VirtQueueNew(QueueSize[d])), Linked(VirtQueueNew(QueueSize[d]))>>

VirtioInit ==
    /\ driver = "none"
    /\ status = {}
    /\ queues = [i \in Queues |-> NoQueue]
    /\ device = [i \in Queues |-> [seen |-> 0, held |-> {}, notified |-> FALSE]]
    /\ mem = [a \in Heap |-> Freed]
    /\ call = NoCall

\* probe_fn: the block and network drivers panic when init fails, the GPU
\* driver warns and goes on.
Probe(d, card) ==
    /\ driver = "none"
    /\ status' = StatusAfter(card)
    /\ driver' = IF "failed" \in status' /\ d # "gpu" THEN "panic" ELSE d
    /\ queues' = [i \in Queues |-> QueuesOf(d)[i + 1]]
    /\ UNCHANGED <<device, mem, call>>

-----------------------------------------------------------------------------
(* The device.                                                              *)

Notified(dv, i) == [dv EXCEPT ![i].notified = TRUE]

\* Having been notified, the device goes through the available ring until it
\* is empty.
Fetch(i) ==
    /\ "driver_ok" \in status
    /\ device[i].notified
    /\ device[i].seen # queues[i].avail_idx
    /\ With(queues[i].avail[Slot(queues[i], device[i].seen)], LAMBDA head :
           device' = [device EXCEPT ![i] =
               [seen |-> Increment(@.seen), held |-> @.held \cup {head},
                notified |-> Increment(@.seen) # queues[i].avail_idx]])
    /\ UNCHANGED <<driver, status, queues, mem, call>>

\* The device is done with a chain it holds, having written memory.
Complete(i, head, written) ==
    /\ queues' = [queues EXCEPT ![i] = PutUsed(@, head)]
    /\ device' = [device EXCEPT ![i].held = @ \ {head}]
    /\ mem' = written
    /\ UNCHANGED <<driver, status, call>>

\* The chains of a queue the device holds or will find.
InDevice(i) ==
    device[i].held \cup
    ToSet(Between(queues[i], queues[i].avail, device[i].seen, queues[i].avail_idx))

\* The chains the device has used and the driver has not popped.
Answered(i) ==
    Between(queues[i], queues[i].used, queues[i].last_used, queues[i].used_idx)
=============================================================================
