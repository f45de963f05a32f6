----------------------------- MODULE Virtqueue -----------------------------
(***************************************************************************)
(* A split virtqueue (VirtQueue in drivers/virtio/queue.rs): the descriptor *)
(* table, the ring of available chains the driver fills, the ring of used   *)
(* chains the device fills, and the driver's stack of free descriptors.     *)
(*                                                                         *)
(* Both ring indices are u16 that wrap around; a slot is the index modulo   *)
(* the queue size, which divides 65536.  IndexBound stands for 65536.       *)
(***************************************************************************)
EXTENDS Integers, Sequences, SequencesExt

CONSTANT IndexBound

ASSUME IndexBoundAssumption == IndexBound \in Nat \ {0}

NullAddr == 0
Cleared == [addr |-> NullAddr, flags |-> {}, next |-> 0]

VirtQueueNew(n) ==
    [size |-> n,
     desc |-> [d \in 0..(n - 1) |-> Cleared],
     avail |-> [k \in 0..(n - 1) |-> 0], avail_idx |-> 0,
     used |-> [k \in 0..(n - 1) |-> 0], used_idx |-> 0,
     free |-> [k \in 1..n |-> k - 1],
     last_used |-> 0]

\* init links the descriptors into a circle; alloc_desc clears what it takes.
Linked(q) == [q EXCEPT !.desc = [d \in DOMAIN q.desc |->
                                    [Cleared EXCEPT !.next = (d + 1) % q.size]]]

Increment(i) == (i + 1) % IndexBound
Slot(q, i) == i % q.size

\* alloc_desc hands out the top of the stack, cleared; the first n it hands
\* out one after the other.
Tops(q, n) == Reverse(SubSeq(q.free, Len(q.free) - n + 1, Len(q.free)))
AllocDescs(q, n) ==
    [q EXCEPT !.desc = [d \in DOMAIN @ |-> IF d \in ToSet(Tops(q, n)) THEN Cleared ELSE @[d]],
              !.free = SubSeq(@, 1, Len(@) - n)]

\* free_desc, of several descriptors in turn.
FreeDescs(q, ds) ==
    [q EXCEPT !.desc = [d \in DOMAIN @ |-> IF d \in ToSet(ds) THEN [@[d] EXCEPT !.next = 0]
                                           ELSE @[d]],
              !.free = @ \o ds]

SetDesc(q, d, addr, flags, next) ==
    [q EXCEPT !.desc[d] = [addr |-> addr, flags |-> flags, next |-> next]]

Push(q, d) ==
    [q EXCEPT !.avail[Slot(q, q.avail_idx)] = d, !.avail_idx = Increment(@)]

\* Nothing new in the used ring: the loop a driver polls in.
IsBusy(q) == q.last_used = q.used_idx

\* The chain pop returns, and the queue after it.
Popped(q) == q.used[Slot(q, q.last_used)]

Pop(q) == [q EXCEPT !.last_used = Increment(@)]

-----------------------------------------------------------------------------
(* What the device does with the rings.                                     *)

\* The descriptors of a chain, in order.  No driver links more than three.
Continues(q, d) == "next" \in q.desc[d].flags
Second(q, head) == q.desc[head].next
Third(q, head) == q.desc[Second(q, head)].next
Chain(q, head) ==
    IF ~Continues(q, head) THEN <<head>>
    ELSE IF ~Continues(q, Second(q, head)) THEN <<head, Second(q, head)>>
    ELSE <<head, Second(q, head), Third(q, head)>>

Addr(q, head, k) == q.desc[Chain(q, head)[k]].addr

PutUsed(q, head) ==
    [q EXCEPT !.used[Slot(q, q.used_idx)] = head, !.used_idx = Increment(@)]

\* The heads pushed since the device's index, and the ones it has used that
\* the driver has not popped.
Between(q, ring, from, to) ==
    [k \in 1..((to - from) % IndexBound) |-> ring[Slot(q, (from + k - 1) % IndexBound)]]
=============================================================================
