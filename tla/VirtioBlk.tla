----------------------------- MODULE VirtioBlk -----------------------------
(***************************************************************************)
(* The block driver (drivers/block/virtio_blk.rs): file systems enqueue     *)
(* requests and have all of them processed.  A batch is submitted, at most  *)
(* MaxBatch requests at a time, each as a chain of header, data and status; *)
(* completions are matched to requests by the head of their chain.          *)
(***************************************************************************)
EXTENDS Virtio

CONSTANTS
    Requests,    \* what is asked for: [type, data]
    ReadValues,  \* what a read may find on the disk
    MaxBatch,    \* MAX_BATCH_SIZE
    MaxQueued,   \* bound: requests enqueued before they are processed
    MaxRequests  \* bound: requests enqueued in all

VARIABLES
    request_queue,
    enqueued,    \* requests enqueued so far
    served       \* history: what the device did, per request of the call

blkVars == <<request_queue, enqueued, served>>

Blank == 0   \* the zeroed bytes of a new buffer
NotProcessed == [result |-> "not processed", buffer |-> Blank]

BlkInit == request_queue = <<>> /\ enqueued = 0 /\ served = <<>>

EnqueueRequest(r) ==
    /\ driver = "blk"
    /\ Idle
    /\ Len(request_queue) < MaxQueued
    /\ enqueued < MaxRequests
    /\ enqueued' = enqueued + 1
    /\ request_queue' = Append(request_queue, r)
    /\ UNCHANGED <<base, served>>

\* process_requests takes the whole queue; an empty one is answered at once.
ProcessRequests ==
    /\ driver = "blk"
    /\ Idle
    /\ request_queue # <<>>
    /\ call' = [op |-> "batch", requests |-> request_queue, next |-> 1,
                last |-> Min({Len(request_queue), MaxBatch}), pending |-> <<>>, phase |-> "submit",
                results |-> [k \in DOMAIN request_queue |-> NotProcessed]]
    /\ served' = [k \in DOMAIN request_queue |-> NotProcessed]
    /\ request_queue' = <<>>
    /\ UNCHANGED <<driver, status, queues, device, mem, enqueued>>

Flags(type) == IF type = "read" THEN {"next", "write"} ELSE {"next"}

Chained(q, ds, addrs, type) ==
    SetDesc(SetDesc(SetDesc(q, ds[1], addrs[1], {"next"}, ds[2]),
                    ds[2], addrs[2], Flags(type), ds[3]),
            ds[3], addrs[3], {"write"}, 0)

\* The status byte starts as VIRTIO_BLK_S_OK.
Buffers(addrs, r, k) ==
    [mem EXCEPT ![addrs[1]] = [kind |-> "header", type |-> r.type, request |-> k],
                ![addrs[2]] = [kind |-> "data",
                               value |-> IF r.type = "write" THEN r.data ELSE Blank],
                ![addrs[3]] = [kind |-> "status", value |-> "ok"]]

Submit(q, ds, addrs, r, k) ==
    /\ queues' = [queues EXCEPT ![0] =
           Push(Chained(AllocDescs(q, 3), ds, addrs, r.type), ds[1])]
    /\ mem' = Buffers(addrs, r, k)
    /\ call' = [call EXCEPT !.next = @ + 1,
           !.pending = Append(@, [head |-> ds[1], request |-> k, data |-> ds[2],
                                  status |-> ds[3], addrs |-> addrs])]

\* When fewer than three descriptors are left, the request fails and the
\* ones taken are not given back.
QueueFull ==
    /\ queues' = [queues EXCEPT ![0].free = <<>>]
    /\ call' = [call EXCEPT !.next = @ + 1, !.results[call.next].result = "queue full"]
    /\ mem' = mem

\* One turn of the first pass.
SubmitRequest ==
    /\ call.op = "batch"
    /\ call.phase = "submit"
    /\ call.next <= call.last
    /\ IF Len(queues[0].free) >= 3
       THEN With(Tops(queues[0], 3), LAMBDA ds :
            With(FreshAddrs(3), LAMBDA addrs :
                Submit(queues[0], ds, addrs, call.requests[call.next], call.next)))
       ELSE QueueFull
    /\ UNCHANGED <<driver, status, device, blkVars>>

\* Mutant of Submitted: only the first chunk of a call is notified.
SubmittedFirst(dv) == IF call.last <= MaxBatch THEN Notified(dv, 0) ELSE dv

\* The chunk is submitted: the device is notified once.
Submitted(dv) == IF call.pending # <<>> THEN Notified(dv, 0) ELSE dv

NotifyBatch ==
    /\ call.op = "batch"
    /\ call.phase = "submit"
    /\ call.next > call.last
    /\ call' = [call EXCEPT !.phase = "wait"]
    /\ device' = Submitted(device)
    /\ UNCHANGED <<driver, status, queues, mem, blkVars>>

\* The outcome of a completed request: what a read returns is in the data
\* buffer, the buffer of a write is left as it was.
Outcome(q, p, r) ==
    IF mem[p.addrs[3]].value = "ok"
    THEN [result |-> "ok",
          buffer |-> IF r.type = "read" THEN mem[q.desc[p.data].addr].value ELSE r.data]
    ELSE [result |-> mem[p.addrs[3]].value, buffer |-> Blank]

\* Mutant of Matching: completions are taken to come in the order of the
\* requests.
MatchingFirst(head) == Head(call.pending)

\* The request a completed chain belongs to.
Matching(head) == CHOOSE p \in ToSet(call.pending) : p.head = head

\* Mutant of Released: the status descriptor is not freed.
ReleasedTwo(q, p) == FreeDescs(q, <<p.data, p.head>>)

Released(q, p) == FreeDescs(q, <<p.status, p.data, p.head>>)

Finish(q, p) ==
    /\ queues' = [queues EXCEPT ![0] = Released(Pop(q), p)]
    /\ mem' = Drop(ToSet(p.addrs))
    /\ call' = [call EXCEPT
           !.pending = SelectSeq(@, LAMBDA x : x # p),
           !.results[p.request] = Outcome(q, p, call.requests[p.request])]

\* One turn of the second pass: a completion nobody waits for is dropped.
CollectCompletion ==
    /\ call.op = "batch"
    /\ call.phase = "wait"
    /\ ~IsBusy(queues[0])
    /\ IF \E p \in ToSet(call.pending) : p.head = Popped(queues[0])
       THEN With(Matching(Popped(queues[0])), LAMBDA p : Finish(queues[0], p))
       ELSE queues' = [queues EXCEPT ![0] = Pop(@)] /\ UNCHANGED <<mem, call>>
    /\ UNCHANGED <<driver, status, device, blkVars>>

\* All of the chunk has completed and the used ring is empty: the next chunk.
NextChunk ==
    /\ call.op = "batch"
    /\ call.phase = "wait"
    /\ call.pending = <<>>
    /\ IsBusy(queues[0])
    /\ call.next <= Len(call.requests)
    /\ call' = [call EXCEPT !.phase = "submit",
                            !.last = Min({Len(call.requests), @ + MaxBatch})]
    /\ UNCHANGED <<driver, status, queues, device, mem, blkVars>>

BatchDone ==
    /\ call.op = "batch"
    /\ call.phase = "wait"
    /\ call.pending = <<>>
    /\ IsBusy(queues[0])
    /\ call.next > Len(call.requests)

\* process_requests returns the requests zipped with the results.
ReturnResults ==
    /\ BatchDone
    /\ call' = NoCall
    /\ served' = <<>>
    /\ UNCHANGED <<driver, status, queues, device, mem, request_queue, enqueued>>

-----------------------------------------------------------------------------
(* The disk (external): it carries out a request it holds, or fails it.     *)

ServeRead(i, head, hdr, v) ==
    /\ hdr.type = "read"
    /\ Complete(i, head, [mem EXCEPT ![Addr(queues[i], head, 2)].value = v,
                                     ![Addr(queues[i], head, 3)].value = "ok"])
    /\ served' = [served EXCEPT ![hdr.request] = [result |-> "ok", buffer |-> v]]

ServeWrite(i, head, hdr) ==
    /\ hdr.type = "write"
    /\ Complete(i, head, [mem EXCEPT ![Addr(queues[i], head, 3)].value = "ok"])
    /\ served' = [served EXCEPT ![hdr.request] =
                     [result |-> "ok", buffer |-> mem[Addr(queues[i], head, 2)].value]]

ServeError(i, head, hdr, e) ==
    /\ Complete(i, head, [mem EXCEPT ![Addr(queues[i], head, 3)].value = e])
    /\ served' = [served EXCEPT ![hdr.request] = [result |-> e, buffer |-> Blank]]

Serve(head) ==
    /\ driver = "blk"
    /\ head \in device[0].held
    /\ With(mem[Addr(queues[0], head, 1)], LAMBDA hdr :
           \/ \E v \in ReadValues : ServeRead(0, head, hdr, v)
           \/ ServeWrite(0, head, hdr)
           \/ ServeError(0, head, hdr, "ioerr"))
    /\ UNCHANGED <<request_queue, enqueued>>
=============================================================================
