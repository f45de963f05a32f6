---------------------------- MODULE VirtioSystem ----------------------------
(***************************************************************************)
(* A virtio-mmio device is probed, and its driver and the device run.  The  *)
(* drivers share no state, so one device of any kind stands for a machine   *)
(* with several.                                                            *)
(***************************************************************************)
EXTENDS VirtioBlk, VirtioNet, VirtioGpu

vars == <<base, blkVars, netVars, gpuVars>>

Init == VirtioInit /\ BlkInit /\ NetInit /\ GpuInit

Drivers == {"blk", "net", "gpu"}
Heads == UNION {0..(QueueSize[d] - 1) : d \in Drivers}

Start == \E d \in Drivers, card \in Cards : Probe(d, card)

\* What callers of the drivers, the network and the timer begin.
BlkCall == (\E r \in Requests : EnqueueRequest(r)) \/ ProcessRequests
NetCall == (\E p \in Packets : SendPacket(p)) \/ InitNetwork \/ ReceivePackets
GpuCall == InitGraphics \/ FlushFramebuffer \/ TimerExpires

\* The steps of a call in progress.
BlkStep == SubmitRequest \/ NotifyBatch \/ CollectCompletion \/ NextChunk \/ ReturnResults
NetStep == PacketSent \/ ReceiveOne \/ ReturnPackets
GpuStep == SendControlCommand \/ CommandDone

NetEvent == LinkChanges \/ (\E p \in Packets, h \in Heads : Arrive(p, h))

Begin ==
    \/ Start /\ UNCHANGED <<blkVars, netVars, gpuVars>>
    \/ BlkCall /\ UNCHANGED <<netVars, gpuVars>>
    \/ (NetCall \/ NetEvent) /\ UNCHANGED <<blkVars, gpuVars>>
    \/ GpuCall /\ UNCHANGED <<blkVars, netVars>>

DriverStep ==
    \/ BlkStep /\ UNCHANGED <<netVars, gpuVars>>
    \/ NetStep /\ UNCHANGED <<blkVars, gpuVars>>
    \/ GpuStep /\ UNCHANGED <<blkVars, netVars>>

DeviceStep ==
    \/ (\E i \in Queues : Fetch(i)) /\ UNCHANGED <<blkVars, netVars, gpuVars>>
    \/ (\E h \in Heads : Serve(h)) /\ UNCHANGED <<netVars, gpuVars>>
    \/ (\E h \in Heads : Transmit(h)) /\ UNCHANGED <<blkVars, gpuVars>>
    \/ (\E h \in Heads : Execute(h)) /\ UNCHANGED <<blkVars, netVars>>

\* A turn of a polling loop that finds nothing new in the used ring; with a
\* GPU that did not come up it is all that ever happens.
Poll ==
    /\ \/ call.op = "batch" /\ call.phase = "wait" /\ call.pending # <<>> /\ IsBusy(queues[0])
       \/ call.op = "send" /\ IsBusy(queues[1])
       \/ call.op = "gpu" /\ call.wait # <<>> /\ IsBusy(queues[0])
    /\ UNCHANGED vars

\* The kernel has panicked, or the bound on requests is reached.
Halted ==
    /\ driver = "panic" \/ (Idle /\ enqueued = MaxRequests)
    /\ UNCHANGED vars

Next == Begin \/ DriverStep \/ DeviceStep \/ Poll \/ Halted

\* The kernel runs on in a call, and a device that has something to fetch or
\* to complete does not stop.
Fairness == WF_vars(DriverStep) /\ WF_vars(DeviceStep)

Spec == Init /\ [][Next]_vars /\ Fairness

-----------------------------------------------------------------------------
(* Properties.                                                              *)

\* The chains between the two sides of a queue, as sequences of descriptors.
Shared(i) == {Chain(queues[i], h) : h \in InDevice(i) \cup ToSet(Answered(i))}
Busy(i) == UNION {ToSet(c) : c \in Shared(i)}

\* Every descriptor of every queue is either once on the driver's free stack
\* or in a chain the device has, will find, or has answered: none leaks, none
\* is freed twice, and none is handed out while the device may use it
\* (alloc_desc and free_desc as the three drivers call them).
DescriptorsAccounted ==
    \A i \in Queues :
        /\ IsInjective(queues[i].free)
        /\ ToSet(queues[i].free) \cap Busy(i) = {}
        /\ ToSet(queues[i].free) \cup Busy(i) = DOMAIN queues[i].desc

\* Whatever the device may still read or write is memory the driver has not
\* given back, and no two chains share any of it: a request's boxes outlive
\* it, a packet's buffer its transmission, a command its response.
DeviceSeesLiveMemory ==
    \A i \in Queues :
        /\ \A d \in Busy(i) : queues[i].desc[d].addr \in Heap
                                 /\ mem[queues[i].desc[d].addr] # Freed
        /\ \A d, e \in Busy(i) :
               queues[i].desc[d].addr = queues[i].desc[e].addr => d = e

\* A request is answered with what the device did with that request, whatever
\* the order of the completions and wherever the rings wrap around, and a
\* call returns the packets that arrived, in the order they arrived.
AnswersAreTheDevices ==
    /\ call.op = "batch" =>
           /\ \A k \in DOMAIN call.results :
                  /\ call.results[k] # NotProcessed => call.results[k] = served[k]
                  /\ served[k].result = "ok" /\ call.requests[k].type = "write" =>
                         served[k].buffer = call.requests[k].data
           /\ BatchDone => \A k \in DOMAIN call.results : call.results[k] # NotProcessed
    /\ call.op = "receive" => call.packets = expected

\* The host is told to redraw the resource it shows, and that resource is
\* backed by the framebuffer the kernel draws into, which is still allocated.
DisplayShowsFramebuffer ==
    /\ host.flushed \in {None, host.scanout}
    /\ \A k \in DOMAIN host.backing : mem[host.backing[k][2]] = [kind |-> "framebuffer"]
    /\ gpu.framebuffer # None => \E k \in DOMAIN host.backing :
           host.backing[k] = <<host.scanout, gpu.framebuffer>>

\* Every polling loop ends: a call to a driver whose device came up returns.
CallsReturn == ("driver_ok" \in status /\ ~Idle) ~> Idle
=============================================================================
