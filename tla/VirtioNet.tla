----------------------------- MODULE VirtioNet -----------------------------
(***************************************************************************)
(* The network driver (drivers/network/virtio_net.rs): queue 0 holds the    *)
(* buffers the device receives packets into, queue 1 the packets to send.   *)
(* A received buffer goes back to the device as soon as its packet has been *)
(* copied out.  Statistics are left out.                                    *)
(***************************************************************************)
EXTENDS Virtio

CONSTANTS
    Packets,
    MaxPackets   \* bound: packets sent and received

VARIABLES
    link,        \* the link status in the device's configuration space
    initialized,
    packets,     \* packets sent and received so far
    wire,        \* history: packets the device has received, not yet popped
    expected     \* history: the packets popped by the call in progress

netVars == <<link, initialized, packets, wire, expected>>

NetInit ==
    /\ link = TRUE
    /\ initialized = FALSE
    /\ packets = 0
    /\ wire = <<>>
    /\ expected = <<>>

Counted == packets < MaxPackets /\ packets' = packets + 1

RxBuffers == 2   \* buffer_count

\* setup_rx_buffers posts the receive buffers.
Posted(q, d, addr, flags) == Push(SetDesc(AllocDescs(q, 1), d, addr, flags, 0), d)
PostRx(q, addr) == Posted(q, Tops(q, 1)[1], addr, {"write"})

\* init_network: nothing more than once.
InitNetwork ==
    /\ driver = "net"
    /\ Idle
    /\ ~initialized
    /\ initialized' = TRUE
    /\ With(FreshAddrs(RxBuffers), LAMBDA addrs :
           /\ queues' = [queues EXCEPT ![0] = FoldLeft(PostRx, @, addrs)]
           /\ mem' = [a \in Heap |-> IF a \in ToSet(addrs)
                                     THEN [kind |-> "packet", value |-> "none"] ELSE mem[a]])
    /\ device' = Notified(device, 0)
    /\ UNCHANGED <<driver, status, call, link, packets, wire, expected>>

\* send_packet: with the link down the packet is refused.
SendPacket(p) ==
    /\ driver = "net"
    /\ Idle
    /\ link
    /\ Counted
    /\ With(FreshAddrs(1)[1], LAMBDA a :
           /\ mem' = [mem EXCEPT ![a] = [kind |-> "packet", value |-> p]]
           /\ queues' = [queues EXCEPT ![1] = Posted(@, Tops(@, 1)[1], a, {})]
           /\ call' = [op |-> "send", desc |-> Tops(queues[1], 1)[1], addr |-> a, packet |-> p])
    /\ device' = Notified(device, 1)
    /\ UNCHANGED <<driver, status, link, initialized, wire, expected>>

\* Mutant of Sent: the buffer is dropped while the device still has it.
SentEarly(q) == call.desc \notin ToSet(q.free)

\* The device has answered.
Sent(q) == ~IsBusy(q)

PacketSent ==
    /\ call.op = "send"
    /\ Sent(queues[1])
    /\ queues' = [queues EXCEPT ![1] = FreeDescs(Pop(@), <<call.desc>>)]
    /\ mem' = Drop({call.addr})
    /\ call' = NoCall
    /\ UNCHANGED <<driver, status, device, netVars>>

\* receive_packets: with the link down there are none.
ReceivePackets ==
    /\ driver = "net"
    /\ Idle
    /\ link
    /\ call' = [op |-> "receive", packets |-> <<>>]
    /\ UNCHANGED <<driver, status, queues, device, mem, netVars>>

\* The buffer of a popped chain is pushed again.
Recycled(q, d) == Push([q EXCEPT !.desc[d].flags = {"write"}], d)

ReceiveOne ==
    /\ call.op = "receive"
    /\ ~IsBusy(queues[0])
    /\ With(Popped(queues[0]), LAMBDA d :
           /\ call' = [call EXCEPT !.packets =
                          Append(@, mem[queues[0].desc[d].addr].value)]
           /\ queues' = [queues EXCEPT ![0] = Recycled(Pop(@), d)])
    /\ expected' = Append(expected, Head(wire))
    /\ wire' = Tail(wire)
    /\ UNCHANGED <<driver, status, device, mem, link, initialized, packets>>

ReturnPackets ==
    /\ call.op = "receive"
    /\ IsBusy(queues[0])
    /\ device' = IF call.packets # <<>> THEN Notified(device, 0) ELSE device
    /\ call' = NoCall
    /\ expected' = <<>>
    /\ UNCHANGED <<driver, status, queues, mem, link, initialized, packets, wire>>

-----------------------------------------------------------------------------
(* The network (external).                                                  *)

LinkChanges ==
    /\ driver = "net"
    /\ link' = ~link
    /\ UNCHANGED <<base, initialized, packets, wire, expected>>

\* A packet arrives and is put into a buffer the device holds.
Arrive(p, head) ==
    /\ driver = "net"
    /\ link
    /\ Counted
    /\ head \in device[0].held
    /\ Complete(0, head, [mem EXCEPT ![Addr(queues[0], head, 1)].value = p])
    /\ wire' = Append(wire, p)
    /\ UNCHANGED <<link, initialized, expected>>

Transmit(head) ==
    /\ driver = "net"
    /\ head \in device[1].held
    /\ Complete(1, head, mem)
    /\ UNCHANGED netVars
=============================================================================
