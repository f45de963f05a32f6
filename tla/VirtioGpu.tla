----------------------------- MODULE VirtioGpu -----------------------------
(***************************************************************************)
(* The GPU driver (drivers/graphics/virtio_gpu.rs): init_graphics creates a *)
(* resource, gives it the framebuffer as backing memory and shows it; from  *)
(* then on a timer sends its contents to the host.  Every command and its   *)
(* response are on the stack of send_control_command, which polls for the   *)
(* response and does not read it.                                           *)
(***************************************************************************)
EXTENDS Virtio

VARIABLES
    gpu,         \* the driver's state
    host         \* history: what the host has been told

gpuVars == <<gpu, host>>

None == 0

GpuInit ==
    /\ gpu = [initialized |-> FALSE, display |-> FALSE, resource_id |-> 1,
              boxed |-> None, shadow |-> None, framebuffer |-> None,
              resources |-> {}, timer |-> FALSE]
    /\ host = [resources |-> {}, backing |-> <<>>, scanout |-> None, flushed |-> None]

Command(type, r) == [type |-> type, resource |-> r]

\* Mutant of FirstTime: a second call starts over.
FirstTimeAlways == TRUE

FirstTime == ~gpu.initialized

\* init_graphics, as GraphicsManager calls it for every GPU it registers.
InitGraphics ==
    /\ driver = "gpu"
    /\ Idle
    /\ FirstTime
    /\ gpu' = [gpu EXCEPT !.initialized = TRUE, !.resource_id = @ + 1]
    /\ call' = [op |-> "gpu", wait |-> <<>>,
                commands |-> <<Command("display", None),
                               Command("create", gpu.resource_id),
                               Command("attach", gpu.resource_id),
                               Command("scanout", gpu.resource_id)>>]
    /\ UNCHANGED <<driver, status, queues, device, mem, host>>

\* flush_framebuffer always names resource 1.
FlushCommands == <<Command("transfer", 1), Command("flush", 1)>>

Flush ==
    /\ gpu.display
    /\ 1 \in gpu.resources
    /\ call' = [op |-> "gpu", wait |-> <<>>, commands |-> FlushCommands]
    /\ UNCHANGED <<driver, status, queues, device, mem, gpuVars>>

\* FBIO_FLUSH of the framebuffer device.
FlushFramebuffer == driver = "gpu" /\ Idle /\ Flush

\* FramebufferUpdateHandler::on_timer_expired, which arms the timer again.
TimerExpires ==
    /\ driver = "gpu"
    /\ Idle
    /\ gpu.timer
    /\ gpu.framebuffer # None /\ gpu.shadow # None
    /\ Flush

\* send_control_command up to the polling.
SendCommand(cmd, ds, addrs) ==
    /\ mem' = [mem EXCEPT ![addrs[1]] = [kind |-> "command", command |-> cmd,
                                           backing |-> gpu.boxed],
                          ![addrs[2]] = [kind |-> "response"]]
    /\ queues' = [queues EXCEPT ![0] =
           Push(SetDesc(SetDesc(AllocDescs(@, 2), ds[1], addrs[1], {"next"}, ds[2]),
                        ds[2], addrs[2], {"write"}, 0), ds[1])]
    /\ call' = [call EXCEPT !.wait = <<[descs |-> ds, addrs |-> addrs]>>]

SendControlCommand ==
    /\ call.op = "gpu"
    /\ call.wait = <<>> /\ call.commands # <<>>
    /\ With(FreshAddrs(2), LAMBDA addrs :
           SendCommand(Head(call.commands), Tops(queues[0], 2), addrs))
    /\ device' = Notified(device, 0)
    /\ UNCHANGED <<driver, status, gpuVars>>

\* What the driver does when a command of init_graphics has been answered.
\* Storing a framebuffer drops the one stored before.
AfterCreate(dropped, page) ==
    /\ mem' = [dropped EXCEPT ![page] = [kind |-> "framebuffer"]]
    /\ gpu' = [gpu EXCEPT !.boxed = page]

AfterScanout(dropped, page, r) ==
    /\ mem' = [dropped EXCEPT ![page] = [kind |-> "shadow"]]
    /\ gpu' = [gpu EXCEPT !.resources = @ \cup {r}, !.framebuffer = gpu.boxed,
                          !.shadow = page, !.timer = TRUE]

After(cmd, addrs) ==
    CASE cmd.type = "display" -> mem' = Drop(addrs) /\ gpu' = [gpu EXCEPT !.display = TRUE]
      [] cmd.type = "create"  -> AfterCreate(Drop(addrs \cup {gpu.boxed}), FreshAddrs(1)[1])
      [] cmd.type = "scanout" ->
             AfterScanout(Drop(addrs \cup {gpu.shadow}), FreshAddrs(1)[1], cmd.resource)
      [] OTHER -> mem' = Drop(addrs) /\ gpu' = gpu

\* The response has come: send_control_command returns, and the driver goes
\* on to its next command.
CommandDone ==
    /\ call.op = "gpu"
    /\ call.wait # <<>>
    /\ ~IsBusy(queues[0])
    /\ queues' = [queues EXCEPT ![0] =
                     FreeDescs(Pop(@), Reverse(Head(call.wait).descs))]
    /\ After(Head(call.commands), ToSet(Head(call.wait).addrs))
    /\ call' = IF Len(call.commands) = 1 THEN NoCall
               ELSE [call EXCEPT !.wait = <<>>, !.commands = Tail(@)]
    /\ UNCHANGED <<driver, status, device, host>>

-----------------------------------------------------------------------------
(* The host (external).                                                     *)

Obey(cmd, backing) ==
    CASE cmd.type = "create"  -> [host EXCEPT !.resources = @ \cup {cmd.resource}]
      [] cmd.type = "attach"  -> [host EXCEPT !.backing =
                                     Append(@, <<cmd.resource, backing>>)]
      [] cmd.type = "scanout" -> [host EXCEPT !.scanout = cmd.resource]
      [] cmd.type = "flush"   -> [host EXCEPT !.flushed = cmd.resource]
      [] OTHER -> host

Execute(head) ==
    /\ driver = "gpu"
    /\ head \in device[0].held
    /\ With(mem[Addr(queues[0], head, 1)], LAMBDA buf :
           host' = Obey(buf.command, buf.backing))
    /\ Complete(0, head, mem)
    /\ UNCHANGED gpu
=============================================================================
