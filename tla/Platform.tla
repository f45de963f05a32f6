-------------------------------- MODULE Platform --------------------------------
(***************************************************************************)
(* What the kernel builds at boot from the device tree: the device manager *)
(* (kernel/src/device/manager.rs), the framebuffers of the graphics        *)
(* manager (device/graphics/manager.rs), the interrupt manager with the    *)
(* PLIC and the CLINT (interrupt/mod.rs, drivers/pic/) and the UART        *)
(* (drivers/uart/virt.rs), which share no lock and meet only through the   *)
(* order in which start_kernel calls them.                                 *)
(***************************************************************************)
EXTENDS Integers, Sequences, FiniteSets, FiniteSetsExt, SequencesExt, TLC

CONSTANTS
  WordBits,   (* interrupts per enable word of the PLIC (32)               *)
  FbSize,     (* bytes of a framebuffer                                    *)
  MaxTyped    (* bound on the bytes that arrive at the UARTs               *)

ASSUME PlatformAssumption ==
  /\ WordBits \in Nat \ {0, 1}
  /\ FbSize \in Nat \ {0}
  /\ MaxTyped \in Nat

VARIABLES
  soc,            (* the children of /soc: driver matched, resources, kind *)
  boot_cpu,       (* the hart that runs the kernel                         *)
  phase,          (* how far start_kernel has come                         *)
  at,             (* the priority and the child populate_devices is at     *)
  dm,             (* DeviceManager: devices, by_name, name_to_id           *)
  framebuffers,   (* fb0, fb1, ...: source_device_id, physical_addr, char  *)
  pic,            (* InterruptManager: local, external, enabled, handler   *)
  uart,           (* per probed UART: fifo, ier, out                       *)
  tty,            (* the listener of a UART: [uart, got], or NoTty         *)
  typed,          (* the bytes that arrived, by UART                       *)
  fbmem,          (* the memory of each GPU's framebuffer                  *)
  display         (* what each GPU's display shows                         *)

platformVars ==
  <<soc, boot_cpu, phase, at, dm, framebuffers, pic, uart, tty, typed, fbmem, display>>

NUL == 0
NoTty == [uart |-> 0, got |-> <<>>]

Node(d, mem, irq, kind) == [driver |-> d, mem |-> mem, irq |-> irq, kind |-> kind]
GPUs == {k \in DOMAIN soc : soc[k].kind = "GPU"}

PlatformInit ==
  /\ phase = "populate"
  /\ at = [priority |-> 1, child |-> 1]
  /\ dm = [devices |-> <<>>, by_name |-> <<>>, name_to_id |-> <<>>]
  /\ framebuffers = <<>>
  /\ pic = [local |-> <<>>, external |-> 0, enabled |-> {}, handler |-> <<>>]
  /\ uart = <<>>
  /\ tty = NoTty
  /\ typed = <<>>
  /\ fbmem = [g \in GPUs |-> [i \in 1 .. FbSize |-> 0]]
  /\ display = [g \in GPUs |-> [i \in 1 .. FbSize |-> 0]]
-----------------------------------------------------------------------------
(* A device object: two are the same object iff they are equal. *)
Device(type, driver, n) == [type |-> type, driver |-> driver, n |-> n]

(* register_device: ids count from 1, so the id is the place in devices. *)
Registered(m, d) == [m EXCEPT !.devices = Append(@, d)]

(* Mutant of RegisteredAs: the id is read after the counter was raised. *)
RegisteredAsNext(m, name, d) ==
  [devices |-> Append(m.devices, d),
   by_name |-> (name :> d) @@ m.by_name,
   name_to_id |-> (name :> Len(m.devices) + 2) @@ m.name_to_id]

RegisteredAs(m, name, d) ==
  [devices |-> Append(m.devices, d),
   by_name |-> (name :> d) @@ m.by_name,
   name_to_id |-> (name :> Len(m.devices) + 1) @@ m.name_to_id]

(* BLOCK_COUNTER, NET_COUNTER and GPU_COUNTER: one name a probe. *)
Counted(prefix) == Cardinality({n \in DOMAIN dm.by_name : n[1] = prefix})

(* The first id of a device of the type, 0 for none: BTreeMap order. *)
FirstOfType(type) ==
  LET ids == {i \in DOMAIN dm.devices : dm.devices[i].type = type}
  IN IF ids = {} THEN 0 ELSE Min(ids)
-----------------------------------------------------------------------------
(* Critical = 1, Core = 2, Standard = 3; no driver registers at Late. *)
Priority == [plic |-> 1, clint |-> 1, uart |-> 2, virtio |-> 3, none |-> 0]

LastPriority == 4

(* populate_devices_from_fdt: for each priority, each child of /soc. *)
NextChild ==
  IF at.child < Len(soc)
  THEN /\ at' = [at EXCEPT !.child = @ + 1]
       /\ UNCHANGED phase
  ELSE /\ at' = [priority |-> at.priority + 1, child |-> 1]
       /\ phase' = IF at.priority = LastPriority THEN "graphics" ELSE phase

(* The child is given to the driver that matches it at this priority. *)
Matches(driver) ==
  /\ phase = "populate"
  /\ soc[at.child].driver = driver
  /\ Priority[driver] = at.priority

Probing(driver) == Matches(driver) /\ NextChild

NoDriver ==
  /\ phase = "populate"
  /\ Priority[soc[at.child].driver] # at.priority
  /\ NextChild
  /\ UNCHANGED <<soc, boot_cpu, dm, framebuffers, pic, uart, tty, typed, fbmem, display>>

(* register_external_controller: a second one is refused. *)
WithExternal(p, k) == IF p.external = 0 THEN [p EXCEPT !.external = k] ELSE p

(* register_local_controller_for_range: a later one takes the CPUs over. *)
WithLocal(p, k, cpus) == [p EXCEPT !.local = [c \in cpus |-> k] @@ @]

(* A node without memory is refused. *)
ProbePlic ==
  /\ Probing("plic")
  /\ pic' = IF soc[at.child].mem THEN WithExternal(pic, at.child) ELSE pic
  /\ UNCHANGED <<soc, boot_cpu, dm, framebuffers, uart, tty, typed, fbmem, display>>

(* The CLINT is registered for the CPUs 0 to 3. *)
ProbeClint ==
  /\ Probing("clint")
  /\ pic' = IF soc[at.child].mem THEN WithLocal(pic, at.child, 0 .. 3) ELSE pic
  /\ UNCHANGED <<soc, boot_cpu, dm, framebuffers, uart, tty, typed, fbmem, display>>

(* enable_external_interrupt, for CPU 0. *)
Enabled(p, irq) == [p EXCEPT !.enabled = @ \union {irq}]

(* register_interrupt_device: the first device of an interrupt stays. *)
WithHandler(p, irq, u) == [p EXCEPT !.handler = @ @@ (irq :> u)]

(* uart_probe with an interrupt: IER is set in any case, and only when the *)
(* PLIC takes the interrupt is a handler registered.                       *)
Armed(p, irq, u) ==
  IF irq = 0 \/ p.external = 0 THEN p ELSE WithHandler(Enabled(p, irq), irq, u)

ProbeUart ==
  /\ Probing("uart")
  /\ IF soc[at.child].mem
     THEN /\ pic' = Armed(pic, soc[at.child].irq, at.child)
          /\ uart' = uart @@ (at.child :>
                       [fifo |-> <<>>, ier |-> soc[at.child].irq # 0, out |-> <<>>])
          /\ typed' = typed @@ (at.child :> <<>>)
          /\ dm' = Registered(dm, Device("Char", "uart", at.child))
     ELSE UNCHANGED <<pic, uart, typed, dm>>
  /\ UNCHANGED <<soc, boot_cpu, framebuffers, tty, fbmem, display>>

(* probe_fn of virtio-mmio: a disk, a network card or a GPU is registered  *)
(* by name, an empty slot, a console and a random source are refused, and  *)
(* a device type that from_u32 does not know is a panic.                   *)
Virtio ==
  [Block |-> [prefix |-> "vblk", type |-> "Block"],
   Net   |-> [prefix |-> "veth", type |-> "Network"],
   GPU   |-> [prefix |-> "vfb", type |-> "Graphics"]]

Strange(n) == n.driver = "virtio" /\ n.mem /\ n.kind = "Unknown"

ProbeStrange ==
  /\ Matches("virtio")
  /\ Strange(soc[at.child])
  /\ phase' = "panic"
  /\ UNCHANGED <<soc, boot_cpu, at, dm, framebuffers, pic, uart, tty, typed, fbmem, display>>

ProbeVirtio ==
  /\ Probing("virtio")
  /\ ~Strange(soc[at.child])
  /\ LET kind == soc[at.child].kind
     IN dm' = IF soc[at.child].mem /\ kind \in DOMAIN Virtio
              THEN RegisteredAs(dm, <<Virtio[kind].prefix, Counted(Virtio[kind].prefix)>>,
                                Device(Virtio[kind].type, "virtio", at.child))
              ELSE dm
  /\ UNCHANGED <<soc, boot_cpu, framebuffers, pic, uart, tty, typed, fbmem, display>>

Populate == NoDriver \/ ProbePlic \/ ProbeClint \/ ProbeUart \/ ProbeVirtio \/ ProbeStrange
-----------------------------------------------------------------------------
(* register_framebuffer_from_device and create_framebuffer_char_device:    *)
(* the name counts the framebuffers; the character device is registered    *)
(* under it and its id noted.  init_graphics gives the GPU its memory.     *)
WithFramebuffer(s, id) ==
  LET n == Len(s.fbs)
  IN [dm |-> RegisteredAs(s.dm, <<"fb", n>>, Device("Char", "fb", n + 1)),
      fbs |-> Append(s.fbs, [source_device_id |-> id,
                             physical_addr |-> s.dm.devices[id].n,
                             char |-> Len(s.dm.devices) + 1])]

(* discover_graphics_devices: the ids 0 .. count - 1, as counted before    *)
(* the first framebuffer is registered.                                    *)
Discovered ==
  FoldLeft(LAMBDA s, id : IF id \in DOMAIN s.dm.devices /\ s.dm.devices[id].type = "Graphics"
                          THEN WithFramebuffer(s, id)
                          ELSE s,
           [dm |-> dm, fbs |-> framebuffers],
           [i \in 1 .. Len(dm.devices) |-> i - 1])

DiscoverGraphics ==
  /\ phase = "graphics"
  /\ phase' = "initcalls"
  /\ \E s \in {Discovered} : dm' = s.dm /\ framebuffers' = s.fbs
  /\ UNCHANGED <<soc, boot_cpu, at, pic, uart, tty, typed, fbmem, display>>

(* init_tty_subsystem, a late initcall: the terminal sits on the first     *)
(* character device and listens to it if it is a UART.                     *)
InitTty ==
  /\ phase = "initcalls"
  /\ phase' = "interrupts"
  /\ LET id == FirstOfType("Char")
     IN IF id = 0
        THEN UNCHANGED <<dm, tty>>
        ELSE /\ dm' = RegisteredAs(dm, <<"tty", 0>>, Device("Char", "tty", id))
             /\ tty' = IF dm.devices[id].driver = "uart"
                       THEN [tty EXCEPT !.uart = dm.devices[id].n]
                       ELSE tty
  /\ UNCHANGED <<soc, boot_cpu, at, framebuffers, pic, uart, typed, fbmem, display>>

(* Mutant of Kept: every enable word is cleared. *)
KeptNone(irq) == FALSE

(* Plic::init clears the enable words, but not the word of interrupt 0. *)
Kept(irq) == irq < WordBits

(* InterruptManager::init, after which interrupts are enabled. *)
InitInterrupts ==
  /\ phase = "interrupts"
  /\ phase' = "timer"
  /\ pic' = [pic EXCEPT !.enabled = {irq \in @ : Kept(irq)}]
  /\ UNCHANGED <<soc, boot_cpu, at, dm, framebuffers, uart, tty, typed, fbmem, display>>

(* The lines of enabled interrupts that are up: the UART asks while it has *)
(* a byte.  Drivers enable their interrupt for CPU 0.                      *)
Pending ==
  IF pic.external = 0 \/ boot_cpu # 0
  THEN {}
  ELSE {soc[u].irq : u \in {k \in DOMAIN uart : uart[k].ier /\ uart[k].fifo # <<>>}}
         \intersect pic.enabled

(* arch_kernel_trap_handler: an interrupt in kernel mode is a panic.       *)
(* Between InterruptManager::init and the first task start_kernel runs in  *)
(* kernel mode with interrupts on.                                         *)
Booting == {"timer", "initramfs", "init"}

TrapInKernel ==
  /\ phase \in Booting
  /\ Pending # {}
  /\ phase' = "panic"
  /\ UNCHANGED <<soc, boot_cpu, at, dm, framebuffers, pic, uart, tty, typed, fbmem, display>>

(* get_kernel_timer: ArchTimer::new panics without a local controller. *)
InitTimer ==
  /\ phase = "timer"
  /\ Pending = {}
  /\ phase' = IF boot_cpu \in DOMAIN pic.local THEN "initramfs" ELSE "panic"
  /\ UNCHANGED <<soc, boot_cpu, at, dm, framebuffers, pic, uart, tty, typed, fbmem, display>>
-----------------------------------------------------------------------------
(* A byte arrives at a UART that was initialised. *)
Arrive(u, b) ==
  /\ FoldFunction(LAMBDA s, n : Len(s) + n, 0, typed) < MaxTyped
  /\ uart' = [uart EXCEPT ![u].fifo = Append(@, b)]
  /\ typed' = [typed EXCEPT ![u] = Append(@, b)]
  /\ UNCHANGED <<soc, boot_cpu, phase, at, dm, framebuffers, pic, tty, fbmem, display>>

(* DeviceEventEmitter::emit: the terminal, if it listens to this UART. *)
Emit(u, b) ==
  tty' = IF tty.uart = u THEN [tty EXCEPT !.got = Append(@, b)] ELSE tty

(* Uart::handle_interrupt: one byte; a NUL is dropped. *)
HandleInterrupt(u) ==
  \/ uart[u].fifo = <<>> /\ UNCHANGED <<uart, tty>>
  \/ /\ uart[u].fifo # <<>>
     /\ uart' = [uart EXCEPT ![u].fifo = Tail(@)]
     /\ IF Head(uart[u].fifo) = NUL THEN UNCHANGED tty ELSE Emit(u, Head(uart[u].fifo))

(* handle_external_interrupt: the device's handler, then the completion. *)
HandleExternal(irq) == HandleInterrupt(pic.handler[irq])

(* claim_and_handle_external_interrupt: of equal priorities the PLIC gives *)
(* the smallest id.                                                        *)
ExternalInterrupt ==
  /\ phase = "run"
  /\ Pending # {}
  /\ HandleExternal(Min(Pending))
  /\ UNCHANGED <<soc, boot_cpu, phase, at, dm, framebuffers, pic, typed, fbmem, display>>
=============================================================================
