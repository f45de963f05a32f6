---------------------------------- MODULE Boot ----------------------------------
(***************************************************************************)
(* start_kernel (kernel/src/main.rs) from the device tree and the          *)
(* initramfs to the first task: the platform comes up (Platform), the      *)
(* archive becomes the root file system (Cpiofs), init is loaded from it,  *)
(* and the first tasks use the devices (Devfs) and the files, while bytes  *)
(* arrive at the UARTs from the moment these are initialised.              *)
(***************************************************************************)
EXTENDS Devfs, Cpiofs

CONSTANTS
  InitPath,   (* /system/scarlet/bin/init                                  *)
  Elf,        (* the content of an executable file                         *)
  Order,      (* the names of the archive, sorted                          *)
  PackedPaths,(* the paths looked up in the root file system               *)
  Platforms   (* [soc, boot_cpu, archive] of the machines considered       *)

VARIABLES
  archive,    (* the entries of the initramfs                              *)
  tree,       (* the root file system                                      *)
  init,       (* whether the task init was added to the scheduler          *)
  packed      (* the open file of the root file system, or NoPacked        *)

bootVars == <<archive, tree, init, packed>>
vars == <<platformVars, devfsVars, bootVars>>

NoPacked == [path |-> <<>>, node |-> NoNode, pos |-> 0, got |-> <<>>, sought |-> FALSE]

Init ==
  /\ \E p \in Platforms : soc = p.soc /\ boot_cpu = p.boot_cpu /\ archive = p.archive
  /\ PlatformInit
  /\ DevfsInit
  /\ tree = EmptyTree
  /\ init = FALSE
  /\ packed = NoPacked

(* init_initramfs: an archive with an unreadable field is not mounted and  *)
(* the boot goes on.                                                       *)
MountInitramfs ==
  /\ phase = "initramfs"
  /\ Pending = {}
  /\ phase' = "init"
  /\ \E s \in {ParseArchive(archive)} : tree' = IF s.state = "error" THEN tree ELSE s.tree
  /\ UNCHANGED <<soc, boot_cpu, at, dm, framebuffers, pic, uart, tty, typed, fbmem, display,
                 devfsVars, archive, init, packed>>

(* The file of init must open; if it cannot be loaded the scheduler is     *)
(* started without it, and idles.                                          *)
StartInit ==
  /\ phase = "init"
  /\ Pending = {}
  /\ \E n \in {CpioLookup(tree, InitPath)} :
       /\ phase' = IF n = NoNode THEN "panic" ELSE "run"
       /\ init' = (n # NoNode /\ tree[n].type = "file" /\ tree[n].data = Elf)
  /\ UNCHANGED <<soc, boot_cpu, at, dm, framebuffers, pic, uart, tty, typed, fbmem, display,
                 devfsVars, archive, tree, packed>>

PackedCall ==
  /\ init
  /\ Calling
  /\ UNCHANGED <<dm, uart, fbmem, display, files, maps, disk, written, flushed,
                 archive, tree, init>>

OpenPacked(path) ==
  /\ PackedCall
  /\ packed = NoPacked
  /\ \E n \in {CpioLookup(tree, path)} :
       /\ n # NoNode
       /\ packed' = [NoPacked EXCEPT !.path = path, !.node = n]

ReadPacked(n) ==
  /\ PackedCall
  /\ packed # NoPacked
  /\ \E bs \in {CpioRead(tree, packed, n, Order)} :
       packed' = [packed EXCEPT !.pos = @ + Len(bs), !.got = @ \o bs]

SeekPacked(whence, offset) ==
  /\ PackedCall
  /\ packed # NoPacked
  /\ tree[packed.node].type # "dir"
  /\ packed' = [CpioSought(tree, packed, whence, offset) EXCEPT !.sought = TRUE]

ClosePacked ==
  /\ PackedCall
  /\ packed # NoPacked
  /\ packed' = NoPacked

UserCall ==
  \/ init /\ DevCall /\ UNCHANGED bootVars
  \/ \E p \in PackedPaths : OpenPacked(p)
  \/ \E n \in 1 .. 2 : ReadPacked(n)
  \/ \E w \in Whence, offset \in {-1, 1} :
       (w = "Start" => offset >= 0) /\ SeekPacked(w, offset)
  \/ ClosePacked

BringUp ==
  /\ \/ Populate \/ DiscoverGraphics \/ InitTty \/ InitInterrupts \/ TrapInKernel \/ InitTimer
     \/ \E u \in DOMAIN uart, b \in {NUL, 1, 2} : Arrive(u, b)
  /\ UNCHANGED <<devfsVars, bootVars>>

Interrupt == ExternalInterrupt /\ UNCHANGED <<devfsVars, bootVars>>

(* The kernel has panicked, or waits for calls and interrupts. *)
Halted == phase \in {"panic", "run"} /\ UNCHANGED vars

Next == BringUp \/ MountInitramfs \/ StartInit \/ UserCall \/ Interrupt \/ Halted

(* The CPU takes a pending interrupt when it runs a task or idles. *)
Spec == Init /\ [][Next]_vars /\ WF_vars(Interrupt)
-----------------------------------------------------------------------------
Heard == SelectSeq(typed[tty.uart], LAMBDA b : b # NUL)
Uarts == {k \in DOMAIN soc : soc[k].driver = "uart" /\ soc[k].mem}

(* The machine has a PLIC, the kernel runs on the hart the drivers enable  *)
(* interrupts for, the UARTs have interrupts of their own, and that of the *)
(* first is in the enable word the PLIC's initialisation spares.           *)
Wired ==
  /\ boot_cpu = 0
  /\ \E k \in DOMAIN soc : soc[k].driver = "plic" /\ soc[k].mem
  /\ Uarts # {} /\ soc[Min(Uarts)].irq \in 1 .. WordBits - 1
  /\ \A j, k \in Uarts : j # k => soc[j].irq # soc[k].irq

(* On such a machine every byte typed, before or after the first task      *)
(* starts, reaches the terminal, once and in order, NULs left out: the     *)
(* PLIC is probed before the UART, the interrupt the UART enabled survives *)
(* Plic::init, the terminal of the late initcall listens to that UART, and *)
(* each interrupt takes one byte (uart_probe, init_tty_subsystem,          *)
(* Plic::init, claim_and_handle_external_interrupt).                       *)
InputReachesTty ==
  \A n \in 1 .. MaxTyped :
    phase = "run" /\ Wired /\ Len(Heard) >= n
      ~> Len(tty.got) >= n /\ IsPrefix(tty.got, Heard)

Clint == \E k \in DOMAIN soc : soc[k].driver = "clint" /\ soc[k].mem

(* What the tree shows at a path. *)
Shown(path) ==
  LET n == CpioLookup(tree, path)
  IN IF n = NoNode THEN [type |-> "none", data |-> <<>>]
     ELSE [type |-> tree[n].type, data |-> tree[n].data]

(* If its directories precede their contents, the archive is what the      *)
(* first tasks see: each path shows what the entries say of it, init runs  *)
(* iff it is packed as an executable, and reads in sequence give the       *)
(* packed bytes.  The kernel panics only if init is not packed or an entry *)
(* is unreadable, there is no CLINT for the timer, a virtio device is of   *)
(* an unknown type, or an interrupt came in before the first task          *)
(* (start_kernel, parse_cpio_archive, arch_kernel_trap_handler).           *)
BootsWhatIsPacked ==
  Orderly(archive) =>
    /\ phase = "panic" =>
         \/ Pending # {}
         \/ ~Clint
         \/ \E k \in DOMAIN soc : Strange(soc[k])
         \/ ParseArchive(archive).state = "error"
         \/ Listed(archive, InitPath).type = "none"
    /\ phase = "run" =>
         /\ \A p \in PackedPaths : Shown(p) = Listed(archive, p)
         /\ init = (Listed(archive, InitPath) = [type |-> "file", data |-> Elf])
    /\ packed # NoPacked /\ ~packed.sought /\ Listed(archive, packed.path).type # "dir" =>
         IsPrefix(packed.got, Listed(archive, packed.path).data)
=============================================================================
