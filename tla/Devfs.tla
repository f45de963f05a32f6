--------------------------------- MODULE Devfs ----------------------------------
(***************************************************************************)
(* The file system of devices (kernel/src/fs/vfs_v2/drivers/devfs.rs) over *)
(* the device manager, with the character device of a framebuffer          *)
(* (device/graphics/framebuffer_device.rs) that its files reach.  A read   *)
(* of the terminal blocks and is the subject of Tty.                       *)
(***************************************************************************)
EXTENDS Platform

CONSTANTS
  MaxFiles,   (* bound on the open files and mappings                      *)
  MaxCalls    (* bound on the calls on them                                *)

VARIABLES
  files,      (* the open file and directory objects                       *)
  maps,       (* the mappings of framebuffers: paddr, offset, length       *)
  disk,       (* sector 0 of each disk                                     *)
  calls,      (* calls made                                                *)
  written,    (* by framebuffer name: what files and mappings wrote        *)
  flushed     (* by framebuffer name: written, at the last flush           *)

devfsVars == <<files, maps, disk, calls, written, flushed>>

NL == 2
CR == 3
Blank == [i \in 1 .. FbSize |-> 0]
Disks == {k \in DOMAIN soc : soc[k].kind = "Block"}

DevfsInit ==
  /\ files = <<>>
  /\ maps = {}
  /\ disk = [k \in Disks |-> <<>>]
  /\ calls = 0
  /\ written = [k \in 1 .. Cardinality(GPUs) |-> Blank]
  /\ flushed = [k \in 1 .. Cardinality(GPUs) |-> Blank]

Calling ==
  /\ phase = "run"
  /\ calls < MaxCalls
  /\ calls' = calls + 1
  /\ UNCHANGED <<soc, boot_cpu, phase, at, framebuffers, pic, tty, typed>>
-----------------------------------------------------------------------------
(* populate_devices, called by every lookup and readdir: the named devices *)
(* that are character or block devices, with the id of the name.           *)
DevNodes ==
  [n \in {m \in DOMAIN dm.by_name : dm.by_name[m].type \in {"Char", "Block"}} |->
     [type |-> dm.by_name[n].type, id |-> dm.name_to_id[n]]]

(* The order of the names in the map: fb0, fb1, tty0, vblk0, vblk1. *)
Rank(n) == <<[fb |-> 1, tty |-> 2, vblk |-> 3][n[1]], n[2]>>
NameBefore(m, n) ==
  LET r == Rank(m) s == Rank(n) IN r[1] < s[1] \/ (r[1] = s[1] /\ r[2] < s[2])

(* DevNode::readdir: ".", ".." (both the root, id 0) and the devices. *)
DevEntries ==
  <<0, 0>> \o [i \in 1 .. Cardinality(DOMAIN DevNodes) |->
                 DevNodes[SetToSortSeq(DOMAIN DevNodes, NameBefore)[i]].id]

(* lookup and open of a device file: the object holds the device that has  *)
(* the id of the node; without one the open fails.                         *)
OpenDevice(n) ==
  /\ Calling
  /\ Len(files) < MaxFiles
  /\ n \in DOMAIN DevNodes
  /\ DevNodes[n].id \in DOMAIN dm.devices
  /\ files' = Append(files, [kind |-> DevNodes[n].type, name |-> n, pos |-> 0,
                             dev |-> dm.devices[DevNodes[n].id], entries |-> <<>>])
  /\ UNCHANGED <<dm, uart, fbmem, display, maps, disk, written, flushed>>

(* open of the root: the object keeps a copy of the children. *)
OpenDirectory ==
  /\ Calling
  /\ Len(files) < MaxFiles
  /\ files' = Append(files, [kind |-> "dir", name |-> <<>>, pos |-> 0,
                             dev |-> <<>>, entries |-> DevEntries])
  /\ UNCHANGED <<dm, uart, fbmem, display, maps, disk, written, flushed>>

IsFb(h) == files[h].kind = "Char" /\ files[h].dev.driver = "fb"
Resource(h) == framebuffers[files[h].dev.n]

(* The bytes a framebuffer transfers at a position: never past its end. *)
Fits(pos, n) == Min({n, FbSize - pos})

Overlaid(mem, pos, bs) ==
  [i \in 1 .. FbSize |-> IF i \in pos + 1 .. pos + Fits(pos, Len(bs)) THEN bs[i - pos] ELSE mem[i]]

Moved(h, n) == files' = [files EXCEPT ![h].pos = @ + n]

(* read: a framebuffer gives what is left after the position; a disk gives *)
(* sector 0 whatever the position.                                         *)
Read(h, n) ==
  /\ Calling
  /\ \/ IsFb(h) /\ Moved(h, IF files[h].pos >= FbSize THEN 0 ELSE Fits(files[h].pos, n))
     \/ files[h].kind = "Block" /\ UNCHANGED files
  /\ UNCHANGED <<dm, uart, fbmem, display, maps, disk, written, flushed>>

(* read of a directory: one entry a call. *)
ReadDirectory(h) ==
  /\ Calling
  /\ files[h].kind = "dir"
  /\ Moved(h, IF files[h].pos >= Len(files[h].entries) THEN 0 ELSE 1)
  /\ UNCHANGED <<dm, uart, fbmem, display, maps, disk, written, flushed>>

(* write_at of a framebuffer: past its end is an error. *)
WriteFramebuffer(h, bs) ==
  /\ Calling
  /\ IsFb(h)
  /\ files[h].pos < FbSize
  /\ fbmem' = [fbmem EXCEPT ![Resource(h).physical_addr] = Overlaid(@, files[h].pos, bs)]
  /\ written' = [written EXCEPT ![files[h].name[2] + 1] = Overlaid(@, files[h].pos, bs)]
  /\ Moved(h, Fits(files[h].pos, Len(bs)))
  /\ UNCHANGED <<dm, uart, display, maps, disk, flushed>>

(* The write of a disk goes to sector 0 and leaves the position alone. *)
WriteDisk(h, bs) ==
  /\ Calling
  /\ files[h].kind = "Block"
  /\ disk' = [disk EXCEPT ![files[h].dev.n] = bs]
  /\ UNCHANGED <<dm, uart, fbmem, display, files, maps, written, flushed>>

(* TtyDevice::write_byte for each byte: "\n" leaves as "\r\n"; without a   *)
(* UART below the terminal the first byte fails.                           *)
Sent(bs) == FlattenSeq([i \in 1 .. Len(bs) |-> IF bs[i] = NL THEN <<CR, NL>> ELSE <<bs[i]>>])

WriteTty(h, bs) ==
  /\ Calling
  /\ files[h].kind = "Char" /\ files[h].dev.driver = "tty"
  /\ LET below == dm.devices[files[h].dev.n]
     IN /\ below.driver = "uart"
        /\ uart' = [uart EXCEPT ![below.n].out = @ \o Sent(bs)]
  /\ Moved(h, Len(bs))
  /\ UNCHANGED <<dm, fbmem, display, maps, disk, written, flushed>>

(* seek: saturates at 0 and knows no upper end; a device has no end to    *)
(* seek from, a directory has.                                             *)
Sought(h, base, offset) ==
  /\ Calling
  /\ files' = [files EXCEPT ![h].pos = Max({0, base + offset})]
  /\ UNCHANGED <<dm, uart, fbmem, display, maps, disk, written, flushed>>

Seek(h, whence, offset) ==
  /\ files[h].kind # "dir"
  /\ whence # "End"
  /\ Sought(h, IF whence = "Start" THEN 0 ELSE files[h].pos, offset)

SeekDirectory(h, whence, offset) ==
  /\ files[h].kind = "dir"
  /\ Sought(h, [Start |-> 0, Current |-> files[h].pos, End |-> Len(files[h].entries)][whence], offset)

(* trigger_display_update flushes the device the framebuffer came from;    *)
(* then it fails if the address of the device is not the one of the file.  *)
DisplayUpdate(g) == display' = [display EXCEPT ![g] = fbmem[g]]

(* control with FBIO_FLUSH. *)
Flush(h) ==
  /\ Calling
  /\ IsFb(h)
  /\ LET g == dm.devices[Resource(h).source_device_id].n
     IN /\ DisplayUpdate(g)
        /\ flushed' = IF g = Resource(h).physical_addr
                      THEN [flushed EXCEPT ![files[h].name[2] + 1] = written[files[h].name[2] + 1]]
                      ELSE flushed
  /\ UNCHANGED <<dm, uart, fbmem, files, maps, disk, written>>

(* get_mapping_info and on_mapped: a range inside the framebuffer. *)
Map(h, offset, length) ==
  /\ Calling
  /\ IsFb(h)
  /\ offset < FbSize
  /\ length <= FbSize - offset
  /\ Cardinality(maps) < MaxFiles
  /\ maps' = maps \union {[name |-> files[h].name, paddr |-> Resource(h).physical_addr,
                           offset |-> offset, length |-> length]}
  /\ UNCHANGED <<dm, uart, fbmem, display, files, disk, written, flushed>>

(* The task stores a byte through its mapping; no call is made. *)
Store(m, i, b) ==
  /\ phase = "run"
  /\ i <= m.length
  /\ fbmem' = [fbmem EXCEPT ![m.paddr][m.offset + i] = b]
  /\ written' = [written EXCEPT ![m.name[2] + 1][m.offset + i] = b]
  /\ UNCHANGED <<soc, boot_cpu, phase, at, dm, framebuffers, pic, uart, tty, typed, display,
                 files, maps, disk, calls, flushed>>

(* sys_mknod of the xv6 ABI registers a console, without a name. *)
Mknod ==
  /\ Calling
  /\ dm' = Registered(dm, Device("Char", "console", Len(dm.devices)))
  /\ UNCHANGED <<uart, fbmem, display, files, maps, disk, written, flushed>>

DevCall ==
  \/ \E n \in DOMAIN dm.by_name : OpenDevice(n)
  \/ OpenDirectory
  \/ Mknod
  \/ \E h \in DOMAIN files :
       \/ \E n \in 1 .. FbSize : Read(h, n)
       \/ ReadDirectory(h)
       \/ \E bs \in {<<1>>, <<NL, 1>>} : WriteFramebuffer(h, bs) \/ WriteDisk(h, bs) \/ WriteTty(h, bs)
       \/ \E whence \in {"Start", "Current", "End"}, offset \in {-1, 1} :
            /\ whence = "Start" => offset >= 0
            /\ Seek(h, whence, offset) \/ SeekDirectory(h, whence, offset)
       \/ Flush(h)
       \/ \E offset \in 0 .. FbSize, length \in 1 .. FbSize : Map(h, offset, length)
  \/ \E m \in maps, i \in 1 .. FbSize : Store(m, i, 3)
-----------------------------------------------------------------------------
(* A name in /dev, an id and a device stay together, although devices      *)
(* without names take ids in between and graphics devices are found by id  *)
(* and turned into devices with names of their own: a file holds the       *)
(* device registered under its name; what was written through the name of  *)
(* a framebuffer is in the memory of the graphics device it came from, and *)
(* on its display after a flush (populate_devices, register_device_with_   *)
(* name, register_framebuffer_from_device, trigger_display_update).        *)
FilesReachDevices ==
  /\ \A h \in DOMAIN files : files[h].kind # "dir" => files[h].dev = dm.by_name[files[h].name]
  /\ \A k \in DOMAIN framebuffers :
       LET source == dm.devices[framebuffers[k].source_device_id]
       IN /\ source.type = "Graphics"
          /\ fbmem[source.n] = written[k]
          /\ display[source.n] = flushed[k]
          /\ dm.devices[framebuffers[k].char] = dm.by_name[<<"fb", k - 1>>]
=============================================================================
