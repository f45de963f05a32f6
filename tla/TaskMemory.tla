----------------------------- MODULE TaskMemory -----------------------------
(***************************************************************************)
(* The memory of user tasks: the page frames a task owns (managed_pages),  *)
(* its program break, and the operations that change both together with    *)
(* the address space of VmManager: brk, the memory mapping system calls,   *)
(* page faults, clone and exit.  A system call runs to its end without     *)
(* being preempted, so each is one action.                                 *)
(***************************************************************************)
EXTENDS VmManager

CONSTANTS
    Task,           \* tasks that may exist
    Frame,          \* numbers of the page frames the allocator owns
    DeviceFrame,    \* a frame of device memory, mapped shared
    UserPage,       \* page numbers a program asks for by address
    Breaks,         \* the breaks a program asks for
    MaxPages,       \* longest mapping asked for, in pages
    MaxCalls        \* bound: calls made by all programs

\* The first program has frames 0 and 1; the frames of a device lie above
\* those of the allocator.
ASSUME TaskMemoryAssumption ==
    /\ Task \in SUBSET Nat /\ Task # {}
    /\ Frame \in SUBSET Nat /\ {0, 1} \subseteq Frame
    /\ DeviceFrame \in Nat /\ \A f \in Frame : f < DeviceFrame
    /\ UserPage \in SUBSET Nat /\ Breaks \in SUBSET Nat
    /\ MaxPages \in Nat

VARIABLES
    vm,             \* task -> its VmManager record
    managed_pages,  \* task -> sequence of [vaddr, frame], in order of arrival
    brk,            \* task -> program break, or None
    text_size,      \* task -> bytes of text
    data_size,      \* task -> bytes of data
    live,           \* the tasks that exist
    used,           \* frames taken from the allocator and not given back
    panicked,       \* the kernel has panicked
    calls           \* calls made so far

vars == <<vm, managed_pages, brk, text_size, data_size, live, used, panicked, calls>>

first == CHOOSE t \in Task : \A u \in Task : t <= u

Region(vaddr, frame, n, permissions, is_shared, owner) ==
    Mapping(Area(vaddr, vaddr + n * PAGE_SIZE - 1),
            Area(frame * PAGE_SIZE, (frame + n) * PAGE_SIZE - 1), permissions, is_shared, owner)

Private(vaddr, frame, n, permissions, owner) ==
    Region(vaddr, frame, n, permissions, FALSE, owner)

\* The memory of a device object, which owns the mapping.
Device(vaddr, n) == Region(vaddr, DeviceFrame, n, "rw", TRUE, "dev")

Managed(vaddr, frame, n) ==
    [i \in 1 .. n |-> [vaddr |-> vaddr + (i - 1) * PAGE_SIZE, frame |-> frame + i - 1]]

\* allocate_raw_pages(n): the first of n consecutive free frames, as a set
\* that is empty when there are none.  The lowest stand for any.
allocate_raw_pages(n, taken) ==
    {f \in Frame : /\ f .. f + n - 1 \subseteq Frame \ taken
                   /\ \A g \in 0 .. f - 1 : ~(g .. g + n - 1 \subseteq Frame \ taken)}

\* A program with one page of text and one of data, as map_elf_segment
\* leaves it, has just been started in the first task.
Init ==
    /\ vm = [t \in Task |->
                IF t = first
                THEN [NewVm EXCEPT !.memmap = {Private(0, 0, 1, "rx", None),
                                               Private(PAGE_SIZE, 1, 1, "rw", None)}]
                ELSE NewVm]
    /\ managed_pages = [t \in Task |-> IF t = first THEN Managed(0, 0, 2) ELSE <<>>]
    /\ brk = [t \in Task |-> None]
    /\ text_size = [t \in Task |-> IF t = first THEN PAGE_SIZE ELSE 0]
    /\ data_size = [t \in Task |-> IF t = first THEN PAGE_SIZE ELSE 0]
    /\ live = {first}
    /\ used = {0, 1}
    /\ panicked = FALSE
    /\ calls = 0

-----------------------------------------------------------------------------
(***************************************************************************)
(* remove_managed_page takes the first entry for an address; a ManagedPage *)
(* gives its frame back when it is dropped.                                *)
(***************************************************************************)
FirstAt(pages, vaddrs) ==
    {i \in DOMAIN pages : /\ pages[i].vaddr \in vaddrs
                          /\ \A j \in 1 .. i - 1 : pages[j].vaddr # pages[i].vaddr}

remove_managed_pages(pages, vaddrs) ==
    LET kept == Ascending(DOMAIN pages \ FirstAt(pages, vaddrs))
    IN [i \in DOMAIN kept |-> pages[kept[i]]]

FramesOf(pages) == {pages[i].frame : i \in DOMAIN pages}

Dropped(pages, vaddrs) == {pages[i].frame : i \in FirstAt(pages, vaddrs)}

-----------------------------------------------------------------------------
(***************************************************************************)
(* sys_memory_map and sys_memory_unmap.                                    *)
(***************************************************************************)

\* Pages of private mappings that went away: their frames are dropped.
PagesToDrop(maps) == UNION {PagesOf(m.vmarea) : m \in {n \in maps : ~n.is_shared}}

\* Where a mapping goes: 0 lets the kernel choose, None is an error.
Placed(t, vaddr, n) ==
    IF vaddr = 0 THEN find_unmapped_area(vm[t], n * PAGE_SIZE)
    ELSE IF vaddr % PAGE_SIZE # 0 THEN None ELSE vaddr

\* add_memory_map_fixed and the clean-up of what it overwrote; new entries
\* and frames are those of the mapping itself.
MapOver(t, m, entries, frames) ==
    LET res == add_memory_map_fixed(vm[t], m)
        gone == PagesToDrop(res.overwritten)
    IN /\ vm' = [vm EXCEPT ![t] = res.vm]
       /\ managed_pages' =
              [managed_pages EXCEPT ![t] = remove_managed_pages(@, gone) \o entries]
       /\ used' = (used \ Dropped(managed_pages[t], gone)) \cup frames

\* handle_anonymous_mapping: the frames are taken before the address is
\* known to be good, and stay taken when it is not.
MapAnonymous(t, vaddr, n) ==
    /\ \E f \in allocate_raw_pages(n, used) :
           LET at == Placed(t, vaddr, n)
           IN IF at = None
              THEN used' = used \cup (f .. f + n - 1) /\ UNCHANGED <<vm, managed_pages>>
              ELSE MapOver(t, Private(at, f, n, "rw", None), Managed(at, f, n), f .. f + n - 1)
    /\ UNCHANGED <<brk, text_size, data_size, live, panicked>>

\* sys_memory_map of an object whose memory is a device's.
MapObject(t, vaddr, n) ==
    /\ Placed(t, vaddr, n) # None
    /\ LET at == Placed(t, vaddr, n)
       IN MapOver(t, Device(at, n), <<>>, {})
    /\ UNCHANGED <<brk, text_size, data_size, live, panicked>>

\* sys_memory_unmap: the mapping that holds vaddr goes, whatever the length
\* (a length of zero is refused).
Unmap(t, vaddr) ==
    LET res == remove_memory_map_by_addr(vm[t], vaddr)
        gone == PagesToDrop(res.removed)
    IN /\ vaddr % PAGE_SIZE = 0
       /\ vm' = [vm EXCEPT ![t] = res.vm]
       /\ managed_pages' = [managed_pages EXCEPT ![t] = remove_managed_pages(@, gone)]
       /\ used' = used \ Dropped(managed_pages[t], gone)
       /\ UNCHANGED <<brk, text_size, data_size, live, panicked>>

-----------------------------------------------------------------------------
(***************************************************************************)
(* brk.                                                                    *)
(***************************************************************************)
get_brk(t) == IF brk[t] = None THEN text_size[t] + data_size[t] ELSE brk[t]

Panic ==
    /\ panicked' = TRUE
    /\ UNCHANGED <<vm, managed_pages, brk, text_size, data_size, live, used>>

\* The parts of a removed mapping that free_pages adds again: the part
\* before its first page, then the part after its last page.
Readd(s, m, vaddr, p, n) ==
    LET head == IF p = 0 /\ m.vmarea.start < vaddr
                THEN add_memory_map(s, Cut(m, m.vmarea.start, vaddr - 1)).vm ELSE s
    IN IF p = n - 1 /\ m.vmarea.end > vaddr + PAGE_SIZE - 1
       THEN add_memory_map(head, Cut(m, vaddr + PAGE_SIZE, m.vmarea.end)).vm ELSE head

\* One round of the loop of free_pages, for the page number p from the first.
FreePage(acc, p) ==
    LET a == acc.vaddr + p * PAGE_SIZE
        res == remove_memory_map_by_addr(acc.vm, a)
    IN IF res.removed = {} THEN [acc EXCEPT !.vm = res.vm]
       ELSE [acc EXCEPT !.vm = Readd(res.vm, CHOOSE m \in res.removed : TRUE, a, p, acc.n),
                        !.pages = remove_managed_pages(@, {a}),
                        !.freed = @ \cup Dropped(acc.pages, {a})]

Freeing == INSTANCE Iteration WITH Step <- FreePage

free_pages(s, pages, vaddr, n) ==
    LET start == [vm |-> s, pages |-> pages, freed |-> {}, vaddr |-> vaddr, n |-> n]
        done == Freeing!Iterate(start, [i \in 1 .. n |-> i - 1])
    IN [done EXCEPT !.vm.pt =
           unmap_range_from_mmu(@, Area(vaddr, vaddr + n * PAGE_SIZE - 1))]

\* The subtraction of free_data_pages is checked in the development build.
Underflows(t, n) == data_size[t] < n * PAGE_SIZE

Shrink(t, b) ==
    LET at == RoundUp(b)
        n == (RoundUp(get_brk(t)) - at) \div PAGE_SIZE
        res == free_pages(vm[t], managed_pages[t], at, n)
    IN /\ b < get_brk(t)
       /\ IF Underflows(t, n) THEN Panic
          ELSE /\ vm' = [vm EXCEPT ![t] = res.vm]
               /\ managed_pages' = [managed_pages EXCEPT ![t] = res.pages]
               /\ used' = used \ res.freed
               /\ data_size' = [data_size EXCEPT ![t] = @ - n * PAGE_SIZE]
               /\ brk' = [brk EXCEPT ![t] = b]
               /\ UNCHANGED <<text_size, live, panicked>>

\* The page at the old break is mapped: set_brk allocates nothing.
Backed(t, at) == search_memory_map(vm[t], at) # {}

\* The pages from the old break up are allocated unless the first of them
\* is mapped; allocate_pages panics when a later one is.
Grow(t, b) ==
    LET at == RoundUp(get_brk(t))
        n == (RoundUp(b) - at) \div PAGE_SIZE
        moved == /\ brk' = [brk EXCEPT ![t] = b]
                 /\ UNCHANGED <<text_size, live, panicked>>
    IN /\ b > get_brk(t)
       /\ IF n = 0 \/ Backed(t, at)
          THEN moved /\ UNCHANGED <<vm, managed_pages, data_size, used>>
          ELSE \E f \in allocate_raw_pages(n, used) :
                 LET res == add_memory_map(vm[t], Private(at, f, n, "rw", None))
                 IN IF ~res.ok THEN Panic
                    ELSE /\ moved
                         /\ vm' = [vm EXCEPT ![t] = res.vm]
                         /\ managed_pages' = [managed_pages EXCEPT ![t] = @ \o Managed(at, f, n)]
                         /\ used' = used \cup (f .. f + n - 1)
                         /\ data_size' = [data_size EXCEPT ![t] = @ + n * PAGE_SIZE]

set_brk(t, b) ==
    /\ b >= text_size[t]
    /\ Shrink(t, b) \/ Grow(t, b)

-----------------------------------------------------------------------------
(***************************************************************************)
(* Page faults, clone and exit.                                            *)
(***************************************************************************)

\* arch_exception_handler, load or store at an address the program may use.
PageFault(t, a) ==
    /\ lazy_map_page(vm[t], a).ok
    /\ vm' = [vm EXCEPT ![t] = lazy_map_page(@, a).vm]
    /\ UNCHANGED <<managed_pages, brk, text_size, data_size, live, used, panicked>>

\* One mapping of the parent in clone_task: a shared one is shared, a private
\* one is copied to frames of its own.
CloneStep(acc, m) ==
    LET n == RoundUp(Size(m.vmarea)) \div PAGE_SIZE
        base == allocate_raw_pages(n, acc.used)
        f == CHOOSE g \in base : TRUE
        res == add_memory_map(acc.vm,
                   IF m.is_shared THEN m
                   ELSE Private(m.vmarea.start, f, n, m.permissions, m.owner))
    IN IF m.is_shared
       THEN [acc EXCEPT !.ok = @ /\ res.ok, !.vm = res.vm]
       ELSE IF base = {} THEN [acc EXCEPT !.ok = FALSE]
       ELSE [acc EXCEPT !.ok = @ /\ res.ok, !.vm = res.vm,
                        !.pages = @ \o Managed(m.vmarea.start, f, n),
                        !.used = @ \cup (f .. f + n - 1)]

Cloning == INSTANCE Iteration WITH Step <- CloneStep

\* The mappings of the parent, in address order, copied into an empty space.
CloneMaps(s, taken) ==
    Cloning!Iterate([ok |-> TRUE, vm |-> NewVm, pages |-> <<>>, used |-> taken],
                    InOrder(s.memmap))

\* clone_task without CLONE_VM; the break is not copied.
clone_task(t, c) ==
    LET res == CloneMaps(vm[t], used)
    IN /\ c \in Task \ live
       /\ res.ok
       /\ vm' = [vm EXCEPT ![c] = res.vm]
       /\ managed_pages' = [managed_pages EXCEPT ![c] = res.pages]
       /\ used' = res.used
       /\ text_size' = [text_size EXCEPT ![c] = text_size[t]]
       /\ data_size' = [data_size EXCEPT ![c] = data_size[t]]
       /\ brk' = [brk EXCEPT ![c] = None]
       /\ live' = live \cup {c}
       /\ UNCHANGED panicked

\* The task is dropped: its frames go back and its address space is freed.
Drop(t) ==
    /\ used' = used \ FramesOf(managed_pages[t])
    /\ managed_pages' = [managed_pages EXCEPT ![t] = <<>>]
    /\ vm' = [vm EXCEPT ![t] = NewVm]
    /\ brk' = [brk EXCEPT ![t] = None]
    /\ text_size' = [text_size EXCEPT ![t] = 0]
    /\ data_size' = [data_size EXCEPT ![t] = 0]
    /\ live' = live \ {t}
    /\ UNCHANGED panicked

-----------------------------------------------------------------------------

Vaddrs == {p * PAGE_SIZE : p \in UserPage}

\* An address no page starts at, which the mapping calls refuse.
Odd == PAGE_SIZE + 1

\* Every page is touched at its last byte.
Touch(t) ==
    \E p \in 0 .. (MAX_USER_ADDR \div PAGE_SIZE) - 1 :
        PageFault(t, (p + 1) * PAGE_SIZE - 1)

\* The calls of a program.
Calls(t) ==
    \/ \E v \in Vaddrs \cup {0, Odd}, n \in 1 .. MaxPages : MapAnonymous(t, v, n)
    \/ \E v \in Vaddrs : MapObject(t, v, 1)
    \/ \E v \in Vaddrs : Unmap(t, v)
    \/ \E b \in Breaks : set_brk(t, b)
    \/ \E c \in Task : clone_task(t, c)
    \/ live # {t} /\ Drop(t)

Next ==
    \/ /\ ~panicked /\ calls < MaxCalls
       /\ \E t \in live : Calls(t) \/ Touch(t)
       /\ calls' = calls + 1
    \/ (panicked \/ calls = MaxCalls) /\ UNCHANGED vars

Spec == Init /\ [][Next]_vars

-----------------------------------------------------------------------------

\* The frame behind a page of a private mapping.
FrameAt(m, page) == (m.pmarea.start + (page - m.vmarea.start)) \div PAGE_SIZE

\* Mappings are split, cut and overwritten while the frames are kept in a
\* list of their own: every page of a private mapping is still backed by a
\* frame the task owns and has recorded for that very page.
OwnsWhatItMaps ==
    \A t \in live : \A m \in {n \in vm[t].memmap : ~n.is_shared} :
        \A page \in PagesOf(m.vmarea) :
            \E i \in DOMAIN managed_pages[t] :
                /\ managed_pages[t][i] = [vaddr |-> page, frame |-> FrameAt(m, page)]
                /\ FrameAt(m, page) \in used

\* What the hardware can reach of a task is its own: a page-table entry leads
\* to a frame the task owns or to device memory, never to a frame that was
\* given back, whichever calls, forks and exits came between.
NoFreedFrameReachable ==
    \A t \in live : \A e \in vm[t].pt :
        \/ e.paddr \div PAGE_SIZE \in FramesOf(managed_pages[t]) \cap used
        \/ e.paddr \div PAGE_SIZE >= DeviceFrame

UserAddr == 0 .. MAX_USER_ADDR - 1

\* search_memory_map and translate_vaddr answer from a cache when the address
\* falls in the cached range, and otherwise look at one neighbour only.
\* Whatever was added, overwritten, cut or removed since, the answer is what
\* the mappings say, and there is only one.
SearchIsExact ==
    \A t \in live, a \in UserAddr :
        /\ translate_vaddr(vm[t], a) = Meaning(vm[t], a)
        /\ Cardinality(Meaning(vm[t], a)) <= 1

\* The mappings through which a step has given an address a new meaning.
Entered(t) ==
    {m \in vm'[t].memmap :
        \E a \in m.vmarea.start .. m.vmarea.end :
            Meaning(vm'[t], a) # Meaning(vm[t], a)}

\* add_memory_map_fixed: "Non-overlapping parts of existing mappings are
\* preserved (split and kept)".  When memory is mapped into a task, every
\* address outside the new mapping keeps its meaning.
MapKeepsTheRest ==
    [][\A t \in live \cap live' : Entered(t) # {} =>
        \A a \in UserAddr :
            (\A m \in Entered(t) : ~Holds(m, a)) => Meaning(vm'[t], a) = Meaning(vm[t], a)]_vars
=============================================================================
