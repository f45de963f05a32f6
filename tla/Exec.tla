------------------------------- MODULE Exec -------------------------------
(***************************************************************************)
(* Program execution: the transparent executor that backs the task up,     *)
(* chooses an ABI, rebuilds the environment, loads the ELF image and       *)
(* restores the task on failure (kernel/src/executor, task/elf_loader,     *)
(* abi), and the handles that live across it.  The state is the record s   *)
(* of one task: its address space, the pages it owns, the frames that are  *)
(* allocated, its sizes, registers, ABI, name space and handles.  A failed *)
(* call returns [ok |-> FALSE, ...] with what it left behind.              *)
(***************************************************************************)
EXTENDS VmManager, Handles

CONSTANTS
    Images,         \* path -> what the file there is
    Visible,        \* name space -> the paths that resolve in it
    Prepared,       \* the ABIs whose /system and /data/config directories exist
    InitPath,       \* the first program
    NumFrames,      \* physical frames
    PIE_BASE, INTERP_BASE, PHDR_ADDR, STACK_END, STACK_PAGES, VMMAX,
    MAX_INTERPRETER_DEPTH,
    MaxCalls        \* bound on the length of a behaviour

Paths == DOMAIN Images
Abis == {"scarlet", "xv6"}

VARIABLES
    s,          \* the task
    outcome,    \* of the last call, if it was an exec
    calls       \* calls made
vars == <<s, outcome, calls>>

Frames == 1 .. NumFrames
FramesOf(pages) == {p.frame : p \in pages}

-----------------------------------------------------------------------------
(***************************************************************************)
(* Loading.  A step of the loader takes and returns [ok, s], and does      *)
(* nothing after a failure.                                                *)
(***************************************************************************)

\* The ? of the source: go on with F if the step before succeeded.
Then(r, F(_)) == IF r.ok THEN F(r.s) ELSE r

Ok(t) == [ok |-> TRUE, s |-> t]
Err(t) == [ok |-> FALSE, s |-> t]

IsPowerOfTwo(n) == \E k \in 0 .. 12 : n = 2 ^ k

\* allocate_raw_pages: n consecutive frames that nobody has.
Allocated(used, n) ==
    CHOOSE f \in Frames : /\ f .. f + n - 1 \subseteq Frames \ used
                          /\ \A g \in 1 .. f - 1 : ~(g .. g + n - 1 \subseteq Frames \ used)

\* A mapping over n pages at vaddr, backed by the frames from f on.
Backed(vaddr, n, f, permissions) ==
    Mapping(Area(vaddr, vaddr + n * PAGE_SIZE - 1),
            Area(f * PAGE_SIZE, (f + n) * PAGE_SIZE - 1), permissions, FALSE, None)

Managed(vaddr, n, f) == {[vaddr |-> vaddr + i * PAGE_SIZE, frame |-> f + i] : i \in 0 .. n - 1}

\* The mapping joins the address space, or its frames are freed again.
Installed(t, vaddr, n, f, r) ==
    IF r.ok THEN Ok([t EXCEPT !.vm = r.vm, !.used = @ \cup (f .. f + n - 1),
                              !.pages = @ \cup Managed(vaddr, n, f)])
    ELSE Err(t)

MapFrames(t, vaddr, n, f, flags) ==
    Installed(t, vaddr, n, f, add_memory_map(t.vm, Backed(vaddr, n, f, flags)))

map_elf_segment(t, vaddr, size, align, flags) ==
    IF \/ ~IsPowerOfTwo(align) \/ align < PAGE_SIZE
       \/ size = 0 \/ size % PAGE_SIZE # 0 \/ vaddr % PAGE_SIZE # 0
       \/ search_memory_map(t.vm, vaddr) # {}
    THEN Err(t)
    ELSE MapFrames(t, vaddr, size \div PAGE_SIZE, Allocated(t.used, size \div PAGE_SIZE), flags)

\* The task sizes count text by the executable segments, data by the rest.
Counted(t, flags, size) ==
    IF "x" \in flags THEN [t EXCEPT !.text = @ + size]
    ELSE IF flags # {} THEN [t EXCEPT !.data = @ + size] ELSE t

AlignOf(seg) == IF seg.align \in {0, 1} THEN PAGE_SIZE ELSE Max({seg.align, PAGE_SIZE})

\* Whole pages around the bytes of a segment, from start on.
MapSegment(t, seg, start, size) ==
    Then(map_elf_segment(t, start, size, AlignOf(seg), seg.flags),
         LAMBDA u : Ok(Counted(u, seg.flags, size)))

load_elf_segment_at_address(t, seg, addr) ==
    MapSegment(t, seg, RoundDown(addr), RoundUp(seg.memsz + (addr % PAGE_SIZE)))

\* Where a segment of a static program is mapped: the alignment it asks
\* for, and the same offset from it in the file and in memory.
StaticStart(seg, addr) ==
    IF seg.align \in {0, 1} THEN RoundDown(addr)
    ELSE LET eff == Max({seg.align, PAGE_SIZE})
             moved == addr - (((addr % seg.align) - (seg.offset % seg.align)) % seg.align)
         IN moved - (moved % eff)

\* A segment that may be neither read, written nor executed is an error,
\* once it is mapped.
load_static_segment(t, seg, addr) ==
    Then(MapSegment(t, seg, StaticStart(seg, addr),
                    RoundUp(seg.memsz + addr - StaticStart(seg, addr))),
         LAMBDA u : IF seg.flags = {} THEN Err(u) ELSE Ok(u))

\* for_each_program_header over the PT_LOAD headers.
Load(t, image, base, Segment(_, _, _)) ==
    FoldLeft(LAMBDA acc, seg : Then(acc, LAMBDA u : Segment(u, seg, base + seg.vaddr)),
             Ok(t), image.segs)

MainBase(image) == IF image.dyn THEN PIE_BASE ELSE 0

\* load_program_headers_into_memory, for a static program that is not PIE.
load_program_headers_into_memory(t, image) ==
    IF image.segs = <<>> THEN Err(t)
    ELSE map_elf_segment(t, PHDR_ADDR, PAGE_SIZE, PAGE_SIZE, {"r"})

\* load_interpreter_recursive up to the program it loads: an interpreter
\* that names another one is replaced by it, up to the depth limit.
Interpreter(ns, path) ==
    LET find[d \in 0 .. MAX_INTERPRETER_DEPTH, p \in Paths] ==
            IF d = MAX_INTERPRETER_DEPTH \/ p \notin Visible[ns] \/ ~Images[p].elf THEN Nil
            ELSE IF Images[p].interp = Nil THEN p
            ELSE find[d + 1, Images[p].interp]
    IN find[0, path]

LoadInterpreter(t, p) ==
    IF p = Nil THEN Err(t) ELSE Load(t, Images[p], INTERP_BASE, load_elf_segment_at_address)

load_interpreter(t, path) == LoadInterpreter(t, Interpreter(t.vfs, path))

\* A dynamic program is loaded before its interpreter is looked for.
analyze_and_load_elf_with_strategy(t, image) ==
    IF ~image.elf THEN Err(t)
    ELSE IF image.interp = Nil
         THEN Then(Load(t, image, MainBase(image), load_static_segment),
                   LAMBDA u : IF image.dyn THEN Ok(u)
                              ELSE load_program_headers_into_memory(u, image))
         ELSE Then(Load(t, image, MainBase(image), load_elf_segment_at_address),
                   LAMBDA u : load_interpreter(u, image.interp))

\* The address the program starts at.
Entry0(ns, path) ==
    LET image == Images[path]
        p == IF image.interp = Nil THEN path ELSE Interpreter(ns, image.interp)
        base == IF image.interp # Nil THEN INTERP_BASE ELSE PIE_BASE
    IN IF Images[p].dyn THEN base + Images[p].entry ELSE Images[p].entry

-----------------------------------------------------------------------------
(***************************************************************************)
(* execute_binary of an ABI: the image, then the trampoline and the stack  *)
(* in a cleared page table, then the registers.                            *)
(***************************************************************************)
Trampoline == Mapping(Area(VMMAX, VMMAX + PAGE_SIZE - 1), Area(0, PAGE_SIZE - 1),
                      {"r", "w", "x"}, TRUE, None)

\* The trampoline is mapped at once, everything else at its first fault.
setup_trampoline(vm) ==
    [add_memory_map(vm, Trampoline).vm EXCEPT !.pt = MapPage(@, Entry(VMMAX, 0, {"r", "w", "x"}))]

StackBase == STACK_END - STACK_PAGES * PAGE_SIZE

StackOn(t, f) ==
    [t EXCEPT !.vm = add_memory_map(@, Backed(StackBase, STACK_PAGES, f, {"r", "w"})).vm,
              !.used = @ \cup (f .. f + STACK_PAGES - 1),
              !.pages = @ \cup Managed(StackBase, STACK_PAGES, f),
              !.stack = @ + STACK_PAGES * PAGE_SIZE]

setup_user_stack(t) == StackOn(t, Allocated(t.used, STACK_PAGES))

\* Mutant of unmap_all: the old program's page table is kept.
unmap_nothing(vm) == vm

unmap_all(vm) == [vm EXCEPT !.pt = {}]

\* The loaded program, ready to run.
Started(t, path) ==
    [setup_user_stack([t EXCEPT !.vm = setup_trampoline(unmap_all(@))])
        EXCEPT !.name = path, !.tf = Entry0(t.vfs, path)]

execute_binary(t, path) ==
    Then(analyze_and_load_elf_with_strategy(
             [t EXCEPT !.text = 0, !.data = 0, !.stack = 0, !.brk = None], Images[path]),
         LAMBDA u : Ok(Started(u, path)))

-----------------------------------------------------------------------------
(***************************************************************************)
(* Which ABI runs a file: every registered ABI scores it, and the highest  *)
(* score wins.                                                             *)
(***************************************************************************)
AtMost100(n) == Min({n, 100})
If(cond, n) == IF cond THEN n ELSE 0

can_execute_binary(abi, image, current) ==
    IF abi = "scarlet"
    THEN AtMost100(30 + If(image.osabi = 83, 70) + If(image.hint \in {"elf", "scarlet"}, 15)
                      + If(current = "scarlet", 40))
    ELSE AtMost100(25 + 10 + If(image.hint = "xv6", 20) + If(image.hint = "elf", 5)
                      + If(current = "xv6", 15))

\* The ABIs with the highest score; iteration order decides between them.
detect_best_abi(image, current) ==
    IF ~image.elf THEN {}
    ELSE {a \in Abis : \A b \in Abis : can_execute_binary(a, image, current)
                                        >= can_execute_binary(b, image, current)}

-----------------------------------------------------------------------------
(***************************************************************************)
(* The executor.                                                           *)
(***************************************************************************)

\* setup_task_environment: the name space is replaced before anything is
\* checked, and the xv6 ABI starts with every handle closed.  mounts says
\* whether the overlay and the shared directories can be mounted.
setup_task_environment(t, abi, mounts) ==
    IF abi \notin Prepared \/ ~mounts
    THEN Err([t EXCEPT !.vfs = "clean"])
    ELSE Ok([t EXCEPT !.vfs = abi, !.table = IF abi = "xv6" THEN close_all(@) ELSE @])

\* The file is opened and the ABI instantiated first, the file object is
\* kept across the change of name space.
execute_implementation(t, path, abi, force, mounts) ==
    IF path \notin Visible[t.vfs] \/ abi \notin Abis THEN Err(t)
    ELSE Then(IF abi # t.abi \/ force THEN setup_task_environment(t, abi, mounts) ELSE Ok(t),
              LAMBDA u : Then(execute_binary(u, path),
                              LAMBDA v : Ok(IF abi = t.abi THEN v
                                            ELSE [v EXCEPT !.abi = abi, !.fds = NewFds])))

create_backup(t) ==
    [pages |-> t.pages, maps |-> t.vm.memmap, text |-> t.text, data |-> t.data,
     stack |-> t.stack, name |-> t.name, tf |-> t.tf]

BackedUp(t) == [t EXCEPT !.pages = {}, !.vm = remove_all_memory_maps(@).vm]

\* The pages of the failed load are dropped; the old mappings are added to
\* what it left, and nothing else is restored if one of them clashes.
Restored(t, saved, r) ==
    IF ~r.ok THEN [t EXCEPT !.vm = r.vm]
    ELSE [t EXCEPT !.vm = r.vm, !.text = saved.text, !.data = saved.data, !.stack = saved.stack,
                   !.name = saved.name, !.tf = saved.tf]

restore_to_task(t, saved) ==
    Restored([t EXCEPT !.pages = saved.pages, !.used = @ \ FramesOf(t.pages)], saved,
             restore_memory_maps(t.vm, saved.maps))

\* The result of an exec: it is done, was refused before it had mapped
\* anything, or failed later and left a torn address space to restore into.
Finished(saved, r) ==
    IF r.ok THEN [result |-> "done", s |-> [r.s EXCEPT !.used = @ \ FramesOf(saved.pages)]]
    ELSE [result |-> IF r.s.vm.memmap = {} THEN "refused" ELSE "torn",
          s |-> restore_to_task(r.s, saved)]

\* execute_with_optional_abi, for an ABI that is given or was detected.
Execute(t, path, abi, force, mounts) ==
    Finished(create_backup(t), execute_implementation(BackedUp(t), path, abi, force, mounts))

-----------------------------------------------------------------------------
(***************************************************************************)
(* The argument block.  argv and envp are sequences of string lengths, and *)
(* the result lists what is written where: a word [at, word] or the string *)
(* i of a vector [at, str, len] with its terminator.                       *)
(***************************************************************************)
WORD == 8
Up16(n) == ((n + 15) \div 16) * 16
Sizes(lens) == FoldLeft(LAMBDA a, n : a + n + 1, 0, lens)
Offset(lens, i) == Sizes(SubSeq(lens, 1, i - 1))

\* A vector of pointers at addr to the strings stored from start on.
Pointers(addr, lens, start) ==
    {[at |-> addr + (i - 1) * WORD, word |-> start + Offset(lens, i)] : i \in DOMAIN lens}
        \cup {[at |-> addr + Len(lens) * WORD, word |-> 0]}
Strings(vector, lens, start) ==
    {[at |-> start + Offset(lens, i), str |-> <<vector, i>>, len |-> lens[i] + 1] : i \in DOMAIN lens}

\* Mutant of setup_arguments_on_stack: the terminator of argv is not counted.
setup_arguments_short(argv, envp, sp0) ==
    LET arrays == Len(argv) * WORD + (Len(envp) + 1) * WORD
        sp == sp0 - Up16(WORD + arrays + Sizes(argv) + Sizes(envp))
        strings == sp + WORD + arrays
    IN [sp |-> sp, argv |-> sp + WORD, envp |-> sp + WORD + (Len(argv) + 1) * WORD,
        words |-> {[at |-> sp, word |-> Len(argv)]}
                      \cup Pointers(sp + WORD, argv, strings)
                      \cup Pointers(sp + WORD + (Len(argv) + 1) * WORD, envp, strings + Sizes(argv)),
        strings |-> Strings("argv", argv, strings)
                      \cup Strings("envp", envp, strings + Sizes(argv))]

setup_arguments_on_stack(argv, envp, sp0) ==
    LET arrays == (Len(argv) + 1) * WORD + (Len(envp) + 1) * WORD
        sp == sp0 - Up16(WORD + arrays + Sizes(argv) + Sizes(envp))
        strings == sp + WORD + arrays
    IN [sp |-> sp, argv |-> sp + WORD, envp |-> sp + WORD + (Len(argv) + 1) * WORD,
        words |-> {[at |-> sp, word |-> Len(argv)]}
                      \cup Pointers(sp + WORD, argv, strings)
                      \cup Pointers(sp + WORD + (Len(argv) + 1) * WORD, envp, strings + Sizes(argv)),
        strings |-> Strings("argv", argv, strings)
                      \cup Strings("envp", envp, strings + Sizes(argv))]

\* The xv6 block: every string on its own 16 bytes below the last one, and
\* the pointers below them all, with no terminator.
xv6_arguments(argv, sp0) ==
    LET Push(acc, n) == [sp |-> ((acc.sp - (n + 1)) \div 16) * 16,
                         at |-> Append(acc.at, ((acc.sp - (n + 1)) \div 16) * 16)]
        done == FoldLeft(Push, [sp |-> sp0, at |-> <<>>], argv)
        sp == ((done.sp - Len(argv) * WORD) \div 16) * 16
    IN [sp |-> sp, argv |-> sp,
        words |-> {[at |-> sp + (i - 1) * WORD, word |-> done.at[i]] : i \in DOMAIN argv},
        strings |-> {[at |-> done.at[i], str |-> <<"argv", i>>, len |-> argv[i] + 1] : i \in DOMAIN argv}]

-----------------------------------------------------------------------------
(***************************************************************************)
(* The system calls.                                                       *)
(***************************************************************************)
Called(r) ==
    /\ calls < MaxCalls /\ ~s.panic
    /\ s' = r.s /\ outcome' = r.result /\ calls' = calls + 1

Becomes(t) == Called([result |-> "none", s |-> t])

Exec(path, abi, force, mounts) == Called(Execute(s, path, abi, force, mounts))

\* The ABI a path is run by when none is given: Nil if no ABI takes it.
Detected(path) ==
    LET found == IF path \in Visible[s.vfs] THEN detect_best_abi(Images[path], s.abi) ELSE {}
    IN IF found = {} THEN {Nil} ELSE found

sys_execve(path, force, mounts) ==
    /\ s.abi = "scarlet"
    /\ \E abi \in Detected(path) : Exec(path, abi, force, mounts)

sys_execve_abi(path, abi, force, mounts) ==
    s.abi = "scarlet" /\ Exec(path, abi, force, mounts)

\* The xv6 call, which never forces a rebuild.
sys_exec(path, mounts) ==
    /\ s.abi = "xv6"
    /\ \E abi \in Detected(path) : Exec(path, abi, FALSE, mounts)

\* A page of the program is touched for the first time.
PageFault(page) ==
    lazy_map_page(s.vm, page).ok /\ Becomes([s EXCEPT !.vm = lazy_map_page(@, page).vm])

\* brk called with the current break, which then is no longer computed.
sys_brk == s.brk = None /\ Becomes([s EXCEPT !.brk = s.text + s.data])

\* Native handles: opening a file, a pipe, closing, duplicating, renaming
\* the role of one.
sys_open == s.abi = "scarlet" /\ Becomes([s EXCEPT !.table = insert(@, "file").t])

PipeEnd(access) == [role |-> "IpcChannel", access |-> access]

sys_pipe ==
    LET r == insert_with_metadata(s.table, "reader", PipeEnd("ReadOnly"))
        w == insert_with_metadata(r.t, "writer", PipeEnd("WriteOnly"))
    IN /\ s.abi = "scarlet"
       /\ Becomes([s EXCEPT !.table = IF r.handle = Nil THEN @
                                      ELSE IF w.handle = Nil THEN remove(r.t, r.handle) ELSE w.t])

sys_handle_close(h) == s.abi = "scarlet" /\ Becomes([s EXCEPT !.table = remove(@, h)])

sys_handle_duplicate(h) ==
    /\ s.abi = "scarlet" /\ s.table.handles[h] # Nil
    /\ Becomes([s EXCEPT !.table = insert(@, s.table.handles[h]).t])

sys_handle_set_role(h, role) ==
    /\ s.abi = "scarlet" /\ s.table.metadata[h] # Nil
    /\ Becomes([s EXCEPT !.table = update_metadata(@, h, [s.table.metadata[h] EXCEPT !.role = role])])

\* The xv6 calls on descriptors.  A handle whose descriptor cannot be
\* allocated stays in the table.
Opened(t, obj) ==
    LET r == insert(t.table, obj)
    IN IF r.handle = Nil THEN t
       ELSE [t EXCEPT !.table = r.t, !.fds = allocate_fd(@, r.handle).f]

xv6_open == s.abi = "xv6" /\ Becomes(Opened(s, "file"))

xv6_dup(fd) ==
    /\ s.abi = "xv6" /\ s.fds.handle[fd] # Nil
    /\ s.table.handles[s.fds.handle[fd]] # Nil
    /\ Becomes(Opened(s, s.table.handles[s.fds.handle[fd]]))

xv6_close(fd) ==
    /\ s.abi = "xv6" /\ s.fds.handle[fd] # Nil
    /\ Becomes([s EXCEPT !.fds = remove_fd(@, fd), !.table = remove(@, s.fds.handle[fd])])

\* Two handles are expected, so a full table stops the kernel; a missing
\* descriptor leaves handles behind.
xv6_pipe ==
    LET r == insert(s.table, "reader")
        w == insert(r.t, "writer")
        rf == allocate_fd(s.fds, r.handle)
        wf == allocate_fd(rf.f, w.handle)
    IN /\ s.abi = "xv6"
       /\ Becomes(IF r.handle = Nil \/ w.handle = Nil THEN [s EXCEPT !.panic = TRUE]
                  ELSE IF rf.fd = Nil THEN [s EXCEPT !.table = w.t]
                  ELSE IF wf.fd = Nil
                       THEN [s EXCEPT !.table = remove(w.t, r.handle),
                                      !.fds = remove_fd(rf.f, rf.fd)]
                  ELSE [s EXCEPT !.table = w.t, !.fds = wf.f])

-----------------------------------------------------------------------------
NewTask ==
    [vm |-> NewVm, pages |-> {}, used |-> {}, text |-> 0, data |-> 0, stack |-> 0,
     brk |-> None, name |-> None, tf |-> None, abi |-> "scarlet", vfs |-> "base",
     table |-> NewTable, fds |-> NewFds, panic |-> FALSE]

\* A task that runs the first program under one ABI or the other.
Init ==
    /\ \E abi \in Abis : s = Execute(NewTask, InitPath, abi, FALSE, TRUE).s
    /\ outcome = "none" /\ calls = 0

Over == (calls = MaxCalls \/ s.panic) /\ UNCHANGED vars

Next ==
    \/ \E path \in Paths, force, mounts \in BOOLEAN : sys_execve(path, force, mounts)
    \/ \E path \in Paths, abi \in Abis \cup {"other"}, force, mounts \in BOOLEAN :
           sys_execve_abi(path, abi, force, mounts)
    \/ \E path \in Paths, mounts \in BOOLEAN : sys_exec(path, mounts)
    \/ \E m \in s.vm.memmap : PageFault(m.vmarea.start)
    \/ sys_brk
    \/ sys_open
    \/ sys_pipe
    \/ \E h \in Slots : sys_handle_close(h)
    \/ \E h \in Slots : sys_handle_duplicate(h)
    \/ \E h \in Slots : sys_handle_set_role(h, "StandardInputOutput")
    \/ xv6_open
    \/ \E fd \in Fds : xv6_dup(fd)
    \/ \E fd \in Fds : xv6_close(fd)
    \/ xv6_pipe
    \/ Over

Spec == Init /\ [][Next]_vars

-----------------------------------------------------------------------------
(***************************************************************************)
(* Properties.                                                             *)
(***************************************************************************)

\* The chain of interpreters from a path on, followed by hand.
Nth(path) ==
    LET nth[n \in 0 .. Cardinality(Paths)] ==
            IF n = 0 THEN path
            ELSE IF nth[n - 1] = Nil THEN Nil ELSE Images[nth[n - 1]].interp
    IN nth

\* The programs a successful exec of a path must have in memory, with the
\* address each is loaded at.
Programs(path) ==
    LET nth == Nth(path)
    IN {<<path, MainBase(Images[path])>>}
           \cup {<<nth[n], INTERP_BASE>> :
                     n \in {n \in DOMAIN nth : n > 0 /\ nth[n] # Nil /\ Images[nth[n]].interp = Nil}}

\* Every byte of every segment of the programs is mapped as the segment
\* says, and the first instruction is in an executable mapping.
ImageInPlace(t, path) ==
    /\ \A p \in Programs(path) : \A i \in DOMAIN Images[p[1]].segs :
           LET seg == Images[p[1]].segs[i]
           IN \A a \in p[2] + seg.vaddr .. p[2] + seg.vaddr + seg.memsz - 1 :
                  \E m \in t.vm.memmap : Holds(m, a) /\ m.permissions = seg.flags
    /\ \E m \in t.vm.memmap : Holds(m, t.tf) /\ "x" \in m.permissions

\* The pages of the private mappings are the pages the task owns, each
\* backed by the frame it owns there.
OwnsItsMappings(t) ==
    t.pages = UNION {{[vaddr |-> a, frame |-> (m.pmarea.start + a - m.vmarea.start) \div PAGE_SIZE] :
                          a \in PagesOf(m.vmarea)} : m \in {m \in t.vm.memmap : ~m.is_shared}}

\* What the executor backs up, and what a failed exec leaves alone.
Program0(t) ==
    <<t.vm.memmap, t.vm.pt, t.pages, t.used, t.text, t.data, t.stack, t.name, t.tf, t.abi, t.fds>>

\* A successful exec replaces the program: the image and its interpreter
\* are in place, the task owns exactly what it maps, none of its frames is
\* one of the old program's, and no translation of the old program is left
\* in the page table.  An exec that fails before it has mapped a segment
\* gives the caller its memory, sizes, name, registers and ABI back.
ExecReplacesOrRestores ==
    [][/\ outcome' = "done" =>
             /\ ImageInPlace(s', s'.name)
             /\ OwnsItsMappings(s')
             /\ FramesOf(s'.pages) \cap FramesOf(s.pages) = {}
             /\ s'.vm.pt = {Entry(VMMAX, 0, Trampoline.permissions)}
       /\ outcome' = "refused" => Program0(s') = Program0(s)]_vars

\* A vector of pointers reads back its strings.
ReadsBack(b, vector, addr, lens) ==
    \A i \in DOMAIN lens :
        \E w \in b.words, t \in b.strings :
            w.at = addr + (i - 1) * WORD /\ w.word = t.at /\ t.str = <<vector, i>>

\* No two writes of a block meet, and all lie between sp and the top.
Disjoint(b, sp0) ==
    LET Bytes == {<<w.at, WORD>> : w \in b.words} \cup {<<t.at, t.len>> : t \in b.strings}
    IN /\ \A x \in Bytes : b.sp <= x[1] /\ x[1] + x[2] <= sp0
       /\ \A x, y \in Bytes : x = y \/ x[1] + x[2] <= y[1] \/ y[1] + y[2] <= x[1]
       /\ Cardinality(Bytes) = Cardinality(b.words) + Cardinality(b.strings)

\* The argument block that exec builds, native or xv6, reads back as the
\* arguments it was given, with sp on 16 bytes; the native vectors end in
\* a null pointer.
ArgumentsReadBack ==
    LET Lens == UNION {[1 .. n -> {0, 3, 14}] : n \in 0 .. 2}
        top == 16 * STACK_END
    IN calls = 0 => \A argv, envp \in Lens :
        LET b == setup_arguments_on_stack(argv, envp, top)
            x == xv6_arguments(argv, top)
        IN /\ b.sp % 16 = 0 /\ Disjoint(b, top)
           /\ ReadsBack(b, "argv", b.argv, argv) /\ ReadsBack(b, "envp", b.envp, envp)
           /\ {[at |-> b.argv + Len(argv) * WORD, word |-> 0],
               [at |-> b.envp + Len(envp) * WORD, word |-> 0]} \subseteq b.words
           /\ x.sp % 16 = 0 /\ Disjoint(x, top) /\ ReadsBack(x, "argv", x.argv, argv)

=============================================================================
