----------------------------- MODULE VmManager -----------------------------
(***************************************************************************)
(* The virtual memory manager of one address space (kernel/src/vm): the    *)
(* ordered map of memory mappings, the one-entry search cache and the page *)
(* table that page faults fill lazily.  The state is one record, so that   *)
(* the callers (the mmap system calls, brk, exec) can chain operations;    *)
(* an operation that can fail returns [ok, vm].  Areas have inclusive      *)
(* ends, as in the source, and addresses are bytes.                        *)
(***************************************************************************)
EXTENDS Integers, Sequences, FiniteSets, FiniteSetsExt

CONSTANTS
    PAGE_SIZE,      \* bytes in a page
    MMAP_BASE,      \* where the search for an unmapped area starts
    MAX_USER_ADDR,  \* the limit of that search
    None            \* no mapping, no cache entry, no owner

ASSUME VmAssumption ==
    /\ PAGE_SIZE \in Nat \ {0, 1}
    /\ MMAP_BASE \in Nat /\ MMAP_BASE % PAGE_SIZE = 0
    /\ MAX_USER_ADDR \in Nat

Area(start, end) == [start |-> start, end |-> end]
Size(area) == area.end - area.start + 1

\* A VirtualMemoryMap.
Mapping(vmarea, pmarea, permissions, is_shared, owner) ==
    [vmarea |-> vmarea, pmarea |-> pmarea, permissions |-> permissions,
     is_shared |-> is_shared, owner |-> owner]

Holds(m, vaddr) == m.vmarea.start <= vaddr /\ vaddr <= m.vmarea.end
Intersect(a, b) == a.start <= b.end /\ a.end >= b.start
RoundDown(a) == a - (a % PAGE_SIZE)
RoundUp(a) == RoundDown(a + PAGE_SIZE - 1)
PagesOf(area) == {a \in area.start .. area.end : a % PAGE_SIZE = 0}

NewVm == [memmap |-> {}, last_search_cache |-> None, pt |-> {}]

Aligned(m) ==
    /\ m.vmarea.start % PAGE_SIZE = 0 /\ m.pmarea.start % PAGE_SIZE = 0
    /\ Size(m.vmarea) % PAGE_SIZE = 0 /\ Size(m.pmarea) % PAGE_SIZE = 0

\* memmap.range(..bound).next_back() and memmap.range(bound..).next(), as
\* sets of at most one mapping.
Highest(maps) == {m \in maps : \A n \in maps : n.vmarea.start <= m.vmarea.start}
Lowest(maps) == {m \in maps : \A n \in maps : n.vmarea.start >= m.vmarea.start}

\* BTreeMap::insert: the key is the start address.
Insert(memmap, m) ==
    {n \in memmap : n.vmarea.start # m.vmarea.start} \cup {m}

\* Mutant of Clashes: the mapping after the new one is not looked at.
ClashesBefore(memmap, m) ==
    \E n \in Highest({n \in memmap : n.vmarea.start < m.vmarea.start}) :
        n.vmarea.end > m.vmarea.start

\* The overlap test of add_memory_map: only the two neighbours of the new
\* mapping are compared with it.
Clashes(memmap, m) ==
    \/ \E n \in Highest({n \in memmap : n.vmarea.start < m.vmarea.start}) :
           n.vmarea.end > m.vmarea.start
    \/ \E n \in Lowest({n \in memmap : n.vmarea.start >= m.vmarea.start}) :
           n.vmarea.start < m.vmarea.end

add_memory_map(vm, m) ==
    IF ~Aligned(m) \/ Clashes(vm.memmap, m)
    THEN [ok |-> FALSE, vm |-> vm]
    ELSE [ok |-> TRUE,
          vm |-> [vm EXCEPT !.memmap = Insert(@, m), !.last_search_cache = None]]

-----------------------------------------------------------------------------
(***************************************************************************)
(* Searching.  A result is a set with at most one mapping.                 *)
(***************************************************************************)
find_memory_map_optimized(vm, vaddr) ==
    {m \in Highest({n \in vm.memmap : n.vmarea.start <= vaddr}) : vaddr <= m.vmarea.end}

CacheHit(vm, vaddr) ==
    /\ vm.last_search_cache # None
    /\ vm.last_search_cache.start <= vaddr /\ vaddr <= vm.last_search_cache.end

Cached(vm) == {m \in vm.memmap : m.vmarea.start = vm.last_search_cache.key}

search_memory_map(vm, vaddr) ==
    IF CacheHit(vm, vaddr) THEN Cached(vm) ELSE find_memory_map_optimized(vm, vaddr)

\* find_memory_map_with_cache_update, called by search_memory_map_mut.
search_memory_map_mut(vm, vaddr) ==
    IF CacheHit(vm, vaddr)
    THEN vm
    ELSE [vm EXCEPT !.last_search_cache =
             IF find_memory_map_optimized(vm, vaddr) = {} THEN @
             ELSE LET m == CHOOSE m \in find_memory_map_optimized(vm, vaddr) : TRUE
                  IN [start |-> m.vmarea.start, end |-> m.vmarea.end,
                      key |-> m.vmarea.start]]

translate_vaddr(vm, vaddr) ==
    {m.pmarea.start + (vaddr - m.vmarea.start) : m \in search_memory_map(vm, vaddr)}

-----------------------------------------------------------------------------
(***************************************************************************)
(* The page table: a set of entries, at most one for each page.            *)
(***************************************************************************)
Entry(page, paddr, permissions) ==
    [vaddr |-> page, paddr |-> paddr, permissions |-> permissions]

\* PageTable::unmap over the pages of an area.
unmap_range_from_mmu(pt, area) == {e \in pt : e.vaddr \notin PagesOf(area)}

\* PageTable::map: an existing entry is overwritten.
MapPage(pt, e) == {f \in pt : f.vaddr # e.vaddr} \cup {e}

lazy_map_page(vm, vaddr) ==
    IF search_memory_map(vm, vaddr) = {}
    THEN [ok |-> FALSE, vm |-> vm]
    ELSE LET m == CHOOSE m \in search_memory_map(vm, vaddr) : TRUE
             page == RoundDown(vaddr)
             e == Entry(page, m.pmarea.start + (page - m.vmarea.start), m.permissions)
         IN [ok |-> TRUE, vm |-> [vm EXCEPT !.pt = MapPage(@, e)]]

-----------------------------------------------------------------------------
(***************************************************************************)
(* Removing, overwriting and merging mappings.                             *)
(***************************************************************************)

\* Mutant of Forget: the removed mapping's page-table entries stay.
ForgetKeepingEntries(vm, m) ==
    [vm EXCEPT !.memmap = @ \ {m},
               !.last_search_cache =
                   IF @ # None /\ @.key = m.vmarea.start THEN None ELSE @]

\* What remove_memory_map_by_addr does with the mapping it found.
Forget(vm, m) ==
    [vm EXCEPT !.memmap = @ \ {m},
               !.pt = unmap_range_from_mmu(@, m.vmarea),
               !.last_search_cache =
                   IF @ # None /\ @.key = m.vmarea.start THEN None ELSE @]

\* remove_memory_map_by_addr: the whole mapping that holds vaddr, with the
\* set of at most one mapping removed.
remove_memory_map_by_addr(vm, vaddr) ==
    LET found == search_memory_map(vm, vaddr)
        seen == search_memory_map_mut(vm, vaddr)
    IN [removed |-> found,
        vm |-> IF found = {} THEN seen
               ELSE Forget(seen, CHOOSE m \in found : TRUE)]

\* The page table is left as it is.
remove_all_memory_maps(vm) ==
    [removed |-> vm.memmap, vm |-> [vm EXCEPT !.memmap = {}, !.last_search_cache = None]]

\* The elements of a finite set of numbers from the lowest up: the k-th has
\* k - 1 below it.
Ascending(S) ==
    [k \in 1 .. Cardinality(S) |->
        CHOOSE x \in S : Cardinality({y \in S : y < x}) = k - 1]

\* The order in which a BTreeMap with start addresses for keys is gone through.
InOrder(maps) ==
    LET keys == Ascending({m.vmarea.start : m \in maps})
    IN [k \in DOMAIN keys |-> CHOOSE m \in maps : m.vmarea.start = keys[k]]

\* One restored mapping after another, in the order of their addresses, up
\* to the first that clashes.
RestoreStep(acc, m) == IF acc.ok THEN add_memory_map(acc.vm, m) ELSE acc

Restoring == INSTANCE Iteration WITH Step <- RestoreStep

restore_memory_maps(vm, maps) ==
    Restoring!Iterate([ok |-> TRUE, vm |-> vm], InOrder(maps))

\* Mutant of Cut: the physical area always starts where it did.
CutUnmoved(m, start, end) ==
    Mapping(Area(start, end), Area(m.pmarea.start, m.pmarea.start + (end - start)),
            m.permissions, m.is_shared, m.owner)

\* The part of a mapping over [start, end], cut out of both areas.
Cut(m, start, end) ==
    LET from == m.pmarea.start + (start - m.vmarea.start)
    IN Mapping(Area(start, end), Area(from, from + (end - start)),
               m.permissions, m.is_shared, m.owner)

Overwritten(memmap, new) ==
    {Cut(m, Max({new.vmarea.start, m.vmarea.start}), Min({new.vmarea.end, m.vmarea.end}))
        : m \in {n \in memmap : Intersect(n.vmarea, new.vmarea)}}

Before(m, new) ==
    IF m.vmarea.start < new.vmarea.start
    THEN {Cut(m, m.vmarea.start, new.vmarea.start - 1)} ELSE {}

After(m, new) ==
    IF m.vmarea.end > new.vmarea.end
    THEN {[Cut(m, new.vmarea.end + 1, m.vmarea.end) EXCEPT !.pmarea.end = m.pmarea.end]}
    ELSE {}

\* Mutant of Split: only the part of an overwritten mapping before the new
\* one is kept.
SplitHead(memmap, new) ==
    {m \in memmap : ~Intersect(m.vmarea, new.vmarea)}
        \cup UNION {Before(m, new) : m \in {n \in memmap : Intersect(n.vmarea, new.vmarea)}}

\* The mappings that are left of the old ones around the new mapping.
Split(memmap, new) ==
    {m \in memmap : ~Intersect(m.vmarea, new.vmarea)}
        \cup UNION {Before(m, new) \cup After(m, new)
                       : m \in {n \in memmap : Intersect(n.vmarea, new.vmarea)}}

\* add_memory_map_fixed, with the overwritten parts as its result.
add_memory_map_fixed(vm, new) ==
    IF ~Aligned(new)
    THEN [ok |-> FALSE, vm |-> vm, overwritten |-> {}]
    ELSE LET over == Overwritten(vm.memmap, new)
         IN [ok |-> TRUE,
             overwritten |-> over,
             vm |-> [memmap |-> Insert(Split(vm.memmap, new), new),
                     last_search_cache |-> None,
                     pt |-> {e \in vm.pt : \A m \in over : e.vaddr \notin PagesOf(m.vmarea)}]]

-----------------------------------------------------------------------------
(***************************************************************************)
(* find_unmapped_area: first fit among the mappings that start at or after *)
(* the base.                                                               *)
(***************************************************************************)

\* Where the search goes on after a mapping that leaves no room before it.
PastEnd(m) == RoundUp(m.vmarea.end + 1)

\* One round of the loop: a large enough gap before m ends the search.
FitStep(acc, m) ==
    IF acc.found \/ acc.addr + acc.size <= m.vmarea.start
    THEN [acc EXCEPT !.found = TRUE]
    ELSE [acc EXCEPT !.addr = PastEnd(m)]

Fit == INSTANCE Iteration WITH Step <- FitStep

find_unmapped_area(vm, size) ==
    LET start == [found |-> FALSE, addr |-> MMAP_BASE, size |-> RoundUp(size)]
        done == Fit!Iterate(start, InOrder({m \in vm.memmap : m.vmarea.start >= MMAP_BASE}))
    IN IF done.found \/ done.addr + done.size <= MAX_USER_ADDR
       THEN done.addr ELSE None

-----------------------------------------------------------------------------
\* What an address means, whatever the shortcuts of the manager: the mapping
\* that holds it, found by looking at all of them.
Meaning(s, a) ==
    {m.pmarea.start + (a - m.vmarea.start) : m \in {n \in s.memmap : Holds(n, a)}}
=============================================================================
