---------------------------- MODULE VmManagerProofs ----------------------------
(***************************************************************************)
(* Theorems about the operations of VmManager on any address space, with   *)
(* any page size above one byte.                                           *)
(***************************************************************************)
EXTENDS VmManager, FiniteSetTheorems, WellFoundedInduction, TLAPS

-----------------------------------------------------------------------------
(* Arithmetic. *)

(* An address is not both the start of a page and the last byte of one. *)
LEMMA LastIsNotFirst ==
  ASSUME NEW a \in Nat, a % PAGE_SIZE = 0
  PROVE  (a + 1) % PAGE_SIZE # 0
<1> USE VmAssumption
<1>1. SUFFICES ASSUME (a + 1) % PAGE_SIZE = 0
               PROVE  FALSE
  OBVIOUS
<1> DEFINE q == a \div PAGE_SIZE
           r == (a + 1) \div PAGE_SIZE
<1>2. q \in Int /\ r \in Int /\ a = PAGE_SIZE * q /\ a + 1 = PAGE_SIZE * r
  BY <1>1
<1> HIDE DEF q, r
<1>3. PAGE_SIZE * (r - q) = 1
  BY <1>2
<1>4. r - q >= 1 \/ r - q <= 0
  BY <1>2
<1>5. QED BY <1>2, <1>3, <1>4

(* A set of naturals has a least element. *)
LEMMA LeastNatural ==
  ASSUME NEW S \in SUBSET Nat, S # {}
  PROVE  \E x \in S : \A y \in S : x <= y
<1> DEFINE R == {ss \in Nat \X Nat : ss[1] < ss[2]}
<1>1. IsWellFoundedOn(R, Nat)
  BY NatLessThanWellFounded DEF OpToRel
<1>2. \A x, y \in Nat : <<y, x>> \in R <=> y < x
  OBVIOUS
<1> HIDE DEF R
<1>3. PICK x \in S : \A y \in S : ~(<<y, x>> \in R)
  BY <1>1, WFMin, Zenon
<1>4. \A y \in S : ~(y < x)
  BY <1>2, <1>3, Zenon
<1>5. QED BY <1>4

(* A bounded set of naturals has a greatest element. *)
LEMMA GreatestNatural ==
  ASSUME NEW S \in SUBSET Nat, S # {}, NEW b \in Nat, \A x \in S : x <= b
  PROVE  \E x \in S : \A y \in S : y <= x
<1> DEFINE T == {b - x : x \in S}
<1>1. \A x \in S : b - x \in Nat
  OBVIOUS
<1>2. T \in SUBSET Nat /\ T # {}
  BY <1>1, Zenon
<1>3. PICK d \in T : \A e \in T : d <= e
  BY <1>2, LeastNatural, Zenon
<1>4. PICK x \in S : d = b - x
  OBVIOUS
<1>5. \A y \in S : b - x <= b - y
  BY <1>3, <1>4
<1>6. QED BY <1>5

(* Sums and differences of page boundaries are page boundaries. *)
LEMMA Boundaries ==
  ASSUME NEW a \in Int, NEW b \in Int, a % PAGE_SIZE = 0, b % PAGE_SIZE = 0
  PROVE  (a + b) % PAGE_SIZE = 0
<1> USE VmAssumption
<1> DEFINE q == a \div PAGE_SIZE
           r == b \div PAGE_SIZE
<1>1. q \in Int /\ r \in Int /\ a = PAGE_SIZE * q /\ b = PAGE_SIZE * r
  OBVIOUS
<1> HIDE DEF q, r
<1>2. a + b = PAGE_SIZE * (q + r)
  BY <1>1
<1>3. QED BY <1>1, <1>2

(* The page of an address starts no earlier than a boundary before it. *)
LEMMA PageStart ==
  ASSUME NEW a \in Nat, NEW b \in Nat, b % PAGE_SIZE = 0, b <= a
  PROVE  /\ RoundDown(a) \in Nat /\ RoundDown(a) % PAGE_SIZE = 0
         /\ b <= RoundDown(a) /\ RoundDown(a) <= a
<1> USE VmAssumption
<1> DEFINE q == a \div PAGE_SIZE
           r == b \div PAGE_SIZE
           x == a % PAGE_SIZE
<1>1. q \in Nat /\ r \in Int /\ x \in 0 .. PAGE_SIZE - 1 /\ a = PAGE_SIZE * q + x /\ b = PAGE_SIZE * r
  OBVIOUS
<1>2. RoundDown(a) = a - x
  BY DEF RoundDown
<1> HIDE DEF q, r, x
<1>3. r <= q
  <2>1. SUFFICES ASSUME r >= q + 1
                 PROVE  FALSE
    BY <1>1
  <2>2. PAGE_SIZE * r >= PAGE_SIZE * (q + 1)
    BY <1>1, <2>1
  <2>3. PAGE_SIZE * (q + 1) = PAGE_SIZE * q + PAGE_SIZE
    BY <1>1
  <2>4. QED BY <1>1, <2>2, <2>3
<1>4. RoundDown(a) = PAGE_SIZE * q
  BY <1>1, <1>2
<1>5. PAGE_SIZE * r <= PAGE_SIZE * q
  BY <1>1, <1>3
<1>6. (PAGE_SIZE * q) % PAGE_SIZE = 0 /\ PAGE_SIZE * q \in Nat
  BY <1>1
<1>7. QED BY <1>1, <1>4, <1>5, <1>6

-----------------------------------------------------------------------------
(***************************************************************************)
(* What an address space keeps true: the mappings are whole pages and do   *)
(* not overlap, the cache describes one of them, and every entry of the    *)
(* page table is what a mapping says of its page.                          *)
(***************************************************************************)
WellFormed(m) ==
    /\ m = Mapping(m.vmarea, m.pmarea, m.permissions, m.is_shared, m.owner)
    /\ m.vmarea.start \in Nat /\ m.vmarea.end \in Nat /\ m.pmarea.start \in Nat
    /\ m.vmarea = Area(m.vmarea.start, m.vmarea.end)
    /\ m.pmarea = Area(m.pmarea.start, m.pmarea.end)
    /\ m.vmarea.start <= m.vmarea.end
    /\ m.vmarea.start % PAGE_SIZE = 0 /\ (m.vmarea.end + 1) % PAGE_SIZE = 0

Disjoint(maps) == \A m, n \in maps : m # n => ~Intersect(m.vmarea, n.vmarea)

CacheSound(vm) ==
    \/ vm.last_search_cache = None
    \/ \E m \in vm.memmap : vm.last_search_cache =
           [start |-> m.vmarea.start, end |-> m.vmarea.end, key |-> m.vmarea.start]

PtBacked(vm) ==
    \A e \in vm.pt : /\ e.vaddr \in Nat /\ e.vaddr % PAGE_SIZE = 0
                     /\ e.paddr \in Meaning(vm, e.vaddr)

Sound(vm) ==
    /\ vm = [memmap |-> vm.memmap, last_search_cache |-> vm.last_search_cache, pt |-> vm.pt]
    /\ \A m \in vm.memmap : WellFormed(m)
    /\ Disjoint(vm.memmap)
    /\ CacheSound(vm)
    /\ PtBacked(vm)

(* The address space of a new task is sound. *)
LEMMA NewIsSound == Sound(NewVm)
BY DEF NewVm, Sound, Disjoint, CacheSound, PtBacked

-----------------------------------------------------------------------------
(* Searching. *)

(* The last mapping that starts at or before an address is the only one    *)
(* that can hold it: what find_memory_map_optimized relies on.             *)
LEMMA FindIsExact ==
  ASSUME NEW vm, Sound(vm), NEW a \in Nat
  PROVE  find_memory_map_optimized(vm, a) = {m \in vm.memmap : Holds(m, a)}
<1>1. ASSUME NEW m \in vm.memmap, Holds(m, a), NEW n \in vm.memmap, n.vmarea.start <= a
      PROVE  n.vmarea.start <= m.vmarea.start
  BY <1>1 DEF Sound, WellFormed, Disjoint, Intersect, Holds
<1>2. QED BY <1>1 DEF find_memory_map_optimized, Highest, Holds

(* Two mappings of a sound address space that hold one address, or that    *)
(* have one start, are the same.                                           *)
LEMMA OneHolds ==
  ASSUME NEW vm, Sound(vm), NEW m \in vm.memmap, NEW n \in vm.memmap
  PROVE  /\ \A a \in Nat : Holds(m, a) /\ Holds(n, a) => m = n
         /\ m.vmarea.start = n.vmarea.start => m = n
BY DEF Sound, WellFormed, Disjoint, Intersect, Holds

(* search_memory_map returns the mapping that holds the address, whether   *)
(* the one-entry cache answers or the ordered map, and at most one.        *)
THEOREM SearchFindsTheMapping ==
  ASSUME NEW vm, Sound(vm), NEW a \in Nat
  PROVE  /\ search_memory_map(vm, a) = {m \in vm.memmap : Holds(m, a)}
         /\ \A m, n \in search_memory_map(vm, a) : m = n
         /\ translate_vaddr(vm, a) = Meaning(vm, a)
<1>1. search_memory_map(vm, a) = {m \in vm.memmap : Holds(m, a)}
  <2>1. CASE ~CacheHit(vm, a)
    BY <2>1, FindIsExact DEF search_memory_map
  <2>2. CASE CacheHit(vm, a)
    <3>1. PICK m \in vm.memmap : vm.last_search_cache =
              [start |-> m.vmarea.start, end |-> m.vmarea.end, key |-> m.vmarea.start]
      BY <2>2 DEF CacheHit, Sound, CacheSound
    <3>2. Holds(m, a) /\ vm.last_search_cache.key = m.vmarea.start
      BY <2>2, <3>1 DEF CacheHit, Holds
    <3>3. \A n \in vm.memmap : n.vmarea.start = m.vmarea.start <=> n = m
      BY OneHolds
    <3>4. \A n \in vm.memmap : Holds(n, a) <=> n = m
      BY <3>2, OneHolds
    <3>5. Cached(vm) = {n \in vm.memmap : Holds(n, a)}
      BY <3>2, <3>3, <3>4 DEF Cached
    <3>6. QED BY <2>2, <3>5 DEF search_memory_map
  <2>3. QED BY <2>1, <2>2
<1>2. \A m, n \in search_memory_map(vm, a) : m = n
  BY <1>1, OneHolds
<1>3. translate_vaddr(vm, a) = Meaning(vm, a)
  BY <1>1 DEF translate_vaddr, Meaning
<1>4. QED BY <1>1, <1>2, <1>3

(* Changing the cache to a mapping of the address space keeps it sound:    *)
(* search_memory_map_mut.                                                  *)
LEMMA SearchKeepsSound ==
  ASSUME NEW vm, Sound(vm), NEW a \in Nat
  PROVE  /\ Sound(search_memory_map_mut(vm, a))
         /\ search_memory_map_mut(vm, a).memmap = vm.memmap
         /\ search_memory_map_mut(vm, a).pt = vm.pt
<1> DEFINE seen == search_memory_map_mut(vm, a)
           found == find_memory_map_optimized(vm, a)
           m == CHOOSE n \in found : TRUE
<1>1. CASE CacheHit(vm, a) \/ found = {}
  <2>1. seen = vm
    BY <1>1 DEF search_memory_map_mut, Sound
  <2>2. QED BY <2>1
<1>2. CASE ~CacheHit(vm, a) /\ found # {}
  <2>1. m \in vm.memmap
    BY <1>2, FindIsExact
  <2>2. seen = [memmap |-> vm.memmap, pt |-> vm.pt, last_search_cache |->
                   [start |-> m.vmarea.start, end |-> m.vmarea.end, key |-> m.vmarea.start]]
    BY <1>2 DEF search_memory_map_mut, Sound
  <2> HIDE DEF m, seen
  <2>3. \A x : Meaning(seen, x) = Meaning(vm, x)
    BY <2>2 DEF Meaning
  <2>4. Sound(seen) /\ seen.memmap = vm.memmap /\ seen.pt = vm.pt
    BY <2>1, <2>2, <2>3 DEF Sound, CacheSound, PtBacked
  <2>5. QED BY <2>4 DEF seen
<1>3. QED BY <1>1, <1>2

-----------------------------------------------------------------------------
(* Adding. *)

(* What the callers pass to add_memory_map and add_memory_map_fixed: a     *)
(* mapping of at least one byte; alignment is for the operation to test.   *)
Proper(m) ==
    /\ m = Mapping(m.vmarea, m.pmarea, m.permissions, m.is_shared, m.owner)
    /\ m.vmarea.start \in Nat /\ m.vmarea.end \in Nat /\ m.pmarea.start \in Nat
    /\ m.vmarea = Area(m.vmarea.start, m.vmarea.end)
    /\ m.pmarea = Area(m.pmarea.start, m.pmarea.end)
    /\ m.vmarea.start <= m.vmarea.end

(* An aligned start and an aligned size make an aligned end. *)
LEMMA AlignedIsWellFormed ==
  ASSUME NEW m, Proper(m), Aligned(m)
  PROVE  WellFormed(m)
<1>1. Size(m.vmarea) \in Int /\ m.vmarea.start + Size(m.vmarea) = m.vmarea.end + 1
  BY DEF Proper, Size
<1>2. (m.vmarea.start + Size(m.vmarea)) % PAGE_SIZE = 0
  BY <1>1, Boundaries DEF Proper, Aligned
<1>3. QED BY <1>1, <1>2 DEF Proper, Aligned, WellFormed

(* Comparing the new mapping with its two neighbours, and strictly, finds  *)
(* every overlap: Clashes.                                                 *)
LEMMA NeighboursSuffice ==
  ASSUME NEW vm, Sound(vm), NEW m, WellFormed(m)
  PROVE  Clashes(vm.memmap, m) <=> \E n \in vm.memmap : Intersect(n.vmarea, m.vmarea)
<1>1. ASSUME Clashes(vm.memmap, m)
      PROVE  \E n \in vm.memmap : Intersect(n.vmarea, m.vmarea)
  BY <1>1 DEF Clashes, Highest, Lowest, Sound, WellFormed, Intersect
<1>2. ASSUME NEW n \in vm.memmap, Intersect(n.vmarea, m.vmarea),
             n.vmarea.start < m.vmarea.start
      PROVE  Clashes(vm.memmap, m)
  <2> DEFINE below == {x \in vm.memmap : x.vmarea.start < m.vmarea.start}
             starts == {x.vmarea.start : x \in below}
  <2>1. starts \in SUBSET Nat /\ starts # {} /\ m.vmarea.start \in Nat
    BY <1>2 DEF Sound, WellFormed
  <2>2. \A x \in starts : x <= m.vmarea.start
    BY DEF Sound, WellFormed
  <2>3. PICK g \in starts : \A x \in starts : x <= g
    BY <2>1, <2>2, GreatestNatural, Zenon
  <2>4. PICK h \in below : h.vmarea.start = g
    OBVIOUS
  <2>5. h \in Highest(below)
    BY <2>3, <2>4 DEF Highest
  <2>6. n.vmarea.start <= h.vmarea.start
    BY <1>2, <2>3, <2>4
  <2>7. CASE n = h
    <3>1. n.vmarea.end # m.vmarea.start
      BY LastIsNotFirst DEF Sound, WellFormed
    <3>2. n.vmarea.end > m.vmarea.start
      BY <1>2, <3>1 DEF Intersect, Sound, WellFormed
    <3>3. QED BY <2>5, <2>7, <3>2, Zenon DEF Clashes
  <2>8. CASE n # h
    <3>1. Intersect(n.vmarea, h.vmarea)
      BY <1>2, <2>4, <2>6 DEF Intersect, Sound, WellFormed
    <3>2. QED BY <2>4, <2>8, <3>1 DEF Sound, Disjoint
  <2>9. QED BY <2>7, <2>8
<1>3. ASSUME NEW n \in vm.memmap, Intersect(n.vmarea, m.vmarea),
             n.vmarea.start >= m.vmarea.start
      PROVE  Clashes(vm.memmap, m)
  <2> DEFINE above == {x \in vm.memmap : x.vmarea.start >= m.vmarea.start}
             starts == {x.vmarea.start : x \in above}
  <2>1. starts \in SUBSET Nat /\ starts # {}
    BY <1>3 DEF Sound, WellFormed
  <2>2. PICK g \in starts : \A x \in starts : g <= x
    BY <2>1, LeastNatural, Zenon
  <2>3. PICK h \in above : h.vmarea.start = g
    OBVIOUS
  <2>4. h \in Lowest(above)
    BY <2>1, <2>2, <2>3 DEF Lowest
  <2>5. h.vmarea.start <= n.vmarea.start /\ n.vmarea.start <= m.vmarea.end
    BY <1>3, <2>2, <2>3 DEF Intersect
  <2>6. h.vmarea.start # m.vmarea.end
    BY LastIsNotFirst DEF Sound, WellFormed
  <2>7. h.vmarea.start < m.vmarea.end
    BY <2>5, <2>6 DEF Sound, WellFormed
  <2>8. QED BY <2>4, <2>7, Zenon DEF Clashes
<1>4. QED BY <1>1, <1>2, <1>3 DEF Sound, WellFormed

(* add_memory_map accepts a mapping exactly when it is aligned and meets   *)
(* no other, and adds it without touching the rest.                        *)
THEOREM AddIsExact ==
  ASSUME NEW vm, Sound(vm), NEW m, Proper(m)
  PROVE  /\ add_memory_map(vm, m).ok <=>
                Aligned(m) /\ \A n \in vm.memmap : ~Intersect(n.vmarea, m.vmarea)
         /\ Sound(add_memory_map(vm, m).vm)
         /\ add_memory_map(vm, m).ok =>
                add_memory_map(vm, m).vm.memmap = vm.memmap \cup {m}
<1>1. CASE ~Aligned(m)
  BY <1>1 DEF add_memory_map
<1>2. CASE Aligned(m) /\ Clashes(vm.memmap, m)
  BY <1>2, AlignedIsWellFormed, NeighboursSuffice DEF add_memory_map
<1>3. CASE Aligned(m) /\ ~Clashes(vm.memmap, m)
  <2>1. WellFormed(m)
    BY <1>3, AlignedIsWellFormed
  <2>2. \A n \in vm.memmap : ~Intersect(n.vmarea, m.vmarea) /\ ~Intersect(m.vmarea, n.vmarea)
    BY <1>3, <2>1, NeighboursSuffice DEF Intersect, Sound, WellFormed
  <2>3. Insert(vm.memmap, m) = vm.memmap \cup {m}
    BY <2>1, <2>2 DEF Insert, Intersect, Sound, WellFormed
  <2> DEFINE new == add_memory_map(vm, m).vm
  <2>4. /\ add_memory_map(vm, m).ok = TRUE
        /\ new = [memmap |-> vm.memmap \cup {m}, last_search_cache |-> None, pt |-> vm.pt]
    BY <1>3, <2>3, Zenon DEF add_memory_map, Sound
  <2> HIDE DEF new
  <2>5. \A a : Meaning(vm, a) \subseteq Meaning(new, a)
    BY <2>4 DEF Meaning
  <2>6. Disjoint(new.memmap)
    BY <2>2, <2>4 DEF Disjoint, Sound
  <2>7. Sound(new)
    BY <2>1, <2>4, <2>5, <2>6, Zenon DEF Sound, CacheSound, PtBacked
  <2>8. QED BY <1>3, <2>2, <2>4, <2>7 DEF new
<1>4. QED BY <1>1, <1>2, <1>3

-----------------------------------------------------------------------------
(* The page fault. *)

(* lazy_map_page enters the translation of the whole page, and succeeds    *)
(* exactly when a mapping holds the address.                               *)
THEOREM FaultMapsThePage ==
  ASSUME NEW vm, Sound(vm), NEW a \in Nat
  PROVE  /\ lazy_map_page(vm, a).ok <=> Meaning(vm, a) # {}
         /\ Sound(lazy_map_page(vm, a).vm)
         /\ \A x \in Nat : Meaning(lazy_map_page(vm, a).vm, x) = Meaning(vm, x)
<1> DEFINE found == search_memory_map(vm, a)
           m == CHOOSE x \in found : TRUE
           page == RoundDown(a)
           e == Entry(page, m.pmarea.start + (page - m.vmarea.start), m.permissions)
           new == lazy_map_page(vm, a).vm
<1>1. found = {x \in vm.memmap : Holds(x, a)} /\ (found = {} <=> Meaning(vm, a) = {})
  BY SearchFindsTheMapping DEF Meaning
<1>2. CASE found = {}
  BY <1>1, <1>2 DEF lazy_map_page
<1>3. CASE found # {}
  <2>1. m \in vm.memmap /\ Holds(m, a)
    BY <1>1, <1>3
  <2>2. lazy_map_page(vm, a).ok = TRUE /\ new = [vm EXCEPT !.pt = MapPage(@, e)]
    BY <1>3 DEF lazy_map_page
  <2> HIDE DEF m, found, new
  <2>3. page \in Nat /\ page % PAGE_SIZE = 0 /\ Holds(m, page)
    BY <2>1, PageStart DEF Holds, Sound, WellFormed
  <2> HIDE DEF page
  <2>4. e.vaddr = page /\ e.paddr \in Meaning(vm, page)
    BY <2>1, <2>3 DEF Entry, Meaning
  <2> HIDE DEF e
  <2>5. new = [memmap |-> vm.memmap, last_search_cache |-> vm.last_search_cache,
               pt |-> MapPage(vm.pt, e)]
    BY <2>2 DEF Sound
  <2>6. \A x : Meaning(new, x) = Meaning(vm, x)
    BY <2>5 DEF Meaning
  <2>7. Sound(new)
    BY <2>3, <2>4, <2>5, <2>6 DEF Sound, CacheSound, PtBacked, MapPage
  <2>8. QED BY <1>1, <1>3, <2>2, <2>6, <2>7 DEF new
<1>4. QED BY <1>2, <1>3

-----------------------------------------------------------------------------
(* Removing. *)

(* remove_memory_map_by_addr removes the mapping that holds the address    *)
(* and nothing else, with its entries and, when it is the cached one, the  *)
(* cache.                                                                  *)
THEOREM RemoveIsExact ==
  ASSUME NEW vm, Sound(vm), NEW a \in Nat
  PROVE  LET done == remove_memory_map_by_addr(vm, a)
         IN /\ done.removed = {m \in vm.memmap : Holds(m, a)}
            /\ done.vm.memmap = vm.memmap \ done.removed
            /\ Sound(done.vm)
<1> DEFINE found == search_memory_map(vm, a)
           seen == search_memory_map_mut(vm, a)
           m == CHOOSE x \in found : TRUE
           done == remove_memory_map_by_addr(vm, a)
<1>1. found = {x \in vm.memmap : Holds(x, a)} /\ \A x, y \in found : x = y
  BY SearchFindsTheMapping
<1>2. Sound(seen) /\ seen.memmap = vm.memmap /\ seen.pt = vm.pt
  BY SearchKeepsSound
<1>3. done.removed = found /\ done.vm = IF found = {} THEN seen ELSE Forget(seen, m)
  BY DEF remove_memory_map_by_addr
<1>4. CASE found = {}
  BY <1>1, <1>2, <1>3, <1>4
<1>5. CASE found # {}
  <2>1. found = {m} /\ m \in vm.memmap
    BY <1>1, <1>5
  <2> DEFINE new == done.vm
             cache == IF /\ seen.last_search_cache # None
                         /\ seen.last_search_cache.key = m.vmarea.start
                      THEN None ELSE seen.last_search_cache
  <2>2. new = [memmap |-> vm.memmap \ {m}, last_search_cache |-> cache,
               pt |-> unmap_range_from_mmu(vm.pt, m.vmarea)]
    BY <1>2, <1>3, <1>5, Zenon DEF Forget, Sound
  <2> HIDE DEF m, found, new, done
  <2>3. CacheSound(new)
    <3>1. CASE cache = None
      BY <2>2, <3>1 DEF CacheSound
    <3>2. CASE cache # None
      <4>1. PICK n \in vm.memmap : seen.last_search_cache =
                [start |-> n.vmarea.start, end |-> n.vmarea.end, key |-> n.vmarea.start]
        BY <1>2, <3>2 DEF Sound, CacheSound
      <4>2. n # m
        BY <3>2, <4>1
      <4>3. QED BY <2>2, <3>2, <4>1, <4>2 DEF CacheSound
    <3>3. QED BY <3>1, <3>2
  <2> HIDE DEF cache, seen
  <2>4. PtBacked(new)
    <3>1. SUFFICES ASSUME NEW e \in new.pt
                   PROVE  /\ e.vaddr \in Nat /\ e.vaddr % PAGE_SIZE = 0
                          /\ e.paddr \in Meaning(new, e.vaddr)
      BY DEF PtBacked
    <3>2. e \in vm.pt /\ e.vaddr \notin PagesOf(m.vmarea)
      BY <2>2 DEF unmap_range_from_mmu
    <3>3. e.vaddr \in Nat /\ e.vaddr % PAGE_SIZE = 0 /\ e.paddr \in Meaning(vm, e.vaddr)
      BY <3>2 DEF Sound, PtBacked
    <3>4. ~Holds(m, e.vaddr)
      BY <2>1, <3>2, <3>3 DEF PagesOf, Holds, Sound, WellFormed
    <3>5. Meaning(vm, e.vaddr) \subseteq Meaning(new, e.vaddr)
      BY <2>2, <3>4 DEF Meaning
    <3>6. QED BY <3>3, <3>5
  <2>5. Sound(new)
    BY <2>2, <2>3, <2>4 DEF Sound, Disjoint
  <2>6. done.removed = {m} /\ new.memmap = vm.memmap \ {m}
    BY <1>3, <2>1, <2>2
  <2>7. QED BY <1>1, <2>1, <2>5, <2>6 DEF new, done
<1>6. QED BY <1>4, <1>5

-----------------------------------------------------------------------------
(* Mapping over what is there. *)

(* What is left of a mapping when another is mapped over it. *)
Left(m, new) ==
    IF Intersect(m.vmarea, new.vmarea) THEN Before(m, new) \cup After(m, new) ELSE {m}

(* The loop over the overlapping mappings leaves these parts of each. *)
LEMMA SplitIsLeft ==
  ASSUME NEW maps, NEW new
  PROVE  Split(maps, new) = UNION {Left(m, new) : m \in maps}
BY DEF Split, Left

(* A part left of a mapping is whole pages, lies inside the mapping and    *)
(* outside the new one, and goes on meaning the same frames.               *)
LEMMA LeftParts ==
  ASSUME NEW m, WellFormed(m), NEW new, WellFormed(new), NEW p \in Left(m, new)
  PROVE  /\ WellFormed(p)
         /\ m.vmarea.start <= p.vmarea.start /\ p.vmarea.end <= m.vmarea.end
         /\ p.pmarea.start - p.vmarea.start = m.pmarea.start - m.vmarea.start
         /\ p.vmarea.end < new.vmarea.start \/ new.vmarea.end < p.vmarea.start
<1>1. CASE ~Intersect(m.vmarea, new.vmarea)
  BY <1>1 DEF Left, Intersect, WellFormed
<1>2. CASE Intersect(m.vmarea, new.vmarea) /\ p \in Before(m, new)
  <2>1. m.vmarea.start < new.vmarea.start /\ p = Cut(m, m.vmarea.start, new.vmarea.start - 1)
    BY <1>2 DEF Before
  <2>2. p = Mapping(Area(m.vmarea.start, new.vmarea.start - 1),
                    Area(m.pmarea.start + (m.vmarea.start - m.vmarea.start),
                         m.pmarea.start + (m.vmarea.start - m.vmarea.start)
                             + (new.vmarea.start - 1 - m.vmarea.start)),
                    m.permissions, m.is_shared, m.owner)
    BY <2>1 DEF Cut
  <2>3. /\ p.vmarea.start = m.vmarea.start /\ p.vmarea.end = new.vmarea.start - 1
        /\ p.pmarea.start = m.pmarea.start + (m.vmarea.start - m.vmarea.start)
    BY <2>2 DEF Mapping, Area
  <2>4. p = Mapping(p.vmarea, p.pmarea, p.permissions, p.is_shared, p.owner)
    BY <2>2 DEF Mapping
  <2>5. p.vmarea = Area(p.vmarea.start, p.vmarea.end) /\ p.pmarea = Area(p.pmarea.start, p.pmarea.end)
    BY <2>2 DEF Mapping, Area
  <2>6. /\ m.vmarea.start \in Nat /\ m.vmarea.end \in Nat /\ m.pmarea.start \in Nat
        /\ new.vmarea.start \in Nat /\ new.vmarea.start <= m.vmarea.end
        /\ m.vmarea.start % PAGE_SIZE = 0 /\ new.vmarea.start % PAGE_SIZE = 0
    BY <1>2 DEF WellFormed, Intersect
  <2>7. /\ p.vmarea.start \in Nat /\ p.vmarea.end \in Nat /\ p.pmarea.start \in Nat
        /\ p.vmarea.start <= p.vmarea.end /\ p.vmarea.end <= m.vmarea.end
        /\ p.vmarea.start % PAGE_SIZE = 0 /\ (p.vmarea.end + 1) % PAGE_SIZE = 0
        /\ m.vmarea.start <= p.vmarea.start
        /\ p.pmarea.start - p.vmarea.start = m.pmarea.start - m.vmarea.start
        /\ p.vmarea.end < new.vmarea.start
    <3> DEFINE a == m.vmarea.start
               b == new.vmarea.start
               c == m.pmarea.start
               d == m.vmarea.end
    <3>1. a \in Nat /\ b \in Nat /\ c \in Nat /\ d \in Nat /\ a < b /\ b <= d
      BY <2>1, <2>6, Zenon
    <3>2. /\ a % PAGE_SIZE = 0 /\ b % PAGE_SIZE = 0
          /\ p.vmarea.start = a /\ p.vmarea.end = b - 1 /\ p.pmarea.start = c + (a - a)
      BY <2>3, <2>6, Zenon
    <3> HIDE DEF a, b, c, d
    <3>3. /\ b - 1 \in Nat /\ a <= b - 1 /\ (b - 1) + 1 = b /\ b - 1 < b /\ a <= a
          /\ c + (a - a) \in Nat /\ (c + (a - a)) - a = c - a /\ b - 1 <= d
      BY <3>1, SMT
    <3>4. QED BY <3>1, <3>2, <3>3, Zenon DEF a, b, c, d
  <2>8. QED BY <2>4, <2>5, <2>7, Zenon DEF WellFormed
<1>3. CASE Intersect(m.vmarea, new.vmarea) /\ p \in After(m, new)
  <2> DEFINE from == new.vmarea.end + 1
             off == from - m.vmarea.start
  <2>1. /\ m.vmarea.end > new.vmarea.end
        /\ p = [Cut(m, from, m.vmarea.end) EXCEPT !.pmarea.end = m.pmarea.end]
    BY <1>3 DEF After
  <2>2. Cut(m, from, m.vmarea.end) =
            Mapping(Area(from, m.vmarea.end),
                    Area(m.pmarea.start + off, m.pmarea.start + off + (m.vmarea.end - from)),
                    m.permissions, m.is_shared, m.owner)
    BY DEF Cut
  <2>3. p = Mapping(Area(from, m.vmarea.end), Area(m.pmarea.start + off, m.pmarea.end),
                    m.permissions, m.is_shared, m.owner)
    BY <2>1, <2>2 DEF Mapping, Area
  <2>4. /\ p.vmarea.start = from /\ p.vmarea.end = m.vmarea.end
        /\ p.pmarea.start = m.pmarea.start + off
    BY <2>3 DEF Mapping, Area
  <2>5. p = Mapping(p.vmarea, p.pmarea, p.permissions, p.is_shared, p.owner)
    BY <2>3 DEF Mapping
  <2>6. p.vmarea = Area(p.vmarea.start, p.vmarea.end) /\ p.pmarea = Area(p.pmarea.start, p.pmarea.end)
    BY <2>3 DEF Mapping, Area
  <2>7. off \in Nat
    BY <1>3 DEF WellFormed, Intersect
  <2>8. /\ p.vmarea.start \in Nat /\ p.vmarea.end \in Nat /\ p.pmarea.start \in Nat
        /\ p.vmarea.start <= p.vmarea.end
        /\ p.vmarea.start % PAGE_SIZE = 0 /\ (p.vmarea.end + 1) % PAGE_SIZE = 0
        /\ m.vmarea.start <= p.vmarea.start
        /\ p.pmarea.start - p.vmarea.start = m.pmarea.start - m.vmarea.start
        /\ new.vmarea.end < p.vmarea.start
    <3>1. /\ m.vmarea.start \in Nat /\ m.vmarea.end \in Nat /\ m.pmarea.start \in Nat
          /\ new.vmarea.end \in Nat /\ m.vmarea.end > new.vmarea.end
          /\ from % PAGE_SIZE = 0 /\ (m.vmarea.end + 1) % PAGE_SIZE = 0
      BY <2>1 DEF WellFormed
    <3>2. \A a, b, c, d \in Nat :
             b > d /\ (d + 1) - a \in Nat =>
                 /\ d + 1 \in Nat /\ d + 1 <= b /\ d < d + 1 /\ a <= d + 1
                 /\ c + ((d + 1) - a) \in Nat /\ (c + ((d + 1) - a)) - (d + 1) = c - a
      OBVIOUS
    <3>3. QED BY <2>4, <2>7, <3>1, <3>2, SMT
  <2>9. QED BY <2>4, <2>5, <2>6, <2>8 DEF WellFormed
<1>4. QED BY <1>1, <1>2, <1>3 DEF Left

(* Every address of a mapping outside the new one is in one of the parts   *)
(* left of it, and the parts do not overlap.                               *)
LEMMA LeftCovers ==
  ASSUME NEW m, WellFormed(m), NEW new, WellFormed(new)
  PROVE  /\ \A a \in Nat : Holds(m, a) /\ ~Holds(new, a) => \E p \in Left(m, new) : Holds(p, a)
         /\ Disjoint(Left(m, new))
<1>1. ASSUME NEW p \in Before(m, new)
      PROVE  p.vmarea.start = m.vmarea.start /\ p.vmarea.end = new.vmarea.start - 1
  BY <1>1 DEF Before, Cut, Mapping, Area
<1>2. ASSUME NEW p \in After(m, new)
      PROVE  p.vmarea.start = new.vmarea.end + 1 /\ p.vmarea.end = m.vmarea.end
  BY <1>2 DEF After, Cut, Mapping, Area
<1>3. ASSUME NEW a \in Nat, Holds(m, a), ~Holds(new, a)
      PROVE  \E p \in Left(m, new) : Holds(p, a)
  <2>1. CASE ~Intersect(m.vmarea, new.vmarea)
    BY <1>3, <2>1 DEF Left
  <2>2. CASE Intersect(m.vmarea, new.vmarea) /\ a < new.vmarea.start
    <3>1. PICK p : p \in Before(m, new)
      <4>1. m.vmarea.start < new.vmarea.start
        BY <1>3, <2>2 DEF Holds, WellFormed
      <4>2. QED BY <4>1 DEF Before
    <3>2. Holds(p, a)
      BY <1>1, <1>3, <2>2, <3>1 DEF Holds, WellFormed
    <3>3. QED BY <2>2, <3>1, <3>2 DEF Left
  <2>3. CASE Intersect(m.vmarea, new.vmarea) /\ a > new.vmarea.end
    <3>1. PICK p : p \in After(m, new)
      <4>1. m.vmarea.end > new.vmarea.end
        BY <1>3, <2>3 DEF Holds, WellFormed
      <4>2. QED BY <4>1, Zenon DEF After
    <3>2. Holds(p, a)
      BY <1>2, <1>3, <2>3, <3>1 DEF Holds, WellFormed
    <3>3. QED BY <2>3, <3>1, <3>2 DEF Left
  <2>4. QED BY <1>3, <2>1, <2>2, <2>3 DEF Holds, WellFormed
<1>4. Disjoint(Left(m, new))
  <2>1. \A p, q \in Before(m, new) : p = q
    BY DEF Before
  <2>2. \A p, q \in After(m, new) : p = q
    BY DEF After
  <2>3. \A p \in Before(m, new), q \in After(m, new) :
            ~Intersect(p.vmarea, q.vmarea) /\ ~Intersect(q.vmarea, p.vmarea)
    BY <1>1, <1>2 DEF Intersect, WellFormed
  <2>4. QED BY <2>1, <2>2, <2>3 DEF Disjoint, Left
<1>5. QED BY <1>3, <1>4

(* The parts left of all the mappings are whole pages, do not overlap each *)
(* other or the new mapping, and hold the addresses outside it they held.  *)
LEMMA SplitIsSound ==
  ASSUME NEW vm, Sound(vm), NEW new, WellFormed(new)
  PROVE  LET maps == Split(vm.memmap, new)
         IN /\ \A p \in maps : WellFormed(p) /\ ~Intersect(p.vmarea, new.vmarea)
            /\ Disjoint(maps)
            /\ \A a \in Nat : ~Holds(new, a) =>
                   Meaning([vm EXCEPT !.memmap = maps], a) = Meaning(vm, a)
<1> DEFINE maps == Split(vm.memmap, new)
<1>1. \A p \in maps : \E m \in vm.memmap : p \in Left(m, new)
  BY SplitIsLeft
<1>2. \A m \in vm.memmap : Left(m, new) \subseteq maps
  BY SplitIsLeft
<1> HIDE DEF maps
<1>3. \A m \in vm.memmap : \A p \in Left(m, new) :
         /\ WellFormed(p)
         /\ m.vmarea.start <= p.vmarea.start /\ p.vmarea.end <= m.vmarea.end
         /\ p.pmarea.start - p.vmarea.start = m.pmarea.start - m.vmarea.start
         /\ p.vmarea.end < new.vmarea.start \/ new.vmarea.end < p.vmarea.start
  BY LeftParts DEF Sound
<1>4. \A p \in maps : WellFormed(p) /\ ~Intersect(p.vmarea, new.vmarea)
  BY <1>1, <1>3 DEF Intersect, WellFormed
<1>5. Disjoint(maps)
  <2>1. SUFFICES ASSUME NEW p \in maps, NEW q \in maps, p # q
                 PROVE  ~Intersect(p.vmarea, q.vmarea)
    BY DEF Disjoint
  <2>2. PICK m \in vm.memmap : p \in Left(m, new)
    BY <1>1
  <2>3. PICK n \in vm.memmap : q \in Left(n, new)
    BY <1>1
  <2>4. CASE m = n
    <3>1. Disjoint(Left(m, new))
      BY LeftCovers DEF Sound
    <3>2. QED BY <2>1, <2>2, <2>3, <2>4, <3>1 DEF Disjoint
  <2>5. CASE m # n
    <3>1. ~Intersect(m.vmarea, n.vmarea) /\ WellFormed(m) /\ WellFormed(n)
      BY <2>5 DEF Sound, Disjoint
    <3>2. /\ WellFormed(p) /\ WellFormed(q)
          /\ m.vmarea.start <= p.vmarea.start /\ p.vmarea.end <= m.vmarea.end
          /\ n.vmarea.start <= q.vmarea.start /\ q.vmarea.end <= n.vmarea.end
      BY <1>3, <2>2, <2>3
    <3>3. QED BY <3>1, <3>2 DEF Intersect, WellFormed
  <2>6. QED BY <2>4, <2>5
<1>6. ASSUME NEW a \in Nat, ~Holds(new, a)
      PROVE  Meaning([vm EXCEPT !.memmap = maps], a) = Meaning(vm, a)
  <2> DEFINE before == {m.pmarea.start + (a - m.vmarea.start) : m \in {n \in vm.memmap : Holds(n, a)}}
             after == {m.pmarea.start + (a - m.vmarea.start) : m \in {n \in maps : Holds(n, a)}}
  <2>1. [vm EXCEPT !.memmap = maps].memmap = maps
    BY DEF Sound
  <2>2. Meaning(vm, a) = before /\ Meaning([vm EXCEPT !.memmap = maps], a) = after
    BY <2>1 DEF Meaning
  <2>3. ASSUME NEW m \in vm.memmap, NEW p \in Left(m, new), Holds(p, a)
        PROVE  /\ Holds(m, a)
               /\ p.pmarea.start + (a - p.vmarea.start) = m.pmarea.start + (a - m.vmarea.start)
    <3>1. WellFormed(m) /\ WellFormed(p)
      BY <1>3 DEF Sound
    <3>2. /\ m.vmarea.start <= p.vmarea.start /\ p.vmarea.end <= m.vmarea.end
          /\ p.pmarea.start - p.vmarea.start = m.pmarea.start - m.vmarea.start
      BY <1>3
    <3>3. QED BY <2>3, <3>1, <3>2 DEF Holds, WellFormed
  <2>4. after \subseteq before
    BY <1>1, <2>3
  <2>5. ASSUME NEW m \in vm.memmap, Holds(m, a)
        PROVE  m.pmarea.start + (a - m.vmarea.start) \in after
    <3>1. PICK p \in Left(m, new) : Holds(p, a)
      BY <1>6, <2>5, LeftCovers DEF Sound
    <3>2. QED BY <1>2, <2>3, <3>1
  <2>6. before \subseteq after
    BY <2>5
  <2>7. QED BY <2>2, <2>4, <2>6, Zenon
<1>7. QED BY <1>4, <1>5, <1>6 DEF maps

(* The later of two starts and the earlier of two ends. *)
LEMMA MaxMin ==
  ASSUME NEW a \in Nat, NEW b \in Nat
  PROVE  /\ Max({a, b}) = IF a >= b THEN a ELSE b
         /\ Min({a, b}) = IF a <= b THEN a ELSE b
<1>1. ASSUME NEW x \in {a, b}, \A y \in {a, b} : x >= y
      PROVE  x = IF a >= b THEN a ELSE b
  BY <1>1
<1>2. \E x \in {a, b} : \A y \in {a, b} : x >= y
  OBVIOUS
<1>3. ASSUME NEW x \in {a, b}, \A y \in {a, b} : x <= y
      PROVE  x = IF a <= b THEN a ELSE b
  BY <1>3
<1>4. \E x \in {a, b} : \A y \in {a, b} : x <= y
  OBVIOUS
<1>5. Max({a, b}) = IF a >= b THEN a ELSE b
  BY <1>1, <1>2 DEF Max
<1>6. Min({a, b}) = IF a <= b THEN a ELSE b
  BY <1>3, <1>4 DEF Min
<1>7. QED BY <1>5, <1>6

(* add_memory_map_fixed: mapping over what is there changes the meaning of *)
(* the new mapping's own addresses and of no other, the pieces around it   *)
(* stay whole pages that do not overlap, and no entry of the page table    *)
(* outlives what it translated.                                            *)
THEOREM FixedKeepsTheRest ==
  ASSUME NEW vm, Sound(vm), NEW new, Proper(new), Aligned(new)
  PROVE  LET after == add_memory_map_fixed(vm, new).vm
         IN /\ Sound(after)
            /\ \A a \in Nat : Meaning(after, a) =
                   IF Holds(new, a) THEN {new.pmarea.start + (a - new.vmarea.start)}
                   ELSE Meaning(vm, a)
<1> DEFINE maps == Split(vm.memmap, new)
           over == Overwritten(vm.memmap, new)
           after == add_memory_map_fixed(vm, new).vm
<1>1. WellFormed(new)
  BY AlignedIsWellFormed
<1>2. /\ \A p \in maps : WellFormed(p) /\ ~Intersect(p.vmarea, new.vmarea)
      /\ Disjoint(maps)
      /\ \A a \in Nat : ~Holds(new, a) =>
             Meaning([vm EXCEPT !.memmap = maps], a) = Meaning(vm, a)
  BY <1>1, SplitIsSound
<1>3. Insert(maps, new) = maps \cup {new}
  BY <1>1, <1>2 DEF Insert, Intersect, WellFormed
<1>4. after = [memmap |-> maps \cup {new}, last_search_cache |-> None,
               pt |-> {e \in vm.pt : \A m \in over : e.vaddr \notin PagesOf(m.vmarea)}]
  BY <1>3 DEF add_memory_map_fixed
<1>5. ASSUME NEW e \in vm.pt, Holds(new, e.vaddr)
      PROVE  e \notin after.pt
  <2>1. e.vaddr \in Nat /\ e.vaddr % PAGE_SIZE = 0
    BY DEF Sound, PtBacked
  <2>2. PICK m \in vm.memmap : Holds(m, e.vaddr)
    BY DEF Sound, PtBacked, Meaning
  <2>3. WellFormed(m) /\ Intersect(m.vmarea, new.vmarea)
    BY <1>1, <1>5, <2>1, <2>2 DEF Sound, WellFormed, Holds, Intersect
  <2> DEFINE start == Max({new.vmarea.start, m.vmarea.start})
             end == Min({new.vmarea.end, m.vmarea.end})
  <2>4. start \in Nat /\ end \in Nat /\ start <= e.vaddr /\ e.vaddr <= end
    <3>1. /\ new.vmarea.start \in Nat /\ new.vmarea.end \in Nat
          /\ m.vmarea.start \in Nat /\ m.vmarea.end \in Nat
      BY <1>1, <2>3, Zenon DEF WellFormed
    <3>2. /\ new.vmarea.start <= e.vaddr /\ e.vaddr <= new.vmarea.end
          /\ m.vmarea.start <= e.vaddr /\ e.vaddr <= m.vmarea.end
      BY <1>5, <2>2, Zenon DEF Holds
    <3>3. start \in {new.vmarea.start, m.vmarea.start} /\ end \in {new.vmarea.end, m.vmarea.end}
      BY <3>1, MaxMin, Zenon
    <3> HIDE DEF start, end
    <3>4. QED BY <3>1, <3>2, <3>3, Zenon
  <2>5. Cut(m, start, end) \in over
    BY <2>3, Zenon DEF Overwritten
  <2> HIDE DEF start, end
  <2>6. Cut(m, start, end).vmarea = Area(start, end)
    BY DEF Cut, Mapping
  <2>7. e.vaddr \in PagesOf(Cut(m, start, end).vmarea)
    BY <2>1, <2>4, <2>6 DEF PagesOf, Area
  <2>8. QED BY <1>4, <2>5, <2>7
<1> HIDE DEF maps, over, after
<1>6. ASSUME NEW a \in Nat
      PROVE  Meaning(after, a) =
                 IF Holds(new, a) THEN {new.pmarea.start + (a - new.vmarea.start)}
                 ELSE Meaning(vm, a)
  <2>1. CASE Holds(new, a)
    <3>1. \A p \in maps : ~Holds(p, a)
      BY <1>1, <1>2, <2>1 DEF Holds, Intersect, WellFormed
    <3>2. {p \in after.memmap : Holds(p, a)} = {new}
      BY <1>4, <2>1, <3>1
    <3>3. QED BY <2>1, <3>2 DEF Meaning
  <2>2. CASE ~Holds(new, a)
    <3>1. {p \in after.memmap : Holds(p, a)} = {p \in [vm EXCEPT !.memmap = maps].memmap : Holds(p, a)}
      BY <1>4, <2>2 DEF Sound
    <3>2. Meaning(after, a) = Meaning([vm EXCEPT !.memmap = maps], a)
      BY <3>1 DEF Meaning
    <3>3. QED BY <1>2, <2>2, <3>2
  <2>3. QED BY <2>1, <2>2
<1>7. Disjoint(after.memmap)
  <2>1. \A p \in maps : ~Intersect(p.vmarea, new.vmarea) /\ ~Intersect(new.vmarea, p.vmarea)
    BY <1>1, <1>2 DEF Intersect, WellFormed
  <2>2. QED BY <1>2, <1>4, <2>1 DEF Disjoint
<1>8. PtBacked(after)
  BY <1>4, <1>5, <1>6, Zenon DEF Sound, PtBacked
<1>9. Sound(after)
  BY <1>1, <1>2, <1>4, <1>7, <1>8 DEF Sound, CacheSound
<1>10. QED BY <1>6, <1>9, Zenon DEF after

-----------------------------------------------------------------------------
(* Going through the mappings in order, and the first fit. *)

(* Ascending lists every element of a finite set of numbers once, from the *)
(* lowest up.                                                              *)
LEMMA AscendingLists ==
  ASSUME NEW S \in SUBSET Nat, IsFiniteSet(S)
  PROVE  LET n == Cardinality(S)
             s == Ascending(S)
         IN /\ n \in Nat /\ Len(s) = n /\ s \in Seq(S)
            /\ \A i, j \in 1 .. n : i < j => s[i] < s[j]
            /\ \A x \in S : \E i \in 1 .. n : s[i] = x
<1> DEFINE n == Cardinality(S)
           s == Ascending(S)
           below(x) == {y \in S : y < x}
           rank == [x \in S |-> Cardinality(below(x))]
<1>1. n \in Nat
  BY FS_CardinalityType
<1>2. ASSUME NEW x \in S, NEW T, T \subseteq S, IsFiniteSet(T), below(x) \subseteq T, x \in T
      PROVE  Cardinality(below(x)) \in Nat /\ Cardinality(below(x)) < Cardinality(T)
  <2>1. IsFiniteSet(below(x)) /\ Cardinality(below(x)) <= Cardinality(T)
        /\ (Cardinality(T) = Cardinality(below(x)) => T = below(x))
    BY <1>2, FS_Subset
  <2>2. x \notin below(x)
    OBVIOUS
  <2>3. Cardinality(below(x)) \in Nat /\ Cardinality(T) \in Nat
    BY <1>2, <2>1, FS_CardinalityType
  <2>4. QED BY <1>2, <2>1, <2>2, <2>3
<1>3. \A x \in S : rank[x] \in 0 .. n - 1
  <2>1. \A x \in S : Cardinality(below(x)) \in Nat /\ Cardinality(below(x)) < n
    BY <1>2
  <2>2. QED BY <1>1, <2>1
<1>4. ASSUME NEW x \in S, NEW y \in S, x < y
      PROVE  rank[x] < rank[y]
  <2>1. below(x) \subseteq below(y) /\ x \in below(y) /\ below(y) \subseteq S
    <3>1. \A z \in S : z \in Nat
      OBVIOUS
    <3>2. \A z \in S : z < x => z < y
      BY <1>4, <3>1
    <3>3. QED BY <1>4, <3>2, Zenon
  <2>2. IsFiniteSet(below(y))
    BY <2>1, FS_Subset
  <2>3. QED BY <1>2, <2>1, <2>2
<1> HIDE DEF rank
<1>5. \A x, y \in S : rank[x] = rank[y] => x = y
  BY <1>3, <1>4
<1>6. rank \in Injection(S, 0 .. n - 1)
  BY <1>3, <1>5 DEF Injection, rank, IsInjective
<1>7. IsFiniteSet(0 .. n - 1) /\ Cardinality(0 .. n - 1) = n
  <2>1. 0 \in Int /\ n - 1 \in Int
    BY <1>1
  <2>2. /\ IsFiniteSet(0 .. n - 1)
        /\ Cardinality(0 .. n - 1) = IF 0 > n - 1 THEN 0 ELSE (n - 1) - 0 + 1
    BY <2>1, FS_Interval, Zenon
  <2>3. QED BY <1>1, <2>2
<1>8. \A k \in 0 .. n - 1 : \E x \in S : rank[x] = k
  <2>1. rank \in Surjection(S, 0 .. n - 1)
    BY <1>6, <1>7, FS_Injection
  <2>2. QED BY <2>1 DEF Surjection
<1>9. ASSUME NEW k \in 1 .. n
      PROVE  s[k] \in S /\ rank[s[k]] = k - 1
  <2>1. s[k] = CHOOSE x \in S : Cardinality(below(x)) = k - 1
    BY <1>1 DEF Ascending
  <2>2. PICK x \in S : rank[x] = k - 1
    BY <1>1, <1>8
  <2>3. Cardinality(below(x)) = k - 1
    BY <2>2 DEF rank
  <2>4. s[k] \in S /\ Cardinality(below(s[k])) = k - 1
    BY <2>1, <2>3, Zenon
  <2>5. QED BY <2>4 DEF rank
<1>10. s \in [1 .. n -> S]
  BY <1>9, Zenon DEF Ascending
<1> HIDE DEF s, n
<1>11. Len(s) = n /\ s \in Seq(S)
  BY <1>1, <1>10
<1>12. ASSUME NEW i \in 1 .. n, NEW j \in 1 .. n, i < j
       PROVE  s[i] < s[j]
  <2>1. s[i] \in S /\ s[j] \in S /\ rank[s[i]] = i - 1 /\ rank[s[j]] = j - 1
    BY <1>9, Zenon
  <2>2. s[i] \in Nat /\ s[j] \in Nat
    BY <2>1
  <2>3. i - 1 < j - 1 /\ i - 1 # j - 1 /\ ~(j - 1 < i - 1)
    BY <1>1, <1>12
  <2>4. s[i] # s[j] /\ ~(s[j] < s[i])
    BY <1>4, <2>1, <2>3, Zenon
  <2>5. QED BY <2>2, <2>4
<1>13. ASSUME NEW x \in S
       PROVE  \E i \in 1 .. n : s[i] = x
  <2>1. rank[x] + 1 \in 1 .. n /\ (rank[x] + 1) - 1 = rank[x]
    BY <1>1, <1>3
  <2>2. s[rank[x] + 1] = x
    BY <1>5, <1>9, <2>1, Zenon
  <2>3. QED BY <2>1, <2>2, Zenon
<1>14. QED BY <1>1, <1>11, <1>12, <1>13, Zenon DEF s, n

(* InOrder lists every mapping once, in the order of the start addresses.  *)
LEMMA InOrderLists ==
  ASSUME NEW maps, \A m \in maps : m.vmarea.start \in Nat,
         \A m, n \in maps : m.vmarea.start = n.vmarea.start => m = n,
         NEW b \in Nat, \A m \in maps : m.vmarea.start <= b
  PROVE  LET s == InOrder(maps)
         IN /\ Len(s) \in Nat /\ s \in Seq(maps)
            /\ \A i \in 1 .. Len(s) : s[i] \in maps
            /\ \A i, j \in 1 .. Len(s) : i < j => s[i].vmarea.start < s[j].vmarea.start
            /\ \A m \in maps : \E i \in 1 .. Len(s) : s[i] = m
<1> DEFINE starts == {m.vmarea.start : m \in maps}
           keys == Ascending(starts)
           s == InOrder(maps)
<1>1. starts \in SUBSET Nat /\ \A x \in starts : x <= b
  OBVIOUS
<1>2. IsFiniteSet(starts)
  BY <1>1, FS_BoundedSetOfNaturals
<1> HIDE DEF starts
<1>3. /\ Cardinality(starts) \in Nat /\ Len(keys) = Cardinality(starts) /\ keys \in Seq(starts)
      /\ \A i, j \in 1 .. Len(keys) : i < j => keys[i] < keys[j]
      /\ \A x \in starts : \E i \in 1 .. Len(keys) : keys[i] = x
  BY <1>1, <1>2, AscendingLists, Zenon
<1> HIDE DEF keys
<1>4. s = [k \in DOMAIN keys |-> CHOOSE m \in maps : m.vmarea.start = keys[k]]
  BY DEF InOrder, keys, starts
<1>5. DOMAIN keys = 1 .. Len(keys) /\ \A i \in 1 .. Len(keys) : keys[i] \in starts
  BY <1>3
<1>6. ASSUME NEW k \in 1 .. Len(keys)
      PROVE  s[k] \in maps /\ s[k].vmarea.start = keys[k]
  <2>1. \E m \in maps : m.vmarea.start = keys[k]
    BY <1>5 DEF starts
  <2>2. s[k] = CHOOSE m \in maps : m.vmarea.start = keys[k]
    BY <1>4, <1>5, Zenon
  <2>3. QED BY <2>1, <2>2, Zenon
<1>7. s \in [1 .. Len(keys) -> maps] /\ Len(keys) \in Nat
  BY <1>3, <1>4, <1>5, <1>6, Zenon
<1> HIDE DEF s
<1>8. Len(s) = Len(keys) /\ s \in Seq(maps)
  BY <1>7
<1>9. ASSUME NEW i \in 1 .. Len(s), NEW j \in 1 .. Len(s), i < j
      PROVE  s[i].vmarea.start < s[j].vmarea.start
  <2>1. i \in 1 .. Len(keys) /\ j \in 1 .. Len(keys)
    BY <1>8, Zenon
  <2>2. keys[i] < keys[j]
    BY <1>3, <1>9, <2>1, Zenon
  <2>3. s[i].vmarea.start = keys[i] /\ s[j].vmarea.start = keys[j]
    BY <1>6, <2>1, Zenon
  <2>4. QED BY <2>2, <2>3, Zenon
<1>10. ASSUME NEW m \in maps
       PROVE  \E i \in 1 .. Len(s) : s[i] = m
  <2>1. PICK i \in 1 .. Len(keys) : keys[i] = m.vmarea.start
    BY <1>3 DEF starts
  <2>2. s[i] = m
    BY <1>6, <2>1, Zenon
  <2>3. QED BY <1>8, <2>2, Zenon
<1>11. QED BY <1>6, <1>7, <1>8, <1>9, <1>10, Zenon DEF s

FitLoop == INSTANCE IterationProofs WITH Step <- FitStep

(* Induction up to a number, for a set: it holds the numbers up to n when  *)
(* it holds 0 and, with a number below n, the next.                        *)
LEMMA CountUp ==
  ASSUME NEW n \in Nat, NEW S,
         0 \in S, \A k \in 0 .. n : k \in S /\ k < n => k + 1 \in S
  PROVE  0 .. n \subseteq S
<1> DEFINE T == {k \in 0 .. n : k \notin S}
<1> SUFFICES ASSUME T # {}
             PROVE  FALSE
  OBVIOUS
<1>1. T \subseteq Nat
  OBVIOUS
<1>2. PICK x \in T : \A y \in T : ~(<<y, x>> \in OpToRel(<, Nat))
  BY <1>1, NatLessThanWellFounded, WFMin, Zenon
<1>3. \A y \in T : ~(y < x)
  BY <1>1, <1>2 DEF OpToRel
<1>4. x \in 1 .. n /\ x \notin S
  OBVIOUS
<1>5. x - 1 \in 0 .. n /\ x - 1 < x /\ x - 1 < n /\ (x - 1) + 1 = x
  BY <1>4
<1>6. x - 1 \in S
  BY <1>3, <1>5
<1>7. QED BY <1>4, <1>5, <1>6

(* An address space lies below some address. *)
Bounded(vm) == \E b \in Nat : \A m \in vm.memmap : m.vmarea.end <= b

(* A boundary is the next boundary to itself. *)
LEMMA RoundUpBoundary ==
  ASSUME NEW a \in Nat
  PROVE  /\ RoundUp(a) \in Nat /\ a <= RoundUp(a) /\ RoundUp(a) % PAGE_SIZE = 0
         /\ RoundUp(a) < a + PAGE_SIZE
         /\ a % PAGE_SIZE = 0 => RoundUp(a) = a
<1> USE VmAssumption
<1> DEFINE b == a + PAGE_SIZE - 1
           q == b \div PAGE_SIZE
           x == b % PAGE_SIZE
<1>1. b \in Nat /\ q \in Nat /\ x \in 0 .. PAGE_SIZE - 1 /\ b = PAGE_SIZE * q + x
  OBVIOUS
<1>2. RoundUp(a) = b - x
  BY DEF RoundUp, RoundDown
<1> HIDE DEF q, x
<1>3. RoundUp(a) = PAGE_SIZE * q
  BY <1>1, <1>2
<1>4. (PAGE_SIZE * q) % PAGE_SIZE = 0 /\ PAGE_SIZE * q \in Nat
  <2>1. q \in Nat
    BY <1>1
  <2>2. QED BY <2>1
<1>5. a <= RoundUp(a) /\ RoundUp(a) < a + PAGE_SIZE
  BY <1>1, <1>2
<1>6. ASSUME a % PAGE_SIZE = 0
      PROVE  RoundUp(a) = a
  <2> DEFINE p == a \div PAGE_SIZE
  <2>1. p \in Nat /\ a = PAGE_SIZE * p
    BY <1>6
  <2> HIDE DEF p
  <2>2. PAGE_SIZE * (q - p) >= 0 /\ PAGE_SIZE * (q - p) < PAGE_SIZE
    BY <1>1, <1>3, <1>5, <2>1
  <2>3. q - p < 0 \/ q - p = 0 \/ q - p >= 1
    BY <1>1, <2>1
  <2>4. q - p < 0 => PAGE_SIZE * (q - p) < 0
    BY <1>1, <2>1
  <2>5. q - p >= 1 => PAGE_SIZE * (q - p) >= PAGE_SIZE
    BY <1>1, <2>1
  <2>6. q = p
    BY <1>1, <2>1, <2>2, <2>3, <2>4, <2>5
  <2>7. QED BY <1>3, <2>1, <2>6
<1>7. QED BY <1>3, <1>4, <1>5, <1>6

(* Areas of that size, from the base up, that no mapping reaches into; a   *)
(* mapping that starts below the base is not looked at.                    *)
FreeAreas(vm, size) ==
    {a \in Nat : /\ a >= MMAP_BASE
                 /\ \A m \in vm.memmap : m.vmarea.start >= MMAP_BASE =>
                        ~Intersect(m.vmarea, Area(a, a + size - 1))}

(* find_unmapped_area is a first fit: it returns the lowest free area, at  *)
(* a page boundary, and fails only when no free area ends below the limit. *)
THEOREM FirstFit ==
  ASSUME NEW vm, Sound(vm), Bounded(vm), NEW size \in Nat \ {0}
  PROVE  LET a == find_unmapped_area(vm, size)
             free == FreeAreas(vm, RoundUp(size))
         IN \/ /\ a \in free /\ a % PAGE_SIZE = 0
               /\ \A c \in free : a <= c
            \/ /\ a = None
               /\ \A c \in free : c + RoundUp(size) > MAX_USER_ADDR
<1> DEFINE maps == {m \in vm.memmap : m.vmarea.start >= MMAP_BASE}
           s == InOrder(maps)
           n == Len(s)
           l == RoundUp(size)
           free == FreeAreas(vm, l)
           start == [found |-> FALSE, addr |-> MMAP_BASE, size |-> l]
           done == Fit!Iterate(start, s)
<1>1. l \in Nat /\ l >= 1
  BY RoundUpBoundary
<1>2. PICK b \in Nat : \A m \in vm.memmap : m.vmarea.end <= b
  BY DEF Bounded
<1>3. /\ n \in Nat
      /\ \A i \in 1 .. n : s[i] \in maps
      /\ \A i, j \in 1 .. n : i < j => s[i].vmarea.start < s[j].vmarea.start
      /\ \A m \in maps : \E i \in 1 .. n : s[i] = m
  <2>1. \A m \in maps : m.vmarea.start \in Nat /\ m.vmarea.start <= b
    BY <1>2 DEF Sound, WellFormed
  <2>2. \A m, x \in maps : m.vmarea.start = x.vmarea.start => m = x
    BY OneHolds, Zenon
  <2> HIDE DEF maps
  <2>3. QED BY <2>1, <2>2, InOrderLists, Zenon
<1>4. \A i \in 1 .. n : WellFormed(s[i]) /\ s[i].vmarea.start >= MMAP_BASE
  BY <1>3 DEF Sound
<1>5. \A i, j \in 1 .. n : i < j => s[i].vmarea.end < s[j].vmarea.start
  <2> SUFFICES ASSUME NEW i \in 1 .. n, NEW j \in 1 .. n, i < j
               PROVE  s[i].vmarea.end < s[j].vmarea.start
    OBVIOUS
  <2>1. s[i] \in vm.memmap /\ s[j] \in vm.memmap /\ s[i].vmarea.start < s[j].vmarea.start
    BY <1>3
  <2>2. WellFormed(s[i]) /\ WellFormed(s[j])
    BY <1>4
  <2> HIDE DEF s
  <2>3. s[i] # s[j]
    BY <2>1, <2>2 DEF WellFormed
  <2>4. ~Intersect(s[i].vmarea, s[j].vmarea)
    BY <2>1, <2>3 DEF Sound, Disjoint
  <2>5. QED BY <2>1, <2>2, <2>4 DEF Intersect, WellFormed
<1>6. \A c \in Nat : c \in free <=>
          c >= MMAP_BASE /\ \A i \in 1 .. n : c + l <= s[i].vmarea.start \/ s[i].vmarea.end < c
  <2> SUFFICES ASSUME NEW c \in Nat
               PROVE  c \in free <=> c >= MMAP_BASE /\
                          \A i \in 1 .. n : c + l <= s[i].vmarea.start \/ s[i].vmarea.end < c
    OBVIOUS
  <2>1. \A i \in 1 .. n : Intersect(s[i].vmarea, Area(c, c + l - 1)) <=>
            ~(c + l <= s[i].vmarea.start \/ s[i].vmarea.end < c)
    <3> SUFFICES ASSUME NEW i \in 1 .. n
                 PROVE  Intersect(s[i].vmarea, Area(c, c + l - 1)) <=>
                            ~(c + l <= s[i].vmarea.start \/ s[i].vmarea.end < c)
      OBVIOUS
    <3> DEFINE x == s[i].vmarea
    <3>1. x.start \in Nat /\ x.end \in Nat
      BY <1>4 DEF WellFormed
    <3>2. Area(c, c + l - 1).start = c /\ Area(c, c + l - 1).end = c + l - 1
      BY DEF Area
    <3> HIDE DEF x, l
    <3>3. Intersect(x, Area(c, c + l - 1)) <=> ~(c + l <= x.start \/ x.end < c)
      BY <1>1, <3>1, <3>2 DEF Intersect
    <3>4. QED BY <3>3 DEF x
  <2>2. c \in free <=> c >= MMAP_BASE /\ \A m \in maps : ~Intersect(m.vmarea, Area(c, c + l - 1))
    BY Zenon DEF FreeAreas
  <2> HIDE DEF s, l, free, maps, n
  <2>3. (\A m \in maps : ~Intersect(m.vmarea, Area(c, c + l - 1))) <=>
            \A i \in 1 .. n : ~Intersect(s[i].vmarea, Area(c, c + l - 1))
    BY <1>3, Zenon
  <2>4. QED BY <2>1, <2>2, <2>3, Zenon
<1>7. PICK run : /\ run[0] = start
                 /\ \A k \in 1 .. n : run[k] = FitStep(run[k - 1], s[k])
                 /\ done = run[n]
  <2>1. done = FitLoop!Iterate(start, s)
    BY Zenon DEF FitLoop!Iterate, Fit!Iterate
  <2>2. Len(s) \in Nat
    BY <1>3
  <2> HIDE DEF done, s, start
  <2>3. FitLoop!CountsUp(Len(s))
    BY <2>2, CountUp, Zenon DEF FitLoop!CountsUp
  <2>4. \E run : /\ run[0] = start
                 /\ \A k \in 1 .. Len(s) : run[k] = FitStep(run[k - 1], s[k])
                 /\ FitLoop!Iterate(start, s) = run[Len(s)]
    <3>1. \E run : FitLoop!Runs(start, s, run)
      BY <2>2, <2>3, FitLoop!IterateIsALoop, Zenon
    <3>2. QED BY <3>1, Zenon DEF FitLoop!Runs
  <2>5. QED BY <2>1, <2>4, Zenon
<1> HIDE DEF done, s, n, l, free, maps
<1> DEFINE Looked(k, acc) ==
               /\ acc.found \in BOOLEAN /\ acc.addr \in Nat /\ acc.size = l
               /\ acc.addr % PAGE_SIZE = 0 /\ acc.addr >= MMAP_BASE
               /\ ~acc.found => \A i \in 1 .. k : s[i].vmarea.end < acc.addr
               /\ acc.found => acc.addr \in free
               /\ \A c \in free : acc.addr <= c
           S == {k \in 0 .. n : Looked(k, run[k])}
<1>8. free \subseteq Nat /\ \A c \in free : c >= MMAP_BASE
  BY DEF free, FreeAreas
<1>9. 0 \in S
  <2>1. run[0] = [found |-> FALSE, addr |-> MMAP_BASE, size |-> l]
    BY <1>7
  <2>2. run[0].found = FALSE /\ run[0].addr = MMAP_BASE /\ run[0].size = l
    BY <2>1
  <2>3. /\ MMAP_BASE \in Nat /\ MMAP_BASE % PAGE_SIZE = 0 /\ MMAP_BASE >= MMAP_BASE
        /\ \A c \in free : MMAP_BASE <= c
        /\ \A i \in 1 .. 0 : s[i].vmarea.end < MMAP_BASE
    <3>1. MMAP_BASE \in Nat /\ MMAP_BASE % PAGE_SIZE = 0 /\ 1 .. 0 = {}
      BY VmAssumption
    <3>2. \A c \in free : MMAP_BASE <= c
      BY <1>8, <3>1
    <3>3. QED BY <3>1, <3>2
  <2>4. Looked(0, run[0])
    BY <2>2, <2>3, Zenon
  <2>5. QED BY <1>3, <2>4
<1>10. ASSUME NEW k \in 0 .. n, k \in S, k < n
       PROVE  k + 1 \in S
  <2> DEFINE acc == run[k]
             next == run[k + 1]
             m == s[k + 1]
  <2>1. Looked(k, acc)
    BY <1>10
  <2>2. k \in Nat /\ k + 1 \in 1 .. n /\ (k + 1) - 1 = k /\ k + 1 \in 0 .. n
    BY <1>3, <1>10
  <2>3. next = FitStep(acc, m)
    BY <1>7, <2>2
  <2>4. WellFormed(m) /\ m.vmarea.start >= MMAP_BASE
    BY <1>4, <2>2
  <2>5. PastEnd(m) = m.vmarea.end + 1
    BY <2>4, RoundUpBoundary DEF PastEnd, WellFormed
  <2> HIDE DEF acc, next, m, Looked
  <2>6. \/ /\ acc.found \/ acc.addr + l <= m.vmarea.start
           /\ next.found = TRUE /\ next.addr = acc.addr /\ next.size = l
        \/ /\ ~acc.found /\ ~(acc.addr + l <= m.vmarea.start)
           /\ next.found = FALSE /\ next.addr = m.vmarea.end + 1 /\ next.size = l
    <3>1. acc.size = l /\ acc.found \in BOOLEAN
      BY <2>1 DEF Looked
    <3>2. CASE acc.found \/ acc.addr + l <= m.vmarea.start
      <4>1. next = [acc EXCEPT !.found = TRUE]
        BY <2>3, <3>1, <3>2, Zenon DEF FitStep
      <4>2. QED BY <2>1, <3>1, <3>2, <4>1 DEF Looked
    <3>3. CASE ~(acc.found \/ acc.addr + l <= m.vmarea.start)
      <4>1. next = [acc EXCEPT !.addr = m.vmarea.end + 1]
        BY <2>3, <2>5, <3>1, <3>3, Zenon DEF FitStep
      <4>2. QED BY <2>1, <3>1, <3>3, <4>1 DEF Looked
    <3>4. QED BY <3>2, <3>3
  <2>7. CASE /\ acc.found \/ acc.addr + l <= m.vmarea.start
             /\ next.found = TRUE /\ next.addr = acc.addr /\ next.size = l
    <3>1. acc.addr \in free
      <4>1. CASE acc.found
        BY <2>1, <4>1 DEF Looked
      <4>2. CASE ~acc.found /\ acc.addr + l <= m.vmarea.start
        <5>1. acc.addr \in Nat /\ acc.addr >= MMAP_BASE
              /\ \A i \in 1 .. k : s[i].vmarea.end < acc.addr
          BY <2>1, <4>2 DEF Looked
        <5>2. ASSUME NEW i \in 1 .. n
              PROVE  acc.addr + l <= s[i].vmarea.start \/ s[i].vmarea.end < acc.addr
          <6>1. CASE i <= k
            BY <5>1, <6>1
          <6>2. CASE i = k + 1
            BY <4>2, <6>2 DEF m
          <6>3. CASE i > k + 1
            <7>1. m.vmarea.start <= m.vmarea.end /\ m.vmarea.end < s[i].vmarea.start
              BY <1>5, <2>2, <2>4, <6>3 DEF m, WellFormed
            <7>2. s[i].vmarea.start \in Nat /\ m.vmarea.start \in Nat /\ m.vmarea.end \in Nat
              BY <1>4, <2>4 DEF WellFormed
            <7>3. QED BY <1>1, <4>2, <5>1, <7>1, <7>2
          <6>4. QED BY <2>2, <6>1, <6>2, <6>3
        <5>3. QED BY <1>6, <5>1, <5>2, Zenon
      <4>3. QED BY <2>1, <2>7, <4>1, <4>2 DEF Looked
    <3>2. next.found = TRUE /\ next.addr = acc.addr
      BY <2>7
    <3>3. Looked(k + 1, next)
      BY <2>1, <2>7, <3>1, <3>2, Zenon DEF Looked
    <3>4. QED BY <2>2, <3>3 DEF next
  <2>8. CASE /\ ~acc.found /\ ~(acc.addr + l <= m.vmarea.start)
             /\ next.found = FALSE /\ next.addr = m.vmarea.end + 1 /\ next.size = l
    <3>1. next.found = FALSE /\ next.addr = m.vmarea.end + 1
      BY <2>8
    <3>2. m.vmarea.end \in Nat /\ m.vmarea.start \in Nat /\ m.vmarea.start <= m.vmarea.end
          /\ (m.vmarea.end + 1) % PAGE_SIZE = 0 /\ m.vmarea.start >= MMAP_BASE
      BY <2>4 DEF WellFormed
    <3>3. next.addr \in Nat /\ next.addr % PAGE_SIZE = 0 /\ next.addr >= MMAP_BASE
      BY <3>1, <3>2, VmAssumption
    <3>4. ASSUME NEW i \in 1 .. k + 1
          PROVE  s[i].vmarea.end < next.addr
      <4>1. CASE i = k + 1
        BY <3>1, <3>2, <4>1 DEF m
      <4>2. CASE i # k + 1
        <5>1. i \in 1 .. n /\ i < k + 1
          BY <1>3, <2>2, <4>2
        <5>2. s[i].vmarea.end < m.vmarea.start /\ s[i].vmarea.end \in Nat
          BY <1>4, <1>5, <2>2, <5>1 DEF m, WellFormed
        <5>3. QED BY <3>1, <3>2, <5>2
      <4>3. QED BY <4>1, <4>2
    <3>5. ASSUME NEW c \in free
          PROVE  next.addr <= c
      <4>1. c \in Nat /\ acc.addr <= c /\ acc.addr \in Nat
        BY <1>8, <2>1 DEF Looked
      <4>2. c + l <= m.vmarea.start \/ m.vmarea.end < c
        BY <1>6, <2>2, <4>1 DEF m
      <4>3. QED BY <1>1, <2>8, <3>1, <3>2, <4>1, <4>2
    <3>6. Looked(k + 1, next)
      BY <2>8, <3>1, <3>3, <3>4, <3>5, Zenon DEF Looked
    <3>7. QED BY <2>2, <3>6 DEF next
  <2>9. QED BY <2>6, <2>7, <2>8
<1> HIDE DEF S
<1>11. n \in S
  BY <1>3, <1>9, <1>10, CountUp
<1>12. Looked(n, done)
  BY <1>7, <1>11 DEF S
<1>13. done.addr \in free
  <2>1. CASE done.found
    BY <1>12, <2>1
  <2>2. CASE ~done.found
    BY <1>6, <1>12, <2>2
  <2>3. QED BY <1>12, <2>1, <2>2
<1>14. done.size = l /\ done.addr % PAGE_SIZE = 0 /\ (\A c \in free : done.addr <= c)
       /\ done.found \in BOOLEAN
  BY <1>12
<1>15. find_unmapped_area(vm, size) =
           IF done.found \/ done.addr + l <= MAX_USER_ADDR THEN done.addr ELSE None
  BY <1>14, Zenon DEF find_unmapped_area, done, s, maps, l
<1>16. CASE done.found \/ done.addr + l <= MAX_USER_ADDR
  <2>1. find_unmapped_area(vm, size) = done.addr
    BY <1>15, <1>16, Zenon
  <2>2. QED BY <1>13, <1>14, <2>1, Zenon DEF free, l
<1>17. CASE ~(done.found \/ done.addr + l <= MAX_USER_ADDR)
  <2>1. find_unmapped_area(vm, size) = None
    BY <1>15, <1>17, Zenon
  <2>2. \A c \in free : c + l > MAX_USER_ADDR
    <3>1. done.addr \in Nat /\ MAX_USER_ADDR \in Nat /\ \A c \in free : c \in Nat
      BY <1>8, <1>13, VmAssumption
    <3>2. QED BY <1>1, <1>14, <1>17, <3>1
  <2>3. QED BY <2>1, <2>2, Zenon DEF free, l
<1>18. QED BY <1>16, <1>17

=============================================================================
