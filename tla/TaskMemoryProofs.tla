-------------------------- MODULE TaskMemoryProofs --------------------------
(***************************************************************************)
(* What the frames of tasks keep true, for any tasks, frames, programs and *)
(* number of calls: every page of a private mapping is backed by a frame   *)
(* that its task has recorded for that page, no frame has two owners, and  *)
(* nothing the hardware can reach has been given back.                     *)
(***************************************************************************)
EXTENDS TaskMemory, VmManagerProofs

(***************************************************************************)
(* The inductive invariant.  One task: its address space is sound and is   *)
(* backed by the list of its frames, in which no frame appears twice.      *)
(***************************************************************************)
ManagedList(pages) ==
    /\ pages \in Seq([vaddr : Nat, frame : Frame])
    /\ \A i, j \in DOMAIN pages : pages[i].frame = pages[j].frame => i = j

Recorded(m, pages) ==
    \A page \in PagesOf(m.vmarea) :
        \E i \in DOMAIN pages : pages[i] = [vaddr |-> page, frame |-> FrameAt(m, page)]

BackedBy(m, pages) ==
    IF m.is_shared THEN m.pmarea.start >= DeviceFrame * PAGE_SIZE ELSE Recorded(m, pages)

Good(s, pages) ==
    /\ Sound(s) /\ Bounded(s)
    /\ ManagedList(pages) /\ \A m \in s.memmap : BackedBy(m, pages)

\* All tasks: what they own is taken from the allocator, and never twice.
FramesInv ==
    /\ live \subseteq Task /\ used \subseteq Frame
    /\ vm = [t \in Task |-> vm[t]] /\ managed_pages = [t \in Task |-> managed_pages[t]]
    /\ \A t \in live : Good(vm[t], managed_pages[t]) /\ FramesOf(managed_pages[t]) \subseteq used
    /\ \A t, u \in live :
           t # u => FramesOf(managed_pages[t]) \cap FramesOf(managed_pages[u]) = {}

BreaksInv ==
    /\ text_size \in [Task -> Nat] /\ data_size \in [Task -> Nat]
    /\ brk \in [Task -> Nat \cup {None}]

IInv == FramesInv /\ BreaksInv

-----------------------------------------------------------------------------
(* Pages and frames. *)

(* A page that starts inside a run of pages is one of them. *)
LEMMA PageNumber ==
  ASSUME NEW at \in Nat, NEW n \in Nat, NEW page \in Nat,
         at % PAGE_SIZE = 0, page % PAGE_SIZE = 0,
         at <= page, page <= at + n * PAGE_SIZE - 1
  PROVE  \E k \in 0 .. n - 1 : page = at + k * PAGE_SIZE
<1> USE VmAssumption
<1> DEFINE q == at \div PAGE_SIZE
           r == page \div PAGE_SIZE
<1>1. q \in Nat /\ r \in Nat /\ at = PAGE_SIZE * q /\ page = PAGE_SIZE * r
  OBVIOUS
<1> HIDE DEF q, r
<1>2. q <= r
  <2>1. SUFFICES ASSUME r <= q - 1
                 PROVE  FALSE
    BY <1>1
  <2>2. PAGE_SIZE * r <= PAGE_SIZE * (q - 1)
    BY <1>1, <2>1
  <2>3. PAGE_SIZE * (q - 1) = PAGE_SIZE * q - PAGE_SIZE
    BY <1>1
  <2>4. QED BY <1>1, <2>2, <2>3
<1>3. r <= q + n - 1
  <2>1. SUFFICES ASSUME r >= q + n
                 PROVE  FALSE
    BY <1>1
  <2>2. PAGE_SIZE * r >= PAGE_SIZE * (q + n)
    BY <1>1, <2>1
  <2>3. PAGE_SIZE * (q + n) = PAGE_SIZE * q + n * PAGE_SIZE
    BY <1>1
  <2>4. n * PAGE_SIZE \in Nat
    OBVIOUS
  <2>5. QED BY <1>1, <2>2, <2>3, <2>4
<1>4. r - q \in 0 .. n - 1
  BY <1>1, <1>2, <1>3
<1>5. at + (r - q) * PAGE_SIZE = PAGE_SIZE * r
  BY <1>1
<1>6. QED BY <1>1, <1>4, <1>5

(* The pages of a run of frames have the frames' numbers. *)
LEMMA FrameNumber ==
  ASSUME NEW f \in Nat, NEW k \in Nat
  PROVE  (f * PAGE_SIZE + k * PAGE_SIZE) \div PAGE_SIZE = f + k
<1> USE VmAssumption
<1>1. f * PAGE_SIZE + k * PAGE_SIZE = PAGE_SIZE * (f + k)
  OBVIOUS
<1> DEFINE g == f + k
<1>2. g \in Nat
  OBVIOUS
<1> HIDE DEF g
<1>3. (PAGE_SIZE * g) \div PAGE_SIZE = g
  BY <1>2
<1>4. QED BY <1>1, <1>3 DEF g

(* n frames from f on, and a list that records them for n pages from at. *)
FrameRun(f, n) == f \in Nat /\ n \in Nat /\ f .. f + n - 1 \subseteq Frame

RecordsRun(pages, at, f, n) ==
    /\ ManagedList(pages) /\ FramesOf(pages) = f .. f + n - 1
    /\ \A m : /\ m.vmarea = Area(at, at + n * PAGE_SIZE - 1)
              /\ m.pmarea.start = f * PAGE_SIZE
             => Recorded(m, pages)

(* Managed records a run of frames for a run of pages: every page of the   *)
(* mapping made of them, and no frame twice.                               *)
LEMMA ManagedRecords ==
  ASSUME NEW at \in Nat, at % PAGE_SIZE = 0, NEW f, NEW n, FrameRun(f, n)
  PROVE  RecordsRun(Managed(at, f, n), at, f, n)
<1> USE VmAssumption DEF FrameRun
<1> DEFINE pages == Managed(at, f, n)
           Rec == [vaddr : Nat, frame : Frame]
<1>1. \A i \in 1 .. n : at + (i - 1) * PAGE_SIZE \in Nat /\ f + i - 1 \in Frame
  <2> SUFFICES ASSUME NEW i \in 1 .. n
               PROVE  at + (i - 1) * PAGE_SIZE \in Nat /\ f + i - 1 \in Frame
    OBVIOUS
  <2>1. (i - 1) * PAGE_SIZE \in Nat
    OBVIOUS
  <2>2. f + i - 1 \in f .. f + n - 1
    OBVIOUS
  <2>3. QED BY <2>1, <2>2
<1>2. pages \in [1 .. n -> Rec]
  BY <1>1 DEF Managed
<1>3. /\ DOMAIN pages = 1 .. n
      /\ \A i \in 1 .. n : pages[i] = [vaddr |-> at + (i - 1) * PAGE_SIZE, frame |-> f + i - 1]
  BY DEF Managed
<1> HIDE DEF pages, Rec
<1>4. pages \in Seq(Rec)
  BY <1>2
<1>5. \A i \in 1 .. n : pages[i].vaddr = at + (i - 1) * PAGE_SIZE /\ pages[i].frame = f + i - 1
  BY <1>3
<1>6. ManagedList(pages)
  BY <1>3, <1>4, <1>5 DEF ManagedList, Rec
<1>7. FramesOf(pages) = f .. f + n - 1
  <2>1. \A g \in f .. f + n - 1 : g - f + 1 \in 1 .. n /\ pages[g - f + 1].frame = g
    BY <1>5
  <2>2. \A i \in 1 .. n : pages[i].frame \in f .. f + n - 1
    BY <1>5
  <2>3. \A g \in f .. f + n - 1 : g \in FramesOf(pages)
    BY <1>3, <2>1, Zenon DEF FramesOf
  <2>4. \A g \in FramesOf(pages) : g \in f .. f + n - 1
    BY <1>3, <2>2, Zenon DEF FramesOf
  <2>5. QED BY <2>3, <2>4, Zenon
<1>8. ASSUME NEW m, m.vmarea = Area(at, at + n * PAGE_SIZE - 1), m.pmarea.start = f * PAGE_SIZE
      PROVE  Recorded(m, pages)
  <2> SUFFICES ASSUME NEW page \in PagesOf(m.vmarea)
               PROVE  \E i \in DOMAIN pages :
                          pages[i] = [vaddr |-> page, frame |-> FrameAt(m, page)]
    BY DEF Recorded
  <2>1. n * PAGE_SIZE \in Nat
    OBVIOUS
  <2>2. page \in Nat /\ page % PAGE_SIZE = 0 /\ at <= page /\ page <= at + n * PAGE_SIZE - 1
    BY <1>8, <2>1 DEF PagesOf, Area
  <2>3. PICK k \in 0 .. n - 1 : page = at + k * PAGE_SIZE
    BY <2>2, PageNumber, Zenon
  <2>4. k \in Nat /\ k * PAGE_SIZE \in Nat /\ f * PAGE_SIZE \in Nat
    OBVIOUS
  <2>5. m.vmarea.start = at
    BY <1>8 DEF Area
  <2>6. m.pmarea.start + (page - m.vmarea.start) = f * PAGE_SIZE + k * PAGE_SIZE
    BY <1>8, <2>3, <2>4, <2>5
  <2>7. FrameAt(m, page) = f + k
    BY <2>4, <2>6, FrameNumber DEF FrameAt
  <2>8. k + 1 \in 1 .. n /\ (k + 1) - 1 = k /\ f + (k + 1) - 1 = f + k
    BY <2>4
  <2>9. QED BY <1>3, <2>3, <2>7, <2>8, Zenon
<1>9. QED BY <1>6, <1>7, <1>8 DEF pages, RecordsRun

(* A task's frames are the allocator's. *)
LEMMA ListedFrames ==
  ASSUME NEW pages, ManagedList(pages)
  PROVE  FramesOf(pages) \subseteq Frame
<1> DEFINE Rec == [vaddr : Nat, frame : Frame]
<1>1. pages \in Seq(Rec)
  BY DEF ManagedList
<1>2. \A x \in Rec : x.frame \in Frame
  OBVIOUS
<1> HIDE DEF Rec
<1>3. \A i \in DOMAIN pages : pages[i] \in Rec
  BY <1>1
<1>4. QED BY <1>2, <1>3, Zenon DEF FramesOf

(* A list with more entries: its frames are those of both parts, none      *)
(* twice when the parts share none, and what was recorded stays recorded.  *)
LEMMA AppendRecords ==
  ASSUME NEW pages, ManagedList(pages), NEW more, ManagedList(more),
         FramesOf(pages) \cap FramesOf(more) = {}
  PROVE  /\ ManagedList(pages \o more)
         /\ FramesOf(pages \o more) = FramesOf(pages) \cup FramesOf(more)
         /\ \A m : Recorded(m, pages) \/ Recorded(m, more) => Recorded(m, pages \o more)
<1> DEFINE Rec == [vaddr : Nat, frame : Frame]
           all == pages \o more
           k == Len(pages)
           l == Len(more)
<1>1. pages \in Seq(Rec) /\ more \in Seq(Rec)
  BY DEF ManagedList
<1> HIDE DEF Rec
<1>2. /\ k \in Nat /\ l \in Nat /\ DOMAIN pages = 1 .. k /\ DOMAIN more = 1 .. l
      /\ all \in Seq(Rec) /\ DOMAIN all = 1 .. k + l
      /\ \A i \in 1 .. k : all[i] = pages[i]
      /\ \A i \in 1 .. l : all[k + i] = more[i]
  BY <1>1
<1> HIDE DEF all, k, l
<1>3. \A i \in 1 .. k + l : i \in 1 .. k \/ (i - k \in 1 .. l /\ i = k + (i - k))
  BY <1>2
<1>4. (\A i \in 1 .. k : i \in 1 .. k + l) /\ (\A i \in 1 .. l : k + i \in 1 .. k + l)
  BY <1>2
<1>5. FramesOf(all) = FramesOf(pages) \cup FramesOf(more)
  <2>1. ASSUME NEW g \in FramesOf(all)
        PROVE  g \in FramesOf(pages) \cup FramesOf(more)
    <3>1. PICK i \in 1 .. k + l : g = all[i].frame
      BY <1>2, Zenon DEF FramesOf
    <3>2. CASE i \in 1 .. k
      BY <1>2, <3>1, <3>2, Zenon DEF FramesOf
    <3>3. CASE i - k \in 1 .. l /\ i = k + (i - k)
      <4>1. g = more[i - k].frame
        BY <1>2, <3>1, <3>3, Zenon
      <4>2. QED BY <1>2, <3>3, <4>1, Zenon DEF FramesOf
    <3>4. QED BY <1>3, <3>2, <3>3
  <2>2. ASSUME NEW i \in DOMAIN pages
        PROVE  pages[i].frame \in FramesOf(all)
    BY <1>2, <1>4, Zenon DEF FramesOf
  <2>3. ASSUME NEW i \in DOMAIN more
        PROVE  more[i].frame \in FramesOf(all)
    BY <1>2, <1>4, Zenon DEF FramesOf
  <2>4. FramesOf(pages) \subseteq FramesOf(all) /\ FramesOf(more) \subseteq FramesOf(all)
    <3> HIDE DEF all
    <3>1. QED BY <2>2, <2>3, Zenon DEF FramesOf
  <2>5. QED BY <2>1, <2>4, Zenon
<1>6. ASSUME NEW i \in 1 .. k + l, NEW j \in 1 .. k + l, all[i].frame = all[j].frame
      PROVE  i = j
  <2>1. CASE i \in 1 .. k /\ j \in 1 .. k
    BY <1>2, <1>6, <2>1, Zenon DEF ManagedList
  <2>2. CASE i - k \in 1 .. l /\ j - k \in 1 .. l
    <3>1. more[i - k].frame = more[j - k].frame
      BY <1>2, <1>3, <1>6, <2>2
    <3>2. i - k = j - k
      BY <1>2, <2>2, <3>1, Zenon DEF ManagedList
    <3>3. QED BY <1>2, <3>2
  <2>3. CASE i \in 1 .. k /\ j - k \in 1 .. l
    <3>1. pages[i].frame = more[j - k].frame
      BY <1>2, <1>3, <1>6, <2>3
    <3>2. QED BY <1>2, <2>3, <3>1, Zenon DEF FramesOf
  <2>4. CASE i - k \in 1 .. l /\ j \in 1 .. k
    <3>1. more[i - k].frame = pages[j].frame
      BY <1>2, <1>3, <1>6, <2>4
    <3>2. QED BY <1>2, <2>4, <3>1, Zenon DEF FramesOf
  <2>5. QED BY <1>3, <2>1, <2>2, <2>3, <2>4
<1>7. ManagedList(all)
  BY <1>2, <1>6 DEF ManagedList, Rec
<1>8. ASSUME NEW m, Recorded(m, pages) \/ Recorded(m, more)
      PROVE  Recorded(m, all)
  <2>1. CASE Recorded(m, pages)
    BY <1>2, <1>4, <2>1, Zenon DEF Recorded
  <2>2. CASE Recorded(m, more)
    BY <1>2, <1>4, <2>2, Zenon DEF Recorded
  <2>3. QED BY <1>8, <2>1, <2>2
<1>9. QED BY <1>5, <1>7, <1>8 DEF all

(* remove_managed_page for some addresses: the frames of the entries taken *)
(* out are the dropped ones, no entry left has one of them, and what is    *)
(* recorded for other addresses stays recorded.                            *)
LEMMA RemoveRecords ==
  ASSUME NEW pages, ManagedList(pages), NEW vaddrs
  PROVE  LET left == remove_managed_pages(pages, vaddrs)
         IN /\ ManagedList(left)
            /\ FramesOf(left) = FramesOf(pages) \ Dropped(pages, vaddrs)
            /\ Dropped(pages, vaddrs) \subseteq FramesOf(pages)
            /\ \A m : Recorded(m, pages) /\ PagesOf(m.vmarea) \cap vaddrs = {}
                          => Recorded(m, left)
<1> DEFINE Rec == [vaddr : Nat, frame : Frame]
           k == Len(pages)
           S == DOMAIN pages \ FirstAt(pages, vaddrs)
           kept == Ascending(S)
           n == Cardinality(S)
           left == remove_managed_pages(pages, vaddrs)
<1>1. pages \in Seq(Rec) /\ k \in Nat /\ DOMAIN pages = 1 .. k
  BY DEF ManagedList
<1>2. S \in SUBSET Nat
  BY <1>1
<1>3. IsFiniteSet(S)
  <2>1. IsFiniteSet(1 .. k)
    BY <1>1, FS_Interval
  <2>2. QED BY <1>1, <2>1, FS_Subset
<1>4. /\ n \in Nat /\ Len(kept) = n /\ kept \in Seq(S)
      /\ \A i, j \in 1 .. n : i < j => kept[i] < kept[j]
      /\ \A x \in S : \E i \in 1 .. n : kept[i] = x
  <2> HIDE DEF S
  <2>1. QED BY <1>2, <1>3, AscendingLists, Zenon
<1>5. left = [i \in DOMAIN kept |-> pages[kept[i]]]
  BY Zenon DEF remove_managed_pages
<1> HIDE DEF kept, n, left, Rec
<1>6. DOMAIN kept = 1 .. n /\ \A i \in 1 .. n : kept[i] \in S
  BY <1>4
<1>7. left \in [1 .. n -> Rec]
  BY <1>1, <1>5, <1>6
<1>8. left \in Seq(Rec) /\ DOMAIN left = 1 .. n
  BY <1>4, <1>7
<1>9. \A i \in 1 .. n : left[i] = pages[kept[i]]
  BY <1>5, <1>6
<1>10. \A i, j \in 1 .. n : kept[i] = kept[j] => i = j
  <2> SUFFICES ASSUME NEW i \in 1 .. n, NEW j \in 1 .. n, kept[i] = kept[j]
               PROVE  i = j
    OBVIOUS
  <2>1. kept[i] \in Nat /\ kept[j] \in Nat
    BY <1>2, <1>6
  <2>2. ~(i < j) /\ ~(j < i)
    BY <1>4, <2>1
  <2>3. QED BY <1>4, <2>2
<1>11. ManagedList(left)
  <2>1. \A i, j \in DOMAIN left : left[i].frame = left[j].frame => i = j
    <3> SUFFICES ASSUME NEW i \in 1 .. n, NEW j \in 1 .. n, left[i].frame = left[j].frame
                 PROVE  i = j
      BY <1>8, Zenon
    <3>1. pages[kept[i]].frame = pages[kept[j]].frame /\ kept[i] \in DOMAIN pages
          /\ kept[j] \in DOMAIN pages
      BY <1>6, <1>9, Zenon
    <3>2. kept[i] = kept[j]
      BY <3>1, Zenon DEF ManagedList
    <3>3. QED BY <1>10, <3>2, Zenon
  <2>2. QED BY <1>8, <2>1 DEF ManagedList, Rec
<1>12. FirstAt(pages, vaddrs) \subseteq DOMAIN pages
  BY DEF FirstAt
<1>13. FramesOf(left) = FramesOf(pages) \ Dropped(pages, vaddrs)
  <2>1. ASSUME NEW g \in FramesOf(left)
        PROVE  g \in FramesOf(pages) \ Dropped(pages, vaddrs)
    <3>1. PICK i \in 1 .. n : g = pages[kept[i]].frame
      <4>1. PICK i \in DOMAIN left : g = left[i].frame
        BY Zenon DEF FramesOf
      <4>2. QED BY <1>8, <1>9, <4>1, Zenon
    <3>2. kept[i] \in DOMAIN pages /\ kept[i] \notin FirstAt(pages, vaddrs)
      BY <1>6
    <3>3. g \notin Dropped(pages, vaddrs)
      BY <1>12, <3>1, <3>2, Zenon DEF Dropped, ManagedList
    <3>4. QED BY <3>1, <3>2, <3>3, Zenon DEF FramesOf
  <2>2. ASSUME NEW g \in FramesOf(pages), g \notin Dropped(pages, vaddrs)
        PROVE  g \in FramesOf(left)
    <3>1. PICK j \in DOMAIN pages : g = pages[j].frame
      BY Zenon DEF FramesOf
    <3>2. j \in S
      BY <2>2, <3>1, Zenon DEF Dropped
    <3>3. PICK i \in 1 .. n : kept[i] = j
      BY <1>4, <3>2
    <3>4. QED BY <1>8, <1>9, <3>1, <3>3, Zenon DEF FramesOf
  <2>3. QED BY <2>1, <2>2, Zenon
<1>14. Dropped(pages, vaddrs) \subseteq FramesOf(pages)
  BY <1>12, Zenon DEF Dropped, FramesOf
<1>15. ASSUME NEW m, Recorded(m, pages), PagesOf(m.vmarea) \cap vaddrs = {}
       PROVE  Recorded(m, left)
  <2> SUFFICES ASSUME NEW page \in PagesOf(m.vmarea)
               PROVE  \E i \in DOMAIN left :
                          left[i] = [vaddr |-> page, frame |-> FrameAt(m, page)]
    BY DEF Recorded
  <2>1. PICK j \in DOMAIN pages : pages[j] = [vaddr |-> page, frame |-> FrameAt(m, page)]
    BY <1>15, Zenon DEF Recorded
  <2>2. pages[j].vaddr = page
    BY <2>1
  <2>3. j \in S
    BY <1>15, <2>2, Zenon DEF FirstAt
  <2>4. PICK i \in 1 .. n : kept[i] = j
    BY <1>4, <2>3
  <2>5. QED BY <1>8, <1>9, <2>1, <2>4, Zenon
<1>16. QED BY <1>11, <1>13, <1>14, <1>15 DEF left

-----------------------------------------------------------------------------
(* Mappings and what backs them. *)

(* x is m or was cut out of it. *)
PartOf(x, m) ==
    /\ m.vmarea.start <= x.vmarea.start /\ x.vmarea.end <= m.vmarea.end
    /\ x.pmarea.start - x.vmarea.start = m.pmarea.start - m.vmarea.start
    /\ x.is_shared = m.is_shared

(* A page that starts in a mapping is an address of it. *)
LEMMA PageHeld ==
  ASSUME NEW m, WellFormed(m), NEW page \in PagesOf(m.vmarea)
  PROVE  page \in Nat /\ page % PAGE_SIZE = 0 /\ Holds(m, page)
BY DEF PagesOf, WellFormed, Holds

(* A part of a backed mapping is backed by the same frames. *)
LEMMA PartBacked ==
  ASSUME NEW m, WellFormed(m), NEW x, WellFormed(x), PartOf(x, m),
         NEW pages, BackedBy(m, pages)
  PROVE  BackedBy(x, pages)
<1>1. CASE m.is_shared
  <2>1. m.pmarea.start >= DeviceFrame * PAGE_SIZE
    BY <1>1, Zenon DEF BackedBy
  <2>2. DeviceFrame * PAGE_SIZE \in Nat
    BY VmAssumption, TaskMemoryAssumption
  <2>3. x.pmarea.start >= DeviceFrame * PAGE_SIZE
    BY <2>1, <2>2 DEF PartOf, WellFormed
  <2>4. x.is_shared
    BY <1>1, Zenon DEF PartOf
  <2>5. QED BY <2>3, <2>4, Zenon DEF BackedBy
<1>2. CASE ~m.is_shared
  <2>1. Recorded(m, pages)
    BY <1>2, Zenon DEF BackedBy
  <2>2. ~x.is_shared
    BY <1>2, Zenon DEF PartOf
  <2>3. ASSUME NEW page \in PagesOf(x.vmarea)
        PROVE  page \in PagesOf(m.vmarea) /\ FrameAt(x, page) = FrameAt(m, page)
    <3>1. page \in Nat /\ page % PAGE_SIZE = 0 /\ x.vmarea.start <= page /\ page <= x.vmarea.end
      BY PageHeld DEF Holds
    <3>2. page \in m.vmarea.start .. m.vmarea.end
      BY <3>1 DEF PartOf, WellFormed
    <3>3. x.pmarea.start + (page - x.vmarea.start) = m.pmarea.start + (page - m.vmarea.start)
      BY <3>1 DEF PartOf, WellFormed
    <3>4. QED BY <3>1, <3>2, <3>3, Zenon DEF PagesOf, FrameAt
  <2>4. Recorded(x, pages)
    BY <2>1, <2>3, Zenon DEF Recorded
  <2>5. QED BY <2>2, <2>4, Zenon DEF BackedBy
<1>3. QED BY <1>1, <1>2

(* A mapping none of whose pages loses its entry stays backed. *)
LEMMA StaysBacked ==
  ASSUME NEW pages, ManagedList(pages), NEW m, BackedBy(m, pages), NEW vaddrs,
         PagesOf(m.vmarea) \cap vaddrs = {}
  PROVE  BackedBy(m, remove_managed_pages(pages, vaddrs))
<1>1. Recorded(m, pages) => Recorded(m, remove_managed_pages(pages, vaddrs))
  BY RemoveRecords, Zenon
<1>2. QED BY <1>1, Zenon DEF BackedBy

(* Two mappings of one address space have no page in common. *)
LEMMA PagesApart ==
  ASSUME NEW s, Sound(s), NEW m \in s.memmap, NEW x \in s.memmap, m # x
  PROVE  PagesOf(m.vmarea) \cap PagesOf(x.vmarea) = {}
<1> SUFFICES ASSUME NEW page \in PagesOf(m.vmarea), page \in PagesOf(x.vmarea)
             PROVE  FALSE
  OBVIOUS
<1>1. WellFormed(m) /\ WellFormed(x)
  BY DEF Sound
<1>2. page \in Nat /\ Holds(m, page) /\ Holds(x, page)
  BY <1>1, PageHeld
<1>3. QED BY <1>2, OneHolds

(* Parts of mappings mean what the mappings mean. *)
LEMMA PartsMean ==
  ASSUME NEW s, NEW r, Sound(s), Sound(r),
         \A x \in r.memmap : \E m \in s.memmap : PartOf(x, m)
  PROVE  \A a \in Nat : Meaning(r, a) \subseteq Meaning(s, a)
<1> SUFFICES ASSUME NEW a \in Nat, NEW x \in r.memmap, Holds(x, a)
             PROVE  x.pmarea.start + (a - x.vmarea.start) \in Meaning(s, a)
  BY DEF Meaning
<1>1. PICK m \in s.memmap : PartOf(x, m)
  OBVIOUS
<1>2. WellFormed(m) /\ WellFormed(x)
  BY DEF Sound
<1>3. Holds(m, a) /\ x.pmarea.start + (a - x.vmarea.start) = m.pmarea.start + (a - m.vmarea.start)
  BY <1>1, <1>2 DEF PartOf, WellFormed, Holds
<1>4. QED BY <1>3, Zenon DEF Meaning

(* Parts of mappings lie below the same address. *)
LEMMA PartsBounded ==
  ASSUME NEW s, NEW r, Sound(s), Sound(r), Bounded(s),
         \A x \in r.memmap : \E m \in s.memmap : PartOf(x, m)
  PROVE  Bounded(r)
<1>1. PICK b \in Nat : \A m \in s.memmap : m.vmarea.end <= b
  BY DEF Bounded
<1>2. ASSUME NEW x \in r.memmap
      PROVE  x.vmarea.end <= b
  <2>1. PICK m \in s.memmap : PartOf(x, m)
    OBVIOUS
  <2>2. m.vmarea.end \in Nat /\ x.vmarea.end \in Nat
    BY DEF Sound, WellFormed
  <2>3. m.vmarea.end <= b /\ x.vmarea.end <= m.vmarea.end
    BY <1>1, <2>1 DEF PartOf
  <2>4. QED BY <2>2, <2>3
<1>3. QED BY <1>2 DEF Bounded

(* A part of a mapping cut out as split and free_pages do. *)
LEMMA CutIsPart ==
  ASSUME NEW m, WellFormed(m), NEW b \in Nat, NEW e \in Nat,
         m.vmarea.start <= b, b <= e, e <= m.vmarea.end
  PROVE  LET x == Cut(m, b, e)
         IN Proper(x) /\ PartOf(x, m) /\ x.vmarea.start = b /\ x.vmarea.end = e
<1> DEFINE x == Cut(m, b, e)
           from == m.pmarea.start + (b - m.vmarea.start)
<1>1. from \in Nat /\ from - b = m.pmarea.start - m.vmarea.start
  BY DEF WellFormed
<1> HIDE DEF from
<1>2. x = Mapping(Area(b, e), Area(from, from + (e - b)), m.permissions, m.is_shared, m.owner)
  BY DEF Cut, from
<1>3. /\ x.vmarea = Area(b, e) /\ x.pmarea = Area(from, from + (e - b))
      /\ x.permissions = m.permissions /\ x.is_shared = m.is_shared /\ x.owner = m.owner
  BY <1>2 DEF Mapping
<1>4. x.vmarea.start = b /\ x.vmarea.end = e /\ x.pmarea.start = from
      /\ x.pmarea.end = from + (e - b)
  BY <1>3 DEF Area
<1> HIDE DEF x
<1>5. Proper(x)
  BY <1>1, <1>2, <1>3, <1>4, Zenon DEF Proper
<1>6. PartOf(x, m)
  BY <1>1, <1>3, <1>4 DEF PartOf
<1>7. QED BY <1>4, <1>5, <1>6 DEF x

-----------------------------------------------------------------------------
(* Mapping over what is there, and unmapping. *)

(* What is left of a mapping around a new one is a part of it. *)
LEMMA LeftIsPart ==
  ASSUME NEW m, WellFormed(m), NEW new, WellFormed(new), NEW x \in Left(m, new)
  PROVE  PartOf(x, m)
<1>1. x.is_shared = m.is_shared
  <2>1. CASE x = m
    BY <2>1
  <2>2. CASE x \in Before(m, new)
    BY <2>2 DEF Before, Cut, Mapping
  <2>3. CASE x \in After(m, new)
    BY <2>3 DEF After, Cut, Mapping
  <2>4. QED BY <2>1, <2>2, <2>3 DEF Left
<1>2. QED BY <1>1, LeftParts DEF PartOf

(* Only pages of the new mapping lose their entries. *)
LEMMA GoneIsOverwritten ==
  ASSUME NEW s, Sound(s), NEW new, WellFormed(new),
         NEW page \in PagesToDrop(Overwritten(s.memmap, new))
  PROVE  page \in Nat /\ Holds(new, page)
<1>1. PICK o \in Overwritten(s.memmap, new) : page \in PagesOf(o.vmarea)
  BY DEF PagesToDrop
<1>2. PICK m \in s.memmap :
         /\ Intersect(m.vmarea, new.vmarea)
         /\ o = Cut(m, Max({new.vmarea.start, m.vmarea.start}), Min({new.vmarea.end, m.vmarea.end}))
  BY Zenon DEF Overwritten
<1>3. WellFormed(m)
  BY DEF Sound
<1> DEFINE b == Max({new.vmarea.start, m.vmarea.start})
           e == Min({new.vmarea.end, m.vmarea.end})
<1>4. b \in Nat /\ e \in Nat /\ new.vmarea.start <= b /\ e <= new.vmarea.end
  <2>1. b = IF new.vmarea.start >= m.vmarea.start THEN new.vmarea.start ELSE m.vmarea.start
    BY <1>3, MaxMin DEF WellFormed
  <2>2. e = IF new.vmarea.end <= m.vmarea.end THEN new.vmarea.end ELSE m.vmarea.end
    BY <1>3, MaxMin, Zenon DEF WellFormed
  <2> HIDE DEF b, e
  <2>3. QED BY <1>3, <2>1, <2>2 DEF WellFormed
<1> HIDE DEF b, e
<1>5. o.vmarea.start = b /\ o.vmarea.end = e
  BY <1>2 DEF b, e, Cut, Mapping, Area
<1>6. page \in b .. e
  BY <1>1, <1>5, Zenon DEF PagesOf
<1>7. QED BY <1>4, <1>6 DEF Holds, WellFormed

(* add_memory_map_fixed with the clean-up of sys_memory_map: the parts     *)
(* around the new mapping stay backed, the new mapping is backed by its    *)
(* own entries, and only frames of overwritten pages are given back.       *)
LEMMA MapOverIsGood ==
  ASSUME NEW s, NEW pages, Good(s, pages), NEW new, Proper(new), Aligned(new),
         NEW entries, ManagedList(entries), BackedBy(new, entries),
         FramesOf(pages) \cap FramesOf(entries) = {}
  PROVE  LET res == add_memory_map_fixed(s, new)
             gone == PagesToDrop(res.overwritten)
             after == remove_managed_pages(pages, gone) \o entries
         IN /\ Good(res.vm, after)
            /\ FramesOf(after) = (FramesOf(pages) \ Dropped(pages, gone)) \cup FramesOf(entries)
            /\ Dropped(pages, gone) \subseteq FramesOf(pages)
<1> DEFINE res == add_memory_map_fixed(s, new)
           gone == PagesToDrop(res.overwritten)
           left == remove_managed_pages(pages, gone)
           after == left \o entries
<1>1. Sound(s) /\ Bounded(s) /\ ManagedList(pages) /\ \A m \in s.memmap : BackedBy(m, pages)
  BY DEF Good
<1>2. Sound(res.vm)
  BY <1>1, FixedKeepsTheRest, Zenon
<1>3. WellFormed(new)
  BY AlignedIsWellFormed
<1>4. /\ res.vm.memmap = Insert(Split(s.memmap, new), new)
      /\ res.overwritten = Overwritten(s.memmap, new)
  BY DEF add_memory_map_fixed
<1>5. \A page \in gone : page \in Nat /\ Holds(new, page)
  BY <1>1, <1>3, <1>4, GoneIsOverwritten, Zenon
<1> HIDE DEF res
<1>6. ASSUME NEW x \in res.vm.memmap, x # new
      PROVE  \E m \in s.memmap : x \in Left(m, new)
  <2>1. x \in Split(s.memmap, new)
    BY <1>4, <1>6, Zenon DEF Insert
  <2>2. QED BY <2>1, SplitIsLeft, Zenon
<1>7. /\ ManagedList(left)
      /\ FramesOf(left) = FramesOf(pages) \ Dropped(pages, gone)
      /\ Dropped(pages, gone) \subseteq FramesOf(pages)
  BY <1>1, RemoveRecords, Zenon
<1>8. FramesOf(left) \cap FramesOf(entries) = {}
  BY <1>7
<1>9. /\ ManagedList(after)
      /\ FramesOf(after) = FramesOf(left) \cup FramesOf(entries)
      /\ \A m : Recorded(m, left) \/ Recorded(m, entries) => Recorded(m, after)
  <2> HIDE DEF left
  <2>1. QED BY <1>7, <1>8, AppendRecords, Zenon
<1>10. ASSUME NEW x \in res.vm.memmap
       PROVE  BackedBy(x, after)
  <2>1. CASE x = new
    BY <1>9, <2>1, Zenon DEF BackedBy
  <2>2. CASE x # new
    <3>1. PICK m \in s.memmap : x \in Left(m, new)
      BY <1>6, <2>2
    <3>2. WellFormed(m)
      BY <1>1 DEF Sound
    <3>3. /\ WellFormed(x) /\ PartOf(x, m)
          /\ x.vmarea.end < new.vmarea.start \/ new.vmarea.end < x.vmarea.start
      BY <1>3, <3>1, <3>2, LeftParts, LeftIsPart
    <3>4. BackedBy(x, pages)
      BY <1>1, <3>2, <3>3, PartBacked, Zenon
    <3>5. ASSUME NEW page \in PagesOf(x.vmarea)
          PROVE  page \notin gone
      <4>1. page \in Nat /\ Holds(x, page)
        BY <3>3, PageHeld
      <4>2. ~Holds(new, page)
        BY <1>3, <3>3, <4>1 DEF Holds, WellFormed
      <4>3. QED BY <1>5, <4>2, Zenon
    <3>6. PagesOf(x.vmarea) \cap gone = {}
      BY <3>5, Zenon
    <3>7. BackedBy(x, left)
      BY <1>1, <3>4, <3>6, StaysBacked, Zenon
    <3>8. QED BY <1>9, <3>7, Zenon DEF BackedBy
  <2>3. QED BY <2>1, <2>2
<1>11. Bounded(res.vm)
  <2>1. PICK b \in Nat : \A m \in s.memmap : m.vmarea.end <= b
    BY <1>1 DEF Bounded
  <2> DEFINE c == b + new.vmarea.end
  <2>2. c \in Nat /\ b <= c /\ new.vmarea.end <= c
    BY <1>3 DEF WellFormed
  <2>3. ASSUME NEW x \in res.vm.memmap
        PROVE  x.vmarea.end <= c
    <3>1. CASE x = new
      BY <2>2, <3>1
    <3>2. CASE x # new
      <4>1. PICK m \in s.memmap : x \in Left(m, new)
        BY <1>6, <3>2
      <4>2. WellFormed(m)
        BY <1>1 DEF Sound
      <4>3. WellFormed(x) /\ x.vmarea.end <= m.vmarea.end
        BY <1>3, <4>1, <4>2, LeftParts
      <4> HIDE DEF c
      <4>4. QED BY <2>1, <2>2, <4>2, <4>3 DEF WellFormed
    <3>3. QED BY <3>1, <3>2
  <2> HIDE DEF c
  <2>4. QED BY <2>2, <2>3 DEF Bounded
<1>12. QED BY <1>2, <1>7, <1>9, <1>10, <1>11, Zenon DEF Good, res

(* sys_memory_unmap: the mapping goes and so do the entries of its pages,  *)
(* if it was private; no other mapping has a page among them.              *)
LEMMA UnmapIsGood ==
  ASSUME NEW s, NEW pages, Good(s, pages), NEW a \in Nat
  PROVE  LET res == remove_memory_map_by_addr(s, a)
             gone == PagesToDrop(res.removed)
             left == remove_managed_pages(pages, gone)
         IN /\ Good(res.vm, left)
            /\ FramesOf(left) = FramesOf(pages) \ Dropped(pages, gone)
            /\ Dropped(pages, gone) \subseteq FramesOf(pages)
            /\ \A x \in Nat : Meaning(res.vm, x) \subseteq Meaning(s, x)
<1> DEFINE res == remove_memory_map_by_addr(s, a)
           gone == PagesToDrop(res.removed)
           left == remove_managed_pages(pages, gone)
<1>1. Sound(s) /\ Bounded(s) /\ ManagedList(pages) /\ \A m \in s.memmap : BackedBy(m, pages)
  BY DEF Good
<1>2. /\ res.removed = {m \in s.memmap : Holds(m, a)}
      /\ res.vm.memmap = s.memmap \ res.removed
      /\ Sound(res.vm)
  BY <1>1, RemoveIsExact, Zenon
<1> HIDE DEF res
<1>3. \A x \in res.vm.memmap : x \in s.memmap /\ PartOf(x, x)
  BY <1>1, <1>2 DEF PartOf, Sound, WellFormed
<1>4. /\ Bounded(res.vm)
      /\ \A x \in Nat : Meaning(res.vm, x) \subseteq Meaning(s, x)
  BY <1>1, <1>2, <1>3, PartsBounded, PartsMean, Zenon
<1>5. /\ ManagedList(left)
      /\ FramesOf(left) = FramesOf(pages) \ Dropped(pages, gone)
      /\ Dropped(pages, gone) \subseteq FramesOf(pages)
  BY <1>1, RemoveRecords, Zenon
<1>6. ASSUME NEW x \in res.vm.memmap
      PROVE  BackedBy(x, left)
  <2>1. x \in s.memmap /\ x \notin res.removed
    BY <1>2
  <2>2. PagesOf(x.vmarea) \cap gone = {}
    <3> SUFFICES ASSUME NEW page \in PagesOf(x.vmarea), page \in gone
                 PROVE  FALSE
      BY Zenon
    <3>1. PICK m \in res.removed : page \in PagesOf(m.vmarea)
      BY Zenon DEF PagesToDrop
    <3>2. m \in s.memmap /\ m # x
      BY <1>2, <2>1, <3>1
    <3>3. QED BY <1>1, <2>1, <3>1, <3>2, PagesApart, Zenon
  <2>3. QED BY <1>1, <2>1, <2>2, StaysBacked, Zenon
<1>7. QED BY <1>2, <1>4, <1>5, <1>6, Zenon DEF Good, res

-----------------------------------------------------------------------------
(* brk: giving pages back from the break down. *)

(* add_memory_map adds the mapping or leaves the map alone. *)
LEMMA AddAtMost ==
  ASSUME NEW s, Sound(s), NEW m, Proper(m)
  PROVE  LET after == add_memory_map(s, m).vm
         IN Sound(after) /\ \A x \in after.memmap : x \in s.memmap \/ x = m
<1>1. Sound(add_memory_map(s, m).vm)
  BY AddIsExact
<1>2. CASE add_memory_map(s, m).ok
  BY <1>1, <1>2, AddIsExact
<1>3. CASE ~add_memory_map(s, m).ok
  BY <1>1, <1>3 DEF add_memory_map
<1>4. QED BY <1>2, <1>3

(* What free_pages adds again of the mapping it removed are parts of it    *)
(* that do not hold the page being freed.                                  *)
LEMMA ReaddsParts ==
  ASSUME NEW s, Sound(s), NEW m, WellFormed(m), NEW a \in Nat, Holds(m, a), NEW p, NEW n
  PROVE  LET after == Readd(s, m, a, p, n)
         IN /\ Sound(after)
            /\ \A x \in after.memmap : x \in s.memmap \/ (PartOf(x, m) /\ ~Holds(x, a))
<1> DEFINE first_part == Cut(m, m.vmarea.start, a - 1)
           last_part == Cut(m, a + PAGE_SIZE, m.vmarea.end)
           head == IF p = 0 /\ m.vmarea.start < a THEN add_memory_map(s, first_part).vm ELSE s
           after == Readd(s, m, a, p, n)
<1>1. /\ m.vmarea.start \in Nat /\ m.vmarea.end \in Nat
      /\ m.vmarea.start <= a /\ a <= m.vmarea.end
      /\ PAGE_SIZE \in Nat /\ PAGE_SIZE > 1
  BY VmAssumption DEF WellFormed, Holds
<1>2. /\ Sound(head)
      /\ \A x \in head.memmap : x \in s.memmap \/ (PartOf(x, m) /\ ~Holds(x, a))
  <2>1. CASE p = 0 /\ m.vmarea.start < a
    <3>1. a - 1 \in Nat /\ m.vmarea.start <= m.vmarea.start /\ m.vmarea.start <= a - 1
          /\ a - 1 <= m.vmarea.end
      BY <1>1, <2>1
    <3>2. Proper(first_part) /\ PartOf(first_part, m) /\ first_part.vmarea.end = a - 1
      BY <1>1, <3>1, CutIsPart
    <3> HIDE DEF first_part
    <3>3. ~Holds(first_part, a)
      BY <1>1, <3>2 DEF Holds
    <3>4. head = add_memory_map(s, first_part).vm
      BY <2>1, Zenon
    <3>5. Sound(head) /\ \A x \in head.memmap : x \in s.memmap \/ x = first_part
      BY <3>2, <3>4, AddAtMost, Zenon
    <3>6. QED BY <3>2, <3>3, <3>5, Zenon
  <2>2. CASE ~(p = 0 /\ m.vmarea.start < a)
    BY <2>2, Zenon
  <2>3. QED BY <2>1, <2>2, Zenon
<1>3. after = IF p = n - 1 /\ m.vmarea.end > a + PAGE_SIZE - 1
              THEN add_memory_map(head, last_part).vm ELSE head
  BY Zenon DEF Readd
<1> HIDE DEF head, after
<1>4. CASE p = n - 1 /\ m.vmarea.end > a + PAGE_SIZE - 1
  <2>1. a + PAGE_SIZE \in Nat /\ m.vmarea.start <= a + PAGE_SIZE
        /\ a + PAGE_SIZE <= m.vmarea.end /\ m.vmarea.end <= m.vmarea.end
    BY <1>1, <1>4
  <2>2. Proper(last_part) /\ PartOf(last_part, m) /\ last_part.vmarea.start = a + PAGE_SIZE
    BY <1>1, <2>1, CutIsPart
  <2> HIDE DEF last_part
  <2>3. ~Holds(last_part, a)
    BY <1>1, <2>2 DEF Holds
  <2>4. after = add_memory_map(head, last_part).vm
    BY <1>3, <1>4, Zenon
  <2>5. Sound(after) /\ \A x \in after.memmap : x \in head.memmap \/ x = last_part
    BY <1>2, <2>2, <2>4, AddAtMost, Zenon
  <2>6. QED BY <1>2, <2>2, <2>3, <2>5, Zenon DEF after
<1>5. CASE ~(p = n - 1 /\ m.vmarea.end > a + PAGE_SIZE - 1)
  <2>1. after = head
    BY <1>3, <1>5, Zenon
  <2>2. QED BY <1>2, <2>1, Zenon DEF after
<1>6. QED BY <1>4, <1>5

(* One round of free_pages: whatever mapping held the page, what is left   *)
(* or added again is backed by the entries that are left, and the frames   *)
(* counted as freed are the ones that left the list.                       *)
LEMMA FreePageIsGood ==
  ASSUME NEW acc, Good(acc.vm, acc.pages), NEW p, acc.vaddr + p * PAGE_SIZE \in Nat
  PROVE  LET next == FreePage(acc, p)
         IN /\ Good(next.vm, next.pages)
            /\ next.vaddr = acc.vaddr /\ next.n = acc.n
            /\ \A x \in next.vm.memmap : \E m \in acc.vm.memmap : PartOf(x, m)
            /\ \E D \in SUBSET FramesOf(acc.pages) :
                   /\ next.freed = acc.freed \cup D
                   /\ FramesOf(next.pages) = FramesOf(acc.pages) \ D
<1> DEFINE a == acc.vaddr + p * PAGE_SIZE
           res == remove_memory_map_by_addr(acc.vm, a)
           next == FreePage(acc, p)
           s == acc.vm
           pages == acc.pages
<1>1. Sound(s) /\ Bounded(s) /\ ManagedList(pages) /\ \A m \in s.memmap : BackedBy(m, pages)
  BY DEF Good
<1>2. /\ res.removed = {m \in s.memmap : Holds(m, a)}
      /\ res.vm.memmap = s.memmap \ res.removed
      /\ Sound(res.vm)
  BY <1>1, RemoveIsExact, Zenon
<1>3. \A x \in s.memmap : WellFormed(x) /\ PartOf(x, x)
  BY <1>1 DEF PartOf, Sound, WellFormed
<1>4. CASE res.removed = {}
  <2>1. next = [acc EXCEPT !.vm = res.vm]
    BY <1>4, Zenon DEF FreePage
  <2>2. res.vm.memmap = s.memmap
    BY <1>2, <1>4, Zenon
  <2>3. Bounded(res.vm)
    BY <1>1, <2>2, Zenon DEF Bounded
  <2>4. Good(res.vm, pages)
    BY <1>1, <1>2, <2>2, <2>3, Zenon DEF Good
  <2> HIDE DEF res, next
  <2>5. next.vm = res.vm
    BY <2>1
  <2>6. next.pages = pages
    BY <2>1
  <2>7. next.freed = acc.freed
    BY <2>1
  <2>8. next.vaddr = acc.vaddr /\ next.n = acc.n
    BY <2>1
  <2>9. next.freed = acc.freed \cup {} /\ FramesOf(next.pages) = FramesOf(pages) \ {}
    BY <2>6, <2>7
  <2>10. QED BY <1>3, <2>2, <2>4, <2>5, <2>6, <2>8, <2>9, Zenon DEF next
<1>5. CASE res.removed # {}
  <2> DEFINE m == CHOOSE x \in res.removed : TRUE
             after == Readd(res.vm, m, a, p, acc.n)
             left == remove_managed_pages(pages, {a})
             D == Dropped(pages, {a})
  <2>1. m \in res.removed
    BY <1>5, Zenon
  <2>2. /\ next.vm = after /\ next.pages = left /\ next.freed = acc.freed \cup D
        /\ next.vaddr = acc.vaddr /\ next.n = acc.n
    <3>1. next = [acc EXCEPT !.vm = after, !.pages = left, !.freed = acc.freed \cup D]
      BY <1>5, Zenon DEF FreePage
    <3> HIDE DEF next, after, left, D
    <3>2. QED BY <3>1
  <2>3. m \in s.memmap /\ Holds(m, a) /\ WellFormed(m)
    BY <1>2, <1>3, <2>1, Zenon
  <2> HIDE DEF res, m, a
  <2>4. /\ Sound(after)
        /\ \A x \in after.memmap : x \in res.vm.memmap \/ (PartOf(x, m) /\ ~Holds(x, a))
    BY <1>2, <2>3, ReaddsParts, Zenon DEF a
  <2> HIDE DEF after, next
  <2>5. /\ ManagedList(left)
        /\ FramesOf(left) = FramesOf(pages) \ D
        /\ D \subseteq FramesOf(pages)
    BY <1>1, RemoveRecords, Zenon
  <2>6. ASSUME NEW x \in after.memmap
        PROVE  \E y \in s.memmap : PartOf(x, y) /\ ~Holds(x, a)
    <3>1. CASE x \in res.vm.memmap
      BY <1>2, <1>3, <3>1, Zenon
    <3>2. CASE PartOf(x, m) /\ ~Holds(x, a)
      BY <2>3, <3>2, Zenon
    <3>3. QED BY <2>4, <3>1, <3>2, Zenon
  <2>7. ASSUME NEW x \in after.memmap
        PROVE  BackedBy(x, left)
    <3>1. PICK y \in s.memmap : PartOf(x, y) /\ ~Holds(x, a)
      BY <2>6
    <3>2. WellFormed(x) /\ WellFormed(y)
      BY <1>3, <2>4 DEF Sound
    <3>3. BackedBy(x, pages)
      BY <1>1, <3>1, <3>2, PartBacked, Zenon
    <3>4. PagesOf(x.vmarea) \cap {a} = {}
      BY <3>1, <3>2, PageHeld, Zenon
    <3>5. QED BY <1>1, <3>3, <3>4, StaysBacked, Zenon
  <2>8. Bounded(after)
    BY <1>1, <2>4, <2>6, PartsBounded, Zenon
  <2>9. Good(after, left)
    BY <2>4, <2>5, <2>7, <2>8, Zenon DEF Good
  <2> HIDE DEF left, D
  <2>10. QED BY <2>2, <2>5, <2>6, <2>9, Zenon DEF next
<1>6. QED BY <1>4, <1>5

FreeLoop == INSTANCE IterationProofs WITH Step <- FreePage

(* Taking entries out of the page table keeps an address space sound. *)
LEMMA FewerEntries ==
  ASSUME NEW s, Sound(s), NEW pt \in SUBSET s.pt
  PROVE  Sound([s EXCEPT !.pt = pt]) /\ [s EXCEPT !.pt = pt].memmap = s.memmap
<1> DEFINE r == [s EXCEPT !.pt = pt]
<1>1. r = [memmap |-> s.memmap, last_search_cache |-> s.last_search_cache, pt |-> pt]
  <2>1. r = [s EXCEPT !.pt = pt]
    OBVIOUS
  <2> HIDE DEF r
  <2>2. QED BY <2>1 DEF Sound
<1> HIDE DEF r
<1>2. r.memmap = s.memmap /\ r.last_search_cache = s.last_search_cache /\ r.pt = pt
  BY <1>1
<1>3. CacheSound(r)
  BY <1>2, Zenon DEF Sound, CacheSound
<1>4. PtBacked(r)
  <2>1. \A a : Meaning(r, a) = Meaning(s, a)
    BY <1>2, Zenon DEF Meaning
  <2>2. QED BY <1>2, <2>1, Zenon DEF Sound, PtBacked
<1>5. Sound(r)
  BY <1>1, <1>2, <1>3, <1>4, Zenon DEF Sound
<1>6. QED BY <1>2, <1>5, Zenon DEF r

(* free_pages: the task keeps what backs the rest of its mappings, the     *)
(* frames given back are exactly those that left the list, and no address  *)
(* gets a new meaning.                                                     *)
THEOREM FreePagesIsGood ==
  ASSUME NEW s, NEW pages, Good(s, pages), NEW vaddr \in Nat, NEW n \in Nat
  PROVE  LET res == free_pages(s, pages, vaddr, n)
         IN /\ Good(res.vm, res.pages)
            /\ FramesOf(res.pages) = FramesOf(pages) \ res.freed
            /\ res.freed \subseteq FramesOf(pages)
            /\ \A a \in Nat : Meaning(res.vm, a) \subseteq Meaning(s, a)
<1> DEFINE start == [vm |-> s, pages |-> pages, freed |-> {}, vaddr |-> vaddr, n |-> n]
           items == [i \in 1 .. n |-> i - 1]
           done == Freeing!Iterate(start, items)
           res == free_pages(s, pages, vaddr, n)
<1>1. Len(items) = n /\ \A k \in 1 .. n : items[k] = k - 1
  <2>1. items \in [1 .. n -> Int] /\ \A k \in 1 .. n : items[k] = k - 1
    OBVIOUS
  <2> HIDE DEF items
  <2>2. QED BY <2>1
<1>2. PICK run : /\ run[0] = start
                 /\ \A k \in 1 .. n : run[k] = FreePage(run[k - 1], items[k])
                 /\ done = run[n]
  <2>1. done = FreeLoop!Iterate(start, items)
    BY Zenon DEF FreeLoop!Iterate, Freeing!Iterate
  <2> HIDE DEF done, start, items
  <2>2. Len(items) \in Nat
    BY <1>1
  <2>3. FreeLoop!CountsUp(Len(items))
    BY <2>2, CountUp, Zenon DEF FreeLoop!CountsUp
  <2>4. \E run : /\ run[0] = start
                 /\ \A k \in 1 .. Len(items) : run[k] = FreePage(run[k - 1], items[k])
                 /\ FreeLoop!Iterate(start, items) = run[Len(items)]
    <3>1. \E run : FreeLoop!Runs(start, items, run)
      BY <2>2, <2>3, FreeLoop!IterateIsALoop, Zenon
    <3>2. QED BY <3>1, Zenon DEF FreeLoop!Runs
  <2>5. QED BY <1>1, <2>1, <2>4, Zenon
<1> DEFINE Freed(acc) ==
               /\ Good(acc.vm, acc.pages) /\ acc.vaddr = vaddr
               /\ \A x \in acc.vm.memmap : \E m \in s.memmap : PartOf(x, m)
               /\ FramesOf(acc.pages) = FramesOf(pages) \ acc.freed
               /\ acc.freed \subseteq FramesOf(pages)
           S == {k \in 0 .. n : Freed(run[k])}
<1> HIDE DEF done, items, res
<1>3. 0 \in S
  <2>1. run[0].vm = s /\ run[0].pages = pages /\ run[0].freed = {} /\ run[0].vaddr = vaddr
    BY <1>2
  <2>2. \A x \in s.memmap : PartOf(x, x)
    BY DEF Good, PartOf, Sound, WellFormed
  <2>3. FramesOf(pages) = FramesOf(pages) \ {} /\ {} \subseteq FramesOf(pages)
    OBVIOUS
  <2>4. Freed(run[0])
    BY <2>1, <2>2, <2>3, Zenon
  <2>5. 0 \in 0 .. n
    OBVIOUS
  <2> HIDE DEF Freed
  <2>6. QED BY <2>4, <2>5
<1>4. ASSUME NEW k \in 0 .. n, k \in S, k < n
      PROVE  k + 1 \in S
  <2> DEFINE acc == run[k]
             next == run[k + 1]
  <2>1. Freed(acc)
    BY <1>4
  <2>2. k \in Nat /\ k + 1 \in 1 .. n /\ k + 1 \in 0 .. n /\ (k + 1) - 1 = k
    BY <1>4
  <2>3. next = FreePage(acc, k)
    BY <1>1, <1>2, <2>2
  <2> HIDE DEF acc, next
  <2>4. acc.vaddr + k * PAGE_SIZE \in Nat
    <3>1. k * PAGE_SIZE \in Nat
      BY <2>2, VmAssumption
    <3>2. QED BY <2>1, <3>1
  <2>5. /\ Good(next.vm, next.pages) /\ next.vaddr = acc.vaddr
        /\ \A x \in next.vm.memmap : \E m \in acc.vm.memmap : PartOf(x, m)
        /\ \E D \in SUBSET FramesOf(acc.pages) :
               /\ next.freed = acc.freed \cup D
               /\ FramesOf(next.pages) = FramesOf(acc.pages) \ D
    BY <2>1, <2>3, <2>4, FreePageIsGood, Zenon
  <2>6. ASSUME NEW x \in next.vm.memmap
        PROVE  \E m \in s.memmap : PartOf(x, m)
    <3>1. PICK y \in acc.vm.memmap : PartOf(x, y)
      BY <2>5
    <3>2. PICK m \in s.memmap : PartOf(y, m)
      BY <2>1
    <3>3. WellFormed(x) /\ WellFormed(y) /\ WellFormed(m)
      BY <2>1, <2>5 DEF Good, Sound
    <3>4. PartOf(x, m)
      BY <3>1, <3>2, <3>3 DEF PartOf, WellFormed
    <3>5. QED BY <3>4
  <2>7. PICK D \in SUBSET FramesOf(acc.pages) :
            /\ next.freed = acc.freed \cup D
            /\ FramesOf(next.pages) = FramesOf(acc.pages) \ D
    BY <2>5
  <2>8. /\ FramesOf(next.pages) = FramesOf(pages) \ next.freed
        /\ next.freed \subseteq FramesOf(pages)
    BY <2>1, <2>7
  <2>9. Freed(next)
    BY <2>1, <2>5, <2>6, <2>8, Zenon
  <2> HIDE DEF Freed
  <2>10. QED BY <2>2, <2>9 DEF next
<1> HIDE DEF S
<1>5. n \in S
  BY <1>3, <1>4, CountUp
<1>6. Freed(done)
  BY <1>2, <1>5 DEF S
<1> DEFINE pt == unmap_range_from_mmu(done.vm.pt, Area(vaddr, vaddr + n * PAGE_SIZE - 1))
<1>7. res = [done EXCEPT !.vm.pt = pt]
  BY Zenon DEF res, free_pages, done, items
<1>8. pt \subseteq done.vm.pt
  BY DEF unmap_range_from_mmu
<1> HIDE DEF pt
<1>9. res.vm = [done.vm EXCEPT !.pt = pt] /\ res.pages = done.pages /\ res.freed = done.freed
  BY <1>7
<1>10. Sound(res.vm) /\ res.vm.memmap = done.vm.memmap
  <2>1. Sound(done.vm)
    BY <1>6, Zenon DEF Good
  <2>2. Sound([done.vm EXCEPT !.pt = pt]) /\ [done.vm EXCEPT !.pt = pt].memmap = done.vm.memmap
    BY <1>8, <2>1, FewerEntries
  <2>3. QED BY <1>9, <2>2
<1>11. Good(res.vm, res.pages)
  BY <1>6, <1>9, <1>10, Zenon DEF Good, Bounded
<1>12. \A a \in Nat : Meaning(res.vm, a) \subseteq Meaning(s, a)
  BY <1>6, <1>10, PartsMean, Zenon DEF Good
<1>13. QED BY <1>6, <1>9, <1>11, <1>12, Zenon DEF res

-----------------------------------------------------------------------------
(* Adding mappings: brk, page faults and clone. *)

(* A run of pages over a run of frames is a mapping the operations take. *)
LEMMA RegionIsProper ==
  ASSUME NEW at \in Nat, at % PAGE_SIZE = 0, NEW f \in Nat, NEW n \in Nat \ {0},
         NEW permissions, NEW is_shared, NEW owner
  PROVE  LET m == Region(at, f, n, permissions, is_shared, owner)
         IN /\ Proper(m) /\ Aligned(m)
            /\ m.vmarea = Area(at, at + n * PAGE_SIZE - 1) /\ m.pmarea.start = f * PAGE_SIZE
            /\ m.is_shared = is_shared
<1> USE VmAssumption
<1> DEFINE m == Region(at, f, n, permissions, is_shared, owner)
           e == at + n * PAGE_SIZE - 1
           from == f * PAGE_SIZE
           to == (f + n) * PAGE_SIZE - 1
<1>1. e \in Nat /\ at <= e /\ e - at + 1 = n * PAGE_SIZE
  <2>1. n * PAGE_SIZE \in Nat /\ n * PAGE_SIZE >= 1
    OBVIOUS
  <2>2. QED BY <2>1
<1>2. from \in Nat /\ to \in Int /\ to - from + 1 = n * PAGE_SIZE
  <2>1. (f + n) * PAGE_SIZE = f * PAGE_SIZE + n * PAGE_SIZE
    OBVIOUS
  <2>2. f * PAGE_SIZE \in Nat /\ n * PAGE_SIZE \in Nat
    OBVIOUS
  <2>3. QED BY <2>1, <2>2
<1>3. (n * PAGE_SIZE) % PAGE_SIZE = 0 /\ from % PAGE_SIZE = 0
  <2>1. \A q \in Nat : (PAGE_SIZE * q) % PAGE_SIZE = 0
    OBVIOUS
  <2>2. n * PAGE_SIZE = PAGE_SIZE * n /\ f * PAGE_SIZE = PAGE_SIZE * f
    OBVIOUS
  <2>3. QED BY <2>1, <2>2
<1>4. m = Mapping(Area(at, e), Area(from, to), permissions, is_shared, owner)
  BY DEF Region
<1> HIDE DEF m, e, from, to
<1>5. /\ m.vmarea = Area(at, e) /\ m.pmarea = Area(from, to)
      /\ m.permissions = permissions /\ m.is_shared = is_shared /\ m.owner = owner
  BY <1>4 DEF Mapping
<1>6. /\ m.vmarea.start = at /\ m.vmarea.end = e
      /\ m.pmarea.start = from /\ m.pmarea.end = to
  BY <1>5 DEF Area
<1>7. Proper(m)
  BY <1>1, <1>2, <1>4, <1>5, <1>6, Zenon DEF Proper
<1>8. Aligned(m)
  BY <1>1, <1>2, <1>3, <1>6 DEF Aligned, Size
<1>9. QED BY <1>5, <1>6, <1>7, <1>8 DEF m, e, from

(* A private run of pages. *)
LEMMA PrivateIsProper ==
  ASSUME NEW at \in Nat, at % PAGE_SIZE = 0, NEW f \in Nat, NEW n \in Nat \ {0},
         NEW permissions, NEW owner
  PROVE  LET m == Private(at, f, n, permissions, owner)
         IN /\ Proper(m) /\ Aligned(m)
            /\ m.vmarea = Area(at, at + n * PAGE_SIZE - 1) /\ m.pmarea.start = f * PAGE_SIZE
            /\ ~m.is_shared
<1> DEFINE is_shared == FALSE
           m == Region(at, f, n, permissions, is_shared, owner)
<1>1. m = Private(at, f, n, permissions, owner)
  BY DEF Private
<1> HIDE DEF is_shared
<1>2. /\ Proper(m) /\ Aligned(m)
      /\ m.vmarea = Area(at, at + n * PAGE_SIZE - 1) /\ m.pmarea.start = f * PAGE_SIZE
      /\ m.is_shared = is_shared
  BY RegionIsProper
<1> HIDE DEF m
<1>3. QED BY <1>1, <1>2 DEF is_shared

(* The memory of a device. *)
LEMMA DeviceIsProper ==
  ASSUME NEW at \in Nat, at % PAGE_SIZE = 0, NEW n \in Nat \ {0}
  PROVE  LET m == Device(at, n)
         IN /\ Proper(m) /\ Aligned(m)
            /\ m.pmarea.start = DeviceFrame * PAGE_SIZE /\ m.is_shared
<1> DEFINE is_shared == TRUE
           permissions == "rw"
           owner == "dev"
           m == Region(at, DeviceFrame, n, permissions, is_shared, owner)
<1>1. m = Device(at, n)
  BY DEF Device
<1> HIDE DEF is_shared, permissions, owner
<1>2. /\ Proper(m) /\ Aligned(m)
      /\ m.pmarea.start = DeviceFrame * PAGE_SIZE /\ m.is_shared = is_shared
  BY RegionIsProper, TaskMemoryAssumption
<1> HIDE DEF m
<1>3. QED BY <1>1, <1>2 DEF is_shared

(* A mapping added with whatever entries back it. *)
LEMMA AddIsGood ==
  ASSUME NEW s, NEW pages, Good(s, pages), NEW m, Proper(m),
         NEW more, ManagedList(more), BackedBy(m, more),
         \A x : BackedBy(x, pages) => BackedBy(x, more)
  PROVE  Good(add_memory_map(s, m).vm, more)
<1> DEFINE after == add_memory_map(s, m).vm
<1>1. Sound(s) /\ Bounded(s) /\ \A x \in s.memmap : BackedBy(x, pages)
  BY DEF Good
<1>2. Sound(after) /\ \A x \in after.memmap : x \in s.memmap \/ x = m
  BY <1>1, AddAtMost, Zenon
<1> HIDE DEF after
<1>3. \A x \in after.memmap : BackedBy(x, more)
  BY <1>1, <1>2, Zenon
<1>4. Bounded(after)
  <2>1. PICK b \in Nat : \A x \in s.memmap : x.vmarea.end <= b
    BY <1>1 DEF Bounded
  <2> DEFINE c == b + m.vmarea.end
  <2>2. c \in Nat /\ b <= c /\ m.vmarea.end <= c
    BY DEF Proper
  <2> HIDE DEF c
  <2>3. ASSUME NEW x \in after.memmap
        PROVE  x.vmarea.end <= c
    <3>1. CASE x = m
      BY <2>2, <3>1
    <3>2. CASE x \in s.memmap
      <4>1. x.vmarea.end \in Nat /\ x.vmarea.end <= b
        BY <1>1, <2>1, <3>2 DEF Sound, WellFormed
      <4>2. QED BY <2>2, <4>1
    <3>3. QED BY <1>2, <3>1, <3>2, Zenon
  <2>4. QED BY <2>2, <2>3, Zenon DEF Bounded
<1>5. QED BY <1>2, <1>3, <1>4, Zenon DEF Good, after

Apart(pages, entries) == FramesOf(pages) \cap FramesOf(entries) = {}

Joins(all, pages, entries) == FramesOf(all) = FramesOf(pages) \cup FramesOf(entries)

(* The same with the frames of the mapping put at the end of the list. *)
LEMMA AddWithFrames ==
  ASSUME NEW s, NEW pages, Good(s, pages), NEW m, Proper(m),
         NEW entries, ManagedList(entries), BackedBy(m, entries), Apart(pages, entries)
  PROVE  /\ Good(add_memory_map(s, m).vm, pages \o entries)
         /\ Joins(pages \o entries, pages, entries)
<1> DEFINE more == pages \o entries
<1>1. /\ ManagedList(more)
      /\ FramesOf(more) = FramesOf(pages) \cup FramesOf(entries)
      /\ \A x : Recorded(x, pages) \/ Recorded(x, entries) => Recorded(x, more)
  BY AppendRecords, Zenon DEF Good, Apart
<1> HIDE DEF more
<1>2. \A x : BackedBy(x, pages) \/ BackedBy(x, entries) => BackedBy(x, more)
  BY <1>1, Zenon DEF BackedBy
<1>3. Good(add_memory_map(s, m).vm, more)
  BY <1>1, <1>2, AddIsGood, Zenon
<1>4. QED BY <1>1, <1>3, Zenon DEF more, Joins

(* lazy_map_page puts an entry into the page table and changes no mapping. *)
LEMMA FaultIsGood ==
  ASSUME NEW s, NEW pages, Good(s, pages), NEW a \in Nat
  PROVE  Good(lazy_map_page(s, a).vm, pages)
<1>1. Sound(s)
  BY DEF Good
<1>2. Sound(lazy_map_page(s, a).vm)
  BY <1>1, FaultMapsThePage
<1>3. lazy_map_page(s, a).vm.memmap = s.memmap
  BY DEF lazy_map_page
<1>4. QED BY <1>2, <1>3, Zenon DEF Good, Bounded

(* The pages of a mapping: what clone_task allocates for its copy. *)
LEMMA SizeInPages ==
  ASSUME NEW m, WellFormed(m)
  PROVE  LET n == RoundUp(Size(m.vmarea)) \div PAGE_SIZE
         IN /\ n \in Nat \ {0}
            /\ m.vmarea = Area(m.vmarea.start, m.vmarea.start + n * PAGE_SIZE - 1)
<1> USE VmAssumption
<1> DEFINE b == m.vmarea.start
           c == m.vmarea.end + 1
           q == b \div PAGE_SIZE
           r == c \div PAGE_SIZE
           d == r - q
<1>1. /\ b \in Nat /\ c \in Nat /\ b < c /\ b % PAGE_SIZE = 0 /\ c % PAGE_SIZE = 0
      /\ m.vmarea = Area(b, c - 1) /\ Size(m.vmarea) = c - b
  BY DEF WellFormed, Size
<1> HIDE DEF b, c
<1>2. q \in Nat /\ r \in Nat /\ b = PAGE_SIZE * q /\ c = PAGE_SIZE * r
  BY <1>1
<1> HIDE DEF q, r
<1>3. q < r
  <2>1. SUFFICES ASSUME r <= q
                 PROVE  FALSE
    BY <1>2
  <2>2. PAGE_SIZE * r <= PAGE_SIZE * q
    BY <1>2, <2>1
  <2>3. QED BY <1>1, <1>2, <2>2
<1>4. d \in Nat \ {0} /\ c - b = PAGE_SIZE * d
  BY <1>2, <1>3
<1> HIDE DEF d
<1>5. PAGE_SIZE * d \in Nat /\ (PAGE_SIZE * d) % PAGE_SIZE = 0 /\ (PAGE_SIZE * d) \div PAGE_SIZE = d
      /\ PAGE_SIZE * d = d * PAGE_SIZE
  BY <1>4
<1>6. RoundUp(Size(m.vmarea)) = PAGE_SIZE * d
  BY <1>1, <1>4, <1>5, RoundUpBoundary
<1>7. c - 1 = b + d * PAGE_SIZE - 1
  BY <1>1, <1>4, <1>5
<1>8. QED BY <1>1, <1>4, <1>5, <1>6, <1>7 DEF b

(* The frames allocate_raw_pages returns are consecutive and were free. *)
LEMMA AllocatesFree ==
  ASSUME NEW n \in Nat \ {0}, NEW taken, NEW f \in allocate_raw_pages(n, taken)
  PROVE  f \in Nat /\ f .. f + n - 1 \subseteq Frame /\ (f .. f + n - 1) \cap taken = {}
BY TaskMemoryAssumption DEF allocate_raw_pages

(* The addresses some mapping holds. *)
Mapped(maps) == {a \in Nat : \E m \in maps : Holds(m, a)}

(* One mapping copied by clone_task: the child's list grows by the frames  *)
(* taken, and its address space by the addresses of the mapping.           *)
LEMMA CloneStepIsGood ==
  ASSUME NEW acc, Good(acc.vm, acc.pages), FramesOf(acc.pages) \subseteq acc.used,
         acc.ok \in BOOLEAN,
         NEW m, WellFormed(m), m.is_shared => m.pmarea.start >= DeviceFrame * PAGE_SIZE
  PROVE  LET next == CloneStep(acc, m)
         IN /\ Good(next.vm, next.pages)
            /\ next.ok \in BOOLEAN
            /\ \E A \in SUBSET (Frame \ acc.used) :
                   /\ next.used = acc.used \cup A
                   /\ FramesOf(next.pages) = FramesOf(acc.pages) \cup A
            /\ next.ok => /\ acc.ok
                          /\ Mapped(next.vm.memmap) = Mapped(acc.vm.memmap) \cup Mapped({m})
<1> DEFINE next == CloneStep(acc, m)
           n == RoundUp(Size(m.vmarea)) \div PAGE_SIZE
           base == allocate_raw_pages(n, acc.used)
           f == CHOOSE g \in base : TRUE
           copy == Private(m.vmarea.start, f, n, m.permissions, m.owner)
           entries == Managed(m.vmarea.start, f, n)
<1>1. Sound(acc.vm) /\ ManagedList(acc.pages)
  BY Zenon DEF Good
<1>2. /\ n \in Nat \ {0}
      /\ m.vmarea = Area(m.vmarea.start, m.vmarea.start + n * PAGE_SIZE - 1)
  BY SizeInPages, Zenon
<1> HIDE DEF n
<1>3. ASSUME NEW x, Proper(x), x.vmarea = m.vmarea, add_memory_map(acc.vm, x).ok
      PROVE  Mapped(add_memory_map(acc.vm, x).vm.memmap) = Mapped(acc.vm.memmap) \cup Mapped({m})
  <2>1. add_memory_map(acc.vm, x).vm.memmap = acc.vm.memmap \cup {x}
    BY <1>1, <1>3, AddIsExact
  <2>2. \A a : Holds(x, a) <=> Holds(m, a)
    BY <1>3 DEF Holds
  <2>3. QED BY <2>1, <2>2 DEF Mapped
<1>4. CASE m.is_shared
  <2> DEFINE res == add_memory_map(acc.vm, m)
  <2>1. next = [acc EXCEPT !.ok = @ /\ res.ok, !.vm = res.vm]
    BY <1>4, Zenon DEF CloneStep
  <2>2. res.ok \in BOOLEAN
    BY DEF add_memory_map
  <2>3. Proper(m)
    BY DEF Proper, WellFormed
  <2>4. BackedBy(m, acc.pages)
    BY <1>4, Zenon DEF BackedBy
  <2>5. Good(res.vm, acc.pages)
    BY <1>1, <2>3, <2>4, AddIsGood, Zenon
  <2>6. res.ok => Mapped(res.vm.memmap) = Mapped(acc.vm.memmap) \cup Mapped({m})
    BY <1>3, <2>3, Zenon
  <2> HIDE DEF res, next
  <2>7. /\ next.vm = res.vm /\ next.pages = acc.pages /\ next.used = acc.used
        /\ next.ok = (acc.ok /\ res.ok)
    BY <2>1
  <2>8. /\ {} \in SUBSET (Frame \ acc.used)
        /\ acc.used = acc.used \cup {} /\ FramesOf(acc.pages) = FramesOf(acc.pages) \cup {}
    OBVIOUS
  <2>9. /\ next.ok \in BOOLEAN /\ next.ok => acc.ok /\ res.ok
    BY <2>2, <2>7, Zenon
  <2>10. QED BY <2>5, <2>6, <2>7, <2>8, <2>9, Zenon DEF next
<1>5. CASE ~m.is_shared /\ base = {}
  <2>1. next = [acc EXCEPT !.ok = FALSE]
    BY <1>5, Zenon DEF CloneStep, n
  <2> HIDE DEF next
  <2>2. /\ next.vm = acc.vm /\ next.pages = acc.pages /\ next.used = acc.used
        /\ next.ok = FALSE
    BY <2>1
  <2>3. /\ {} \in SUBSET (Frame \ acc.used)
        /\ acc.used = acc.used \cup {} /\ FramesOf(acc.pages) = FramesOf(acc.pages) \cup {}
    OBVIOUS
  <2>4. QED BY <2>2, <2>3, Zenon DEF next
<1>6. CASE ~m.is_shared /\ base # {}
  <2> DEFINE res == add_memory_map(acc.vm, copy)
             A == f .. f + n - 1
  <2>1. next = [acc EXCEPT !.ok = @ /\ res.ok, !.vm = res.vm,
                           !.pages = @ \o entries, !.used = @ \cup A]
    BY <1>6, Zenon DEF CloneStep, n
  <2>2. f \in base
    BY <1>6, Zenon
  <2> HIDE DEF f
  <2>3. f \in Nat /\ A \subseteq Frame /\ A \cap acc.used = {}
    BY <1>2, <2>2, AllocatesFree, Zenon
  <2>4. m.vmarea.start \in Nat /\ m.vmarea.start % PAGE_SIZE = 0
    BY DEF WellFormed
  <2>5. /\ Proper(copy) /\ copy.vmarea = m.vmarea /\ copy.pmarea.start = f * PAGE_SIZE
        /\ ~copy.is_shared
    <3>1. /\ Proper(copy)
          /\ copy.vmarea = Area(m.vmarea.start, m.vmarea.start + n * PAGE_SIZE - 1)
          /\ copy.pmarea.start = f * PAGE_SIZE /\ ~copy.is_shared
      BY <1>2, <2>3, <2>4, PrivateIsProper
    <3>2. QED BY <1>2, <3>1, Zenon
  <2>6. n \in Nat
    BY <1>2
  <2> HIDE DEF copy
  <2>7. ManagedList(entries) /\ FramesOf(entries) = A /\ Recorded(copy, entries)
    <3>1. copy.vmarea = Area(m.vmarea.start, m.vmarea.start + n * PAGE_SIZE - 1)
      BY <1>2, <2>5
    <3>2. FrameRun(f, n)
      BY <2>3, <2>6 DEF FrameRun
    <3>3. RecordsRun(entries, m.vmarea.start, f, n)
      BY <2>4, <3>2, ManagedRecords
    <3> HIDE DEF entries
    <3>4. QED BY <2>5, <3>1, <3>3, Zenon DEF RecordsRun
  <2> HIDE DEF entries, A
  <2>8. BackedBy(copy, entries)
    BY <2>5, <2>7, Zenon DEF BackedBy
  <2>9. Apart(acc.pages, entries)
    BY <2>3, <2>7, Zenon DEF Apart
  <2>10. /\ Good(res.vm, acc.pages \o entries)
         /\ FramesOf(acc.pages \o entries) = FramesOf(acc.pages) \cup A
    <3>1. Good(res.vm, acc.pages \o entries) /\ Joins(acc.pages \o entries, acc.pages, entries)
      BY <2>5, <2>7, <2>8, <2>9, AddWithFrames, Zenon
    <3>2. QED BY <2>7, <3>1, Zenon DEF Joins
  <2>11. res.ok \in BOOLEAN
    BY DEF add_memory_map
  <2>12. res.ok => Mapped(res.vm.memmap) = Mapped(acc.vm.memmap) \cup Mapped({m})
    BY <1>3, <2>5, Zenon
  <2> HIDE DEF res, next
  <2>13. /\ next.vm = res.vm /\ next.pages = acc.pages \o entries
         /\ next.used = acc.used \cup A /\ next.ok = (acc.ok /\ res.ok)
    BY <2>1
  <2>14. next.ok \in BOOLEAN /\ (next.ok => acc.ok /\ res.ok)
    BY <2>11, <2>13, Zenon
  <2>15. A \in SUBSET (Frame \ acc.used)
    BY <2>3
  <2>16. QED BY <2>10, <2>12, <2>13, <2>14, <2>15, Zenon DEF next
<1>7. QED BY <1>4, <1>5, <1>6, Zenon

CloneLoop == INSTANCE IterationProofs WITH Step <- CloneStep

(* A new task owns nothing and maps nothing. *)
LEMMA NewIsGood ==
  /\ Good(NewVm, <<>>) /\ FramesOf(<<>>) = {} /\ Mapped(NewVm.memmap) = {}
<1>1. NewVm.memmap = {}
  BY DEF NewVm
<1>2. Sound(NewVm) /\ Bounded(NewVm)
  BY <1>1, NewIsSound DEF Bounded
<1>3. <<>> \in Seq([vaddr : Nat, frame : Frame]) /\ DOMAIN <<>> = {}
  OBVIOUS
<1>4. ManagedList(<<>>)
  BY <1>3 DEF ManagedList
<1>5. FramesOf(<<>>) = {}
  BY <1>3 DEF FramesOf
<1>6. QED BY <1>1, <1>2, <1>4, <1>5 DEF Good, Mapped

(* clone_task's copy of an address space: the child is backed by frames    *)
(* of its own that nobody had, and when no copy failed it maps exactly the *)
(* addresses its parent maps.                                              *)
THEOREM CloneMapsIsGood ==
  ASSUME NEW s, NEW pages, Good(s, pages), NEW taken \in SUBSET Frame
  PROVE  LET res == CloneMaps(s, taken)
         IN /\ Good(res.vm, res.pages)
            /\ res.used = taken \cup FramesOf(res.pages)
            /\ FramesOf(res.pages) \cap taken = {}
            /\ res.ok => Mapped(res.vm.memmap) = Mapped(s.memmap)
<1> DEFINE start == [ok |-> TRUE, vm |-> NewVm, pages |-> <<>>, used |-> taken]
           items == InOrder(s.memmap)
           n == Len(items)
           res == CloneMaps(s, taken)
<1>1. Sound(s) /\ Bounded(s) /\ \A m \in s.memmap : WellFormed(m) /\ BackedBy(m, pages)
  BY DEF Good, Sound
<1>2. /\ n \in Nat
      /\ \A i \in 1 .. n : items[i] \in s.memmap
      /\ \A m \in s.memmap : \E i \in 1 .. n : items[i] = m
  <2>1. PICK b \in Nat : \A m \in s.memmap : m.vmarea.end <= b
    BY <1>1 DEF Bounded
  <2>2. \A m \in s.memmap : m.vmarea.start \in Nat /\ m.vmarea.start <= b
    BY <1>1, <2>1 DEF WellFormed
  <2>3. \A m, x \in s.memmap : m.vmarea.start = x.vmarea.start => m = x
    BY <1>1, OneHolds, Zenon
  <2>4. QED BY <2>2, <2>3, InOrderLists, Zenon
<1>3. PICK run : /\ run[0] = start
                 /\ \A k \in 1 .. n : run[k] = CloneStep(run[k - 1], items[k])
                 /\ res = run[n]
  <2>1. res = CloneLoop!Iterate(start, items)
    BY Zenon DEF CloneMaps, CloneLoop!Iterate, Cloning!Iterate
  <2>2. Len(items) \in Nat
    BY <1>2
  <2> HIDE DEF res, start, items
  <2>3. CloneLoop!CountsUp(Len(items))
    BY <2>2, CountUp, Zenon DEF CloneLoop!CountsUp
  <2>4. \E run : /\ run[0] = start
                 /\ \A k \in 1 .. Len(items) : run[k] = CloneStep(run[k - 1], items[k])
                 /\ CloneLoop!Iterate(start, items) = run[Len(items)]
    <3>1. \E run : CloneLoop!Runs(start, items, run)
      BY <2>2, <2>3, CloneLoop!IterateIsALoop, Zenon
    <3>2. QED BY <3>1, Zenon DEF CloneLoop!Runs
  <2>5. QED BY <2>1, <2>4, Zenon
<1> DEFINE Seen(k) == {items[i] : i \in 1 .. k}
           Copied(k, acc) ==
               /\ Good(acc.vm, acc.pages) /\ acc.ok \in BOOLEAN
               /\ acc.used = taken \cup FramesOf(acc.pages)
               /\ FramesOf(acc.pages) \cap taken = {}
               /\ acc.ok => Mapped(acc.vm.memmap) = Mapped(Seen(k))
           S == {k \in 0 .. n : Copied(k, run[k])}
<1> HIDE DEF items, n, res
<1>4. 0 \in S
  <2>1. run[0].vm = NewVm /\ run[0].pages = <<>> /\ run[0].used = taken /\ run[0].ok = TRUE
    BY <1>3
  <2>2. Seen(0) = {}
    OBVIOUS
  <2>3. Mapped(Seen(0)) = {}
    BY <2>2 DEF Mapped
  <2>4. Copied(0, run[0])
    <3> HIDE DEF Seen
    <3>1. QED BY <2>1, <2>3, NewIsGood, Zenon
  <2>5. 0 \in 0 .. n
    BY <1>2
  <2> HIDE DEF Copied
  <2>6. QED BY <2>4, <2>5
<1>5. ASSUME NEW k \in 0 .. n, k \in S, k < n
      PROVE  k + 1 \in S
  <2> DEFINE acc == run[k]
             next == run[k + 1]
             m == items[k + 1]
  <2>1. Copied(k, acc)
    BY <1>5
  <2>2. k \in Nat /\ k + 1 \in 1 .. n /\ k + 1 \in 0 .. n /\ (k + 1) - 1 = k
    BY <1>2, <1>5
  <2>3. next = CloneStep(acc, m)
    BY <1>3, <2>2
  <2>4. m \in s.memmap
    BY <1>2, <2>2
  <2>5. WellFormed(m) /\ (m.is_shared => m.pmarea.start >= DeviceFrame * PAGE_SIZE)
    BY <1>1, <2>4, Zenon DEF BackedBy
  <2>6. Seen(k + 1) = Seen(k) \cup {m}
    BY <2>2
  <2>7. Mapped(Seen(k + 1)) = Mapped(Seen(k)) \cup Mapped({m})
    <3> HIDE DEF Seen, m
    <3>1. QED BY <2>6 DEF Mapped
  <2> HIDE DEF acc, next, m, Seen
  <2>8. FramesOf(acc.pages) \subseteq acc.used
    BY <2>1
  <2>9. /\ Good(next.vm, next.pages) /\ next.ok \in BOOLEAN
        /\ \E A \in SUBSET (Frame \ acc.used) :
               /\ next.used = acc.used \cup A
               /\ FramesOf(next.pages) = FramesOf(acc.pages) \cup A
        /\ next.ok => /\ acc.ok
                      /\ Mapped(next.vm.memmap) = Mapped(acc.vm.memmap) \cup Mapped({m})
    BY <2>1, <2>3, <2>5, <2>8, CloneStepIsGood, Zenon
  <2>10. PICK A \in SUBSET (Frame \ acc.used) :
             /\ next.used = acc.used \cup A
             /\ FramesOf(next.pages) = FramesOf(acc.pages) \cup A
    BY <2>9
  <2>11. /\ next.used = taken \cup FramesOf(next.pages)
         /\ FramesOf(next.pages) \cap taken = {}
    BY <2>1, <2>10
  <2>12. next.ok => Mapped(next.vm.memmap) = Mapped(Seen(k + 1))
    BY <2>1, <2>7, <2>9, Zenon
  <2>13. Copied(k + 1, next)
    BY <2>9, <2>11, <2>12, Zenon
  <2> HIDE DEF Copied
  <2>14. QED BY <2>2, <2>13 DEF next
<1> HIDE DEF S
<1>6. n \in S
  <2>1. 0 .. n \subseteq S
    BY <1>2, <1>4, <1>5, CountUp
  <2>2. n \in 0 .. n
    BY <1>2
  <2>3. QED BY <2>1, <2>2
<1>7. Copied(n, res)
  BY <1>3, <1>6 DEF S
<1>8. Seen(n) = s.memmap
  BY <1>2
<1>9. QED BY <1>7, <1>8, Zenon DEF res

-----------------------------------------------------------------------------
(* What a step does to the meaning of addresses. *)

(* Entered for two address spaces, and what MapKeepsTheRest asks of them. *)
Entering(s, r) ==
    {m \in r.memmap :
        \E a \in m.vmarea.start .. m.vmarea.end : Meaning(r, a) # Meaning(s, a)}

KeepsRest(s, r) ==
    Entering(s, r) # {} =>
        \A a \in UserAddr :
            (\A m \in Entering(s, r) : ~Holds(m, a)) => Meaning(r, a) = Meaning(s, a)

(* An address has at most one meaning. *)
LEMMA OneMeaning ==
  ASSUME NEW s, Sound(s), NEW a \in Nat, NEW x \in Meaning(s, a), NEW y \in Meaning(s, a)
  PROVE  x = y
<1>1. PICK m \in s.memmap : Holds(m, a) /\ x = m.pmarea.start + (a - m.vmarea.start)
  BY DEF Meaning
<1>2. PICK n \in s.memmap : Holds(n, a) /\ y = n.pmarea.start + (a - n.vmarea.start)
  BY DEF Meaning
<1>3. m = n
  BY <1>1, <1>2, OneHolds, Zenon
<1>4. QED BY <1>1, <1>2, <1>3

(* A step that only takes meanings away enters no mapping. *)
LEMMA LessEntersNothing ==
  ASSUME NEW s, Sound(s), NEW r, Sound(r), \A a \in Nat : Meaning(r, a) \subseteq Meaning(s, a)
  PROVE  KeepsRest(s, r)
<1> SUFFICES ASSUME NEW m \in r.memmap, NEW a \in m.vmarea.start .. m.vmarea.end
             PROVE  Meaning(r, a) = Meaning(s, a)
  BY Zenon DEF KeepsRest, Entering
<1>1. WellFormed(m)
  BY DEF Sound
<1>2. a \in Nat /\ Holds(m, a)
  BY <1>1 DEF WellFormed, Holds
<1>3. Meaning(r, a) # {}
  BY <1>2 DEF Meaning
<1>4. \A x, y \in Meaning(s, a) : x = y
  BY <1>2, OneMeaning
<1>5. QED BY <1>2, <1>3, <1>4

(* A step that changes meanings only where a new mapping holds. *)
LEMMA NewEntersItself ==
  ASSUME NEW s, NEW r, Sound(r), NEW new \in r.memmap,
         \A a \in Nat : ~Holds(new, a) => Meaning(r, a) = Meaning(s, a)
  PROVE  KeepsRest(s, r)
<1> SUFFICES ASSUME NEW a \in UserAddr, \A m \in Entering(s, r) : ~Holds(m, a)
             PROVE  Meaning(r, a) = Meaning(s, a)
  BY Zenon DEF KeepsRest
<1>1. a \in Nat
  BY VmAssumption DEF UserAddr
<1>2. CASE ~Holds(new, a)
  BY <1>1, <1>2
<1>3. CASE Holds(new, a)
  <2>1. new \notin Entering(s, r)
    BY <1>3
  <2>2. WellFormed(new)
    BY DEF Sound
  <2>3. a \in new.vmarea.start .. new.vmarea.end
    BY <1>1, <1>3, <2>2 DEF Holds, WellFormed
  <2>4. QED BY <2>1, <2>3, Zenon DEF Entering
<1>4. QED BY <1>2, <1>3

(* A mapping added without a clash means something for its own addresses   *)
(* only.                                                                   *)
LEMMA AddKeepsRest ==
  ASSUME NEW s, Sound(s), NEW m, Proper(m), add_memory_map(s, m).ok
  PROVE  KeepsRest(s, add_memory_map(s, m).vm)
<1> DEFINE r == add_memory_map(s, m).vm
<1>1. Sound(r) /\ r.memmap = s.memmap \cup {m}
  BY AddIsExact
<1> HIDE DEF r
<1>2. \A a \in Nat : ~Holds(m, a) => Meaning(r, a) = Meaning(s, a)
  BY <1>1 DEF Meaning
<1>3. QED BY <1>1, <1>2, NewEntersItself DEF r

-----------------------------------------------------------------------------
(* One task changes: the shape of most calls. *)

RestKept == \A t \in live \cap live' : KeepsRest(vm[t], vm'[t])

(* A task that gives back frames D it owned and takes free frames A, and   *)
(* whose memory is good afterwards, leaves all tasks as they should be.    *)
LEMMA TaskChanges ==
  ASSUME FramesInv, NEW t \in live,
         NEW s, NEW pages, Good(s, pages), KeepsRest(vm[t], s),
         NEW D, D \subseteq FramesOf(managed_pages[t]),
         NEW A, A \subseteq Frame, A \cap used = {},
         FramesOf(pages) \subseteq (FramesOf(managed_pages[t]) \ D) \cup A,
         vm' = [vm EXCEPT ![t] = s],
         managed_pages' = [managed_pages EXCEPT ![t] = pages],
         used' = (used \ D) \cup A,
         live' = live
  PROVE  FramesInv' /\ RestKept
<1> USE DEF FramesInv
<1>1. t \in Task /\ vm'[t] = s /\ managed_pages'[t] = pages
  BY Zenon
<1>2. \A u \in live : u # t => vm'[u] = vm[u] /\ managed_pages'[u] = managed_pages[u]
  BY Zenon
<1>3. used' \subseteq Frame
  BY Zenon
<1>4. /\ vm' = [u \in Task |-> vm'[u]]
      /\ managed_pages' = [u \in Task |-> managed_pages'[u]]
  BY Zenon
<1>5. ASSUME NEW u \in live
      PROVE  /\ Good(vm'[u], managed_pages'[u])
             /\ FramesOf(managed_pages'[u]) \subseteq used'
  <2>1. CASE u = t
    BY <1>1, <2>1, Zenon
  <2>2. CASE u # t
    <3>1. FramesOf(managed_pages[u]) \cap FramesOf(managed_pages[t]) = {}
          /\ FramesOf(managed_pages[u]) \subseteq used
      BY <2>2, Zenon
    <3>2. FramesOf(managed_pages[u]) \subseteq used'
      BY <3>1, Zenon
    <3>3. QED BY <1>2, <2>2, <3>2, Zenon
  <2>3. QED BY <2>1, <2>2
<1>6. ASSUME NEW u \in live, u # t
      PROVE  FramesOf(managed_pages'[t]) \cap FramesOf(managed_pages'[u]) = {}
  <2>1. FramesOf(managed_pages[u]) \cap FramesOf(managed_pages[t]) = {}
        /\ FramesOf(managed_pages[u]) \subseteq used
    BY <1>6, Zenon
  <2>2. QED BY <1>1, <1>2, <1>6, <2>1, Zenon
<1>7. ASSUME NEW u \in live, NEW v \in live, u # v
      PROVE  FramesOf(managed_pages'[u]) \cap FramesOf(managed_pages'[v]) = {}
  <2>1. CASE u = t
    BY <1>6, <1>7, <2>1, Zenon
  <2>2. CASE v = t
    BY <1>6, <1>7, <2>2, Zenon
  <2>3. CASE u # t /\ v # t
    BY <1>2, <1>7, <2>3, Zenon
  <2>4. QED BY <2>1, <2>2, <2>3
<1>8. FramesInv'
  BY <1>3, <1>4, <1>5, <1>7, Zenon
<1>9. \A u \in live : KeepsRest(vm[u], vm'[u])
  <2>1. \A u \in live : u # t => KeepsRest(vm[u], vm'[u])
    BY <1>2, LessEntersNothing, Zenon DEF Good
  <2>2. QED BY <1>1, <2>1, Zenon
<1>10. QED BY <1>8, <1>9, Zenon DEF RestKept

-----------------------------------------------------------------------------
(* The calls, one by one. *)

(* The address a mapping is put at starts a page. *)
LEMMA PlacedIsAligned ==
  ASSUME FramesInv, NEW t \in live, NEW v \in Nat, NEW n \in Nat \ {0}, Placed(t, v, n) # None
  PROVE  Placed(t, v, n) \in Nat /\ Placed(t, v, n) % PAGE_SIZE = 0
<1>1. CASE v # 0
  BY <1>1 DEF Placed
<1>2. CASE v = 0
  <2>1. Sound(vm[t]) /\ Bounded(vm[t])
    BY DEF FramesInv, Good
  <2>2. n * PAGE_SIZE \in Nat \ {0}
    BY VmAssumption
  <2> DEFINE a == find_unmapped_area(vm[t], n * PAGE_SIZE)
             free == FreeAreas(vm[t], RoundUp(n * PAGE_SIZE))
  <2>3. Placed(t, v, n) = a
    BY <1>2, Zenon DEF Placed
  <2>4. \/ a \in free /\ a % PAGE_SIZE = 0
        \/ a = None
    BY <2>1, <2>2, FirstFit, Zenon
  <2>5. free \subseteq Nat
    BY DEF FreeAreas
  <2> HIDE DEF a, free
  <2>6. QED BY <2>3, <2>4, <2>5, Zenon
<1>3. QED BY <1>1, <1>2

(* MapOver for a mapping with frames of its own, or with none. *)
LEMMA MapOverKeeps ==
  ASSUME FramesInv, NEW t \in live, NEW m, Proper(m), Aligned(m),
         NEW entries, ManagedList(entries), BackedBy(m, entries),
         FramesOf(entries) \cap used = {},
         MapOver(t, m, entries, FramesOf(entries)), live' = live
  PROVE  FramesInv' /\ RestKept
<1> DEFINE s == vm[t]
           pages == managed_pages[t]
           res == add_memory_map_fixed(s, m)
           gone == PagesToDrop(res.overwritten)
           after == remove_managed_pages(pages, gone) \o entries
           D == Dropped(pages, gone)
           A == FramesOf(entries)
<1>1. Good(s, pages) /\ FramesOf(pages) \subseteq used
  BY Zenon DEF FramesInv
<1>2. FramesOf(pages) \cap FramesOf(entries) = {}
  BY <1>1, Zenon
<1>3. /\ Good(res.vm, after)
      /\ FramesOf(after) = (FramesOf(pages) \ D) \cup A
      /\ D \subseteq FramesOf(pages)
  BY <1>1, <1>2, MapOverIsGood, Zenon
<1>4. KeepsRest(s, res.vm)
  <2>1. Sound(s) /\ Sound(res.vm)
    BY <1>1, <1>3, Zenon DEF Good
  <2>2. \A a \in Nat : ~Holds(m, a) => Meaning(res.vm, a) = Meaning(s, a)
    BY <2>1, FixedKeepsTheRest, Zenon
  <2>3. m \in res.vm.memmap
    BY Zenon DEF add_memory_map_fixed, Insert
  <2>4. QED BY <2>1, <2>2, <2>3, NewEntersItself, Zenon
<1>5. A \subseteq Frame
  BY ListedFrames
<1>6. /\ vm' = [vm EXCEPT ![t] = res.vm]
      /\ managed_pages' = [managed_pages EXCEPT ![t] = after]
      /\ used' = (used \ D) \cup A
  BY DEF MapOver
<1> HIDE DEF res, after, D, A
<1>7. FramesOf(after) \subseteq (FramesOf(pages) \ D) \cup A /\ A \cap used = {}
  BY <1>3, Zenon DEF A
<1>8. QED BY <1>3, <1>4, <1>5, <1>6, <1>7, TaskChanges, Zenon

(* handle_anonymous_mapping, whether an address is found or the frames     *)
(* are left behind.                                                        *)
LEMMA MapAnonymousKeeps ==
  ASSUME FramesInv, NEW t \in live, NEW v \in Nat, NEW n \in Nat \ {0}, MapAnonymous(t, v, n)
  PROVE  FramesInv' /\ RestKept
<1> DEFINE at == Placed(t, v, n)
<1>1. live' = live
  BY DEF MapAnonymous
<1>2. PICK f \in allocate_raw_pages(n, used) :
         IF at = None
         THEN used' = used \cup (f .. f + n - 1) /\ UNCHANGED <<vm, managed_pages>>
         ELSE MapOver(t, Private(at, f, n, "rw", None), Managed(at, f, n), f .. f + n - 1)
  BY Zenon DEF MapAnonymous
<1>3. f \in Nat /\ f .. f + n - 1 \subseteq Frame /\ (f .. f + n - 1) \cap used = {}
  BY AllocatesFree
<1>4. CASE at = None
  <2>1. used' = used \cup (f .. f + n - 1) /\ vm' = vm /\ managed_pages' = managed_pages
    BY <1>2, <1>4, Zenon
  <2> DEFINE A == f .. f + n - 1
             s == vm[t]
             pages == managed_pages[t]
  <2>2. Good(s, pages) /\ t \in Task
    BY Zenon DEF FramesInv
  <2>3. KeepsRest(s, s)
    BY <2>2, LessEntersNothing, Zenon DEF Good
  <2>4. vm' = [vm EXCEPT ![t] = s] /\ managed_pages' = [managed_pages EXCEPT ![t] = pages]
    BY <2>1, <2>2, Zenon DEF FramesInv
  <2> HIDE DEF A
  <2>5. /\ {} \subseteq FramesOf(pages) /\ used' = (used \ {}) \cup A
        /\ FramesOf(pages) \subseteq (FramesOf(pages) \ {}) \cup A
    BY <2>1 DEF A
  <2>6. A \subseteq Frame /\ A \cap used = {}
    BY <1>3 DEF A
  <2>7. QED BY <1>1, <2>2, <2>3, <2>4, <2>5, <2>6, TaskChanges, Zenon
<1>5. CASE at # None
  <2> DEFINE m == Private(at, f, n, "rw", None)
             entries == Managed(at, f, n)
  <2>1. at \in Nat /\ at % PAGE_SIZE = 0
    BY <1>5, PlacedIsAligned, Zenon
  <2> HIDE DEF at
  <2>2. /\ Proper(m) /\ Aligned(m) /\ ~m.is_shared
        /\ m.vmarea = Area(at, at + n * PAGE_SIZE - 1) /\ m.pmarea.start = f * PAGE_SIZE
    <3> DEFINE permissions == "rw"
    <3> HIDE DEF permissions
    <3>1. LET x == Private(at, f, n, permissions, None)
          IN /\ Proper(x) /\ Aligned(x) /\ ~x.is_shared
             /\ x.vmarea = Area(at, at + n * PAGE_SIZE - 1) /\ x.pmarea.start = f * PAGE_SIZE
      BY <1>3, <2>1, PrivateIsProper
    <3>2. QED BY <3>1 DEF permissions
  <2>3. n \in Nat
    OBVIOUS
  <2>4. /\ ManagedList(entries) /\ FramesOf(entries) = f .. f + n - 1
        /\ \A x : /\ x.vmarea = Area(at, at + n * PAGE_SIZE - 1)
                  /\ x.pmarea.start = f * PAGE_SIZE
                 => Recorded(x, entries)
    <3>1. FrameRun(f, n)
      BY <1>3, <2>3, Zenon DEF FrameRun
    <3>2. RecordsRun(entries, at, f, n)
      BY <2>1, <3>1, ManagedRecords
    <3> HIDE DEF entries
    <3>3. QED BY <3>2, Zenon DEF RecordsRun
  <2>5. MapOver(t, m, entries, FramesOf(entries))
    BY <1>2, <1>5, <2>4, Zenon
  <2> HIDE DEF m, entries
  <2>6. BackedBy(m, entries)
    BY <2>2, <2>4, Zenon DEF BackedBy
  <2>7. FramesOf(entries) \cap used = {}
    BY <1>3, <2>4, Zenon
  <2>8. QED BY <1>1, <2>2, <2>4, <2>5, <2>6, <2>7, MapOverKeeps, Zenon
<1>6. QED BY <1>4, <1>5

(* sys_memory_map of a device's memory: no frame is the task's. *)
LEMMA MapObjectKeeps ==
  ASSUME FramesInv, NEW t \in live, NEW v \in Nat, NEW n \in Nat \ {0}, MapObject(t, v, n)
  PROVE  FramesInv' /\ RestKept
<1> DEFINE at == Placed(t, v, n)
           m == Device(at, n)
<1>1. at # None /\ MapOver(t, m, <<>>, {}) /\ live' = live
  BY Zenon DEF MapObject
<1>2. at \in Nat /\ at % PAGE_SIZE = 0
  BY <1>1, PlacedIsAligned, Zenon
<1> HIDE DEF at
<1>3. /\ Proper(m) /\ Aligned(m)
      /\ m.pmarea.start = DeviceFrame * PAGE_SIZE /\ m.is_shared
  BY <1>2, DeviceIsProper
<1> HIDE DEF m
<1>4. m.pmarea.start >= DeviceFrame * PAGE_SIZE
  <2>1. DeviceFrame * PAGE_SIZE \in Nat
    BY TaskMemoryAssumption, VmAssumption
  <2>2. QED BY <1>3, <2>1
<1>5. BackedBy(m, <<>>)
  BY <1>3, <1>4, Zenon DEF BackedBy
<1>6. ManagedList(<<>>) /\ FramesOf(<<>>) = {}
  BY NewIsGood, Zenon DEF Good
<1>7. FramesOf(<<>>) \cap used = {} /\ MapOver(t, m, <<>>, FramesOf(<<>>))
  BY <1>1, <1>6, Zenon
<1>8. QED BY <1>1, <1>3, <1>5, <1>6, <1>7, MapOverKeeps, Zenon

(* sys_memory_unmap. *)
LEMMA UnmapKeeps ==
  ASSUME FramesInv, NEW t \in live, NEW v \in Nat, Unmap(t, v)
  PROVE  FramesInv' /\ RestKept
<1> DEFINE s == vm[t]
           pages == managed_pages[t]
           res == remove_memory_map_by_addr(s, v)
           gone == PagesToDrop(res.removed)
           left == remove_managed_pages(pages, gone)
           D == Dropped(pages, gone)
<1>1. Good(s, pages)
  BY Zenon DEF FramesInv
<1>2. /\ Good(res.vm, left)
      /\ FramesOf(left) = FramesOf(pages) \ D
      /\ D \subseteq FramesOf(pages)
      /\ \A x \in Nat : Meaning(res.vm, x) \subseteq Meaning(s, x)
  BY <1>1, UnmapIsGood, Zenon
<1>3. KeepsRest(s, res.vm)
  BY <1>1, <1>2, LessEntersNothing, Zenon DEF Good
<1>4. /\ vm' = [vm EXCEPT ![t] = res.vm]
      /\ managed_pages' = [managed_pages EXCEPT ![t] = left]
      /\ used' = used \ D /\ live' = live
  BY DEF Unmap
<1> HIDE DEF res, left, D
<1>5. /\ {} \subseteq Frame /\ {} \cap used = {} /\ used' = (used \ D) \cup {}
      /\ FramesOf(left) \subseteq (FramesOf(pages) \ D) \cup {}
  BY <1>2, <1>4
<1>6. QED BY <1>2, <1>3, <1>4, <1>5, TaskChanges, Zenon

(* A larger break is rounded up to a larger address, or to the same. *)
LEMMA RoundUpMonotone ==
  ASSUME NEW a \in Nat, NEW b \in Nat, a <= b
  PROVE  /\ RoundUp(a) \in Nat /\ RoundUp(b) \in Nat
         /\ (RoundUp(b) - RoundUp(a)) \div PAGE_SIZE \in Nat
<1> USE VmAssumption
<1>1. RoundUp(a) \in Nat /\ RoundUp(b) \in Nat /\ RoundUp(a) % PAGE_SIZE = 0
      /\ RoundUp(a) < a + PAGE_SIZE
  BY RoundUpBoundary
<1> DEFINE x == RoundUp(a)
           c == b + PAGE_SIZE - 1
<1>2. c \in Nat /\ x <= c
  BY <1>1
<1> HIDE DEF x, c
<1>3. x <= RoundDown(c)
  BY <1>1, <1>2, PageStart DEF x
<1>4. RoundUp(a) <= RoundUp(b)
  BY <1>3 DEF x, c, RoundUp
<1>5. \A d \in Nat : d \div PAGE_SIZE \in Nat
  OBVIOUS
<1>6. RoundUp(b) - RoundUp(a) \in Nat
  BY <1>1, <1>4
<1>7. QED BY <1>1, <1>5, <1>6

(* The break is a number. *)
LEMMA BreakIsNat ==
  ASSUME BreaksInv, NEW t \in Task
  PROVE  get_brk(t) \in Nat
<1>1. CASE brk[t] = None
  <2>1. text_size[t] \in Nat /\ data_size[t] \in Nat
    BY DEF BreaksInv
  <2>2. QED BY <1>1, <2>1 DEF get_brk
<1>2. CASE brk[t] # None
  BY <1>2, Zenon DEF get_brk, BreaksInv
<1>3. QED BY <1>1, <1>2

(* A step that leaves the memory of all tasks alone. *)
LEMMA MemoryUnchanged ==
  ASSUME FramesInv, UNCHANGED <<vm, managed_pages, live, used>>
  PROVE  FramesInv' /\ RestKept
<1>1. FramesInv'
  BY DEF FramesInv
<1>2. \A t \in live : Sound(vm[t])
  BY Zenon DEF FramesInv, Good
<1>3. RestKept
  BY <1>2, LessEntersNothing, Zenon DEF RestKept
<1>4. QED BY <1>1, <1>3

(* set_brk downwards: free_pages from the new break to the old one. *)
LEMMA ShrinkKeeps ==
  ASSUME FramesInv, BreaksInv, NEW t \in live, NEW b \in Nat, Shrink(t, b)
  PROVE  FramesInv' /\ BreaksInv' /\ RestKept
<1> DEFINE at == RoundUp(b)
           n == (RoundUp(get_brk(t)) - at) \div PAGE_SIZE
           s == vm[t]
           pages == managed_pages[t]
           res == free_pages(s, pages, at, n)
<1>1. t \in Task /\ Good(s, pages)
  BY Zenon DEF FramesInv
<1>2. get_brk(t) \in Nat /\ b < get_brk(t)
  BY <1>1, BreakIsNat DEF Shrink
<1>3. at \in Nat /\ n \in Nat
  <2>1. b <= get_brk(t)
    BY <1>2
  <2>2. QED BY <1>2, <2>1, RoundUpMonotone, Zenon
<1>4. CASE Underflows(t, n)
  <2>1. Panic
    BY <1>4, Zenon DEF Shrink
  <2>2. QED BY <2>1, MemoryUnchanged DEF Panic, BreaksInv
<1>5. CASE ~Underflows(t, n)
  <2>1. /\ vm' = [vm EXCEPT ![t] = res.vm]
        /\ managed_pages' = [managed_pages EXCEPT ![t] = res.pages]
        /\ used' = used \ res.freed
        /\ data_size' = [data_size EXCEPT ![t] = @ - n * PAGE_SIZE]
        /\ brk' = [brk EXCEPT ![t] = b]
        /\ UNCHANGED <<text_size, live>>
    BY <1>5, Zenon DEF Shrink
  <2> HIDE DEF n, at
  <2>2. /\ Good(res.vm, res.pages)
        /\ FramesOf(res.pages) = FramesOf(pages) \ res.freed
        /\ res.freed \subseteq FramesOf(pages)
        /\ \A a \in Nat : Meaning(res.vm, a) \subseteq Meaning(s, a)
    BY <1>1, <1>3, FreePagesIsGood, Zenon
  <2> HIDE DEF res
  <2>3. KeepsRest(s, res.vm)
    BY <1>1, <2>2, LessEntersNothing, Zenon DEF Good
  <2>4. /\ {} \subseteq Frame /\ {} \cap used = {} /\ used' = (used \ res.freed) \cup {}
        /\ FramesOf(res.pages) \subseteq (FramesOf(pages) \ res.freed) \cup {}
    BY <2>1, <2>2, Zenon
  <2>5. live' = live
    BY <2>1
  <2>6. FramesInv' /\ RestKept
    BY <2>1, <2>2, <2>3, <2>4, <2>5, TaskChanges, Zenon
  <2>7. data_size[t] - n * PAGE_SIZE \in Nat
    <3>1. data_size[t] \in Nat /\ n * PAGE_SIZE \in Nat
      BY <1>1, <1>3, VmAssumption DEF BreaksInv
    <3>2. QED BY <1>5, <3>1 DEF Underflows
  <2>8. BreaksInv'
    BY <1>1, <2>1, <2>7 DEF BreaksInv
  <2>9. QED BY <2>6, <2>8
<1>6. QED BY <1>4, <1>5

(* set_brk upwards: nothing, new pages, or the panic of allocate_pages. *)
LEMMA GrowKeeps ==
  ASSUME FramesInv, BreaksInv, NEW t \in live, NEW b \in Nat, Grow(t, b)
  PROVE  FramesInv' /\ BreaksInv' /\ RestKept
<1> DEFINE at == RoundUp(get_brk(t))
           n == (RoundUp(b) - at) \div PAGE_SIZE
           s == vm[t]
           pages == managed_pages[t]
<1>1. t \in Task /\ Good(s, pages) /\ FramesOf(pages) \subseteq used
  BY Zenon DEF FramesInv
<1>2. get_brk(t) \in Nat /\ b > get_brk(t)
  BY <1>1, BreakIsNat DEF Grow
<1>3. at \in Nat /\ at % PAGE_SIZE = 0 /\ n \in Nat
  <2>1. get_brk(t) <= b
    BY <1>2
  <2>2. at \in Nat /\ n \in Nat
    BY <1>2, <2>1, RoundUpMonotone, Zenon
  <2>3. QED BY <1>2, <2>2, RoundUpBoundary
<1>4. CASE n = 0 \/ Backed(t, at)
  <2>1. /\ brk' = [brk EXCEPT ![t] = b]
        /\ UNCHANGED <<text_size, live>> /\ UNCHANGED <<vm, managed_pages, data_size, used>>
    BY <1>4, Zenon DEF Grow
  <2>2. FramesInv' /\ RestKept
    BY <2>1, MemoryUnchanged
  <2>3. BreaksInv'
    BY <1>1, <2>1, Zenon DEF BreaksInv
  <2>4. QED BY <2>2, <2>3
<1>5. CASE ~(n = 0 \/ Backed(t, at))
  <2> DEFINE m(f) == Private(at, f, n, "rw", None)
  <2>1. PICK f \in allocate_raw_pages(n, used) :
           LET res == add_memory_map(s, m(f))
           IN IF ~res.ok THEN Panic
              ELSE /\ brk' = [brk EXCEPT ![t] = b] /\ UNCHANGED <<text_size, live>>
                   /\ vm' = [vm EXCEPT ![t] = res.vm]
                   /\ managed_pages' = [managed_pages EXCEPT ![t] = @ \o Managed(at, f, n)]
                   /\ used' = used \cup (f .. f + n - 1)
                   /\ data_size' = [data_size EXCEPT ![t] = @ + n * PAGE_SIZE]
    BY <1>5, Zenon DEF Grow
  <2> DEFINE new == m(f)
             res == add_memory_map(s, new)
             entries == Managed(at, f, n)
             A == f .. f + n - 1
  <2>2. CASE ~res.ok
    <3>1. Panic
      BY <2>1, <2>2, Zenon
    <3>2. QED BY <3>1, MemoryUnchanged DEF Panic, BreaksInv
  <2>3. CASE res.ok
    <3>1. /\ brk' = [brk EXCEPT ![t] = b] /\ UNCHANGED <<text_size, live>>
          /\ vm' = [vm EXCEPT ![t] = res.vm]
          /\ managed_pages' = [managed_pages EXCEPT ![t] = pages \o entries]
          /\ used' = used \cup A
          /\ data_size' = [data_size EXCEPT ![t] = @ + n * PAGE_SIZE]
      BY <2>1, <2>3, Zenon
    <3>2. n \in Nat \ {0}
      BY <1>3, <1>5
    <3> HIDE DEF n, at
    <3>3. f \in Nat /\ A \subseteq Frame /\ A \cap used = {}
      BY <3>2, AllocatesFree
    <3>4. /\ Proper(new) /\ ~new.is_shared
          /\ new.vmarea = Area(at, at + n * PAGE_SIZE - 1) /\ new.pmarea.start = f * PAGE_SIZE
      <4> DEFINE permissions == "rw"
      <4> HIDE DEF permissions
      <4>1. LET x == Private(at, f, n, permissions, None)
            IN /\ Proper(x) /\ ~x.is_shared
               /\ x.vmarea = Area(at, at + n * PAGE_SIZE - 1) /\ x.pmarea.start = f * PAGE_SIZE
        BY <1>3, <3>2, <3>3, PrivateIsProper
      <4>2. QED BY <4>1 DEF permissions
    <3>5. /\ ManagedList(entries) /\ FramesOf(entries) = A
          /\ \A x : /\ x.vmarea = Area(at, at + n * PAGE_SIZE - 1)
                    /\ x.pmarea.start = f * PAGE_SIZE
                   => Recorded(x, entries)
      <4>1. FrameRun(f, n)
        BY <1>3, <3>3 DEF FrameRun
      <4>2. RecordsRun(entries, at, f, n)
        BY <1>3, <4>1, ManagedRecords
      <4> HIDE DEF entries
      <4>3. QED BY <4>2, Zenon DEF RecordsRun
    <3> HIDE DEF new, entries, A, m
    <3>6. BackedBy(new, entries)
      BY <3>4, <3>5, Zenon DEF BackedBy
    <3>7. Apart(pages, entries)
      BY <1>1, <3>3, <3>5, Zenon DEF Apart
    <3>8. /\ Good(res.vm, pages \o entries)
          /\ FramesOf(pages \o entries) = FramesOf(pages) \cup FramesOf(entries)
      <4>1. Good(res.vm, pages \o entries) /\ Joins(pages \o entries, pages, entries)
        BY <1>1, <3>4, <3>5, <3>6, <3>7, AddWithFrames, Zenon
      <4>2. QED BY <4>1, Zenon DEF Joins
    <3>9. KeepsRest(s, res.vm)
      BY <1>1, <2>3, <3>4, AddKeepsRest, Zenon DEF Good
    <3> HIDE DEF res
    <3>10. /\ {} \subseteq FramesOf(pages) /\ used' = (used \ {}) \cup A
           /\ FramesOf(pages \o entries) \subseteq (FramesOf(pages) \ {}) \cup A
      BY <3>1, <3>5, <3>8, Zenon
    <3>11. live' = live
      BY <3>1
    <3>12. FramesInv' /\ RestKept
      BY <3>1, <3>3, <3>8, <3>9, <3>10, <3>11, TaskChanges, Zenon
    <3>13. data_size[t] + n * PAGE_SIZE \in Nat
      BY <1>1, <1>3, VmAssumption DEF BreaksInv
    <3>14. BreaksInv'
      BY <1>1, <3>1, <3>13 DEF BreaksInv
    <3>15. QED BY <3>12, <3>14
  <2>4. QED BY <2>2, <2>3
<1>6. QED BY <1>4, <1>5

(* A page fault. *)
LEMMA PageFaultKeeps ==
  ASSUME FramesInv, NEW t \in live, NEW a \in Nat, PageFault(t, a)
  PROVE  FramesInv' /\ RestKept
<1> DEFINE s == vm[t]
           pages == managed_pages[t]
           r == lazy_map_page(s, a).vm
<1>1. t \in Task /\ Good(s, pages)
  BY Zenon DEF FramesInv
<1>2. Good(r, pages)
  BY <1>1, FaultIsGood
<1>3. KeepsRest(s, r)
  <2>1. \A x \in Nat : Meaning(r, x) = Meaning(s, x)
    BY <1>1, FaultMapsThePage, Zenon DEF Good
  <2>2. QED BY <1>1, <1>2, <2>1, LessEntersNothing, Zenon DEF Good
<1>4. /\ vm' = [vm EXCEPT ![t] = r] /\ managed_pages' = managed_pages
      /\ used' = used /\ live' = live
  BY DEF PageFault
<1> HIDE DEF r
<1>5. managed_pages' = [managed_pages EXCEPT ![t] = pages]
  BY <1>1, <1>4 DEF FramesInv
<1>6. /\ {} \subseteq FramesOf(pages) /\ {} \subseteq Frame /\ {} \cap used = {}
      /\ used' = (used \ {}) \cup {}
      /\ FramesOf(pages) \subseteq (FramesOf(pages) \ {}) \cup {}
  BY <1>4
<1>7. QED BY <1>2, <1>3, <1>4, <1>5, <1>6, TaskChanges, Zenon

(* clone_task: the child owns what it maps, and shares no frame with       *)
(* anyone.                                                                 *)
LEMMA CloneKeeps ==
  ASSUME FramesInv, BreaksInv, NEW t \in live, NEW c \in Task, clone_task(t, c)
  PROVE  FramesInv' /\ BreaksInv' /\ RestKept
<1> DEFINE res == CloneMaps(vm[t], used)
<1>1. /\ c \notin live /\ live' = live \cup {c}
      /\ vm' = [vm EXCEPT ![c] = res.vm]
      /\ managed_pages' = [managed_pages EXCEPT ![c] = res.pages]
      /\ used' = res.used
      /\ text_size' = [text_size EXCEPT ![c] = text_size[t]]
      /\ data_size' = [data_size EXCEPT ![c] = data_size[t]]
      /\ brk' = [brk EXCEPT ![c] = None]
  BY DEF clone_task
<1>2. t \in Task /\ Good(vm[t], managed_pages[t]) /\ used \subseteq Frame /\ live \subseteq Task
  BY Zenon DEF FramesInv
<1>3. /\ Good(res.vm, res.pages)
      /\ res.used = used \cup FramesOf(res.pages)
      /\ FramesOf(res.pages) \cap used = {}
  BY <1>2, CloneMapsIsGood, Zenon
<1> HIDE DEF res
<1>4. FramesOf(res.pages) \subseteq Frame
  BY <1>3, ListedFrames DEF Good
<1>5. vm'[c] = res.vm /\ managed_pages'[c] = res.pages
  BY <1>1 DEF FramesInv
<1>6. \A u \in live : u # c /\ vm'[u] = vm[u] /\ managed_pages'[u] = managed_pages[u]
  BY <1>1, <1>2, Zenon DEF FramesInv
<1>7. \A u \in live : FramesOf(managed_pages[u]) \subseteq used /\ Good(vm[u], managed_pages[u])
  BY Zenon DEF FramesInv
<1>8. /\ used' \subseteq Frame /\ live' \subseteq Task
      /\ vm' = [u \in Task |-> vm'[u]] /\ managed_pages' = [u \in Task |-> managed_pages'[u]]
  BY <1>1, <1>2, <1>3, <1>4, Zenon DEF FramesInv
<1>9. \A u \in live' : /\ Good(vm'[u], managed_pages'[u])
                       /\ FramesOf(managed_pages'[u]) \subseteq used'
  <2>1. \A u \in live : FramesOf(managed_pages[u]) \subseteq used'
    BY <1>1, <1>3, <1>7, Zenon
  <2>2. FramesOf(res.pages) \subseteq used'
    BY <1>1, <1>3, Zenon
  <2>3. QED BY <1>1, <1>3, <1>5, <1>6, <1>7, <2>1, <2>2, Zenon
<1>10. \A u, v \in live' : u # v =>
           FramesOf(managed_pages'[u]) \cap FramesOf(managed_pages'[v]) = {}
  <2>1. \A u \in live : FramesOf(managed_pages'[u]) \cap FramesOf(managed_pages'[c]) = {}
    BY <1>3, <1>5, <1>6, <1>7
  <2>2. \A u, v \in live : u # v =>
            FramesOf(managed_pages'[u]) \cap FramesOf(managed_pages'[v]) = {}
    BY <1>6, Zenon DEF FramesInv
  <2>3. QED BY <1>1, <2>1, <2>2
<1>11. FramesInv'
  BY <1>8, <1>9, <1>10, Zenon DEF FramesInv
<1>12. RestKept
  BY <1>6, <1>7, LessEntersNothing, Zenon DEF RestKept, Good
<1>13. BreaksInv'
  BY <1>1, <1>2 DEF BreaksInv
<1>14. QED BY <1>11, <1>12, <1>13

(* The last reference to a task is dropped: what it gives back is nobody   *)
(* else's.                                                                 *)
LEMMA DropKeeps ==
  ASSUME FramesInv, BreaksInv, NEW t \in live, Drop(t)
  PROVE  FramesInv' /\ BreaksInv' /\ RestKept
<1>1. /\ used' = used \ FramesOf(managed_pages[t]) /\ live' = live \ {t}
      /\ managed_pages' = [managed_pages EXCEPT ![t] = <<>>]
      /\ vm' = [vm EXCEPT ![t] = NewVm]
      /\ brk' = [brk EXCEPT ![t] = None]
      /\ text_size' = [text_size EXCEPT ![t] = 0]
      /\ data_size' = [data_size EXCEPT ![t] = 0]
  BY DEF Drop
<1>2. live \subseteq Task /\ used \subseteq Frame
  BY DEF FramesInv
<1>3. \A u \in live' : u \in live /\ u # t /\ vm'[u] = vm[u] /\ managed_pages'[u] = managed_pages[u]
  BY <1>1, <1>2, Zenon DEF FramesInv
<1>4. \A u \in live' : FramesOf(managed_pages[u]) \subseteq used'
  <2> SUFFICES ASSUME NEW u \in live'
               PROVE  FramesOf(managed_pages[u]) \subseteq used'
    OBVIOUS
  <2>1. FramesOf(managed_pages[u]) \cap FramesOf(managed_pages[t]) = {}
        /\ FramesOf(managed_pages[u]) \subseteq used
    BY <1>3, Zenon DEF FramesInv
  <2>2. QED BY <1>1, <2>1, Zenon
<1>5. /\ used' \subseteq Frame /\ live' \subseteq Task
      /\ vm' = [u \in Task |-> vm'[u]] /\ managed_pages' = [u \in Task |-> managed_pages'[u]]
  BY <1>1, <1>2, Zenon DEF FramesInv
<1>6. \A u \in live' : /\ Good(vm'[u], managed_pages'[u])
                       /\ FramesOf(managed_pages'[u]) \subseteq used'
  BY <1>3, <1>4, Zenon DEF FramesInv
<1>7. \A u, v \in live' : u # v =>
          FramesOf(managed_pages'[u]) \cap FramesOf(managed_pages'[v]) = {}
  BY <1>3, Zenon DEF FramesInv
<1>8. FramesInv'
  BY <1>5, <1>6, <1>7, Zenon DEF FramesInv
<1>9. \A u \in live' : Sound(vm[u])
  BY <1>3, Zenon DEF FramesInv, Good
<1>10. RestKept
  BY <1>3, <1>9, LessEntersNothing, Zenon DEF RestKept
<1>11. BreaksInv'
  BY <1>1, <1>2 DEF BreaksInv
<1>12. QED BY <1>8, <1>10, <1>11

-----------------------------------------------------------------------------
(***************************************************************************)
(* The program that is started first, and every step of every program.     *)
(***************************************************************************)

(* The first program: its two pages are backed by its two frames. *)
LEMMA FirstIsGood ==
  LET s == [NewVm EXCEPT !.memmap = {Private(0, 0, 1, "rx", None),
                                     Private(PAGE_SIZE, 1, 1, "rw", None)}]
  IN Good(s, Managed(0, 0, 2)) /\ FramesOf(Managed(0, 0, 2)) = {0, 1}
<1> DEFINE rx == "rx"
           rw == "rw"
           x == Private(0, 0, 1, rx, None)
           y == Private(PAGE_SIZE, 1, 1, rw, None)
           z == Private(0, 0, 2, rw, None)
           s == [NewVm EXCEPT !.memmap = {x, y}]
           pages == Managed(0, 0, 2)
<1> USE VmAssumption
<1>1. /\ x.is_shared = z.is_shared /\ y.is_shared = z.is_shared /\ ~z.is_shared
  BY DEF Private, Region, Mapping
<1>2. /\ 0 % PAGE_SIZE = 0 /\ PAGE_SIZE % PAGE_SIZE = 0 /\ PAGE_SIZE \in Nat
      /\ 0 \in Nat /\ 1 \in Nat /\ 1 \in Nat \ {0} /\ 2 \in Nat \ {0}
  <2>1. \A q \in Nat : (PAGE_SIZE * q) % PAGE_SIZE = 0
    OBVIOUS
  <2>2. PAGE_SIZE * 0 = 0 /\ PAGE_SIZE * 1 = PAGE_SIZE
    OBVIOUS
  <2>3. QED BY <2>1, <2>2
<1> HIDE DEF rx, rw
<1>3. /\ Proper(x) /\ Aligned(x) /\ x.vmarea = Area(0, 0 + 1 * PAGE_SIZE - 1)
      /\ x.pmarea.start = 0 * PAGE_SIZE
  BY <1>2, PrivateIsProper, SMTT(30)
<1>4. /\ Proper(y) /\ Aligned(y) /\ y.vmarea = Area(PAGE_SIZE, PAGE_SIZE + 1 * PAGE_SIZE - 1)
      /\ y.pmarea.start = 1 * PAGE_SIZE
  BY <1>2, PrivateIsProper, SMTT(30)
<1>5. /\ Proper(z) /\ Aligned(z) /\ z.vmarea = Area(0, 0 + 2 * PAGE_SIZE - 1)
      /\ z.pmarea.start = 0 * PAGE_SIZE
  BY <1>2, PrivateIsProper, SMTT(30)
<1>6. WellFormed(x) /\ WellFormed(y) /\ WellFormed(z)
  BY <1>3, <1>4, <1>5, AlignedIsWellFormed, Zenon
<1>7. /\ ManagedList(pages) /\ FramesOf(pages) = 0 .. 1 /\ Recorded(z, pages)
  <2>1. 0 .. 0 + 2 - 1 \subseteq Frame /\ 0 .. 0 + 2 - 1 = 0 .. 1
    BY TaskMemoryAssumption
  <2> DEFINE at == 0
             f == 0
             n == 2
  <2>2. /\ at \in Nat /\ at % PAGE_SIZE = 0 /\ FrameRun(f, n) /\ f .. f + n - 1 = 0 .. 1
        /\ z.vmarea = Area(at, at + n * PAGE_SIZE - 1) /\ z.pmarea.start = f * PAGE_SIZE
        /\ pages = Managed(at, f, n)
    BY <1>2, <1>5, <2>1 DEF FrameRun
  <2> HIDE DEF z, pages, at, f, n
  <2>3. RecordsRun(pages, at, f, n)
    BY <2>2, ManagedRecords
  <2>4. QED BY <2>2, <2>3, Zenon DEF RecordsRun
<1> HIDE DEF x, y, z, pages
<1>8. /\ x.vmarea.start = 0 /\ x.vmarea.end = PAGE_SIZE - 1 /\ x.pmarea.start = 0
      /\ y.vmarea.start = PAGE_SIZE /\ y.vmarea.end = 2 * PAGE_SIZE - 1
      /\ y.pmarea.start = PAGE_SIZE
      /\ z.vmarea.start = 0 /\ z.vmarea.end = 2 * PAGE_SIZE - 1 /\ z.pmarea.start = 0
  BY <1>3, <1>4, <1>5 DEF Area
<1>9. PartOf(x, z) /\ PartOf(y, z)
  BY <1>1, <1>8 DEF PartOf
<1>10. BackedBy(x, pages) /\ BackedBy(y, pages)
  <2>1. BackedBy(z, pages)
    BY <1>1, <1>7, Zenon DEF BackedBy
  <2>2. QED BY <1>6, <1>9, <2>1, PartBacked, Zenon
<1>11. s = [memmap |-> {x, y}, last_search_cache |-> None, pt |-> {}]
  BY DEF NewVm
<1> HIDE DEF s
<1>12. ~Intersect(x.vmarea, y.vmarea) /\ ~Intersect(y.vmarea, x.vmarea)
  BY <1>8 DEF Intersect
<1>13. Sound(s)
  BY <1>6, <1>11, <1>12 DEF Sound, Disjoint, CacheSound, PtBacked
<1>14. Bounded(s)
  <2>1. 2 * PAGE_SIZE \in Nat /\ x.vmarea.end <= 2 * PAGE_SIZE /\ y.vmarea.end <= 2 * PAGE_SIZE
    BY <1>8
  <2>2. QED BY <1>11, <2>1 DEF Bounded
<1>15. Good(s, pages)
  <2>1. s.memmap = {x, y}
    BY <1>11
  <2>2. QED BY <1>7, <1>10, <1>13, <1>14, <2>1, Zenon DEF Good
<1>16. FramesOf(pages) = {0, 1}
  BY <1>7
<1>17. QED BY <1>15, <1>16 DEF s, pages, x, y, rx, rw

LEMMA InitIsGood ==
  Init => IInv
<1> SUFFICES ASSUME Init
             PROVE  IInv
  OBVIOUS
<1>1. first \in Task
  BY TaskMemoryAssumption, LeastNatural, Zenon DEF first
<1> DEFINE rx == "rx"
           rw == "rw"
           s == [NewVm EXCEPT !.memmap = {Private(0, 0, 1, rx, None),
                                          Private(PAGE_SIZE, 1, 1, rw, None)}]
           pages == Managed(0, 0, 2)
<1>2. Good(s, pages) /\ FramesOf(pages) = {0, 1}
  BY FirstIsGood
<1>3. /\ vm = [t \in Task |-> IF t = first THEN s ELSE NewVm]
      /\ managed_pages = [t \in Task |-> IF t = first THEN pages ELSE <<>>]
      /\ brk = [t \in Task |-> None]
      /\ text_size = [t \in Task |-> IF t = first THEN PAGE_SIZE ELSE 0]
      /\ data_size = [t \in Task |-> IF t = first THEN PAGE_SIZE ELSE 0]
      /\ live = {first} /\ used = {0, 1}
  BY DEF Init
<1> HIDE DEF s, pages
<1>4. vm[first] = s /\ managed_pages[first] = pages
  BY <1>1, <1>3
<1>5. /\ live \subseteq Task /\ used \subseteq Frame
      /\ vm = [t \in Task |-> vm[t]] /\ managed_pages = [t \in Task |-> managed_pages[t]]
  BY <1>1, <1>3, TaskMemoryAssumption
<1>6. \A t \in live : t = first
  BY <1>3
<1>7. FramesInv
  BY <1>2, <1>3, <1>4, <1>5, <1>6, Zenon DEF FramesInv
<1>8. BreaksInv
  BY <1>3, VmAssumption DEF BreaksInv
<1>9. QED BY <1>7, <1>8 DEF IInv

(* The breaks are left alone by all calls but brk, clone and exit. *)
LEMMA BreaksUnchanged ==
  ASSUME BreaksInv, UNCHANGED <<brk, text_size, data_size>>
  PROVE  BreaksInv'
BY DEF BreaksInv

(* Every call of every program keeps the invariant, and the meaning of     *)
(* every address it is not about.                                          *)
LEMMA CallsKeep ==
  ASSUME IInv, NEW t \in live, Calls(t) \/ Touch(t)
  PROVE  IInv' /\ RestKept
<1>1. FramesInv /\ BreaksInv
  BY DEF IInv
<1>2. \A v \in Vaddrs \cup {0, Odd} : v \in Nat
  BY VmAssumption, TaskMemoryAssumption DEF Vaddrs, Odd
<1>3. CASE \E v \in Vaddrs \cup {0, Odd}, n \in 1 .. MaxPages : MapAnonymous(t, v, n)
  <2>1. PICK v \in Vaddrs \cup {0, Odd}, n \in 1 .. MaxPages : MapAnonymous(t, v, n)
    BY <1>3, Zenon
  <2>2. v \in Nat /\ n \in Nat \ {0}
    BY <1>2, TaskMemoryAssumption
  <2>3. FramesInv' /\ RestKept
    BY <1>1, <2>1, <2>2, MapAnonymousKeeps, Zenon
  <2>4. BreaksInv'
    BY <1>1, <2>1, BreaksUnchanged DEF MapAnonymous
  <2>5. QED BY <2>3, <2>4, Zenon DEF IInv
<1>4. CASE \E v \in Vaddrs : MapObject(t, v, 1)
  <2>1. PICK v \in Vaddrs : MapObject(t, v, 1)
    BY <1>4, Zenon
  <2>2. v \in Nat /\ 1 \in Nat \ {0}
    BY <1>2
  <2>3. FramesInv' /\ RestKept
    BY <1>1, <2>1, <2>2, MapObjectKeeps, Zenon
  <2>4. BreaksInv'
    BY <1>1, <2>1, BreaksUnchanged DEF MapObject
  <2>5. QED BY <2>3, <2>4, Zenon DEF IInv
<1>5. CASE \E v \in Vaddrs : Unmap(t, v)
  <2>1. PICK v \in Vaddrs : Unmap(t, v)
    BY <1>5, Zenon
  <2>2. v \in Nat
    BY <1>2
  <2>3. FramesInv' /\ RestKept
    BY <1>1, <2>1, <2>2, UnmapKeeps, Zenon
  <2>4. BreaksInv'
    BY <1>1, <2>1, BreaksUnchanged DEF Unmap
  <2>5. QED BY <2>3, <2>4, Zenon DEF IInv
<1>6. CASE \E b \in Breaks : set_brk(t, b)
  <2>1. PICK b \in Breaks : Shrink(t, b) \/ Grow(t, b)
    BY <1>6, Zenon DEF set_brk
  <2>2. b \in Nat
    BY TaskMemoryAssumption
  <2>3. FramesInv' /\ BreaksInv' /\ RestKept
    BY <1>1, <2>1, <2>2, ShrinkKeeps, GrowKeeps, Zenon
  <2>4. QED BY <2>3, Zenon DEF IInv
<1>7. CASE \E c \in Task : clone_task(t, c)
  BY <1>1, <1>7, CloneKeeps, Zenon DEF IInv
<1>8. CASE Drop(t)
  BY <1>1, <1>8, DropKeeps, Zenon DEF IInv
<1>9. CASE Touch(t)
  <2>1. PICK p \in 0 .. (MAX_USER_ADDR \div PAGE_SIZE) - 1 : PageFault(t, (p + 1) * PAGE_SIZE - 1)
    BY <1>9, Zenon DEF Touch
  <2> DEFINE a == (p + 1) * PAGE_SIZE - 1
  <2>2. a \in Nat
    <3>1. p \in Nat /\ PAGE_SIZE \in Nat /\ PAGE_SIZE >= 1
      BY VmAssumption
    <3>2. (p + 1) * PAGE_SIZE = p * PAGE_SIZE + PAGE_SIZE /\ p * PAGE_SIZE \in Nat
      BY <3>1
    <3>3. QED BY <3>1, <3>2
  <2>3. PageFault(t, a)
    BY <2>1
  <2> HIDE DEF a
  <2>4. FramesInv' /\ RestKept
    BY <1>1, <2>2, <2>3, PageFaultKeeps, Zenon
  <2>5. BreaksInv'
    BY <1>1, <2>3, BreaksUnchanged DEF PageFault
  <2>6. QED BY <2>4, <2>5, Zenon DEF IInv
<1>10. QED BY <1>3, <1>4, <1>5, <1>6, <1>7, <1>8, <1>9, Zenon DEF Calls

LEMMA NextKeeps ==
  ASSUME IInv, [Next]_vars
  PROVE  IInv' /\ RestKept
<1>1. CASE \E t \in live : Calls(t) \/ Touch(t)
  BY <1>1, CallsKeep, Zenon
<1>2. CASE UNCHANGED vars
  <2>1. UNCHANGED <<vm, managed_pages, live, used>> /\ UNCHANGED <<brk, text_size, data_size>>
    BY <1>2 DEF vars
  <2>2. QED BY <2>1, MemoryUnchanged, BreaksUnchanged, Zenon DEF IInv
<1>3. QED BY <1>1, <1>2, Zenon DEF Next

-----------------------------------------------------------------------------
(***************************************************************************)
(* What the invariant means for the programs.                              *)
(***************************************************************************)

(* The invariant holds in every reachable state: whatever the programs     *)
(* map, overwrite, unmap, grow, shrink, touch, clone and leave behind.     *)
THEOREM MemoryIsInvariant ==
  Spec => []IInv
<1>1. IInv /\ [Next]_vars => IInv'
  BY NextKeeps, Zenon
<1>2. QED BY <1>1, InitIsGood, PTL DEF Spec

(* OwnsWhatItMaps: every page of a private mapping is backed by a frame    *)
(* that its task owns and has recorded for that page, although mappings    *)
(* are split, cut and overwritten apart from the list of the frames.       *)
THEOREM TasksOwnWhatTheyMap ==
  Spec => []OwnsWhatItMaps
<1>1. IInv => OwnsWhatItMaps
  <2> SUFFICES ASSUME IInv, NEW t \in live, NEW m \in vm[t].memmap, ~m.is_shared,
                      NEW page \in PagesOf(m.vmarea)
               PROVE  \E i \in DOMAIN managed_pages[t] :
                          /\ managed_pages[t][i] = [vaddr |-> page, frame |-> FrameAt(m, page)]
                          /\ FrameAt(m, page) \in used
    BY Zenon DEF OwnsWhatItMaps
  <2> DEFINE pages == managed_pages[t]
             f == FrameAt(m, page)
  <2>1. Good(vm[t], pages) /\ FramesOf(pages) \subseteq used
    BY Zenon DEF IInv, FramesInv
  <2>2. Recorded(m, pages)
    BY <2>1, Zenon DEF Good, BackedBy
  <2>3. PICK i \in DOMAIN pages : pages[i] = [vaddr |-> page, frame |-> f]
    BY <2>2, Zenon DEF Recorded
  <2>4. pages[i].frame = f
    BY <2>3
  <2>5. f \in FramesOf(pages)
    BY <2>4, Zenon DEF FramesOf
  <2>6. QED BY <2>1, <2>3, <2>5, Zenon
<1>2. QED BY <1>1, MemoryIsInvariant, PTL

(* NoFreedFrameReachable: a page-table entry of a live task leads to a     *)
(* frame of the task that is taken from the allocator, or to device memory *)
(* - never to a frame that an unmap, a smaller break, an overwriting map   *)
(* or the exit of another task gave back.                                  *)
THEOREM NoFreedFrameIsReachable ==
  Spec => []NoFreedFrameReachable
<1>1. IInv => NoFreedFrameReachable
  <2> SUFFICES ASSUME IInv, NEW t \in live, NEW e \in vm[t].pt
               PROVE  \/ e.paddr \div PAGE_SIZE \in FramesOf(managed_pages[t]) \cap used
                      \/ e.paddr \div PAGE_SIZE >= DeviceFrame
    BY Zenon DEF NoFreedFrameReachable
  <2> DEFINE pages == managed_pages[t]
             s == vm[t]
  <2>1. Good(s, pages) /\ FramesOf(pages) \subseteq used
    BY Zenon DEF IInv, FramesInv
  <2>2. e.vaddr \in Nat /\ e.vaddr % PAGE_SIZE = 0 /\ e.paddr \in Meaning(s, e.vaddr)
    BY <2>1, Zenon DEF Good, Sound, PtBacked
  <2>3. PICK m \in s.memmap : Holds(m, e.vaddr) /\ e.paddr = m.pmarea.start + (e.vaddr - m.vmarea.start)
    BY <2>2 DEF Meaning
  <2>4. WellFormed(m) /\ BackedBy(m, pages)
    BY <2>1, Zenon DEF Good, Sound
  <2> HIDE DEF pages, s
  <2>5. CASE ~m.is_shared
    <3>1. e.vaddr \in PagesOf(m.vmarea)
      BY <2>2, <2>3, <2>4 DEF PagesOf, Holds, WellFormed
    <3>2. PICK i \in DOMAIN pages : pages[i] = [vaddr |-> e.vaddr, frame |-> FrameAt(m, e.vaddr)]
      BY <2>4, <2>5, <3>1, Zenon DEF BackedBy, Recorded
    <3>3. pages[i].frame = FrameAt(m, e.vaddr)
      BY <3>2
    <3>4. FrameAt(m, e.vaddr) \in FramesOf(pages)
      BY <3>3, Zenon DEF FramesOf
    <3>5. FrameAt(m, e.vaddr) = e.paddr \div PAGE_SIZE
      BY <2>3, Zenon DEF FrameAt
    <3>6. QED BY <2>1, <3>4, <3>5, Zenon DEF pages
  <2>6. CASE m.is_shared
    <3> USE VmAssumption
    <3> DEFINE a == e.paddr
               q == e.paddr \div PAGE_SIZE
    <3>1. m.pmarea.start >= DeviceFrame * PAGE_SIZE /\ m.pmarea.start \in Nat
      BY <2>4, <2>6 DEF BackedBy, WellFormed
    <3>2. DeviceFrame \in Nat /\ DeviceFrame * PAGE_SIZE \in Nat
      BY TaskMemoryAssumption
    <3>3. a \in Nat /\ a >= DeviceFrame * PAGE_SIZE
      BY <2>2, <2>3, <2>4, <3>1, <3>2 DEF Holds, WellFormed
    <3>4. q \in Nat /\ a < PAGE_SIZE * (q + 1)
      <4> HIDE DEF a
      <4>1. a \div PAGE_SIZE \in Nat /\ a < PAGE_SIZE * (a \div PAGE_SIZE + 1)
        BY <3>3
      <4>2. QED BY <4>1 DEF a
    <3> HIDE DEF a, q
    <3>5. q >= DeviceFrame
      <4>1. SUFFICES ASSUME q + 1 <= DeviceFrame
                     PROVE  FALSE
        BY <3>2, <3>4
      <4>2. PAGE_SIZE * (q + 1) <= PAGE_SIZE * DeviceFrame
        BY <3>2, <3>4, <4>1
      <4>3. QED BY <3>2, <3>3, <3>4, <4>2
    <3>6. QED BY <3>5 DEF q
  <2>7. QED BY <2>5, <2>6
<1>2. QED BY <1>1, MemoryIsInvariant, PTL

(* SearchIsExact: search_memory_map and translate_vaddr, which answer from *)
(* the cached range or from one neighbour, say what the mappings say for   *)
(* every address, and there is at most one answer.                         *)
THEOREM SearchIsAlwaysExact ==
  Spec => []SearchIsExact
<1>1. IInv => SearchIsExact
  <2> SUFFICES ASSUME IInv, NEW t \in live, NEW a \in UserAddr
               PROVE  /\ translate_vaddr(vm[t], a) = Meaning(vm[t], a)
                      /\ Cardinality(Meaning(vm[t], a)) <= 1
    BY Zenon DEF SearchIsExact
  <2>1. Sound(vm[t])
    BY Zenon DEF IInv, FramesInv, Good
  <2>2. a \in Nat
    BY VmAssumption DEF UserAddr
  <2>3. translate_vaddr(vm[t], a) = Meaning(vm[t], a)
    BY <2>1, <2>2, SearchFindsTheMapping, Zenon
  <2> DEFINE M == Meaning(vm[t], a)
  <2>4. \A x, y \in M : x = y
    BY <2>1, <2>2, OneMeaning, Zenon
  <2> HIDE DEF M
  <2>5. Cardinality(M) <= 1
    <3>1. CASE M = {}
      BY <3>1, FS_EmptySet
    <3>2. CASE M # {}
      <4>1. PICK x \in M : TRUE
        BY <3>2
      <4>2. M = {x}
        BY <2>4
      <4>3. QED BY <4>2, FS_Singleton
    <3>3. QED BY <3>1, <3>2
  <2>6. QED BY <2>3, <2>5 DEF M
<1>2. QED BY <1>1, MemoryIsInvariant, PTL

(* MapKeepsTheRest: a call that maps memory into a task leaves the meaning *)
(* of every address outside the new mapping as it was: what                *)
(* add_memory_map_fixed says of the parts it does not overlap.             *)
THEOREM MappingKeepsTheRest ==
  Spec => MapKeepsTheRest
<1> DEFINE Kept == \A t \in live \cap live' : Entered(t) # {} =>
                       \A a \in UserAddr :
                           (\A m \in Entered(t) : ~Holds(m, a))
                               => Meaning(vm'[t], a) = Meaning(vm[t], a)
<1>1. IInv /\ [Next]_vars => [Kept]_vars
  <2> SUFFICES ASSUME IInv, [Next]_vars
               PROVE  Kept
    BY Zenon
  <2>1. RestKept
    BY NextKeeps, Zenon
  <2>2. \A t \in live \cap live' : KeepsRest(vm[t], vm'[t])
    BY <2>1, Zenon DEF RestKept
  <2>3. QED BY <2>2, Zenon DEF KeepsRest, Entering, Entered
<1> HIDE DEF Kept
<1>2. Spec => [][Kept]_vars
  BY <1>1, MemoryIsInvariant, PTL DEF Spec
<1>3. QED BY <1>2 DEF MapKeepsTheRest, Kept
=============================================================================
