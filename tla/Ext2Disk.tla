------------------------------ MODULE Ext2Disk ------------------------------
(***************************************************************************)
(* The disk side of the ext2 driver (kernel/src/fs/vfs_v2/drivers/ext2):    *)
(* bitmaps and free counts, the block and inode caches, allocation, and the *)
(* direct, single and double indirect block pointers of an inode.           *)
(*                                                                         *)
(* Every operator takes the file system as a record fs and returns the     *)
(* record after it.  fs.err is the error the code returns ("none" while it  *)
(* runs on), fs.got the numbers an allocation returned.  fs.io is the number*)
(* of device writes that still succeed.  The write at io = 0 reports an     *)
(* error; the later ones succeed again, or, when the power is lost          *)
(* (fs.crash), none does.  A failing read leaves what a failing next write  *)
(* leaves, so only writes carry the choice.  fs.failed and fs.lost are      *)
(* history: a write has failed; the bit of a data block in use was cleared. *)
(*                                                                         *)
(* A block holds bytes, pointers or directory entries; read as something    *)
(* else it is empty.                                                        *)
(***************************************************************************)
EXTENDS Naturals, Sequences, FiniteSets, FiniteSetsExt, SequencesExt, TLC

CONSTANTS
    BlocksCount, BlocksPerGroup, \* superblock fields
    FirstData,        \* first block handed out in group 0 (810 in the code)
    GroupMeta,        \* metadata blocks at the start of every other group
    InodesPerGroup,   \* inodes are allocated in group 0 only
    StartInode,       \* first inode handed out (30 in the code)
    BlockSize,        \* bytes per block
    NDirect,          \* direct pointers of an inode (12)
    Ptrs,             \* pointers in an indirect block (block_size / 4)
    CacheMax,         \* entries a cache holds (8192)
    ContigMin,        \* shortest run asked for in one piece (3)
    ChunkMin          \* shortest run split into chunks (6)

Never == 1000         \* no device write fails
Blocks == 1 .. (BlocksCount - 1)
Inodes == 1 .. InodesPerGroup
Groups == 0 .. (((BlocksCount + BlocksPerGroup - 1) \div BlocksPerGroup) - 1)
GroupSeq == SetToSortSeq(Groups, <)
CeilDiv(n) == (n + BlockSize - 1) \div BlockSize
Zeros == [bytes |-> [k \in 1 .. BlockSize |-> 0]]
NoPtrs == [k \in 0 .. (Ptrs - 1) |-> 0]
PtrsOf(v) == IF "ptr" \in DOMAIN v THEN v.ptr ELSE NoPtrs
Dec(n, k) == IF n < k THEN 0 ELSE n - k      \* saturating_sub

With(x, F(_)) == F(x)
\* The ? operator: an error ends the operation.
Then(fs, F(_)) == IF fs.err # "none" THEN fs ELSE F(fs)

-----------------------------------------------------------------------------
(* The device and the two LRU caches, most recently used entry first.       *)

\* One write request: carried out, or refused with an error.
Dev(fs, after) ==
    IF fs.io = 0
    THEN [fs EXCEPT !.io = IF fs.crash THEN 0 ELSE Never, !.err = "io", !.failed = TRUE]
    ELSE [after EXCEPT !.io = IF @ = Never THEN Never ELSE @ - 1]

Cached(c, k) == \E i \in DOMAIN c : c[i].k = k
Value(c, k) == c[CHOOSE i \in DOMAIN c : c[i].k = k].v
LruRemove(c, k) == SelectSeq(c, LAMBDA e : e.k # k)

LruInsert(c, k, v) ==
    IF Cached(c, k) \/ Len(c) < CacheMax
    THEN <<[k |-> k, v |-> v]>> \o LruRemove(c, k)
    ELSE <<[k |-> k, v |-> v]>> \o Front(c)

LruGet(c, k) == LruInsert(c, k, Value(c, k))

\* The inode the code sees, and the cache after it has looked.
Inode(fs, i) == IF Cached(fs.ic, i) THEN Value(fs.ic, i) ELSE fs.inode[i]
ReadInode(fs, i) == [fs EXCEPT !.ic = LruInsert(@, i, Inode(fs, i))]
Block(fs, b) == IF Cached(fs.bc, b) THEN Value(fs.bc, b) ELSE fs.blk[b]

\* Hits are moved to the front in order, then the missing blocks are read in
\* ascending order and entered.
ReadBlocks(fs, bs) ==
    LET hits == SelectSeq(bs, LAMBDA b : Cached(fs.bc, b))
        miss == SetToSortSeq({b \in ToSet(bs) : ~Cached(fs.bc, b)}, <)
    IN [fs EXCEPT !.bc =
          FoldLeft(LAMBDA c, b : LruInsert(c, b, fs.blk[b]),
                   FoldLeft(LAMBDA c, b : LruGet(c, b), @, hits), miss)]

\* Consecutive blocks form one request.  All requests are issued; then the
\* written blocks leave the cache, up to the first request that failed.
WriteBlocks(fs, m) ==
    LET starts == SetToSortSeq({b \in DOMAIN m : b - 1 \notin DOMAIN m}, <)
        run(b) == {c \in DOMAIN m : b <= c /\ b .. c \subseteq DOMAIN m}
        write(s, b) ==
            Then(Dev(s, [s EXCEPT !.blk = [c \in DOMAIN @ |-> IF c \in run(b) THEN m[c] ELSE @[c]]]),
                 LAMBDA u : [u EXCEPT !.bc = SelectSeq(@, LAMBDA e : e.k \notin run(b))])
    IN Then(fs, LAMBDA s : FoldLeft(write, s, starts))

\* Mutant of WriteInode: a cached inode is not replaced.
WriteInodePastCache(fs, i, ino) ==
    Then(fs, LAMBDA s : Dev(s, [s EXCEPT !.inode[i] = ino]))

\* The inode goes to its place in the inode table, then into the cache.
WriteInode(fs, i, ino) ==
    Then(fs, LAMBDA s :
    Then(Dev(s, [s EXCEPT !.inode[i] = ino]), LAMBDA u :
         [u EXCEPT !.ic = LruInsert(@, i, ino)]))

-----------------------------------------------------------------------------
(* Allocation.                                                              *)

DataStart(g) == IF g = 0 THEN FirstData ELSE g * BlocksPerGroup + GroupMeta
SearchEnd(g) == Min({(g + 1) * BlocksPerGroup, BlocksCount})
Bit(b) == b % BlocksPerGroup
Group(b) == b \div BlocksPerGroup

UpdateSuperblock(fs, blocks, inodes) ==
    Then(fs, LAMBDA s : Dev(s, [s EXCEPT !.sbB = blocks, !.sbI = inodes]))

FreeRuns(fs, g, n) ==
    {b \in DataStart(g) .. SearchEnd(g) :
       /\ b + n <= SearchEnd(g)
       /\ \A c \in b .. (b + n - 1) : Bit(c) \notin fs.bbm[g]}

\* Mutant of MarkRun: the results of the batch are not looked at.
MarkRunUnchecked(fs, g, b, n) ==
    With(Dev(fs, [fs EXCEPT !.bbm[g] = @ \cup {Bit(c) : c \in b .. (b + n - 1)}]), LAMBDA s :
    With(Dev(s, [s EXCEPT !.bgB[g] = Dec(@, n)]), LAMBDA u :
    Then(UpdateSuperblock([u EXCEPT !.err = "none"], Dec(u.sbB, n), u.sbI), LAMBDA v :
         [v EXCEPT !.got = [k \in 1 .. n |-> b + k - 1]])))

\* The bitmap and the group descriptor are written in one batch, the
\* superblock after it.
MarkRun(fs, g, b, n) ==
    With(Dev(fs, [fs EXCEPT !.bbm[g] = @ \cup {Bit(c) : c \in b .. (b + n - 1)}]), LAMBDA s :
    Then(Dev(s, [s EXCEPT !.bgB[g] = Dec(@, n)]), LAMBDA u :
    Then(UpdateSuperblock(u, Dec(u.sbB, n), u.sbI), LAMBDA v :
         [v EXCEPT !.got = [k \in 1 .. n |-> b + k - 1]])))

TakeRun(fs, g, n) ==
    IF fs.bgB[g] < n \/ FreeRuns(fs, g, n) = {} THEN [fs EXCEPT !.err = "nospace"]
    ELSE MarkRun(fs, g, Min(FreeRuns(fs, g, n)), n)

AllocateBlockInGroup(fs, g) == TakeRun(fs, g, 1)

\* The groups in order: the next one is tried only for want of space.
InSomeGroup(fs, Take(_, _)) ==
    FoldLeft(LAMBDA s, g : IF s.err = "nospace" THEN Take([s EXCEPT !.err = "none"], g)
                           ELSE s,
             [fs EXCEPT !.err = "nospace"], GroupSeq)

AllocateBlock(fs) == Then(fs, LAMBDA s : InSomeGroup(s, AllocateBlockInGroup))

\* The bit is counted from block 1, where allocation counts it from block 0.
ClearBit(fs, g, bit, b) ==
    Dev(fs, [fs EXCEPT !.bbm[g] = @ \ {bit},
               !.lost = @ \/ (b - 1 >= DataStart(g) /\ bit \in fs.bbm[g])])
FreeBlock(fs, b) ==
    IF b = 0 \/ fs.err # "none" THEN fs
    ELSE LET g == (b - 1) \div BlocksPerGroup IN
         Then(ClearBit(fs, g, (b - 1) % BlocksPerGroup, b), LAMBDA s :
         Then(Dev(s, [s EXCEPT !.bgB[g] = @ + 1]), LAMBDA u :
              UpdateSuperblock(u, u.sbB + 1, u.sbI)))

\* An allocation given up: what it has taken is freed, errors are ignored.
GiveBack(fs, bs) ==
    LET free(s, b) == FreeBlock([s EXCEPT !.err = "none"], b)
    IN [FoldLeft(free, fs, bs) EXCEPT !.err = fs.err]

\* n blocks one by one after those in have.
Individually(fs, have, n) ==
    LET one(s, k) ==
            Then(s, LAMBDA u :
            With(AllocateBlock(u), LAMBDA v :
                 IF v.err # "none" THEN GiveBack(v, u.got)
                 ELSE [v EXCEPT !.got = u.got \o @]))
    IN FoldLeft(one, [fs EXCEPT !.got = have], [k \in 1 .. n |-> k])

\* Halves, thirds, quarters, 8 and 4: each size as often as it fits.
Chunks(fs, n) ==
    LET took(s, r) ==
            CASE r.err = "nospace" -> s
              [] r.err = "io" -> GiveBack(r, s.got)
              [] OTHER -> [r EXCEPT !.got = s.got \o @]
        once(s, c) ==
            IF s.err # "none" \/ c = 0 \/ c > n - Len(s.got) THEN s
            ELSE took(s, InSomeGroup(s, LAMBDA u, g : TakeRun(u, g, c)))
        size(s, c) ==
            IF c >= n - Len(s.got) THEN s
            ELSE FoldLeft(once, s, [k \in 1 .. n |-> c])
    IN FoldLeft(size, [fs EXCEPT !.got = <<>>],
                <<n \div 2, n \div 3, n \div 4, 8, 4>>)

InPieces(fs, n) ==
    IF n < ChunkMin THEN Individually(fs, <<>>, n)
    ELSE Then(Chunks(fs, n), LAMBDA s : Individually(s, s.got, n - Len(s.got)))

AllocateContiguous(fs, n) ==
    IF fs.err # "none" THEN fs
    ELSE IF n = 0 THEN [fs EXCEPT !.got = <<>>]
    ELSE IF n = 1 THEN AllocateBlock(fs)
    ELSE With(InSomeGroup(fs, LAMBDA u, g : TakeRun(u, g, n)), LAMBDA whole :
              IF whole.err # "nospace" THEN whole ELSE InPieces(fs, n))

\* update_group_descriptor, of group 0: free inodes and directories.
UpdateGroupDescriptor(fs, free, dirs) ==
    Dev(fs, [fs EXCEPT !.bgI = free, !.dirs = dirs])

\* Group 0 only.  The bitmap, the descriptor and the superblock are written
\* one after the other.
TakeInode(fs, i) ==
    Then(Dev(fs, [fs EXCEPT !.ibm = @ \cup {i}]), LAMBDA s :
    Then(UpdateGroupDescriptor(s, Dec(s.bgI, 1), s.dirs), LAMBDA u :
    Then(UpdateSuperblock(u, u.sbB, Dec(u.sbI, 1)), LAMBDA v : [v EXCEPT !.got = <<i>>])))
AllocateInode(fs) ==
    LET free == {i \in StartInode .. InodesPerGroup : i \notin fs.ibm} IN
    IF fs.err # "none" THEN fs
    ELSE IF fs.bgI = 0 \/ free = {} THEN [fs EXCEPT !.err = "nospace"]
    ELSE TakeInode(fs, Min(free))

-----------------------------------------------------------------------------
(* Block pointers.  inode.block: NDirect direct pointers, then the single   *)
(* and the double indirect block; 0 is no block.                            *)

Single == NDirect
Double == NDirect + 1
Slot(l) == (l - NDirect - Ptrs) \div Ptrs       \* index in the double indirect block

\* The pointer block holding logical block l, 0 when there is none.
Leaf(fs, ino, l) ==
    IF l < NDirect + Ptrs THEN ino.block[Single]
    ELSE IF ino.block[Double] = 0 THEN 0
    ELSE PtrsOf(Block(fs, ino.block[Double]))[Slot(l)]

Index(l) == IF l < NDirect + Ptrs THEN l - NDirect ELSE (l - NDirect - Ptrs) % Ptrs

GetInodeBlock(fs, ino, l) ==
    IF l < NDirect THEN ino.block[l]
    ELSE IF Leaf(fs, ino, l) = 0 THEN 0
    ELSE PtrsOf(Block(fs, Leaf(fs, ino, l)))[Index(l)]

GetInodeBlocks(fs, ino, n) == [k \in 1 .. n |-> GetInodeBlock(fs, ino, k - 1)]

\* The pointer blocks read on the way to the first n blocks.
Indirects(fs, ino, n) ==
    LET leaves == {Leaf(fs, ino, l) : l \in NDirect .. (n - 1)}
        double == IF n > NDirect + Ptrs THEN {ino.block[Double]} ELSE {}
    IN SetToSortSeq((leaves \cup double) \ {0}, <)

\* Pointer blocks set aside for the assignments: first-level blocks are
\* counted whether or not they exist.
NewIndirects(fs, ino, ls) ==
    LET high == {l \in ls : l >= NDirect + Ptrs}
        mid == {l \in ls : NDirect <= l /\ l < NDirect + Ptrs}
    IN Cardinality({Slot(l) : l \in high})
       + (IF mid # {} /\ ino.block[Single] = 0 THEN 1 ELSE 0)
       + (IF high # {} /\ ino.block[Double] = 0 THEN 1 ELSE 0)

\* The state of the batch: the file system, the inode, the pointer blocks
\* loaded or new so far (w) and the blocks set aside and not yet used (spare).
Load(st, b) ==
    IF b \in DOMAIN st.w THEN st
    ELSE [st EXCEPT !.fs = ReadBlocks(@, <<b>>), !.w = (b :> PtrsOf(Block(st.fs, b))) @@ @]
Spent(st, F(_, _)) ==
    IF st.spare = <<>> THEN [st EXCEPT !.short = TRUE]
    ELSE F([st EXCEPT !.spare = Tail(@), !.w = (Head(st.spare) :> NoPtrs) @@ @], Head(st.spare))
\* The pointer block in the inode there is, or a new one.
WithTop(st, top) ==
    IF st.ino.block[top] # 0 THEN Load(st, st.ino.block[top])
    ELSE Spent(st, LAMBDA a, b : [a EXCEPT !.ino.block[top] = b])
\* The same of the pointer block below the double indirect block root.
WithLeaf(st, root, slot) ==
    IF st.w[root][slot] # 0 THEN Load(st, st.w[root][slot])
    ELSE Spent(st, LAMBDA a, b : [a EXCEPT !.w[root][slot] = b])
Point(st, leaf, l, b) == [st EXCEPT !.w[leaf][Index(l)] = b]

Unless(st, F(_)) == IF st.short THEN st ELSE F(st)
Assign(st, l, b) ==
    Unless(st, LAMBDA s :
      IF l < NDirect THEN [s EXCEPT !.ino.block[l] = b]
      ELSE IF l < NDirect + Ptrs
      THEN Unless(WithTop(s, Single), LAMBDA a : Point(a, a.ino.block[Single], l, b))
      ELSE Unless(WithTop(s, Double), LAMBDA a :
           Unless(WithLeaf(a, a.ino.block[Double], Slot(l)), LAMBDA c :
                  Point(c, c.w[c.ino.block[Double]][Slot(l)], l, b))))

\* Returns the file system and the inode with its new pointers.  Every
\* pointer block loaded is written, changed or not.
Assigned(fs, ino, new) ==
    FoldLeft(LAMBDA a, p : Assign(a, p[1], p[2]),
             [fs |-> fs, ino |-> ino, w |-> <<>>, spare |-> fs.got, short |-> FALSE], new)
Stored(st) ==
    [fs |-> IF st.short THEN [st.fs EXCEPT !.err = "nospace"]
            ELSE WriteBlocks(st.fs, [b \in DOMAIN st.w |-> [ptr |-> st.w[b]]]),
     ino |-> st.ino]
SetInodeBlocks(fs, ino, new) ==
    With(AllocateContiguous(fs, NewIndirects(fs, ino, {p[1] : p \in ToSet(new)})), LAMBDA s :
         IF s.err # "none" THEN [fs |-> s, ino |-> ino] ELSE Stored(Assigned(s, ino, new)))
=============================================================================
