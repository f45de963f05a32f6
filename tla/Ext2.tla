-------------------------------- MODULE Ext2 --------------------------------
(***************************************************************************)
(* The ext2 file system driver (kernel/src/fs/vfs_v2/drivers/ext2): the     *)
(* operations of FileSystemOperations (lookup, create, remove, open), the   *)
(* file objects, which hold the whole content of a file in memory and write *)
(* it back when they are dropped, and a directory object, which holds the   *)
(* whole listing from its first read on.                                    *)
(***************************************************************************)
EXTENDS Ext2Disk

CONSTANTS
    Names, DirCap,    \* file names; entries that fit a directory block
    Handles,          \* file objects
    WriteSizes, MaxSize, SeekTo,  \* bytes per write, largest file, seek offsets
    SlowTarget,       \* length of a symlink target that needs a block (> 60)
    MaxOps,           \* operations that write, in a behaviour
    MaxIo             \* the write of an operation that may fail: 0 .. MaxIo

VARIABLES
    fs,       \* disk and caches, see Ext2Disk
    fo,       \* the open file objects
    walk,     \* the open directory object, and how far it was read
    synced,   \* history: what each inode's file holds after its last write-back
    ops       \* operations that wrote so far

vars == <<fs, fo, walk, synced, ops>>

RootIno == 2
\* "link" is a symlink whose target needs a block; "special" stands for what
\* owns no block: devices, pipes, sockets, and symlinks kept in the inode.
Kinds == {"file", "dir", "link", "special"}
Dots == {".", ".."}
Unknown == [unknown |-> TRUE]
Content(c) == [bytes |-> c]
Closed == [open |-> FALSE]
ImageTime == 1    \* mtime of what is on the image; the driver writes 0
EmptyInode == [mode |-> "none", size |-> 0, links |-> 0, mtime |-> 0,
               block |-> [k \in 0 .. Double |-> 0]]
EntriesOf(v) == IF "dir" \in DOMAIN v THEN v.dir ELSE <<>>
BytesOf(v) == IF "bytes" \in DOMAIN v THEN v.bytes ELSE Zeros.bytes

-----------------------------------------------------------------------------
(* Directories: a sequence of entries; len is rec_len, in entries.          *)

DirBlocks(s, ino) == SelectSeq(GetInodeBlocks(s, ino, CeilDiv(ino.size)), LAMBDA b : b # 0)
Entries(s, d) ==
    LET bs == DirBlocks(s, Inode(s, d))
        all == FoldLeft(LAMBDA a, b : a \o EntriesOf(Block(s, b)), <<>>, bs)
    IN SelectSeq(all, LAMBDA e : e.ino # 0)
Lookup(s, d, name) ==
    LET hit == SelectSeq(Entries(s, d), LAMBDA e : e.name = name)
    IN IF hit = <<>> THEN 0 ELSE hit[1].ino

\* What the driver says of an entry after it has read the inode.
FileTypeFromInode(s, i) == Inode(s, i).mode

\* What the caches hold after the directory has been read.
ReadDirectory(s, d) ==
    With(ReadInode(s, d), LAMBDA u : ReadBlocks(u, DirBlocks(u, Inode(u, d))))

InBlock(s, b) == EntriesOf(Block(s, b))
Rewrite(s, b, es) == WriteBlocks(ReadBlocks(s, <<b>>), b :> [dir |-> es])

\* The last entry of a block gives up the space after its name.  A directory
\* does not grow, and a block with a single entry takes no other.
Extended(es, name, i) ==
    LET final == es[Len(es)] IN
    Front(es) \o <<[final EXCEPT !.len = 1], [ino |-> i, name |-> name, len |-> final.len - 1]>>
AddDirectoryEntry(s, d, name, i) ==
    Then(s, LAMBDA r :
    With(ReadInode(r, d), LAMBDA u :
    With(SelectSeq(DirBlocks(u, Inode(u, d)),
                   LAMBDA b : With(InBlock(u, b), LAMBDA es : Len(es) > 1 /\ es[Len(es)].len > 1)),
         LAMBDA bs :
         IF bs = <<>> THEN [u EXCEPT !.err = "nospace"]
         ELSE Rewrite(u, bs[1], Extended(InBlock(u, bs[1]), name, i)))))

\* The entry before it takes over its space; a first entry is emptied.
Merged(es, k) ==
    IF k = 1 THEN [es EXCEPT ![1].ino = 0]
    ELSE [j \in 1 .. (Len(es) - 1) |->
            IF j = k - 1 THEN [es[j] EXCEPT !.len = @ + es[k].len]
            ELSE IF j < k THEN es[j] ELSE es[j + 1]]
RemoveDirectoryEntry(s, d, name) ==
    With(ReadInode(s, d), LAMBDA u :
    With(SelectSeq(DirBlocks(u, Inode(u, d)),
                   LAMBDA b : \E e \in ToSet(InBlock(u, b)) : e.name = name),
         LAMBDA bs :
         IF bs = <<>> THEN [u EXCEPT !.err = "notfound"]
         ELSE With(InBlock(u, bs[1]), LAMBDA es :
                   Rewrite(u, bs[1], Merged(es, CHOOSE k \in DOMAIN es : es[k].name = name)))))

\* A new block written to the device directly, past the block cache.
Placed(s, value, F(_, _)) ==
    Then(AllocateBlock(s), LAMBDA u :
    Then(Dev(u, [u EXCEPT !.blk[u.got[1]] = value]), LAMBDA v : F(v, u.got[1])))

InitializeDirectory(s, d, parent) ==
    Placed(s, [dir |-> <<[ino |-> d, name |-> ".", len |-> 1],
                         [ino |-> parent, name |-> "..", len |-> DirCap - 1]>>],
           LAMBDA u, b : WriteInode(ReadInode(u, d), d,
                                    [Inode(u, d) EXCEPT !.block[0] = b, !.size = BlockSize]))

-----------------------------------------------------------------------------
(* File content.                                                            *)

\* Blocks read to load n bytes of a file, in the driver's order.
LoadBlocks(s, i, n) ==
    LET load(u, ino) == ReadBlocks(ReadBlocks(u, Indirects(u, ino, n)),
                                   SelectSeq(GetInodeBlocks(u, ino, n), LAMBDA b : b # 0))
    IN With(ReadInode(s, i), LAMBDA u : load(u, Inode(u, i)))

ReadFileContent(s, i) ==
    LET ino == Inode(s, i)
        bs == GetInodeBlocks(s, ino, CeilDiv(ino.size))
        bytes(b) == IF b = 0 THEN Zeros.bytes ELSE BytesOf(Block(s, b))
    IN SubSeq(FoldLeft(LAMBDA a, b : a \o bytes(b), <<>>, bs), 1, ino.size)

\* Maximal runs of logical blocks without a block, as <<first, count>>.
Holes(old) ==
    LET hole(k) == k \in DOMAIN old /\ old[k] = 0
        first == {k \in DOMAIN old : hole(k) /\ ~hole(k - 1)}
        size(k) == Cardinality({j \in DOMAIN old : j >= k /\ \A m \in k .. j : hole(m)})
    IN [k \in DOMAIN SetToSortSeq(first, <) |->
          <<SetToSortSeq(first, <)[k] - 1, size(SetToSortSeq(first, <)[k])>>]

\* Blocks for the holes: a run of ContigMin or more in one piece, a shorter
\* one block by block, keeping what it has when the disk is full.
Gained(s, new, add) == [s |-> s, new |-> IF s.err # "none" THEN new ELSE new \o add]
FillHole(st, h) ==
    LET single(a, k) ==
            IF a.s.err # "none" THEN a
            ELSE With(AllocateBlock(a.s), LAMBDA u : Gained(u, a.new, <<<<h[1] + k, u.got[1]>>>>))
    IN IF st.s.err # "none" THEN st
       ELSE IF h[2] >= ContigMin
       THEN With(AllocateContiguous(st.s, h[2]), LAMBDA u :
                 Gained(u, st.new, [k \in 1 .. h[2] |-> <<h[1] + k - 1, u.got[k]>>]))
       ELSE FoldLeft(single, st, [k \in 1 .. h[2] |-> k - 1])

\* block_list: the blocks there were, moved together, with each new block
\* then put at its own index.
BlockList(old, new) ==
    LET put(a, p) == [k \in 1 .. Max({Len(a), p[1] + 1}) |->
                        IF k = p[1] + 1 THEN p[2] ELSE IF k <= Len(a) THEN a[k] ELSE 0]
    IN FoldLeft(put, SelectSeq(old, LAMBDA b : b # 0), new)

Padded(data, k) ==
    [j \in 1 .. BlockSize |->
       LET p == (k - 1) * BlockSize + j IN IF p <= Len(data) THEN data[p] ELSE 0]

\* Blocks are allocated first, then the pointers are written, then the
\* content, then the inode with its new size.  No block is ever given up.
WriteFileContent(s, i, data) ==
    LET n == CeilDiv(Len(data))
        content(list) == [b \in {list[k] : k \in 1 .. Min({n, Len(list)})} |->
                            [bytes |-> Padded(data, CHOOSE k \in DOMAIN list : list[k] = b)]]
        pointed(st, ino) == IF st.s.err # "none" \/ st.new = <<>> THEN [fs |-> st.s, ino |-> ino]
                            ELSE SetInodeBlocks(st.s, ino, st.new)
        stored(set, list) == WriteInode(WriteBlocks(set.fs, content(list)), i,
                                        [set.ino EXCEPT !.size = Len(data), !.mtime = 0])
        filled(old, st, ino) == stored(pointed(st, ino), BlockList(old, st.new))
        fill(u, old, ino) == filled(old, FoldLeft(FillHole, [s |-> u, new |-> <<>>], Holes(old)), ino)
    IN With(ReadInode(s, i), LAMBDA r :
       With(Inode(r, i), LAMBDA ino :
       With(ReadBlocks(r, Indirects(r, ino, n)), LAMBDA u :
            fill(u, GetInodeBlocks(u, ino, n), ino))))

-----------------------------------------------------------------------------
(* The operations on names.                                                 *)

\* Mutant of NewInode: the entry is added before the inode is written.
NewInodeLate(s, d, name, kind) ==
    Then(s, LAMBDA r :
         WriteInode(AddDirectoryEntry(r, d, name, r.got[1]), r.got[1],
                    [EmptyInode EXCEPT !.mode = kind, !.links = IF kind = "dir" THEN 2 ELSE 1]))

\* The inode the allocation returned is filled in, then named.  The target of
\* a long symlink is written directly, past the block cache.
NewInode(s, d, name, kind) ==
    LET ino == [EmptyInode EXCEPT !.mode = kind, !.links = IF kind = "dir" THEN 2 ELSE 1]
        target(i) == [bytes |-> [k \in 1 .. BlockSize |-> i]]
        written(r, i) ==
            IF kind # "link" THEN WriteInode(r, i, ino)
            ELSE Placed(r, target(i), LAMBDA u, b :
                   WriteInode(u, i, [ino EXCEPT !.block[0] = b, !.size = SlowTarget]))
    IN Then(s, LAMBDA r : AddDirectoryEntry(written(r, r.got[1]), d, name, r.got[1]))

\* A directory gets its first block after it has been named; then its parent
\* gains a link and the group a directory.
NewDirectory(s, d, i) ==
    Then(s, LAMBDA r :
    Then(InitializeDirectory(r, i, d), LAMBDA u :
    Then(WriteInode(ReadInode(u, d), d, [Inode(u, d) EXCEPT !.links = @ + 1]), LAMBDA v :
         UpdateGroupDescriptor(v, v.bgI, v.dirs + 1))))

CreateNode(s, d, name, kind) ==
    LET named(a) == IF kind = "dir" THEN NewDirectory(NewInode(a, d, name, kind), d, a.got[1])
                    ELSE NewInode(a, d, name, kind)
    IN With(ReadDirectory(s, d), LAMBDA r :
            IF Lookup(r, d, name) # 0 THEN [r EXCEPT !.err = "exists"]
            ELSE Then(AllocateInode(r), named))

\* Data blocks below the size; pointer blocks are not among them.
DataBlocks(s, ino) ==
    IF ino.mode = "special" THEN <<>>
    ELSE SelectSeq(GetInodeBlocks(s, ino, CeilDiv(ino.size)), LAMBDA b : b # 0)

\* clear_inode_on_disk.
ClearInode(s, i) == WriteInode(s, i, EmptyInode)

FreeInode(s, i) ==
    LET blocks(r, ino) == FoldLeft(FreeBlock, ReadBlocks(r, Indirects(r, ino, CeilDiv(ino.size))),
                                   DataBlocks(r, ino))
        dirs(n, ino) == IF ino.mode = "dir" THEN Dec(n, 1) ELSE n
        free(r, ino) ==
            Then(blocks(r, ino), LAMBDA a :
            Then(Dev(a, [a EXCEPT !.ibm = @ \ {i}]), LAMBDA b :
            Then(Dev(b, [b EXCEPT !.bgI = @ + 1, !.dirs = dirs(@, ino)]), LAMBDA c :
            Then(ClearInode(c, i), LAMBDA u :
            Then(UpdateSuperblock(u, u.sbB, u.sbI + 1), LAMBDA v :
                 [v EXCEPT !.ic = LruRemove(@, i)])))))
    IN With(ReadInode(s, i), LAMBDA r : free(r, Inode(r, i)))

\* A directory goes with whatever it still holds.
RemoveNode(s, d, name) ==
    LET unlinked(u, i) ==
            IF Inode(u, i).mode # "dir" \/ Inode(u, d).links = 0 THEN u
            ELSE WriteInode(ReadInode(u, d), d, [Inode(u, d) EXCEPT !.links = @ - 1])
        remove(r, i) ==
            IF i = 0 THEN [r EXCEPT !.err = "notfound"]
            ELSE Then(RemoveDirectoryEntry(ReadInode(r, i), d, name), LAMBDA u :
                 Then(unlinked(u, i), LAMBDA v : FreeInode(v, i)))
    IN With(ReadDirectory(s, d), LAMBDA r : remove(r, Lookup(r, d, name)))

-----------------------------------------------------------------------------
(* Actions.  At most one device write fails, or the power is lost, in a     *)
(* behaviour (fs.failed).                                                   *)

Outcomes(Op(_)) ==
    LET faults == IF fs.failed \/ walk.open THEN {} ELSE (0 .. MaxIo) \X BOOLEAN
        bad(f) == Op([fs EXCEPT !.io = f[1], !.crash = f[2]])
    IN {Op(fs)} \cup {r \in {bad(f) : f \in faults} : r.failed}

\* The state between operations; a power failure empties the caches.
Settled(r) ==
    [r EXCEPT !.err = "none", !.got = <<>>, !.io = Never, !.crash = FALSE,
              !.ic = IF r.crash THEN <<>> ELSE @, !.bc = IF r.crash THEN <<>> ELSE @]
AfterCrash(r, f) == IF r.crash THEN [h \in Handles |-> Closed] ELSE f

\* The directory object after it; kept is history: the names that have been in
\* the directory ever since the object read it.
NamesIn(s, d) == {e.name : e \in ToSet(Entries(s, d))}
Watched(r) ==
    IF r.crash THEN Closed
    ELSE IF ~walk.open THEN walk
    ELSE [walk EXCEPT !.kept = @ \cap NamesIn(r, walk.ino)]

Counted == ops < MaxOps /\ ops' = ops + 1

Dirs == {d \in Inodes : FileTypeFromInode(fs, d) = "dir"}

\* create: the parent node is a directory.
Create(d, name, kind) ==
    /\ d \in Dirs
    /\ Counted
    /\ \E r \in Outcomes(LAMBDA s : CreateNode(s, d, name, kind)) :
         /\ fs' = Settled(r)
         /\ fo' = AfterCrash(r, fo)
         /\ walk' = Watched(r)
         /\ synced' = [i \in Inodes |-> IF i \in r.ibm \ fs.ibm THEN Content(<<>>)
                                       ELSE synced[i]]

\* remove: "." and ".." are refused.
RemoveName(d, name) ==
    /\ d \in Dirs
    /\ Counted
    /\ \E r \in Outcomes(LAMBDA s : RemoveNode(s, d, name)) :
         /\ fs' = Settled(r)
         /\ fo' = AfterCrash(r, fo)
         /\ walk' = Watched(r)
         /\ UNCHANGED synced

\* lookup and open of a regular file; the object loads nothing yet.
Open(h, d, name) ==
    LET i == Lookup(fs, d, name) IN
    /\ d \in Dirs
    /\ ~fo[h].open
    /\ ~walk.open    \* bound, as in WalksApart
    /\ i # 0
    /\ FileTypeFromInode(fs, i) = "file"
    /\ fs' = ReadInode(ReadDirectory(fs, d), i)
    /\ fo' = [fo EXCEPT ![h] = [open |-> TRUE, ino |-> i, pos |-> 0, loaded |-> FALSE,
                                data |-> <<>>, dirty |-> FALSE]]
    /\ UNCHANGED <<walk, synced, ops>>

\* ensure_content_loaded: the size is the inode's at the first use.
Loaded(o) == IF o.loaded THEN o
             ELSE [o EXCEPT !.loaded = TRUE, !.data = ReadFileContent(fs, o.ino)]
Loading(o) == IF o.loaded THEN fs ELSE LoadBlocks(fs, o.ino, CeilDiv(Inode(fs, o.ino).size))

Read(h, n) ==
    LET o == Loaded(fo[h]) IN
    /\ fo[h].open
    /\ fs' = Loading(fo[h])
    /\ fo' = [fo EXCEPT ![h] = [o EXCEPT !.pos =
                IF @ >= Len(o.data) THEN @ ELSE Min({@ + n, Len(o.data)})]]
    /\ UNCHANGED <<walk, synced, ops>>

\* A write past the end fills the gap with zeros.
Overwrite(data, pos, n, tag) ==
    [k \in 1 .. Max({Len(data), pos + n}) |->
       IF k > pos /\ k <= pos + n THEN tag
       ELSE IF k <= Len(data) THEN data[k] ELSE 0]

Write(h, n) ==
    LET o == Loaded(fo[h]) IN
    /\ fo[h].open
    /\ o.pos + n <= MaxSize
    /\ fs' = Loading(fo[h])
    /\ fo' = [fo EXCEPT ![h] = [o EXCEPT !.data = Overwrite(@, o.pos, n, h),
                                        !.dirty = TRUE, !.pos = @ + n]]
    /\ UNCHANGED <<walk, synced, ops>>

Seek(h, p) ==
    /\ fo[h].open
    /\ fo' = [fo EXCEPT ![h].pos = p]
    /\ UNCHANGED <<fs, walk, synced, ops>>

\* sync_to_disk, when the file is unmapped (the object stays) or dropped; the
\* error of a dropped object is lost with it.
Sync(h, after) ==
    LET o == fo[h] IN
    /\ o.open
    /\ IF o.dirty THEN Counted ELSE UNCHANGED ops
    /\ \E r \in IF o.dirty THEN Outcomes(LAMBDA s : WriteFileContent(s, o.ino, o.data))
                ELSE {fs} :
         /\ fs' = Settled(r)
         /\ fo' = AfterCrash(r, [fo EXCEPT ![h] =
                     IF after = Closed THEN Closed
                     ELSE [o EXCEPT !.dirty = @ /\ r.err # "none"]])
         /\ walk' = Watched(r)
         /\ synced' = IF ~o.dirty THEN synced
                      ELSE [synced EXCEPT ![o.ino] =
                              IF r.err = "none" THEN Content(o.data) ELSE Unknown]

Unmap(h) == Sync(h, fo[h])
Drop(h) == Sync(h, Closed)

\* readdir: every entry's inode is read.
Readdir(d) ==
    /\ d \in Dirs
    /\ fs' = FoldLeft(LAMBDA s, e : ReadInode(s, e.ino), ReadDirectory(fs, d), Entries(fs, d))
    /\ UNCHANGED <<fo, walk, synced, ops>>

\* The machine is restarted between two operations.
Remount ==
    /\ fs' = [fs EXCEPT !.ic = <<>>, !.bc = <<>>]
    /\ fo' = [h \in Handles |-> Closed]
    /\ walk' = Closed
    /\ UNCHANGED <<synced, ops>>

-----------------------------------------------------------------------------
(* The directory object.                                                    *)

NotRead == [read |-> FALSE]

\* Bound: a directory is open only while no file is, and before any fault.
WalksApart == ~fs.failed /\ \A h \in Handles : ~fo[h].open

OpenDirectory(d) ==
    /\ d \in Dirs
    /\ ~walk.open
    /\ WalksApart
    /\ walk' = [open |-> TRUE, ino |-> d, pos |-> 0, cached |-> NotRead, gen |-> 0,
                got |-> <<>>, kept |-> {}, ended |-> FALSE]
    /\ UNCHANGED <<fs, fo, synced, ops>>

\* Mutant of Current: the listing is read anew by every call.
CurrentNever(o, mtime) == FALSE

\* The listing is kept while the directory's modification time is the same;
\* no operation on a directory changes it.
Current(o, mtime) == o.cached # NotRead /\ o.gen = mtime

\* The names in the order of their inode numbers.
Listing(es) ==
    LET before(j, k) == es[j].ino < es[k].ino \/ (es[j].ino = es[k].ino /\ j < k)
        order == SetToSortSeq(DOMAIN es, before)
    IN [read |-> TRUE, names |-> [k \in DOMAIN es |-> es[order[k]].name]]

Listed(s, o) ==
    With(Inode(s, o.ino).mtime, LAMBDA mtime :
    IF Current(o, mtime) THEN o
    ELSE [o EXCEPT !.cached = Listing(Entries(s, o.ino)), !.gen = mtime,
                   !.kept = IF o.cached = NotRead THEN NamesIn(s, o.ino) ELSE @])

\* The inode of a device or a symlink is read for its number or target, that
\* of a pipe or a socket (quiet) is not.
ListingReads(s, o, quiet) ==
    LET told(e) == Inode(s, e.ino).mode \in {"link", "special"} /\ e.name \notin quiet
        es == SelectSeq(Entries(s, o.ino), told)
    IN With(ReadInode(s, o.ino), LAMBDA u :
       IF Current(o, Inode(u, o.ino).mtime) THEN u
       ELSE FoldLeft(LAMBDA r, e : ReadInode(r, e.ino), ReadDirectory(u, o.ino), es))

Specials(s, d) ==
    {e.name : e \in {x \in ToSet(Entries(s, d)) : Inode(s, x.ino).mode = "special"}}

\* One entry for each call.
ReadEntry ==
    /\ walk.open
    /\ \E quiet \in SUBSET Specials(fs, walk.ino) : fs' = ListingReads(fs, walk, quiet)
    /\ walk' = With(Listed(fs, walk), LAMBDA o :
                   IF o.pos >= Len(o.cached.names) THEN [o EXCEPT !.ended = TRUE]
                   ELSE [o EXCEPT !.pos = @ + 1, !.got = Append(@, o.cached.names[o.pos + 1])])
    /\ UNCHANGED <<fo, synced, ops>>

\* Back to the first entry.
Rewind ==
    /\ walk.open
    /\ walk' = [walk EXCEPT !.pos = 0, !.got = <<>>, !.ended = FALSE]
    /\ UNCHANGED <<fs, fo, synced, ops>>

CloseDirectory ==
    /\ walk.open
    /\ walk' = Closed
    /\ UNCHANGED <<fs, fo, synced, ops>>

-----------------------------------------------------------------------------
\* A fresh image: the blocks below FirstData and the metadata of the other
\* groups are in use, the root directory has a block among them.
RootBlock == 1
Init ==
    LET used(g) == IF g = 0 THEN FirstData ELSE GroupMeta
        free(g) == SearchEnd(g) - DataStart(g)
    IN
    /\ fs = [bbm |-> [g \in Groups |-> 0 .. (used(g) - 1)],
             ibm |-> 1 .. (StartInode - 1),
             bgB |-> [g \in Groups |-> free(g)],
             bgI |-> InodesPerGroup - StartInode + 1,
             dirs |-> 1,
             sbB |-> MapThenSumSet(free, Groups),
             sbI |-> InodesPerGroup - StartInode + 1,
             inode |-> [i \in Inodes |->
                          IF i # RootIno THEN EmptyInode
                          ELSE [EmptyInode EXCEPT !.mode = "dir", !.size = BlockSize,
                                  !.links = 2, !.block[0] = RootBlock, !.mtime = ImageTime]],
             blk |-> [b \in Blocks |->
                        IF b # RootBlock THEN Zeros
                        ELSE [dir |-> <<[ino |-> RootIno, name |-> ".", len |-> 1],
                                        [ino |-> RootIno, name |-> "..", len |-> DirCap - 1]>>]],
             ic |-> <<>>, bc |-> <<>>, err |-> "none", got |-> <<>>, io |-> Never,
             crash |-> FALSE, failed |-> FALSE, lost |-> FALSE]
    /\ fo = [h \in Handles |-> Closed]
    /\ walk = Closed
    /\ synced = [i \in Inodes |-> Unknown]
    /\ ops = 0

Next ==
    \/ \E d \in Inodes, name \in Names :
         \/ \E kind \in Kinds : Create(d, name, kind)
         \/ RemoveName(d, name)
         \/ \E h \in Handles : Open(h, d, name)
    \/ \E d \in Inodes : Readdir(d) \/ OpenDirectory(d)
    \/ ReadEntry \/ Rewind \/ CloseDirectory
    \/ \E h \in Handles :
         \/ \E n \in WriteSizes : Read(h, n) \/ Write(h, n)
         \/ \E p \in SeekTo : Seek(h, p)
         \/ Unmap(h)
         \/ Drop(h)
    \/ Remount

Spec == Init /\ [][Next]_vars

-----------------------------------------------------------------------------
(* Properties.                                                              *)

\* The places on disk that point to block b, and the blocks pointed to.
Tables(ino) == {ino.block[Single], ino.block[Double]} \cup
               (IF ino.block[Double] = 0 THEN {}
                ELSE Range(PtrsOf(fs.blk[ino.block[Double]])))
Pointing(b) ==
    {<<i, k>> \in Inodes \X (0 .. Double) : fs.inode[i].block[k] = b}
      \cup {<<t, k>> \in Blocks \X (0 .. (Ptrs - 1)) :
              /\ \E i \in Inodes : t \in Tables(fs.inode[i])
              /\ PtrsOf(fs.blk[t])[k] = b}
\* Allocation hands out no block below the data area, whatever its bit says.
InUse(b) == b >= DataStart(Group(b)) => Bit(b) \in fs.bbm[Group(b)]

\* A block has one owner and is marked in the bitmap, at every point where a
\* write can fail or the power can be lost: the bitmap is written before the
\* pointer (write_file_content, set_inode_blocks_simple_batch, create).  Up
\* to the first time free_block clears the bit of another data block.
BlocksOwned ==
    ~fs.lost => \A b \in Blocks : Pointing(b) # {} =>
                  Cardinality(Pointing(b)) = 1 /\ InUse(b)

\* A name never leads to a free or unwritten inode, also after a failed or
\* interrupted create or remove: create fills the inode in before it adds the
\* entry, remove drops the entry before it frees the inode.  No directory
\* has a name twice.
NamesResolve ==
    ~fs.lost => \A d \in Inodes : fs.inode[d].mode = "dir" =>
        LET es == SelectSeq(EntriesOf(fs.blk[fs.inode[d].block[0]]), LAMBDA e : e.ino # 0)
            sub == {k \in DOMAIN es : es[k].name \notin Dots}
        IN fs.inode[d].size > 0 =>
           /\ \A k \in sub : es[k].ino \in fs.ibm /\ fs.inode[es[k].ino].mode # "none"
           /\ \A j, k \in sub : es[j].name = es[k].name => j = k

\* What is read of a file that has been written back is what was written,
\* through the caches and after a restart: the caches never hide a write.
ReadBack ==
    ~fs.lost => \A i \in Inodes :
        Inode(fs, i).mode = "file" /\ synced[i] # Unknown
          => Content(ReadFileContent(fs, i)) = synced[i]

\* Reading a directory to its end gives every name that was there all the
\* time, once, whatever is created and removed between two reads: the position
\* is an index into a listing that does not change under it
\* (Ext2DirectoryObject::read, get_cached_entries).
WalkIsComplete ==
    walk.open /\ walk.ended => /\ walk.kept \subseteq ToSet(walk.got)
                               /\ IsInjective(walk.got)

NothingLost == ~fs.lost
=============================================================================
