----------------------------- MODULE Fat32Disk -----------------------------
(***************************************************************************)
(* The disk side of the FAT32 driver (kernel/src/fs/vfs_v2/drivers/fat32):  *)
(* the two copies of the FAT and the cache in front of them, cluster        *)
(* allocation, the FS Info free count, and directories as chains of slots.  *)
(*                                                                         *)
(* Every operator takes the file system as a record fs and returns the     *)
(* record after it: fat and mirror are the two copies of the table, cache   *)
(* the entries fat_cache holds, data the clusters, free the count in the FS *)
(* Info sector, kids the in-memory children of the root node with the start *)
(* cluster each node was made with.  fs.err is the error the code returns,  *)
(* fs.got the cluster an allocation returned.                               *)
(*                                                                         *)
(* A name is [text, stem]: the sequence of its parts, one per long file     *)
(* name entry, and the 8.3 name it is shortened to.  It is a short name when*)
(* text is the stem itself.  Names that differ only in case are one name.   *)
(***************************************************************************)
EXTENDS Naturals, Sequences, FiniteSets, FiniteSetsExt, SequencesExt

CONSTANTS
    LastCluster,   \* last cluster allocate_cluster looks at (99)
    Slots,         \* directory entries in a cluster
    ClusterSize,   \* bytes in a cluster
    FileNames,     \* names files are created under
    DirNames       \* names directories are created under

Clusters == 2 .. LastCluster
RootCluster == 2
Free == 0
Eoc == LastCluster + 1          \* end of chain
Absent == LastCluster + 2       \* no entry in a map
Names == FileNames \cup DirNames
Long(n) == n.text # <<n.stem>>

With(x, F(_)) == F(x)
\* The ? operator: an error ends the operation.
Then(fs, F(_)) == IF fs.err # "none" THEN fs ELSE F(fs)

-----------------------------------------------------------------------------
(* The FAT, its cache, and allocation.                                      *)

\* The entry of c as the code reads it, and the cache after it has read the
\* entries of cs.
ReadFat(fs, c) == IF fs.cache[c] # Absent THEN fs.cache[c] ELSE fs.fat[c]
Touch(fs, cs) ==
    [fs EXCEPT !.cache = [c \in Clusters |-> IF c \in cs THEN ReadFat(fs, c) ELSE @[c]]]

\* Both copies, then the cache.
WriteFat(fs, c, v) == [fs EXCEPT !.fat[c] = v, !.mirror[c] = v, !.cache[c] = v]

\* The clusters met from c on.
Chain(fs, c) ==
    FoldLeft(LAMBDA cs, k : IF ReadFat(fs, Last(cs)) \in Clusters
                            THEN Append(cs, ReadFat(fs, Last(cs))) ELSE cs,
             <<c>>, [k \in 1 .. LastCluster |-> k])

\* read_fat_entry_direct: the first copy on the disk, never the cache.
FreeClusters(fs) == {c \in Clusters : fs.fat[c] = Free}

Count(fs, n) == [fs EXCEPT !.free = n]

\* First fit; the cluster is an end of chain before anybody sees it.
Allocate(fs) ==
    IF FreeClusters(fs) = {} THEN [fs EXCEPT !.err = "NoSpace"]
    ELSE With(Min(FreeClusters(fs)), LAMBDA c :
             [Count(WriteFat(fs, c, Eoc), IF fs.free = 0 THEN 0 ELSE fs.free - 1)
                 EXCEPT !.got = Append(@, c)])

FreeChain(fs, c) ==
    With(Chain(fs, c), LAMBDA cs :
        Count(FoldLeft(LAMBDA f, k : WriteFat(f, k, Free), fs, cs), fs.free + Len(cs)))

-----------------------------------------------------------------------------
(* File contents.                                                           *)

Zeros == [k \in 1 .. ClusterSize |-> 0]
BytesOf(v) == IF "bytes" \in DOMAIN v THEN v.bytes ELSE Zeros
ClustersNeeded(n) == (n + ClusterSize - 1) \div ClusterSize
Chunk(b, k) == SubSeq(b \o Zeros, ((k - 1) * ClusterSize) + 1, k * ClusterSize)

\* The chain is followed while bytes are missing and it goes on.
Covers(cs, size) == SubSeq(cs, 1, Min({Len(cs), ClustersNeeded(size)}))
Content(fs, cs, size) ==
    With(FlattenSeq([k \in DOMAIN cs |-> BytesOf(fs.data[cs[k]])]),
         LAMBDA b : SubSeq(b, 1, Min({Len(b), size})))

\* Mutant of ReadFile: the clusters are taken to follow each other.
ReadFileContiguous(fs, c, size) ==
    IF c = 0 \/ size = 0 THEN <<>>
    ELSE Content(fs, [k \in 1 .. ClustersNeeded(size) |-> Min({c + k - 1, LastCluster})], size)

ReadFile(fs, c, size) ==
    IF c = 0 \/ size = 0 THEN <<>> ELSE Content(fs, Covers(Chain(fs, c), size), size)
ReadTouches(fs, c, size) ==
    IF c = 0 \/ size = 0 THEN fs
    ELSE With(Chain(fs, c), LAMBDA cs :
             Touch(fs, {cs[k] : k \in {j \in DOMAIN cs : j * ClusterSize < size}}))

Link(fs) ==
    FoldLeft(LAMBDA f, k : WriteFat(f, fs.got[k],
                                    IF k = Len(fs.got) THEN Eoc ELSE fs.got[k + 1]),
             fs, [k \in DOMAIN fs.got |-> k])
Fill(fs, b) ==
    [fs EXCEPT !.data = [c \in Clusters |->
        IF \E k \in DOMAIN fs.got : fs.got[k] = c
        THEN [bytes |-> Chunk(b, CHOOSE k \in DOMAIN fs.got : fs.got[k] = c)]
        ELSE @[c]]]

\* write_file_content for a non-empty b: the old chain is given back first,
\* all the clusters are taken, then linked, then written.
WriteFile(fs, c, b) ==
    Then(FoldLeft(LAMBDA f, k : Then(f, Allocate),
                  [(IF c = 0 THEN fs ELSE FreeChain(fs, c)) EXCEPT !.got = <<>>],
                  [k \in 1 .. ClustersNeeded(Len(b)) |-> k]),
         LAMBDA f : Fill(Link(f), b))

-----------------------------------------------------------------------------
(* Directory slots: never used, deleted ("old", "oldlfn"), one part of a    *)
(* long name, a short entry, or . and ...                                   *)

Zero == [kind |-> "zero"]
Dot == [kind |-> "dot"]
Sfn(t, c, size, dir) ==
    [kind |-> "sfn", text |-> t, cluster |-> c, size |-> size, dir |-> dir]
Lfn(part, seq, last) == [kind |-> "lfn", part |-> part, seq |-> seq, last |-> last]
\* 0xE5 over the first byte: the sequence number of an LFN entry becomes 5.
Deleted(s) ==
    IF s.kind \in {"lfn", "oldlfn"} THEN [kind |-> "oldlfn", part |-> s.part, seq |-> 5]
    ELSE [kind |-> "old"]
IsFree(s) == s.kind \in {"zero", "old", "oldlfn"}

Empty == [k \in 1 .. Slots |-> Zero]
SlotsOf(v) == IF "slots" \in DOMAIN v THEN v.slots ELSE Empty
Dir(fs, c) == SlotsOf(fs.data[c])
WriteDir(fs, c, s) == [fs EXCEPT !.data[c] = [slots |-> s]]

RunStart(s, i, kinds) == Min({j \in 1 .. i : \A k \in j .. (i - 1) : s[k].kind \in kinds})
\* The parts met since the one marked last, in reverse.
LfnStart(s, i) ==
    With(RunStart(s, i, {"lfn"}), LAMBDA a : Max({a} \cup {j \in a .. (i - 1) : s[j].last}))
NameAt(s, i) ==
    With(LfnStart(s, i), LAMBDA a :
        IF a = i THEN s[i].text ELSE [k \in 1 .. (i - a) |-> s[i - k].part])

\* remove_directory_entry reads the same name from every LFN slot in front of
\* the entry, deleted or not, sorted by sequence number.
RawStart(s, i) == RunStart(s, i, {"lfn", "oldlfn"})
RawName(s, i) ==
    With(SetToSortSeq(RawStart(s, i) .. (i - 1),
                      LAMBDA j, k : s[j].seq < s[k].seq \/ (s[j].seq = s[k].seq /\ j < k)),
         LAMBDA o : [k \in DOMAIN o |-> s[o[k]].part])

Shorts(s) == {i \in DOMAIN s : s[i].kind = "sfn"}
Named(s, t) == {i \in Shorts(s) : NameAt(s, i) = t}
Alias(s, t) == {i \in Shorts(s) : NameAt(s, i) = t \/ s[i].text = t}
Victims(s, t) ==
    {i \in Shorts(s) : /\ \A k \in 1 .. i : s[k].kind # "zero"
                       /\ s[i].text = t \/ RawName(s, i) = t}
Taken(s, t) == {i \in DOMAIN s : s[i].kind = "zero" \/ (s[i].kind = "sfn" /\ s[i].text = t)}
Room(s, n) == {i \in 1 .. (Slots + 1 - n) : \A k \in i .. (i + n - 1) : IsFree(s[k])}

\* The first cluster of the chain cs with a slot of Sel, and the slot; the
\* FAT entries of the clusters passed over have been read.
First(fs, cs, Sel(_)) ==
    With({k \in DOMAIN cs : Sel(Dir(fs, cs[k])) # {}}, LAMBDA ks :
        IF ks = {} THEN [c |-> 0, i |-> 0, seen |-> ToSet(cs)]
        ELSE [c |-> cs[Min(ks)], i |-> Min(Sel(Dir(fs, cs[Min(ks)]))),
              seen |-> {cs[k] : k \in 1 .. (Min(ks) - 1)}])
FindIn(fs, dir, Sel(_)) == First(fs, Chain(fs, dir), Sel)
Lookup(fs, dir, t) == FindIn(fs, dir, LAMBDA s : Named(s, t))
EntryAt(fs, at) == Dir(fs, at.c)[at.i]

\* readdir: the first cluster of the directory, up to a slot never used.
Listing(s) ==
    {NameAt(s, i) : i \in {j \in Shorts(s) : \A k \in 1 .. j : s[k].kind # "zero"}}

UpdateEntry(fs, at, c, size) ==
    WriteDir(fs, at.c, [Dir(fs, at.c) EXCEPT ![at.i].cluster = c, ![at.i].size = size])
UpdateDirectoryEntry(fs, dir, t, c, size) ==
    With(FindIn(fs, dir, LAMBDA s : Alias(s, t)), LAMBDA at :
        IF at.c = 0 THEN Touch(fs, at.seen)
        ELSE UpdateEntry(Touch(fs, at.seen), at, c, size))

\* Mutant of Erase: the long name entries stay behind.
EraseShort(s, i) == [s EXCEPT ![i] = Deleted(@)]

Erase(s, i) == [k \in DOMAIN s |-> IF k \in RawStart(s, i) .. i THEN Deleted(s[k]) ELSE s[k]]
RemoveDirectoryEntry(fs, dir, t) ==
    With(FindIn(fs, dir, LAMBDA s : Victims(s, t)), LAMBDA at :
        IF at.c = 0 THEN [Touch(fs, at.seen) EXCEPT !.err = "NotFound"]
        ELSE WriteDir(Touch(fs, at.seen), at.c, Erase(Dir(fs, at.c), at.i)))

-----------------------------------------------------------------------------
(* New entries.                                                             *)

Tails == <<"~1", "~2", "~3", "~4">>
Candidates(n) ==
    (IF Long(n) THEN <<>> ELSE <<<<n.stem>>>>)
        \o [k \in DOMAIN Tails |-> <<n.stem, Tails[k]>>]
\* sfn_exists_in_directory stops at the first slot never used.
SfnAt(fs, dir, t) == FindIn(fs, dir, LAMBDA s : Taken(s, t))
SfnExists(fs, at) == at.c # 0 /\ EntryAt(fs, at).kind = "sfn"

EntriesFor(n, t, c, dir) ==
    (IF ~Long(n) THEN <<>>
     ELSE [k \in DOMAIN n.text |-> Lfn(n.text[Len(n.text) + 1 - k], Len(n.text) + 1 - k, k = 1)])
        \o <<Sfn(t, c, 0, dir)>>
Put(s, i, es) ==
    [k \in DOMAIN s |-> IF k \in i .. (i + Len(es) - 1) THEN es[k - i + 1] ELSE s[k]]

\* A full directory grows by one cluster.
Extend(fs, last, es) ==
    Then(Allocate([fs EXCEPT !.got = <<>>]), LAMBDA f :
        WriteDir(WriteFat(WriteFat(f, last, f.got[1]), f.got[1], Eoc), f.got[1], Put(Empty, 1, es)))

Place(fs, cs, at, es) ==
    IF at.c # 0 THEN WriteDir(fs, at.c, Put(Dir(fs, at.c), at.i, es))
    ELSE Extend(fs, Last(cs), es)
Insert(fs, cs, es) ==
    With(First(fs, cs, LAMBDA s : Room(s, Len(es))), LAMBDA at :
        Place(Touch(fs, at.seen), cs, at, es))

WriteDirectoryEntry(fs, dir, n, c, isdir) ==
    With([k \in DOMAIN Candidates(n) |-> SfnAt(fs, dir, Candidates(n)[k])], LAMBDA ats :
    With(Min({k \in DOMAIN ats : ~SfnExists(fs, ats[k])}), LAMBDA k :
        Insert(Touch(fs, UNION {ats[j].seen : j \in 1 .. k}), Chain(fs, dir),
               EntriesFor(n, Candidates(n)[k], c, isdir))))

InitializeDirectory(fs, c) == WriteDir(fs, c, Put(Empty, 1, <<Dot, Dot>>))
=============================================================================
