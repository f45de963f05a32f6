------------------------------- MODULE Fat32 -------------------------------
(***************************************************************************)
(* A mounted FAT32 file system in use (Fat32FileSystem and Fat32FileObject):*)
(* files and directories are created in and removed from the root and its   *)
(* subdirectories, and one file at a time is open.  A file object works on  *)
(* a copy of its node: the bytes are loaded at the first access, written in *)
(* memory and reach the disk when it is synced (sync, or on_unmapped).      *)
(*                                                                         *)
(* Directories are resolved anew for every call, as they are while nobody   *)
(* keeps one open: a Fat32Node made by lookup has no children, so remove    *)
(* answers NotFound below the root and has no action there.                 *)
(***************************************************************************)
EXTENDS Fat32Disk

CONSTANTS
    Buffers,     \* what write is called with
    MaxCalls     \* bound: names created and removed, opens and writes

VARIABLES
    fs,
    file,        \* the open file object, or NoFile
    names,       \* history: the names that exist, <<directory, text>>
    wrote,       \* history: per start cluster, the content last stored there
    calls

vars == <<fs, file, names, wrote, calls>>

RootDir == <<>>
NoFile == [open |-> FALSE]

\* A formatted disk: an empty root directory and nothing else.
Init ==
    /\ fs = [fat |-> [c \in Clusters |-> IF c = RootCluster THEN Eoc ELSE Free],
             mirror |-> [c \in Clusters |-> IF c = RootCluster THEN Eoc ELSE Free],
             cache |-> [c \in Clusters |-> Absent],
             data |-> [c \in Clusters |-> IF c = RootCluster THEN [slots |-> Empty]
                                          ELSE [bytes |-> Zeros]],
             free |-> Cardinality(Clusters) - 1,
             kids |-> [n \in Names |-> Absent],
             err |-> "none", got |-> <<>>]
    /\ file = NoFile
    /\ names = {}
    /\ wrote = [c \in Clusters |-> <<>>]
    /\ calls = 0

Becomes(f) == fs' = [f EXCEPT !.err = "none", !.got = <<>>]
Call == calls < MaxCalls /\ calls' = calls + 1

-----------------------------------------------------------------------------
(* Names.                                                                   *)

\* The cluster of a directory; the lookup in the root reads FAT entries.
ClusterOf(d) ==
    IF d = RootDir THEN RootCluster
    ELSE EntryAt(fs, Lookup(fs, RootCluster, d)).cluster
Resolved(d) == IF d = RootDir THEN fs ELSE Touch(fs, Lookup(fs, RootCluster, d).seen)
IsDir(d) == d = RootDir \/ (Lookup(fs, RootCluster, d).c # 0
                              /\ EntryAt(fs, Lookup(fs, RootCluster, d)).dir)

\* Mutant of NewNode: a directory's cluster is initialised, but not taken.
NewNodeUntaken(f, dir) ==
    IF dir THEN [InitializeDirectory(f, Min(FreeClusters(f)))
                    EXCEPT !.got = <<Min(FreeClusters(f))>>] ELSE f

NewNode(f, dir) ==
    IF dir THEN Then(Allocate(f), LAMBDA g : InitializeDirectory(g, g.got[1])) ELSE f

NodeCluster(f, dir) == IF dir THEN f.got[1] ELSE 0

\* The root node keeps what was created in it.
Keep(f, d, n, c) == IF d = RootDir THEN [f EXCEPT !.kids[n] = c] ELSE f

\* create: an existing name is refused, a directory gets its cluster, then
\* the entry is written.
CreateIn(f, d, dc, n, dir) ==
    With(Lookup(f, dc, n.text), LAMBDA at :
        IF at.c # 0 THEN [Touch(f, at.seen) EXCEPT !.err = "AlreadyExists"]
        ELSE Then(NewNode(Touch(f, at.seen), dir), LAMBDA g :
             Then(WriteDirectoryEntry(g, dc, n, NodeCluster(g, dir), dir), LAMBDA w :
                 Keep(w, d, n, NodeCluster(g, dir)))))

Create(d, n, dir) ==
    /\ Call
    /\ IsDir(d)
    /\ With(CreateIn(Resolved(d), d, ClusterOf(d), n, dir), LAMBDA f :
           /\ Becomes(f)
           /\ names' = IF f.err = "none" THEN names \cup {<<d, n.text>>} ELSE names)
    /\ UNCHANGED <<file, wrote>>

\* remove: the chain of the node the root remembers is given back (a file's
\* node still has cluster 0), then the entry goes, then the node.
RemoveFrom(f, n) ==
    Then(IF f.kids[n] = 0 THEN f ELSE FreeChain(f, f.kids[n]), LAMBDA g :
    Then(RemoveDirectoryEntry(g, RootCluster, n.text), LAMBDA r :
        [r EXCEPT !.kids[n] = Absent]))

Delete(n) ==
    /\ Call
    /\ fs.kids[n] # Absent
    /\ With(RemoveFrom(fs, n), LAMBDA f :
           /\ Becomes(f)
           /\ names' = IF f.err = "none"
                       THEN {p \in names : p # <<RootDir, n.text>> /\ p[1] # n.text}
                       ELSE names)
    /\ UNCHANGED <<file, wrote>>

-----------------------------------------------------------------------------
(* File objects.                                                            *)

\* The object's node is a copy; its parent reference is already dead, so a
\* sync looks for the entry in the root directory, wherever the file is.
Open(d, n) ==
    /\ Call
    /\ ~file.open
    /\ IsDir(d)
    /\ With(Lookup(Resolved(d), ClusterOf(d), n.text), LAMBDA at :
           /\ at.c # 0
           /\ ~EntryAt(fs, at).dir
           /\ Becomes(Touch(Resolved(d), at.seen))
           /\ file' = [open |-> TRUE, dir |-> d, name |-> NameAt(Dir(fs, at.c), at.i),
                       cluster |-> EntryAt(fs, at).cluster, size |-> EntryAt(fs, at).size,
                       loaded |-> FALSE, content |-> <<>>, dirty |-> FALSE, pos |-> 0])
    /\ UNCHANGED <<names, wrote>>

\* ensure_content_loaded.
Loaded(f) ==
    IF f.loaded THEN f
    ELSE [f EXCEPT !.loaded = TRUE, !.content = ReadFile(fs, f.cluster, f.size)]
Loading(f) == IF f.loaded THEN fs ELSE ReadTouches(fs, f.cluster, f.size)

\* read to the end of the file.
Read ==
    /\ file.open
    /\ file' = With(Loaded(file), LAMBDA f : [f EXCEPT !.pos = Max({@, Len(f.content)})])
    /\ Becomes(Loading(file))
    /\ UNCHANGED <<names, wrote, calls>>

Overwrite(b, pos, w) ==
    [k \in 1 .. Max({Len(b), pos + Len(w)}) |->
        IF k \in (pos + 1) .. (pos + Len(w)) THEN w[k - pos]
        ELSE IF k <= Len(b) THEN b[k] ELSE 0]

Write(w) ==
    /\ Call
    /\ file.open
    /\ file' = With(Loaded(file), LAMBDA f :
                   [f EXCEPT !.content = Overwrite(@, f.pos, w), !.dirty = TRUE,
                             !.pos = @ + Len(w)])
    /\ Becomes(Loading(file))
    /\ UNCHANGED <<names, wrote>>

\* seek to the start, or to the end the metadata knows of.
Seek(end) ==
    /\ file.open
    /\ file' = [file EXCEPT !.pos = IF end THEN file.size ELSE 0]
    /\ UNCHANGED <<fs, names, wrote, calls>>

\* The entry is rewritten when the start cluster has changed.
Entered(f, c) ==
    IF c = file.cluster THEN f
    ELSE UpdateDirectoryEntry(f, RootCluster, file.name, c, Len(file.content))

SyncNothing == file.content = <<>>
StartOf(f) == IF SyncNothing THEN 0 ELSE f.got[1]
Stored == IF SyncNothing THEN fs ELSE WriteFile(fs, file.cluster, file.content)

\* A failed write leaves the object dirty, its node and the entry unchanged.
Sync ==
    /\ file.open /\ file.dirty
    /\ With(Stored, LAMBDA f :
           IF f.err # "none" THEN Becomes(f) /\ UNCHANGED <<file, wrote>>
           ELSE /\ Becomes(Entered(f, StartOf(f)))
                /\ file' = [file EXCEPT !.cluster = StartOf(f), !.dirty = FALSE,
                                        !.size = Len(file.content)]
                /\ wrote' = IF SyncNothing THEN wrote
                            ELSE [wrote EXCEPT ![StartOf(f)] = file.content])
    /\ UNCHANGED <<names, calls>>

\* Dropping the object writes nothing back.
Close ==
    /\ file.open
    /\ file' = NoFile
    /\ UNCHANGED <<fs, names, wrote, calls>>

\* The bound on calls is reached.
Over == calls = MaxCalls /\ UNCHANGED vars

Dirs == {RootDir} \cup {n.text : n \in DirNames}

Next ==
    \/ \E d \in Dirs, n \in FileNames : Create(d, n, FALSE)
    \/ \E n \in DirNames : Create(RootDir, n, TRUE)
    \/ \E n \in Names : Delete(n)
    \/ \E d \in Dirs, n \in FileNames : Open(d, n)
    \/ Read
    \/ \E w \in Buffers : Write(w)
    \/ \E end \in BOOLEAN : Seek(end)
    \/ Sync
    \/ Close
    \/ Over

Spec == Init /\ [][Next]_vars

-----------------------------------------------------------------------------
(* Properties.                                                              *)

\* Where the entries of the directory at cluster c are, and the entries.
Spots(c) == {<<k, i>> \in ToSet(Chain(fs, c)) \X (1 .. Slots) : Dir(fs, k)[i].kind = "sfn"}
EntriesIn(c) == {Dir(fs, p[1])[p[2]] : p \in Spots(c)}
AllSpots == Spots(RootCluster)
                \cup UNION {Spots(e.cluster) : e \in {x \in EntriesIn(RootCluster) : x.dir}}
SlotAt(p) == Dir(fs, p[1])[p[2]]

\* The directory entries are what the FAT is for: every chain an entry (or the
\* root) starts runs over clusters marked in use to an end of chain, and no
\* cluster is in two of them, through overwriting, growing, removing and
\* running out of space (free_cluster_chain, allocate_cluster).
ChainsAreDisjoint ==
    LET Starts == {p \in AllSpots : SlotAt(p).cluster # 0}
        Of(p) == ToSet(Chain(fs, SlotAt(p).cluster))
    IN  /\ \A p \in Starts : /\ \A c \in Of(p) : fs.fat[c] # Free
                             /\ Of(p) \cap ToSet(Chain(fs, RootCluster)) = {}
                             /\ Len(Chain(fs, SlotAt(p).cluster)) = Cardinality(Of(p))
        /\ \A p, q \in Starts : p # q => Of(p) \cap Of(q) = {}

\* What a lookup answers is what the calls that succeeded say: a name created
\* and not removed is found in its directory, any other is neither found nor
\* listed, although the slots of removed names are used again by names of other
\* lengths and a directory grows over several clusters
\* (lookup_file_in_directory, read_directory_entries).
NamesResolve ==
    \A d \in Dirs : IsDir(d) =>
        /\ \A n \in Names :
              (<<d, n.text>> \in names) <=> (Lookup(fs, ClusterOf(d), n.text).c # 0)
        /\ \A t \in Listing(Dir(fs, ClusterOf(d))) : <<d, t>> \in names

\* The bytes found through a directory entry were stored through a file object
\* with that start cluster, in that order, from the first on: no entry shows
\* zeros, bytes of another file or a cluster out of its place
\* (write_file_content, read_file_content).
EntriesShowStoredBytes ==
    \A p \in AllSpots :
        (~SlotAt(p).dir /\ SlotAt(p).cluster # 0) =>
            IsPrefix(ReadFile(fs, SlotAt(p).cluster, SlotAt(p).size), wrote[SlotAt(p).cluster])

=============================================================================
