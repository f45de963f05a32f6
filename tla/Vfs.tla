-------------------------------- MODULE Vfs --------------------------------
(***************************************************************************)
(* The virtual file system (kernel/src/fs/vfs_v2: core, mount_tree, manager *)
(* and the system calls): path resolution over a tree of mounts and a cache *)
(* of entries, with tmpfs below.                                            *)
(*                                                                          *)
(* Entries (VfsEntry) and mounts (MountPoint) are reference counted: mounts *)
(* hold their root, the entry they cover and the mounts below them, an open *)
(* file and the working directory hold an entry and a mount; all the rest   *)
(* (an entry's parent and cached children, a mount's parent) is weak.       *)
(* Collect drops what is no longer held, at the end of every call.          *)
(***************************************************************************)
EXTENDS Tmpfs, Integers, FiniteSetsExt, SequencesExt

CONSTANTS
    Names,            \* names of files
    Fss,              \* file systems: 0 is the first root
    Handles,          \* open files
    Paths,            \* paths the calls are given: [abs, comps]
    Targets,          \* paths symbolic links hold
    MaxSymlinkDepth,  \* mount_tree.rs: 32
    MaxNest,          \* absolute links in links the kernel stack has room for
    InitDirs,         \* the directories that are there at first
    MaxCalls          \* bound: calls with an effect

VARIABLES
    v,       \* the manager, its mounts, entries and file systems
    calls    \* calls with an effect so far

vars == <<v, calls>>

Null == 0
Closed == <<Null, Null>>

Alive(s, n) == FsOf(n) \in s.mfs
NodeOf(s, e) == s.ent[e].node
KindOf(s, e) == s.node[NodeOf(s, e)].kind
Id(s, e) == IdOf(NodeOf(s, e))
Unused(f) == CHOOSE k \in 1 .. Cardinality(DOMAIN f) + 1 : k \notin DOMAIN f

-----------------------------------------------------------------------------
(* Entries.  twice records that a directory was given a second entry while  *)
(* it had one.                                                              *)

NewEntry(s, node, name, up) ==
    [s EXCEPT !.ent = (Unused(s.ent) :> [node |-> node, name |-> name, up |-> up, kids |-> <<>>]) @@ @,
              !.twice = @ \/ (s.node[node].kind = "dir" /\ \E e \in DOMAIN s.ent : NodeOf(s, e) = node)]
CachedEntry(s, node, name, up) ==
    [NewEntry(s, node, name, up) EXCEPT !.ent[up].kids = (name :> Unused(s.ent)) @@ @]

RECURSIVE MountsBelow(_, _)
MountsBelow(s, ms) ==
    LET more == ms \cup UNION {Range(s.mnt[m].kids) : m \in ms}
    IN IF more = ms THEN ms ELSE MountsBelow(s, more)

Covered(s, ms) == {s.mnt[m].at : m \in ms} \ {Null}

\* What is left of s when the mounts ms and the entries es are alive.
Keep(s, ms, es) ==
    LET weak(x, xs) == IF x \in xs \cup {Null} THEN x ELSE -1
    IN [s EXCEPT
        !.mnt = [m \in ms |-> [s.mnt[m] EXCEPT !.up = weak(@, ms)]],
        !.ent = [e \in es |-> [s.ent[e] EXCEPT !.kids = RestrictValues(@, LAMBDA k : k \in es),
                                              !.up = weak(@, es)]],
        !.node = Live(@, {Root(f) : f \in s.mfs} \cup {NodeOf(s, e) : e \in es})]

KeepMounts(s, refs, ms) ==
    Keep(s, ms, {r[1] : r \in refs} \cup {s.mnt[m].root : m \in ms} \cup Covered(s, ms))
KeepRefs(s, refs) == KeepMounts(s, refs, MountsBelow(s, {s.root} \cup {r[2] : r \in refs}))

\* held: pairs of an entry and a mount that local variables still own.
Collect(s, held) == KeepRefs(s, (held \cup {s.cwd} \cup Range(s.file)) \ {Closed})

-----------------------------------------------------------------------------
(* Path resolution.  The result of a step is the state, with the entries it *)
(* created, and the entry and the mount reached.                            *)

Found(s, e, m) == [ok |-> TRUE, s |-> s, e |-> e, m |-> m]
Failed == [ok |-> FALSE, deep |-> FALSE]
TooDeep == [ok |-> FALSE, deep |-> TRUE]   \* the recursion overflows the stack
\* The ? of the source.
Then(r, F(_)) == IF r.ok THEN F(r) ELSE r

\* Mutant of AtMountRoot: the root of the file system for the root of the mount.
AtFsRoot(s, e, m) == Id(s, e) = 1
AtMountRoot(s, e, m) == Id(s, e) = Id(s, s.mnt[m].root)

RECURSIVE Component(_, _, _, _, _, _), SymlinkTarget(_, _, _, _, _),
          Walk(_, _, _, _, _, _)

\* The node under a name: cached, or looked up in the file system.
ChildNode(s, e, c) ==
    IF c \in DOMAIN s.ent[e].kids THEN NodeOf(s, s.ent[e].kids[c])
    ELSE IF Alive(s, NodeOf(s, e)) THEN TmpLookup(s.node, NodeOf(s, e), c)
    ELSE NoNode

ChildEntry(s, e, c) ==
    IF c \in DOMAIN s.ent[e].kids THEN Found(s, s.ent[e].kids[c], Null)
    ELSE Found(CachedEntry(s, ChildNode(s, e, c), c, e), Unused(s.ent), Null)

Component(s, e, c, follow, depth, nest) ==
    IF depth > MaxSymlinkDepth \/ ChildNode(s, e, c) = NoNode THEN Failed
    ELSE IF follow /\ s.node[ChildNode(s, e, c)].kind = "link"
    THEN SymlinkTarget(s, e, s.node[ChildNode(s, e, c)].target, depth + 1, nest)
    ELSE ChildEntry(s, e, c)

\* An absolute target is resolved from the root, with a fresh depth.  A
\* relative one is followed without a look at mounts.
SymlinkTarget(s, e, target, depth, nest) ==
    IF depth > MaxSymlinkDepth THEN Failed
    ELSE IF target.abs
    THEN IF nest = MaxNest THEN TooDeep
         ELSE Walk(s, s.mnt[s.root].root, s.root, target.comps,
                   [mount |-> FALSE, nofollow |-> FALSE], nest + 1)
    ELSE FoldLeft(LAMBDA r, c : Then(r, LAMBDA q : Component(q.s, q.e, c, TRUE, depth, nest)),
                  Found(s, e, Null), target.comps)

\* ".." at the root of a mount leaves it, unless its parent is gone.
Leaves(s, e, m, c) == c = ".." /\ AtMountRoot(s, e, m) /\ s.mnt[m].up \in DOMAIN s.mnt

\* Where the component c leads from e, without a look at the mount there.
Step(s, e, m, c, follow, nest) ==
    IF c = ".." /\ AtMountRoot(s, e, m) /\ ~Leaves(s, e, m, c) THEN Found(s, e, m)
    ELSE Component(s, IF Leaves(s, e, m, c) THEN s.mnt[m].at ELSE e, c, follow, 0, nest)

\* The entry and the mount it is in, once a mount on r.e is entered.
Entered(s, m, r) ==
    IF Id(r.s, r.e) \in DOMAIN s.mnt[m].kids
    THEN Found(r.s, s.mnt[s.mnt[m].kids[Id(r.s, r.e)]].root, s.mnt[m].kids[Id(r.s, r.e)])
    ELSE Found(r.s, r.e, m)
Crossed(s, e, m, c, stop, r) ==
    IF Leaves(s, e, m, c) THEN Found(r.s, r.e, s.mnt[m].up)
    ELSE IF c = ".." \/ stop THEN Found(r.s, r.e, m) ELSE Entered(s, m, r)

\* opt.mount: stop at the entry the last mount covers (resolve_mount_point).
Walk(s, e, m, comps, opt, nest) ==
    IF comps = <<>> THEN Found(s, e, m)
    ELSE Then(Then(Step(s, e, m, Head(comps), ~(Len(comps) = 1 /\ opt.nofollow), nest),
                   LAMBDA r : Crossed(s, e, m, Head(comps), Len(comps) = 1 /\ opt.mount, r)),
              LAMBDA r : Walk(r.s, r.e, r.m, Tail(comps), opt, nest))

Plain == [mount |-> FALSE, nofollow |-> FALSE]
NoFollow == [mount |-> FALSE, nofollow |-> TRUE]
MountPoint == [mount |-> TRUE, nofollow |-> FALSE]

ResolveAbs(s, comps, opt) == Walk(s, s.mnt[s.root].root, s.root, comps, opt, 0)
ResolvePath(s, p) ==
    IF ~p.abs /\ s.cwd = Closed THEN Failed
    ELSE Walk(s, IF p.abs THEN s.mnt[s.root].root ELSE s.cwd[1],
              IF p.abs THEN s.root ELSE s.cwd[2], p.comps, Plain, 0)

-----------------------------------------------------------------------------
(* The working directory as a path: the names of the entries up to the root *)
(* of the mount, after the names of the entries the mounts cover.           *)

RECURSIVE EntryNames(_, _, _), MountNames(_, _)
EntryNames(s, e, m) ==
    IF e \notin DOMAIN s.ent \/ e = s.mnt[m].root THEN <<>>
    ELSE Append(EntryNames(s, s.ent[e].up, m), s.ent[e].name)
MountNames(s, m) ==
    IF m \notin DOMAIN s.mnt \/ s.mnt[m].up = Null THEN <<>>
    ELSE Append(MountNames(s, s.mnt[m].up), s.mnt[m].name)

BuildAbsolutePath(s, e, m) ==
    SelectSeq(MountNames(s, m) \o EntryNames(s, e, m), LAMBDA c : c # "/")
GetCwdPath(s) == IF s.cwd = Closed THEN <<>> ELSE BuildAbsolutePath(s, s.cwd[1], s.cwd[2])
ToAbsolutePath(s, p) == IF p.abs THEN p.comps ELSE GetCwdPath(s) \o p.comps

-----------------------------------------------------------------------------
(* Mounting.  A failed call leaves the state as it was; Settle closes one.  *)

Settle(s, r) == IF r.ok THEN Collect(r.s, {}) ELSE [s EXCEPT !.overflow = r.deep]
\* The call goes on to state t, keeping hold of what it had found.
Held(r) == Collect(r.s, {<<r.e, r.m>>})
To(t) == Found(t, Null, Null)

\* A mount of kind "regular" or "bind" on entry at of mount up.
AddMount(s, kind, root, up, at, kids) ==
    [s EXCEPT !.mnt =
        (Unused(@) :> [kind |-> kind, root |-> root, up |-> up, at |-> at, kids |-> kids,
                       name |-> IF at = Null THEN "/" ELSE s.ent[at].name])
            @@ IF at = Null THEN @
               ELSE [@ EXCEPT ![up].kids = (Id(s, at) :> Unused(s.mnt)) @@ @]]

\* The file system f is new, as the driver that creates it makes one.
NewFs(s, f) == [s EXCEPT !.node = @ @@ TmpFS(f), !.next[f] = 2]
MountTree(s, f, at, up) ==
    AddMount(NewEntry(s, Root(f), "/", Null), "regular", Unused(s.ent), up, at, <<>>)

Mount(s, f, p) ==
    Settle(s, Then(ResolvePath(s, p), LAMBDA r :
        To([MountTree(NewFs(r.s, f), f, r.e, r.m) EXCEPT !.mfs = @ \cup {f}])))

ReplaceRoot(s, f) ==
    [MountTree(s, f, Null, Null) EXCEPT
        !.root = Unused(s.mnt),
        !.mfs = (@ \ {FsOf(NodeOf(s, s.mnt[s.root].root))}) \cup {f}]
MountRoot(s, f) == Collect(ReplaceRoot(NewFs(s, f), f), {})

\* A bind mount does not own its file system.
Released(s, m) == IF s.mnt[m].kind = "bind" THEN {} ELSE {FsOf(NodeOf(s, s.mnt[m].root))}

\* Mutant of Drop: the file system is kept in the list.
DropMountOnly(s, e, m) == [s EXCEPT !.mnt[m].kids = Restrict(@, DOMAIN @ \ {Id(s, e)})]
Drop(s, e, m) ==
    [s EXCEPT !.mnt[m].kids = Restrict(@, DOMAIN @ \ {Id(s, e)}),
              !.mfs = @ \ Released(s, s.mnt[m].kids[Id(s, e)])]

Unmount(s, p) ==
    Settle(s, Then(ResolveAbs(s, ToAbsolutePath(s, p), MountPoint), LAMBDA r :
        To(IF Id(r.s, r.e) \in DOMAIN r.s.mnt[r.m].kids THEN Drop(r.s, r.e, r.m) ELSE s)))

BindMount(s, from, to) ==
    Settle(s, Then(ResolvePath(s, to), LAMBDA q :
        Then(ResolvePath(Held(q), from), LAMBDA r :
            To(IF KindOf(r.s, r.e) = "dir" /\ Id(q.s, q.e) \notin DOMAIN q.s.mnt[q.m].kids
               THEN AddMount(r.s, "bind", r.e, q.m, q.e, r.s.mnt[r.m].kids) ELSE s))))

-----------------------------------------------------------------------------
(* Files.  The entry made for a new name is dropped with the call, which    *)
(* leaves nothing cached under that name.                                   *)

\* Mutant of Forget: the cached child stays.
ForgetNothing(s, e, name) == s
Forget(s, e, name) == [s EXCEPT !.ent[e].kids = Restrict(@, DOMAIN @ \ {name})]
ResolveParent(s, comps) == IF comps = <<>> THEN Failed ELSE ResolveAbs(s, Front(comps), Plain)

NewNode(s, d, name, kind, target) ==
    [s EXCEPT !.node = TmpCreate(@, d, name, <<FsOf(d), s.next[FsOf(d)]>>, kind, target),
              !.next[FsOf(d)] = @ + 1]
CreateFile(s, comps, kind, target) ==
    Then(ResolveParent(s, comps), LAMBDA r :
        IF ~Alive(r.s, NodeOf(r.s, r.e)) \/ ~CanCreate(r.s.node, NodeOf(r.s, r.e), Last(comps))
        THEN Failed
        ELSE Found(Forget(NewNode(r.s, NodeOf(r.s, r.e), Last(comps), kind, target), r.e, Last(comps)),
                   r.e, r.m))
Create(s, p, kind, target) == Settle(s, CreateFile(s, ToAbsolutePath(s, p), kind, target))

\* The path must resolve with its links followed, then without the last one.
RemoveFound(s, r, name) ==
    IF Alive(r.s, NodeOf(r.s, r.e)) /\ CanRemove(r.s.node, NodeOf(r.s, r.e), name)
    THEN Forget([r.s EXCEPT !.node = TmpRemove(@, NodeOf(r.s, r.e), name)], r.e, name) ELSE s
RemoveAbs(s, comps) ==
    Settle(s, Then(ResolveAbs(s, comps, Plain), LAMBDA q0 :
        Then(ResolveAbs(s, comps, NoFollow), LAMBDA q :
            Then(ResolveParent(Held(q), comps), LAMBDA r :
                To(IF Id(q.s, q.e) \in DOMAIN q.s.mnt[q.m].kids THEN s
                   ELSE RemoveFound(s, r, Last(comps)))))))
RemovePath(s, p) == RemoveAbs(s, ToAbsolutePath(s, p))

LinkFound(s, r, name, n) ==
    IF /\ FsOf(NodeOf(r.s, r.e)) = FsOf(n) /\ Alive(r.s, NodeOf(r.s, r.e))
       /\ name \notin DOMAIN r.s.ent[r.e].kids
       /\ CanLink(r.s.node, NodeOf(r.s, r.e), name, n)
    THEN Forget([r.s EXCEPT !.node = WithKid(@, NodeOf(r.s, r.e), name, n)], r.e, name) ELSE s
HardLink(s, p, q) ==
    Settle(s, Then(ResolvePath(s, p), LAMBDA f :
        Then(ResolveParent(Held(f), q.comps), LAMBDA r :
            To(LinkFound(s, r, Last(q.comps), NodeOf(f.s, f.e))))))

Open(s, h, p) ==
    Settle(s, Then(ResolveAbs(s, ToAbsolutePath(s, p), Plain), LAMBDA r :
        To(IF Alive(r.s, NodeOf(r.s, r.e)) /\ KindOf(r.s, r.e) # "link"
           THEN [r.s EXCEPT !.file[h] = <<r.e, r.m>>] ELSE s)))
Close(s, h) == Collect([s EXCEPT !.file[h] = Closed], {})

ChangeDirectoryAbs(s, comps) ==
    Settle(s, Then(ResolveAbs(s, comps, Plain), LAMBDA q :
        Then(ResolveAbs(Held(q), comps, Plain), LAMBDA r :
            To(IF KindOf(r.s, r.e) = "dir" THEN [r.s EXCEPT !.cwd = <<r.e, r.m>>] ELSE s))))
ChangeDirectory(s, p) == ChangeDirectoryAbs(s, ToAbsolutePath(s, p))

\* A second manager is built around the file system new lies in, the old root
\* is bound below it, and its mounts and file systems replace the first ones.
NewManager(s, f) == [ReplaceRoot(s, f) EXCEPT !.mfs = {f}]
Existing(s, comps, r) == IF r.ok THEN To(s) ELSE CreateFile(s, comps, "dir", NoNode)
PivotTo(s, t, below) ==
    Then(Existing(t, below, ResolveAbs(t, below, Plain)), LAMBDA q :
        Then(ResolveAbs(q.s, below, Plain), LAMBDA at :
            To(AddMount(at.s, "bind", s.mnt[s.root].root, at.m, at.e, s.mnt[s.root].kids))))
PivotAbs(s, new, old) ==
    Settle(s, Then(ResolveAbs(s, new, Plain), LAMBDA r :
        IF new \in {<<>>, old} \/ ~Alive(r.s, NodeOf(r.s, r.e)) THEN Failed
        ELSE PivotTo(s, NewManager(r.s, FsOf(NodeOf(r.s, r.e))),
                     IF IsPrefix(new, old) THEN SubSeq(old, Len(new) + 1, Len(old)) ELSE old)))
PivotRoot(s, p, q) == PivotAbs(s, ToAbsolutePath(s, p), ToAbsolutePath(s, q))

-----------------------------------------------------------------------------
New ==
    [node |-> TmpFS(0), next |-> [f \in Fss |-> 2],
     ent |-> 1 :> [node |-> Root(0), name |-> "/", up |-> Null, kids |-> <<>>],
     mnt |-> 1 :> [kind |-> "regular", root |-> 1, up |-> Null, at |-> Null,
                   kids |-> <<>>, name |-> "/"],
     root |-> 1, mfs |-> {0}, cwd |-> Closed,
     file |-> [h \in Handles |-> Closed],
     twice |-> FALSE, overflow |-> FALSE]
Init ==
    /\ v = FoldLeft(LAMBDA s, p : Create(s, p, "dir", NoNode), New, InitDirs)
    /\ calls = 0

Becomes(s) == v' = s /\ calls' = IF s = v THEN calls ELSE calls + 1
FreshFs == Fss \ (v.mfs \cup {FsOf(n) : n \in DOMAIN v.node})
Named == {p \in Paths : p.comps # <<>> /\ (\E n \in Names : p.comps[Len(p.comps)] = n)}
NotRoot == Paths \ {[abs |-> TRUE, comps |-> <<>>]}

DoMount == \E f \in FreshFs, p \in NotRoot : Becomes(Mount(v, f, p))
DoMountRoot == \E f \in FreshFs : Becomes(MountRoot(v, f))
DoUnmount == \E p \in Paths : Becomes(Unmount(v, p))
DoBind == \E p, q \in Paths : Becomes(BindMount(v, p, q))
DoPivot == \E p, q \in Paths : Becomes(PivotRoot(v, p, q))
DoCreate == \E p \in Named, k \in {"file", "dir"} : Becomes(Create(v, p, k, NoNode))
DoSymlink == \E p \in Named, t \in Targets : Becomes(Create(v, p, "link", t))
DoRemove == \E p \in Named : Becomes(RemovePath(v, p))
DoLink == \E p \in Paths, q \in {q \in Named : q.abs} : Becomes(HardLink(v, p, q))
DoOpen == \E h \in Handles, p \in Paths : v.file[h] = Closed /\ Becomes(Open(v, h, p))
DoClose == \E h \in Handles : v.file[h] # Closed /\ Becomes(Close(v, h))
DoChdir == \E p \in Paths : Becomes(ChangeDirectory(v, p))

Call ==
    \/ DoMount \/ DoMountRoot \/ DoUnmount \/ DoBind \/ DoPivot \/ DoCreate
    \/ DoSymlink \/ DoRemove \/ DoLink \/ DoOpen \/ DoClose \/ DoChdir
\* No call follows an overflow of the kernel's stack, or the bound on calls.
Over == v.overflow \/ calls = MaxCalls
Next == (~Over /\ Call) \/ (Over /\ UNCHANGED vars)
Spec == Init /\ [][Next]_vars

-----------------------------------------------------------------------------
(* Properties                                                               *)

NodeReached(r) == IF r.ok THEN NodeOf(r.s, r.e) ELSE NoNode
Reached(s, comps) == NodeReached(ResolveAbs(s, comps, Plain))
Absolute == {p.comps : p \in {q \in Paths : q.abs}}
\* The path leads through no symbolic link.
IsNoLink(r) == r.ok /\ KindOf(r.s, r.e) # "link"
Straight(p) == \A i \in 1 .. Len(p) : IsNoLink(ResolveAbs(v, SubSeq(p, 1, i), NoFollow))
\* The cache is coherent: as long as no directory ever had two entries at a
\* time, a cached child is the node the file system would find under that name
\* now, whatever was created, linked, removed, mounted or moved meanwhile
\* (VfsEntry::add_child and remove_child in create_file and remove).
CacheCoherent ==
    ~v.twice =>
        \A e \in DOMAIN v.ent : \A c \in DOMAIN v.ent[e].kids :
            Alive(v, NodeOf(v, e)) => TmpLookup(v.node, NodeOf(v, e), c) = NodeOf(v, v.ent[e].kids[c])

\* A mounted directory's own node was not removed while it was mounted.
MountedAreHeld ==
    \A m \in MountsBelow(v, {v.root}) : Alive(v, NodeOf(v, v.mnt[m].root))

\* Leaving a directory by ".." leads to the directory it was entered from, also
\* where that crosses a mount (resolve_path_from_internal): on a path without
\* links, if the roots of mounts were not removed, mounts cover directories only
\* and no bind mount took over the mounts of its source, which still have the
\* source for a parent.
DotDotGoesBack ==
    /\ MountedAreHeld
    /\ \A m \in DOMAIN v.mnt : /\ v.mnt[m].at = Null \/ KindOf(v, v.mnt[m].at) = "dir"
                               /\ \A k \in Range(v.mnt[m].kids) : v.mnt[k].up = m
    =>
    \A p \in Absolute, c \in Names :
        LET r == ResolveAbs(v, Append(p, c), NoFollow)
        IN r.ok /\ KindOf(r.s, r.e) = "dir" /\ Alive(r.s, NodeOf(r.s, r.e)) /\ Straight(p) =>
               Reached(v, p \o <<c, "..">>) = Reached(v, p)

\* Unmounting undoes mounting: a file system mounted where nothing is mounted,
\* by a path without links, and unmounted again leaves every path leading where
\* it led, and the list of mounted file systems as it was (VfsManager::mount and
\* unmount).
UnmountRestores ==
    \A f \in FreshFs, p \in Absolute \ {<<>>} :
        LET r == ResolveAbs(v, p, Plain)
            path == [abs |-> TRUE, comps |-> p]
            after == Unmount(Mount(v, f, path), path)
        IN r.ok /\ r.e # r.s.mnt[r.m].root /\ Straight(p) =>
               /\ after.mfs = v.mfs
               /\ \A q \in Absolute : Reached(after, q) = Reached(v, q)
============================================================================
