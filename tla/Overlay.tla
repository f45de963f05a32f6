------------------------------ MODULE Overlay ------------------------------
(***************************************************************************)
(* The overlay file system (kernel/src/fs/vfs_v2/drivers/overlayfs) over    *)
(* tmpfs layers, and the file objects of both: an optional upper layer that *)
(* is written, and lower layers that show through it.  An overlay node is   *)
(* its path; every call walks it down each layer.  A path reaches the       *)
(* overlay one component at a time, as the VFS resolves it (Resolves).      *)
(*                                                                          *)
(* A layer is one tmpfs: mounts inside a layer, symbolic links and device   *)
(* files are left out.  A file's content is a short sequence of bytes.      *)
(***************************************************************************)
EXTENDS Tmpfs, SequencesExt

CONSTANTS
    Names,          \* names of files and directories
    Handles,        \* file handles
    LowerTrees,     \* the lower layers a system may start with: sequences of
                    \* functions from paths to a kind and a content
    Bytes,          \* bytes a program writes
    MaxLength,      \* bound on a file's length and position
    MaxCalls        \* bound on the calls of a behaviour

VARIABLES o, calls
vars == <<o, calls>>

Paths == UNION {[1..k -> Names] : k \in 0..2}
Named == Paths \ {<<>>}
Closed == [at |-> "closed"]

\* .wh.<name>, the upper layer's mark that a name is deleted
Whiteout(name) == ".wh." \o name
Whiteouts == {Whiteout(name) : name \in Names}

Result(s, ok) == [s |-> s, ok |-> ok]
With(x, F(_)) == F(x)
\* The ? operator: an error ends the operation.
Then(r, F(_)) == IF r.ok THEN F(r.s) ELSE r

-----------------------------------------------------------------------------
(* Files of a tmpfs.                                                        *)

Resized(data, len) ==
    [i \in 1..len |-> IF i <= Len(data) THEN data[i] ELSE 0]

\* write_regular_file: the content grows with zeros, then buf replaces what
\* is at the position.
Written(data, pos, buf) ==
    LET grown == IF pos + Len(buf) > Len(data) THEN Resized(data, pos + Len(buf)) ELSE data
    IN [i \in DOMAIN grown |-> IF i \in pos + 1..pos + Len(buf) THEN buf[i - pos] ELSE grown[i]]

\* Positions a seek can set; beyond the end from the end and the position only.
SeekTo(whence, offset, pos, len) ==
    CASE whence = "start" -> IF offset \in 0..len THEN offset ELSE pos
      [] whence = "end" -> IF len + offset < 0 THEN 0 ELSE len + offset
      [] whence = "current" -> IF pos + offset < 0 THEN 0 ELSE pos + offset

-----------------------------------------------------------------------------
(* The layers.                                                              *)

InLayer(s, root, p) ==
    FoldLeft(LAMBDA n, name : IF n = NoNode THEN NoNode ELSE TmpLookup(s.node, n, name),
             root, p)
InUpper(s, p) == IF s.upper = NoNode THEN NoNode ELSE InLayer(s, s.upper, p)

\* The node of the first lower layer that has the path.
InLower(s, p) ==
    LET hits == SelectSeq([i \in DOMAIN s.lowers |-> InLayer(s, s.lowers[i], p)],
                          LAMBDA n : n # NoNode)
    IN IF hits = <<>> THEN NoNode ELSE Head(hits)

IsWhiteout(s, p) == p # <<>> /\ InUpper(s, Append(Front(p), Whiteout(Last(p)))) # NoNode
ExistsInLowerOnly(s, p) == InUpper(s, p) = NoNode /\ InLower(s, p) # NoNode

\* get_metadata_for_path: the node whose metadata the overlay shows.
Uppermost(upper, lower) == IF upper # NoNode THEN upper ELSE lower
MetadataNode(s, p) ==
    IF IsWhiteout(s, p) THEN NoNode ELSE Uppermost(InUpper(s, p), InLower(s, p))

\* lookup: a path that neither layer has is not found, nor is a hidden one.
Lookup(s, p) == MetadataNode(s, p)

Resolves(s, p) == \A k \in 1..Len(p) : Lookup(s, SubSeq(p, 1, k)) # NoNode

\* Nodes nobody links or has open are dropped.
Settled(s) ==
    [s EXCEPT !.node = Live(@, ({s.upper} \ {NoNode}) \cup ToSet(s.lowers)
                               \cup {s.file[h].node : h \in {g \in Handles : s.file[g].at = "node"}})]

UpperCreate(s, d, name, kind, data) ==
    IF d = NoNode \/ ~CanCreate(s.node, d, name) THEN Result(s, FALSE)
    ELSE LET n == <<FsOf(s.upper), s.next>> IN
         Result([s EXCEPT !.node = [TmpCreate(@, d, name, n, kind, NoNode) EXCEPT ![n].data = data],
                          !.next = @ + 1], TRUE)
UpperCreateAt(s, p, name, kind, data) == UpperCreate(s, InUpper(s, Front(p)), name, kind, data)

EnsureParentDirs(s, p) ==
    LET make(r, q) ==
            IF ~r.ok \/ InUpper(r.s, q) # NoNode THEN r
            ELSE UpperCreateAt(r.s, q, Last(q), "dir", <<>>)
    IN FoldLeft(make, Result(s, TRUE), [k \in 1..Len(p) - 1 |-> SubSeq(p, 1, k)])

CreateWhiteout(s, p) ==
    IF s.upper = NoNode THEN Result(s, FALSE)
    ELSE Then(EnsureParentDirs(s, p), LAMBDA t :
              UpperCreateAt(t, p, Whiteout(Last(p)), "file", <<>>))

CopyOf(s, p, from) ==
    Then(EnsureParentDirs(s, p), LAMBDA t : UpperCreateAt(t, p, Last(p), from.kind, from.data))

CopyUp(s, p) ==
    IF s.upper = NoNode THEN Result(s, FALSE)
    ELSE IF InUpper(s, p) # NoNode THEN Result(s, TRUE)
    ELSE With(InLower(s, p), LAMBDA from :
              IF from = NoNode THEN Result(s, FALSE) ELSE CopyOf(s, p, s.node[from]))

-----------------------------------------------------------------------------
(* Operations of the file system.  A failed one keeps what it did so far.   *)

\* The whiteout is removed from the directory above the new file's parent,
\* which is the right one for a file of the root only.
Unhide(s, p) ==
    LET above == IF Len(p) = 1 THEN <<>> ELSE Front(Front(p))
        unhide(d) ==
            IF ~IsWhiteout(s, p) \/ d = NoNode THEN Result(s, TRUE)
            ELSE IF ~CanRemove(s.node, d, Whiteout(Last(p))) THEN Result(s, FALSE)
            ELSE Result([s EXCEPT !.node = TmpRemove(@, d, Whiteout(Last(p)))], TRUE)
    IN unhide(InUpper(s, above))

CopyUpIfLower(s, p) == IF ExistsInLowerOnly(s, p) THEN CopyUp(s, p) ELSE Result(s, TRUE)

Create(s, p, kind) ==
    IF s.upper = NoNode THEN Result(s, FALSE)
    ELSE Then(CopyUpIfLower(s, Front(p)), LAMBDA t :
         Then(Unhide(t, p), LAMBDA u : UpperCreateAt(u, p, Last(p), kind, <<>>)))

UpperRemove(s, d, name) ==
    IF d = NoNode \/ ~CanRemove(s.node, d, name) THEN Result(s, FALSE)
    ELSE Result([s EXCEPT !.node = TmpRemove(@, d, name)], TRUE)

\* Mutant of Delete: a file of the upper layer leaves no whiteout behind.
DeleteUncovers(s, p) ==
    With(UpperRemove(s, InUpper(s, Front(p)), Last(p)), LAMBDA r :
         IF InLower(s, p) # NoNode /\ ~r.ok THEN CreateWhiteout(r.s, p) ELSE r)

\* remove: out of the upper layer, then hidden if a lower layer has the path.
Delete(s, p) ==
    With(UpperRemove(s, InUpper(s, Front(p)), Last(p)), LAMBDA r :
         IF InLower(s, p) # NoNode THEN CreateWhiteout(r.s, p) ELSE r)

\* Names the file system's own readdir lists: those of the upper layer, then
\* those of the lower layers that no whiteout hides.
NamesIn(s, d) == IF d = NoNode \/ s.node[d].kind # "dir" THEN {} ELSE DOMAIN s.node[d].kids
NamesBelow(s, p) == UNION {NamesIn(s, InLayer(s, s.lowers[i], p)) : i \in DOMAIN s.lowers}
FsReaddir(s, p) ==
    (NamesIn(s, InUpper(s, p)) \ Whiteouts)
      \cup {n \in NamesBelow(s, p) : ~IsWhiteout(s, Append(p, n))}

\* Mutant of Readdir: a whiteout of the upper layer hides nothing below it.
ReaddirUnhidden(s, p) == (NamesIn(s, InUpper(s, p)) \cup NamesBelow(s, p)) \ Whiteouts

\* Names a directory object lists.  A layer lists names in their order, in
\* which a whiteout comes before the name it hides.
Readdir(s, p) ==
    With(NamesIn(s, InUpper(s, p)), LAMBDA up :
         {n \in (up \cup NamesBelow(s, p)) \ Whiteouts : Whiteout(n) \notin up})

Opened(s, h, n, write) ==
    Result([s EXCEPT !.file[h] = [at |-> "node", node |-> n, pos |-> 0, write |-> write]], TRUE)

OpenRegular(s, h, p, write) ==
    Then(IF write THEN CopyUpIfLower(s, p) ELSE Result(s, TRUE), LAMBDA t :
    With(InUpper(t, p), LAMBDA up :
         IF up # NoNode THEN Opened(t, h, up, write)
         ELSE IF write THEN Result(t, FALSE)
         ELSE Opened(t, h, InLower(t, p), write)))

OpenFile(s, h, p, write) ==
    With(MetadataNode(s, p), LAMBDA n :
         IF n = NoNode THEN Result(s, FALSE)
         ELSE IF s.node[n].kind = "dir"
         THEN Result([s EXCEPT !.file[h] = [at |-> "dir", path |-> p, pos |-> 0]], TRUE)
         ELSE OpenRegular(s, h, p, write))

-----------------------------------------------------------------------------
(* The calls.  Handles give their access mode no weight: a handle opened    *)
(* for reading can be written.                                              *)

NewLayer(f, tree) ==
    LET add(t, p) ==
            LET d == FoldLeft(LAMBDA n, name : t[n].kids[name], Root(f), Front(p))
                n == <<f, Cardinality({q \in DOMAIN t : FsOf(q) = f}) + 1>>
            IN [TmpCreate(t, d, Last(p), n, tree[p].kind, NoNode) EXCEPT ![n].data = tree[p].data]
    IN FoldLeft(add, TmpFS(f), SetToSortSeq(DOMAIN tree, LAMBDA p, q : Len(p) < Len(q)))

New(trees, writable) ==
    LET layers == [i \in DOMAIN trees |-> NewLayer(i, trees[i])]
    IN [upper |-> IF writable THEN Root(0) ELSE NoNode, lowers |-> [i \in DOMAIN trees |-> Root(i)],
        node |-> FoldLeft(LAMBDA f, g : f @@ g, IF writable THEN TmpFS(0) ELSE <<>>, layers),
        next |-> 2, file |-> [h \in Handles |-> Closed]]

Init ==
    /\ \E trees \in LowerTrees, writable \in BOOLEAN : o = New(trees, writable)
    /\ calls = 0

Becomes(r) == o' = Settled(r.s) /\ calls' = calls + 1

DoCreate == \E p \in Named, k \in {"file", "dir"} : Resolves(o, Front(p)) /\ Becomes(Create(o, p, k))
DoRemove == \E p \in Named : Resolves(o, p) /\ Becomes(Delete(o, p))
DoOpen == \E h \in Handles, p \in Paths, w \in BOOLEAN :
             o.file[h] = Closed /\ Resolves(o, p) /\ Becomes(OpenFile(o, h, p, w))
DoClose == \E h \in Handles : o.file[h] # Closed /\ Becomes(Result([o EXCEPT !.file[h] = Closed], TRUE))

OnFile(Op(_, _)) == \E h \in Handles : o.file[h].at = "node" /\ Op(h, o.file[h])
Data(f) == o.node[f.node].data

DoWrite ==
    LET write(h, f) == \E b \in Bytes :
            /\ f.pos < MaxLength
            /\ Becomes(Result([o EXCEPT !.node[f.node].data = Written(@, f.pos, <<b>>),
                                        !.file[h].pos = @ + 1], TRUE))
    IN OnFile(write)
DoRead ==
    LET read(h, f) == Becomes(Result([o EXCEPT !.file[h].pos = IF @ < Len(Data(f)) THEN @ + 1 ELSE @], TRUE))
    IN OnFile(read)
DoSeek ==
    LET seek(h, f) == \E w \in {"start", "end", "current"}, k \in {-1, 0, 1} :
            LET pos == SeekTo(w, k, f.pos, Len(Data(f)))
            IN pos <= MaxLength /\ Becomes(Result([o EXCEPT !.file[h].pos = pos], TRUE))
    IN OnFile(seek)
DoTruncate ==
    LET cut(h, f) == \E len \in 0..MaxLength :
            Becomes(Result([o EXCEPT !.node[f.node].data = Resized(@, len)], TRUE))
    IN OnFile(cut)

\* One entry per read, "." and ".." first; the names are collected anew.
DoReadDir ==
    \E h \in Handles :
        /\ o.file[h].at = "dir" /\ Resolves(o, o.file[h].path)
        /\ o.file[h].pos < 2 + Cardinality(Readdir(o, o.file[h].path))
        /\ Becomes(Result([o EXCEPT !.file[h].pos = @ + 1], TRUE))

Call ==
    \/ DoCreate \/ DoRemove \/ DoOpen \/ DoClose
    \/ DoWrite \/ DoRead \/ DoSeek \/ DoTruncate \/ DoReadDir
Over == calls = MaxCalls
Next == (~Over /\ Call) \/ (Over /\ UNCHANGED vars)
Spec == Init /\ [][Next]_vars

-----------------------------------------------------------------------------
(* Properties.                                                              *)

Absent == <<>>
Seen(f) == <<f.kind, f.data>>
Shown(s, p) == IF Resolves(s, p) THEN Seen(s.node[Lookup(s, p)]) ELSE Absent
\* A path through directories alone; a name in a lower layer can also be
\* reached through a file that hides its directory.
Proper(s, p) ==
    Resolves(s, p) /\ \A k \in 0..Len(p) - 1 : s.node[Lookup(s, SubSeq(p, 1, k))].kind = "dir"
ProperDir(s, p) == Proper(s, p) /\ s.node[Lookup(s, p)].kind = "dir"
SameOutside(s, t, p) == \A q \in Paths : IsPrefix(p, q) \/ Shown(s, q) = Shown(t, q)

\* A call changes what its path shows and nothing else.  Copying up, with the
\* parent directories it creates, is invisible: opening a file for writing
\* changes neither what any path names nor what it holds.  A successful remove
\* hides the path in all layers and changes no path outside it.
OnlyTheNamedPathChanges ==
    \A p \in Named : Proper(o, p) =>
        /\ \A h \in Handles :
               With(OpenFile(o, h, p, TRUE), LAMBDA r : \A q \in Paths : Shown(r.s, q) = Shown(o, q))
        /\ With(Delete(o, p), LAMBDA r :
                r.ok => Shown(r.s, p) = Absent /\ SameOutside(o, r.s, p))

\* A directory object lists exactly the names that lookup finds, whichever
\* layers they come from and whatever was removed and created again; the file
\* system's readdir agrees unless it has a name beside the name's whiteout.
ListingIsLookup ==
    \A p \in Paths : ProperDir(o, p) =>
        LET both(n) == InUpper(o, Append(p, n)) # NoNode /\ IsWhiteout(o, Append(p, n))
        IN /\ Readdir(o, p) = {n \in Names : Lookup(o, Append(p, n)) # NoNode}
           /\ (\A n \in Names : ~both(n)) => FsReaddir(o, p) = Readdir(o, p)
============================================================================
