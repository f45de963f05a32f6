--------------------------------- MODULE Cpiofs ---------------------------------
(***************************************************************************)
(* The read-only file system of the initramfs                              *)
(* (kernel/src/fs/vfs_v2/drivers/cpiofs.rs): the tree that                 *)
(* parse_cpio_archive builds from the entries of an archive, and the file, *)
(* directory and link objects opened on it.  An entry is a header, which   *)
(* is sound, has the wrong magic number or an unreadable field, a path, a  *)
(* type and the data.                                                      *)
(***************************************************************************)
EXTENDS Integers, Sequences, FiniteSets, FiniteSetsExt, SequencesExt, TLC

Entry(head, path, type, data) == [head |-> head, path |-> path, type |-> type, data |-> data]

Trailer == [head |-> "ok", path |-> <<"TRAILER!!!">>, type |-> "file", data |-> <<>>]

Root == 1
NoNode == 0

CpioNode(type, data) == [type |-> type, data |-> data, kids |-> <<>>, parent |-> NoNode]

EmptyTree == Root :> CpioNode("dir", <<>>)

(* add_child: fails on a node that is no directory, and the callers drop   *)
(* the error; the node is then held by nobody.                             *)
WithChild(tree, p, c, id, node) ==
  IF tree[p].type # "dir"
  THEN (id :> node) @@ tree
  ELSE (id :> [node EXCEPT !.parent = p]) @@
       [tree EXCEPT ![p].kids = (c :> id) @@ @]

ChildOf(tree, n, c) == IF c \in DOMAIN tree[n].kids THEN tree[n].kids[c] ELSE NoNode

(* The walk to the parent of an entry: a missing directory is created. *)
Enter(s, part) ==
  IF ChildOf(s.tree, s.cur, part) # NoNode
  THEN [s EXCEPT !.cur = ChildOf(s.tree, s.cur, part)]
  ELSE [s EXCEPT !.tree = WithChild(s.tree, s.cur, part, s.file_id, CpioNode("dir", <<>>)),
                 !.cur = s.file_id,
                 !.file_id = @ + 1]

(* Mutant of Inserted: the directories above an entry are not walked. *)
InsertedAtRoot(s, e) ==
  [s EXCEPT !.tree = WithChild(@, Root, Last(e.path), s.file_id, CpioNode(e.type, e.data)),
            !.file_id = @ + 1]

(* One entry: its node takes the next id before the directories above it. *)
Inserted(s, e) ==
  LET w == FoldLeft(Enter, [s EXCEPT !.cur = Root, !.file_id = @ + 1], Front(e.path))
  IN [w EXCEPT !.tree = WithChild(w.tree, w.cur, Last(e.path), s.file_id,
                                  CpioNode(e.type, IF e.type = "dir" THEN <<>> ELSE e.data))]

(* The loop of parse_cpio_archive: a wrong magic number, the trailer and   *)
(* the end of the data stop it, an unreadable field is an error, "." and   *)
(* ".." are skipped.                                                       *)
Parsed(s, e) ==
  IF s.state # "more"
  THEN s
  ELSE IF e.head = "magic" \/ e = Trailer
       THEN [s EXCEPT !.state = "end"]
       ELSE IF e.head = "field"
            THEN [s EXCEPT !.state = "error"]
            ELSE IF Last(e.path) \in {".", ".."} THEN s ELSE Inserted(s, e)

ParseArchive(archive) ==
  FoldLeft(Parsed, [tree |-> EmptyTree, cur |-> Root, file_id |-> 2, state |-> "more"], archive)

(* lookup, component by component from the root. *)
CpioLookup(tree, path) ==
  FoldLeft(LAMBDA n, c : IF n = NoNode THEN NoNode ELSE ChildOf(tree, n, c), Root, path)
-----------------------------------------------------------------------------
(* The entries of a directory: itself, its parent (0 for the root) and its *)
(* children in the order of their names; Order gives the names in order.   *)
CpioEntries(tree, n, Order) ==
  <<[name |-> ".", id |-> n], [name |-> "..", id |-> tree[n].parent]>> \o
  [i \in 1 .. Cardinality(DOMAIN tree[n].kids) |->
     LET names == SelectSeq(Order, LAMBDA c : c \in DOMAIN tree[n].kids)
     IN [name |-> names[i], id |-> tree[n].kids[names[i]]]]

(* read of a file or a link: what is left, at most n bytes; of a           *)
(* directory: one entry.                                                   *)
CpioContent(tree, f, Order) ==
  IF tree[f.node].type = "dir" THEN CpioEntries(tree, f.node, Order) ELSE tree[f.node].data

CpioRead(tree, f, n, Order) ==
  LET content == CpioContent(tree, f, Order)
      count == IF tree[f.node].type = "dir" THEN 1 ELSE n
  IN SubSeq(content, f.pos + 1, Min({f.pos + count, Len(content)}))

(* seek: Start, Current and End, never below 0 and never past the end. *)
Landed(base, offset, size) == Min({Max({base + offset, 0}), size})

Whence == {"Start", "Current", "End"}

CpioSought(tree, f, whence, offset) ==
  [f EXCEPT !.pos = Landed([Start |-> 0, Current |-> f.pos, End |-> Len(tree[f.node].data)][whence],
                           offset, Len(tree[f.node].data))]

-----------------------------------------------------------------------------
(* What an archive says of a path, without a tree: the last sound entry of *)
(* that name, or a directory where only entries below it are named.        *)
Sound(archive) ==
  LET stops == {i \in DOMAIN archive : archive[i].head # "ok" \/ archive[i] = Trailer}
  IN IF stops = {} THEN archive ELSE SubSeq(archive, 1, Min(stops) - 1)

Below(p, q) == Len(p) < Len(q) /\ SubSeq(q, 1, Len(p)) = p

(* Directories come before what they contain, nothing lies below a file,   *)
(* and no component is "." or "..".                                        *)
Orderly(archive) ==
  LET es == Sound(archive)
  IN \A i, j \in DOMAIN es :
       /\ Below(es[i].path, es[j].path) => es[i].type = "dir" /\ i < j
       /\ es[i].path = es[j].path /\ i # j => es[i].type # "dir"
       /\ \A c \in DOMAIN es[i].path : es[i].path[c] \notin {".", ".."}

Listed(archive, path) ==
  LET es == Sound(archive)
      named == {i \in DOMAIN es : es[i].path = path}
  IN IF named # {}
     THEN [type |-> es[Max(named)].type,
           data |-> IF es[Max(named)].type = "dir" THEN <<>> ELSE es[Max(named)].data]
     ELSE IF path = <<>> \/ \E i \in DOMAIN es : Below(path, es[i].path)
          THEN [type |-> "dir", data |-> <<>>]
          ELSE [type |-> "none", data |-> <<>>]
=============================================================================
