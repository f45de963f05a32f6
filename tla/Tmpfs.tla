------------------------------- MODULE Tmpfs -------------------------------
(***************************************************************************)
(* The in-memory file system (kernel/src/fs/vfs_v2/drivers/tmpfs), as       *)
(* operators on a table of nodes.  A node is <<fs, id>>: its file system    *)
(* and its file_id.  A directory holds its children strongly, a child its   *)
(* parent weakly, so a node leaves the table when nothing reaches it.       *)
(***************************************************************************)
EXTENDS Naturals, Sequences, FiniteSets, Functions, TLC

NoNode == <<>>
FsOf(n) == n[1]
IdOf(n) == n[2]
Root(f) == <<f, 1>>

\* target is the path of a symbolic link; data the content of a file.
TmpNode(kind, target, up) ==
    [kind |-> kind, target |-> target, up |-> up, kids |-> <<>>, data |-> <<>>]
TmpFS(f) == Root(f) :> TmpNode("dir", NoNode, NoNode)

WithKid(t, d, name, n) == [t EXCEPT ![d].kids = (name :> n) @@ @]
WithoutKid(t, d, name) ==
    [t EXCEPT ![d].kids = Restrict(@, DOMAIN @ \ {name})]

TmpLookup(t, d, name) ==
    CASE t[d].kind # "dir" -> NoNode
      [] name = ".." /\ t[d].up \in DOMAIN t -> t[d].up
      [] OTHER -> IF name \in DOMAIN t[d].kids THEN t[d].kids[name] ELSE NoNode

CanCreate(t, d, name) == t[d].kind = "dir" /\ name \notin DOMAIN t[d].kids
TmpCreate(t, d, name, n, kind, target) ==
    WithKid(t @@ (n :> TmpNode(kind, target, d)), d, name, n)

CanLink(t, d, name, n) == CanCreate(t, d, name) /\ t[n].kind = "file"

CanRemove(t, d, name) ==
    /\ t[d].kind = "dir" /\ name \in DOMAIN t[d].kids
    /\ LET n == t[d].kids[name] IN t[n].kind = "dir" => t[n].kids = <<>>
TmpRemove(t, d, name) == WithoutKid(t, d, name)

\* What stays when only the nodes of held have other owners.
RECURSIVE Below(_, _)
Below(t, ns) ==
    LET more == ns \cup UNION {Range(t[n].kids) : n \in ns}
    IN IF more = ns THEN ns ELSE Below(t, more)
Live(t, held) == Restrict(t, Below(t, held))
============================================================================
