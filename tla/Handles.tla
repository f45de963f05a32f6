------------------------------ MODULE Handles ------------------------------
(***************************************************************************)
(* The handle table of a task (kernel/src/object/handle) and the file      *)
(* descriptors the xv6 ABI keeps on top of it (kernel/src/abi/xv6).  A     *)
(* table is a record: the object and the metadata of every slot, and the   *)
(* stack of free slots, popped and pushed at its end.  A descriptor table  *)
(* has the same shape: the handle of every descriptor and a stack.         *)
(***************************************************************************)
EXTENDS Integers, Sequences, FiniteSets, SequencesExt

CONSTANTS
    MAX_HANDLES,    \* slots of a handle table
    MAX_FDS,        \* xv6 descriptors of a task
    Nil             \* an empty slot, a failed call

ASSUME HandlesAssumption == MAX_HANDLES \in Nat \ {0} /\ MAX_FDS \in Nat \ {0}

Slots == 0 .. MAX_HANDLES - 1
Fds == 0 .. MAX_FDS - 1

\* n - 1, ..., 1, 0: the lowest number is popped first.
Descending(n) == [i \in 1 .. n |-> n - i]

NewTable ==
    [handles |-> [h \in Slots |-> Nil], metadata |-> [h \in Slots |-> Nil],
     free_handles |-> Descending(MAX_HANDLES)]

\* The role a handle gets from the kind of its object, and full access.
infer_metadata(obj) ==
    [role |-> IF obj \in {"reader", "writer"} THEN "IpcChannel" ELSE "Regular",
     access |-> "ReadWrite"]

insert_with_metadata(t, obj, meta) ==
    IF t.free_handles = <<>> THEN [handle |-> Nil, t |-> t]
    ELSE LET h == Last(t.free_handles)
         IN [handle |-> h,
             t |-> [handles |-> [t.handles EXCEPT ![h] = obj],
                    metadata |-> [t.metadata EXCEPT ![h] = meta],
                    free_handles |-> Front(t.free_handles)]]

insert(t, obj) == insert_with_metadata(t, obj, infer_metadata(obj))

remove(t, h) ==
    IF t.handles[h] = Nil THEN t
    ELSE [handles |-> [t.handles EXCEPT ![h] = Nil],
          metadata |-> [t.metadata EXCEPT ![h] = Nil],
          free_handles |-> Append(t.free_handles, h)]

update_metadata(t, h, meta) ==
    IF t.handles[h] = Nil THEN t ELSE [t EXCEPT !.metadata[h] = meta]

close_all(t) ==
    [NewTable EXCEPT !.free_handles =
        t.free_handles \o SelectSeq([i \in 1 .. MAX_HANDLES |-> i - 1],
                                    LAMBDA h : t.handles[h] # Nil)]

-----------------------------------------------------------------------------
(***************************************************************************)
(* The descriptors of the xv6 ABI.                                         *)
(***************************************************************************)
NewFds == [handle |-> [fd \in Fds |-> Nil], free_fds |-> Descending(MAX_FDS)]

allocate_fd(f, h) ==
    IF f.free_fds = <<>> THEN [fd |-> Nil, f |-> f]
    ELSE LET fd == Last(f.free_fds)
         IN [fd |-> fd, f |-> [handle |-> [f.handle EXCEPT ![fd] = h],
                               free_fds |-> Front(f.free_fds)]]

remove_fd(f, fd) ==
    IF f.handle[fd] = Nil THEN f
    ELSE [handle |-> [f.handle EXCEPT ![fd] = Nil], free_fds |-> Append(f.free_fds, fd)]

=============================================================================
