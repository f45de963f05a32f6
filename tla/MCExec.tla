------------------------------- MODULE MCExec -------------------------------
(***************************************************************************)
(* Programs for the executor, with four bytes in a page: static and        *)
(* position independent ones, an interpreter, one that names another       *)
(* interpreter, one that names itself, one whose interpreter is missing,   *)
(* one whose segments clash, and a file that is no program.                *)
(***************************************************************************)
EXTENDS Exec

Seg(vaddr, offset, memsz, flags, align) ==
    [vaddr |-> vaddr, offset |-> offset, memsz |-> memsz, flags |-> flags, align |-> align]
Rx == {"r", "x"}
Rw == {"r", "w"}

Program(osabi, hint, dyn, interp, segs, entry) ==
    [elf |-> TRUE, osabi |-> osabi, hint |-> hint, dyn |-> dyn, interp |-> interp,
     segs |-> segs, entry |-> entry]

MCImages ==
    [init |-> Program(83, "scarlet", FALSE, Nil, <<Seg(0, 0, 4, Rx, 4), Seg(4, 4, 6, Rw, 4)>>, 0),
     wide |-> Program(0, "elf", FALSE, Nil, <<Seg(4, 4, 3, Rx, 8)>>, 5),
     pie |-> Program(0, "none", TRUE, Nil, <<Seg(0, 0, 6, Rx, 1), Seg(10, 12, 3, Rw, 4)>>, 2),
     dyn |-> Program(83, "none", TRUE, "ld", <<Seg(0, 0, 3, Rx, 4)>>, 0),
     nest |-> Program(0, "xv6", TRUE, "ld2", <<Seg(1, 1, 4, Rx, 4)>>, 1),
     lost |-> Program(0, "elf", FALSE, "gone", <<Seg(0, 0, 4, Rx, 4)>>, 0),
     loop |-> Program(83, "none", TRUE, "loop", <<Seg(0, 0, 3, Rx, 4)>>, 0),
     clash |-> Program(0, "none", FALSE, Nil, <<Seg(4, 4, 4, Rw, 4), Seg(0, 0, 6, Rx, 4)>>, 0),
     blank |-> Program(0, "none", FALSE, Nil, <<>>, 0),
     ld |-> Program(0, "none", TRUE, Nil, <<Seg(0, 0, 4, Rx, 4)>>, 1),
     ld2 |-> Program(0, "none", TRUE, "ld", <<Seg(0, 0, 2, Rx, 4)>>, 1),
     gone |-> Program(0, "none", TRUE, Nil, <<>>, 0),
     text |-> [elf |-> FALSE]]

MCVisible ==
    [base |-> DOMAIN MCImages \ {"gone"},
     scarlet |-> {"init", "dyn", "ld", "nest", "ld2", "lost", "clash"},
     xv6 |-> {"init", "wide", "pie", "nest", "ld", "ld2", "clash", "text"},
     clean |-> {}]

=============================================================================
