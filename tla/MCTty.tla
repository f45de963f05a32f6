--------------------------------- MODULE MCTty ---------------------------------
(* Model checking of Tty; the constants are in the configurations. *)
EXTENDS Tty

TtyWakers == {InputWaker}
=============================================================================
