-------------------------------- MODULE MCPipe --------------------------------
(* Model checking of Pipe; the constants are in the configurations. *)
EXTENDS Pipe

PipeWakers == {ReadWaker, WriteWaker}
=============================================================================
