--------------------------- MODULE MCSpirvValidator ---------------------------
(* Two threads, a good and a bad module, and a successor process that gets  *)
(* the same or another process id.                                         *)
EXTENDS SpirvValidator
=============================================================================
