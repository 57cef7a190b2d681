------------------------------ MODULE MCGpuSync ------------------------------
(* Three threads, one object of each kind and two payloads: two signals and a *)
(* reset, or two resets and a signal, of one fence overlap, and a thread      *)
(* waits or sweeps while two others signal.  No property and no action tells  *)
(* one thread from another.                                                   *)
EXTENDS GpuSync, TLC

Symmetry == Permutations(Threads)
=============================================================================
