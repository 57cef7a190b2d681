-------------------------- MODULE MCComputeManager --------------------------
(* Descriptors that pass and that fail each clause of validate_dispatch:    *)
(* one and two bindings, an offset, an aliased buffer, a slot used twice, a *)
(* misaligned and a too long range.                                        *)
EXTENDS ComputeManager

Binding(binding, buffer, offset, size) ==
  [binding |-> binding, buffer |-> buffer, offset |-> offset, size |-> size]
Kernel(workgroup, bindings) == [workgroup |-> workgroup, bindings |-> bindings]

MCDescriptors ==
  {Kernel(1, <<Binding(0, 1, 2, 2)>>),
   Kernel(2, <<Binding(0, 1, 0, 2), Binding(1, 2, 0, 2)>>),
   Kernel(1, <<Binding(0, 1, 0, 2), Binding(1, 1, 0, 2)>>),
   Kernel(1, <<Binding(0, 1, 0, 2), Binding(0, 2, 0, 2)>>),
   Kernel(1, <<Binding(0, 2, 1, 2)>>),
   Kernel(1, <<Binding(0, 1, 0, 4), Binding(1, 2, 0, 2)>>),
   Kernel(0, <<Binding(0, 1, 0, 2)>>)}
=============================================================================
