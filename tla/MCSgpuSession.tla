---------------------------- MODULE MCSgpuSession ----------------------------
(* Two guest handles over two buffers, kernels over one buffer, over both   *)
(* and over an unaligned range, and lists of up to two commands; the last    *)
(* list is longer than MaxCommands.                                        *)
EXTENDS SgpuSession

Binding(binding, buffer, offset, size) ==
  [binding |-> binding, buffer |-> buffer, offset |-> offset, size |-> size]
Kernel(workgroup, bindings) == [workgroup |-> workgroup, bindings |-> bindings]

MCDescriptors ==
  {Kernel(1, <<Binding(0, 1, 0, 1), Binding(1, 2, 0, 1)>>),
   Kernel(1, <<Binding(0, 2, 1, 1)>>)}

Copy(src, dst, size) == [op |-> "copy", src |-> src, dst |-> dst, size |-> size]
Launch(kernel, grid, block) ==
  [op |-> "dispatch", kernel |-> kernel, grid |-> grid, block |-> block]

MCCommands ==
  {Copy(1, 2, 1), Copy(2, 1, 2), Launch(1, 1, 1), Launch(1, 1, 2), [op |-> "other"]}

MCCommandLists ==
  {<<>>} \union {<<c>> : c \in MCCommands} \union {<<c, d>> : c, d \in MCCommands}
    \union {[i \in 1..3 |-> Copy(1, 2, 1)]}
=============================================================================
