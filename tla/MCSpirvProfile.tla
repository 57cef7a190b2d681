------------------------------ MODULE MCSpirvProfile ------------------------------
(* Three complete modules, and each of them with instructions deleted, added  *)
(* anywhere or exchanged for another one.                                     *)
EXTENDS SpirvProfile, SequencesExt

Op(op) == [op |-> op, plain |-> TRUE]
Odd(op) == [op |-> op, plain |-> FALSE]
Entry(id) == [op |-> "entryPoint", plain |-> TRUE, id |-> id]
Mode(id, size) == [op |-> "executionMode", plain |-> TRUE, target |-> id, size |-> size]
Struct(id) == [op |-> "struct", id |-> id]
Pointer(id, storage, pointee) == [op |-> "pointer", id |-> id, storage |-> storage, pointee |-> pointee]
Constant(id, value) == [op |-> "constant", id |-> id, value |-> value]
Composite(id, parts) == [op |-> "composite", id |-> id, parts |-> parts]
Variable(type, id, storage) == [op |-> "variable", type |-> type, id |-> id, storage |-> storage]
Block(id) == [op |-> "block", target |-> id]
Builtin(id) == [op |-> "workgroupSize", target |-> id]
Binding(id, n) == [op |-> "binding", plain |-> TRUE, target |-> id, value |-> n]
Set(id, n) == [op |-> "set", plain |-> TRUE, target |-> id, value |-> n]

Head0 == <<Op("capability"), Op("memoryModel"), Entry(1), Mode(1, <<2, 1, 1>>)>>
Types == <<Block(2), Struct(2), Pointer(3, "buffer", 2)>>
Buffer(id, n) == <<Binding(id, n), Set(id, 0), Variable(3, id, "buffer")>>
Size  == <<Builtin(8), Constant(6, 2), Constant(7, 1), Composite(8, <<6, 7, 7>>)>>

OneBuffer  == Head0 \o Types \o Buffer(4, 0)
TwoBuffers == Head0 \o Buffer(4, 0) \o Types \o Buffer(5, 1)
WithSize   == Size \o OneBuffer

Pool ==
  {Op("capability"), Odd("capability"), Op("memoryModel"), Odd("memoryModel"), Entry(2),
   Odd("entryPoint"), Mode(2, <<2, 1, 1>>), Mode(1, <<2, 0, 1>>), Mode(1, <<1, 1, 1>>),
   Odd("numericType"), Op("numericType"), Op("truncated"), Op("unsupported"), Op("other"),
   Struct(9), Pointer(3, "buffer", 9), Pointer(3, "uniform", 2), Constant(6, 1), Constant(9, 1),
   Composite(8, <<6, 7, 6>>), Composite(8, <<6, 7, 9>>), Variable(3, 5, "buffer"),
   Variable(9, 5, "buffer"), Variable(3, 5, "private"), Variable(3, 5, "unsupported"),
   Block(9), Builtin(8), Builtin(9), Binding(4, 1), Binding(5, 0), Binding(5, 1), Binding(9, 2),
   [Binding(5, 1) EXCEPT !.plain = FALSE], Set(4, 1), Set(5, 0), Set(9, 0)}

Deleted(m)   == {RemoveAt(m, k) : k \in DOMAIN m}
Added(m)     == {InsertAt(m, k, i) : k \in 1..Len(m) + 1, i \in Pool}
Exchanged(m) == {ReplaceAt(m, k, i) : k \in DOMAIN m, i \in Pool}
Reversed(m)  == {Reverse(m)}

MCModules ==
  UNION {{m} \cup Deleted(m) \cup Added(m) \cup Exchanged(m) \cup Reversed(m)
           : m \in {OneBuffer, TwoBuffers, WithSize}}
    \cup UNION {{Append(n, i) : i \in {Binding(5, 1), Set(5, 0), Variable(3, 5, "buffer"), Block(9)}}
                 : n \in Exchanged(OneBuffer)}

================================================================================
