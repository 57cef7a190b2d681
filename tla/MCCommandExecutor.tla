------------------------ MODULE MCCommandExecutor ------------------------
(* Two graphics buffers, one texture and one kernel: lists that draw whole  *)
(* and broken triangles, leave a pass open, copy both ways between objects  *)
(* of equal and of different sizes, dispatch after a pass that was closed,  *)
(* was left open or kept open by a broken draw, and dispatch twice.         *)
EXTENDS CommandExecutor

Op(name) == [op |-> name]
BindVertex(b) == [op |-> "bindVertex", buffer |-> b]
Draw(first, count) == [op |-> "draw", first |-> first, count |-> count]
BindIndex(b) == [op |-> "bindIndex", buffer |-> b]
DrawIndexed(first, count, offset) ==
  [op |-> "drawIndexed", first |-> first, count |-> count, offset |-> offset]
CopyIn == [op |-> "copyIn", buffer |-> 1, texture |-> 1]
CopyOut == [op |-> "copyOut", buffer |-> 1, texture |-> 1]
Clear(color) == [op |-> "clear", texture |-> 1, color |-> color]
Dispatch == [op |-> "dispatch", pipeline |-> 1, groups |-> 1]

MCDescriptors ==
  LET binding == [binding |-> 0, buffer |-> 1, offset |-> 0, size |-> 1]
  IN {[workgroup |-> 1, bindings |-> <<binding>>]}

MCCommandLists ==
  {<<BindVertex(1), Op("begin"), Draw(0, 3), Op("end"), Dispatch>>,
   <<BindIndex(2), Op("begin"), DrawIndexed(0, 3, -1)>>,
   <<Op("begin"), Draw(1, 3), Op("end"), Dispatch>>,
   <<Draw(1, 3), Op("instanced")>>,
   <<DrawIndexed(1, 3, 0), Op("state"), Dispatch>>,
   <<Dispatch, Dispatch>>,
   <<CopyOut, Clear(1), CopyIn>>}

MCIndexLists == {<<0, 1, 2>>}

(* Bound: the host sets up a texture and a second graphics buffer, or the   *)
(* kernel and its storage, not both: no command relates them.              *)
Separate ==
  \/ nextId = 1 /\ nextHandle = 1
  \/ nextTextureId = 1 /\ nextBufferId <= 2
=============================================================================
