--------------------------- MODULE CommandExecutor ---------------------------
(***************************************************************************)
(* CommandExecutor: recorded command lists over vertex and index buffers,   *)
(* textures, one framebuffer and a compute manager.  A list is executed     *)
(* command by command on the calling thread; what it bound and the render   *)
(* pass it opened stay for the next list, also after an error.              *)
(***************************************************************************)
EXTENDS ComputeManager

CONSTANTS
  CommandLists,       \* lists the host may execute, sequences of records
                      \* with an op and the fields the op needs
  VertexSizes, TextureSizes,  \* sizes of vertex buffers and of textures
  IndexLists,         \* contents of index buffers, sequences of vertex numbers
  VertexStride,       \* 52 in the code
  MaxGraphicsBuffers, \* bound: vertex, index and uniform buffers ever created
  MaxTextures,        \* bound: textures ever created
  MaxExecuted         \* bound: the host starts no list beyond this count

ASSUME ExecutorAssumption ==
  /\ VertexSizes \subseteq Nat /\ TextureSizes \subseteq Nat
  /\ IndexLists \subseteq Seq(Nat)
  /\ VertexStride \in Nat \ {0}
  /\ MaxGraphicsBuffers \in Nat /\ MaxTextures \in Nat /\ MaxExecuted \in Nat
  /\ \A l \in CommandLists : Len(l) \in Nat

VARIABLES
  vertexBuffers, indexBuffers,  \* id -> bytes, id -> vertex numbers
  nextBufferId,                 \* shared by vertex, index and uniform buffers
  textures, nextTextureId,      \* id -> bytes
  frame,                        \* the caller's framebuffer
  slot, boundIndex,             \* BoundState: vertex slot 0, index buffer; 0 is None
  pass,                         \* active_pass.is_some()
  executed,                     \* executed_commands
  mode,                         \* "host" or "executing"
  commands, position,           \* the list being executed, its next command
  given,                        \* what the entry point got: [frames, rasterizer, compute]
  outcome,                      \* of the last list
  start,                        \* history: the data when the command began
  entered                       \* history: pass and executed when the list began

graphics     == <<vertexBuffers, indexBuffers, nextBufferId, textures, nextTextureId>>
bindings     == <<slot, boundIndex, pass>>
execution    == <<mode, commands, position, given, outcome>>
executorVars == <<graphics, frame, bindings, executed, execution>>
vars         == <<managerVars, executorVars, start, entered>>

Nothing == [frames |-> 0, rasterizer |-> FALSE, compute |-> FALSE]

Data == <<vertexBuffers, textures, frame, executed, storage>>

-----------------------------------------------------------------------------
(* The host between two lists.                                             *)
OnHost == mode = "host" /\ call.pc = "idle"
HostOnly == UNCHANGED <<managerVars, frame, bindings, executed, execution>>

CreateVertexBuffer(size) ==
  /\ OnHost /\ nextBufferId <= MaxGraphicsBuffers
  /\ vertexBuffers' = Insert(vertexBuffers, nextBufferId, Fill(size, 0))
  /\ nextBufferId' = nextBufferId + 1
  /\ HostOnly /\ UNCHANGED <<indexBuffers, textures, nextTextureId>>

CreateIndexBuffer(numbers) ==
  /\ OnHost /\ nextBufferId <= MaxGraphicsBuffers
  /\ indexBuffers' = Insert(indexBuffers, nextBufferId, numbers)
  /\ nextBufferId' = nextBufferId + 1
  /\ HostOnly /\ UNCHANGED <<vertexBuffers, textures, nextTextureId>>

(* Nothing that is executed reads a uniform buffer: only its id matters.    *)
CreateUniformBuffer ==
  /\ OnHost /\ nextBufferId <= MaxGraphicsBuffers
  /\ nextBufferId' = nextBufferId + 1
  /\ HostOnly /\ UNCHANGED <<vertexBuffers, indexBuffers, textures, nextTextureId>>

(* Copies as much as fits.                                                 *)
CopyInto(bytes, data) == [i \in 1..Len(bytes) |-> IF i <= Len(data) THEN data[i] ELSE bytes[i]]

WriteVertexBuffer(id, data) ==
  /\ OnHost /\ id \in DOMAIN vertexBuffers
  /\ vertexBuffers' = [vertexBuffers EXCEPT ![id] = CopyInto(@, data)]
  /\ HostOnly /\ UNCHANGED <<indexBuffers, nextBufferId, textures, nextTextureId>>

CreateTexture(size) ==
  /\ OnHost /\ nextTextureId <= MaxTextures
  /\ textures' = Insert(textures, nextTextureId, Fill(size, 0))
  /\ nextTextureId' = nextTextureId + 1
  /\ HostOnly /\ UNCHANGED <<vertexBuffers, indexBuffers, nextBufferId>>

DeleteTexture(id) ==
  /\ OnHost /\ id \in DOMAIN textures
  /\ textures' = Remove(textures, id)
  /\ HostOnly /\ UNCHANGED <<vertexBuffers, indexBuffers, nextBufferId, nextTextureId>>

ResetStats ==
  /\ OnHost /\ executed' = 0
  /\ UNCHANGED <<managerVars, graphics, frame, bindings, execution>>

(* execute, execute_with_rasterizer, _with_compute and _with_backends.      *)
Execute(l, g) ==
  /\ OnHost /\ executed < MaxExecuted
  /\ mode' = "executing" /\ commands' = l /\ position' = 1 /\ given' = g
  /\ UNCHANGED <<managerVars, graphics, frame, bindings, executed, outcome>>

-----------------------------------------------------------------------------
(* execute_inner, one command after the other.                              *)
Current == commands[position]
Executing(ops) ==
  /\ mode = "executing" /\ position <= Len(commands)
  /\ Current.op \in ops

Advance ==
  /\ position' = position + 1
  /\ UNCHANGED <<mode, commands, given, outcome>>

Leave(answer) ==
  /\ mode' = "host" /\ outcome' = answer
  /\ commands' = <<>> /\ position' = 1 /\ given' = Nothing

BeginRenderPass ==
  /\ Executing({"begin"})
  /\ frame' = IF given.frames > 0 THEN "cleared" ELSE frame
  /\ pass' = TRUE
  /\ Advance
  /\ UNCHANGED <<managerVars, graphics, slot, boundIndex, executed>>

EndRenderPass ==
  /\ Executing({"end"})
  /\ pass' = FALSE
  /\ Advance
  /\ UNCHANGED <<managerVars, graphics, frame, slot, boundIndex, executed>>

Bind ==
  /\ Executing({"bindVertex", "bindIndex"})
  /\ IF Current.op = "bindVertex" THEN slot' = Current.buffer /\ UNCHANGED boundIndex
                                  ELSE boundIndex' = Current.buffer /\ UNCHANGED slot
  /\ Advance
  /\ UNCHANGED <<managerVars, graphics, frame, pass, executed>>

(* Other bindings, viewport, scissor, line width, push constants, mipmaps:  *)
(* what they store is read by no command.                                  *)
SetOtherState ==
  /\ Executing({"state"})
  /\ Advance
  /\ UNCHANGED <<managerVars, graphics, frame, bindings, executed>>

-----------------------------------------------------------------------------
(* Draws.                                                                  *)
DrawOps == {"draw", "drawIndexed", "instanced"}

(* The rasterizer runs for a draw that finds its buffers; instanced draws   *)
(* are only counted.                                                       *)
Rasterizes(c) ==
  /\ given.rasterizer
  /\ c.op # "instanced" /\ slot \in DOMAIN vertexBuffers
  /\ c.op = "drawIndexed" => boundIndex \in DOMAIN indexBuffers

(* The vertex a draw reads in its i-th turn, from 0.                        *)
VertexOf(c, i) ==
  IF c.op = "draw" THEN c.first + i
  ELSE LET numbers == indexBuffers[boundIndex]
           n == c.first + i + 1
           raw == IF n <= Len(numbers) THEN numbers[n] ELSE 0
       IN IF raw + c.offset < 0 THEN 0 ELSE raw + c.offset

(* Vertices beyond the end of the buffer are left out.                      *)
Decoded(c) == Cardinality({i \in 0 .. c.count - 1 :
                (VertexOf(c, i) + 1) * VertexStride <= Len(vertexBuffers[slot])})

DrawOutsidePass ==
  /\ Executing(DrawOps) /\ ~pass
  /\ Advance
  /\ UNCHANGED <<managerVars, graphics, frame, bindings, executed>>

DrawRecorded ==
  /\ Executing(DrawOps) /\ pass /\ ~Rasterizes(Current)
  /\ executed' = executed + 1
  /\ Advance
  /\ UNCHANGED <<managerVars, graphics, frame, bindings>>

DrawRasterized ==
  /\ Executing(DrawOps) /\ pass /\ Rasterizes(Current)
  /\ given.frames > 0 /\ Decoded(Current) % 3 = 0
  /\ frame' = IF Decoded(Current) > 0 THEN "drawn" ELSE frame
  /\ executed' = executed + 1
  /\ Advance
  /\ UNCHANGED <<managerVars, graphics, bindings>>

(* Faulty variant: the draw is counted before it is rasterized.             *)
DrawDegenerateCounted ==
  /\ Executing(DrawOps) /\ pass /\ Rasterizes(Current)
  /\ given.frames > 0 /\ Decoded(Current) % 3 # 0
  /\ executed' = executed + 1
  /\ Leave("error")
  /\ UNCHANGED <<managerVars, graphics, frame, bindings>>

(* Vertices that are no whole triangles; the pass stays active.             *)
DrawDegenerate ==
  /\ Executing(DrawOps) /\ pass /\ Rasterizes(Current)
  /\ given.frames > 0 /\ Decoded(Current) % 3 # 0
  /\ Leave("error")
  /\ UNCHANGED <<managerVars, graphics, frame, bindings, executed>>

(* framebuffers[0] of a caller that passed none; a caller that catches the  *)
(* panic finds the pass still active.                                      *)
DrawPanics ==
  /\ Executing(DrawOps) /\ pass /\ Rasterizes(Current) /\ given.frames = 0
  /\ Leave("panic")
  /\ UNCHANGED <<managerVars, graphics, frame, bindings, executed>>

-----------------------------------------------------------------------------
(* Copies ignore unknown ids and a mismatch of sizes.                       *)
CopyBufferToTexture ==
  /\ Executing({"copyIn"})
  /\ IF /\ Current.buffer \in DOMAIN vertexBuffers /\ Current.texture \in DOMAIN textures
        /\ Len(vertexBuffers[Current.buffer]) = Len(textures[Current.texture])
       THEN textures' = [textures EXCEPT ![Current.texture] = vertexBuffers[Current.buffer]]
       ELSE UNCHANGED textures
  /\ Advance
  /\ UNCHANGED <<managerVars, vertexBuffers, indexBuffers, nextBufferId,
                 nextTextureId, frame, bindings, executed>>

CopyTextureToBuffer ==
  /\ Executing({"copyOut"})
  /\ IF Current.buffer \in DOMAIN vertexBuffers /\ Current.texture \in DOMAIN textures
       THEN vertexBuffers' = [vertexBuffers EXCEPT ![Current.buffer] =
                                CopyInto(@, textures[Current.texture])]
       ELSE UNCHANGED vertexBuffers
  /\ Advance
  /\ UNCHANGED <<managerVars, indexBuffers, nextBufferId, textures,
                 nextTextureId, frame, bindings, executed>>

ClearTexture ==
  /\ Executing({"clear"})
  /\ IF Current.texture \in DOMAIN textures
       THEN textures' = [textures EXCEPT ![Current.texture] = Fill(Len(@), Current.color)]
       ELSE UNCHANGED textures
  /\ Advance
  /\ UNCHANGED <<managerVars, vertexBuffers, indexBuffers, nextBufferId,
                 nextTextureId, frame, bindings, executed>>

-----------------------------------------------------------------------------
(* DispatchCompute.                                                        *)

(* A pass is active, there is no manager or no backend, or the manager      *)
(* rejects the dispatch.                                                   *)
DispatchRefused ==
  /\ Executing({"dispatch"}) /\ call.pc = "idle"
  /\ \/ pass \/ ~given.compute \/ backend = "absent"
     \/ ~Runnable(Current.pipeline, Current.groups)
  /\ Leave("error")
  /\ UNCHANGED <<managerVars, graphics, frame, bindings, executed>>

(* Faulty variant: an active pass does not matter.                         *)
DispatchBegunInPass ==
  /\ Executing({"dispatch"})
  /\ given.compute
  /\ BeginExecutorDispatch(Current.pipeline, Current.groups)
  /\ UNCHANGED executorVars

DispatchBegun ==
  /\ Executing({"dispatch"})
  /\ ~pass /\ given.compute
  /\ BeginExecutorDispatch(Current.pipeline, Current.groups)
  /\ UNCHANGED executorVars

(* dispatch returned; its private fence must be signaled.                   *)
DispatchEnded ==
  /\ Executing({"dispatch"})
  /\ ReturnDispatch
  /\ IF call.pc = "done" /\ fences[ExecutorFence] = "signaled"
       THEN executed' = executed + 1 /\ Advance
       ELSE Leave("error") /\ UNCHANGED executed
  /\ UNCHANGED <<graphics, frame, bindings>>

FinishList ==
  /\ mode = "executing" /\ position > Len(commands)
  /\ Leave("ok")
  /\ UNCHANGED <<managerVars, graphics, frame, bindings, executed>>

-----------------------------------------------------------------------------
ExecutorInit ==
  /\ ManagerInit
  /\ vertexBuffers = [b \in {} |-> <<>>] /\ indexBuffers = [b \in {} |-> <<>>]
  /\ textures = [x \in {} |-> <<>>]
  /\ nextBufferId = 1 /\ nextTextureId = 1
  /\ frame = "blank" /\ slot = 0 /\ boundIndex = 0 /\ pass = FALSE
  /\ executed = 0
  /\ mode = "host" /\ commands = <<>> /\ position = 1 /\ outcome = "none"
  /\ given = Nothing
  /\ start = Data
  /\ entered = [pass |-> FALSE, executed |-> 0]

Host ==
  \/ \E n \in VertexSizes : CreateVertexBuffer(n)
  \/ \E n \in TextureSizes : CreateTexture(n)
  \/ \E numbers \in IndexLists : CreateIndexBuffer(numbers)
  \/ CreateUniformBuffer
  \/ \E b \in 1..MaxGraphicsBuffers, n \in VertexSizes, v \in Value :
       WriteVertexBuffer(b, Fill(n, v))
  \/ \E x \in 1..MaxTextures : DeleteTexture(x)
  \/ ResetStats
  \/ \E l \in CommandLists, r, c \in BOOLEAN, n \in {0, 1} :
       Execute(l, [frames |-> n, rasterizer |-> r, compute |-> c])
  \/ mode = "host" /\ (HostStep \/ ReturnDispatch) /\ UNCHANGED executorVars

(* The loop of execute_inner, the dispatch it calls included.               *)
Execution ==
  \/ BeginRenderPass \/ EndRenderPass \/ Bind \/ SetOtherState
  \/ DrawOutsidePass \/ DrawRecorded \/ DrawRasterized \/ DrawDegenerate \/ DrawPanics
  \/ CopyBufferToTexture \/ CopyTextureToBuffer \/ ClearTexture
  \/ DispatchRefused \/ DispatchBegun \/ DispatchEnded
  \/ FinishList
  \/ DispatchStep /\ UNCHANGED executorVars

(* History; no action reads it.                                            *)
Remember ==
  /\ start' = IF mode = "executing" /\ mode' = mode /\ position' = position
                THEN start ELSE Data'
  /\ entered' = IF mode' = "executing" THEN entered
                                       ELSE [pass |-> pass', executed |-> executed']

ExecutorNext == (Host \/ Execution) /\ Remember

ExecutorSpec == ExecutorInit /\ [][ExecutorNext]_vars

-----------------------------------------------------------------------------
(* Types; an id names a vertex buffer or an index buffer, never both.       *)
ExecutorTypeOK ==
  /\ ManagerTypeOK
  /\ nextBufferId \in Nat \ {0} /\ nextTextureId \in Nat \ {0}
  /\ \A b \in DOMAIN vertexBuffers : b < nextBufferId /\ vertexBuffers[b] \in Seq(Value)
  /\ \A b \in DOMAIN indexBuffers : b < nextBufferId /\ b \notin DOMAIN vertexBuffers
  /\ \A x \in DOMAIN textures : x < nextTextureId /\ textures[x] \in Seq(Value)
  /\ frame \in {"blank", "cleared", "drawn"}
  /\ slot \in Nat /\ boundIndex \in Nat /\ pass \in BOOLEAN /\ executed \in Nat
  /\ mode \in {"host", "executing"} /\ outcome \in {"none", "ok", "error", "panic"}
  /\ position \in Nat \ {0} /\ (mode = "executing" => commands \in CommandLists)

(* The pass in force at the k-th command: what the last begin or end before *)
(* it left, and before any of them the pass an earlier list left open.      *)
PassAt(k) ==
  LET marks == {i \in 1..(k - 1) : commands[i].op \in {"begin", "end"}}
  IN IF marks = {} THEN entered.pass ELSE commands[Max(marks)].op = "begin"

(* The statistics count exactly the work: as far as a list has come it has  *)
(* added one for each dispatch and for each draw inside a pass, and no      *)
(* dispatch, completed or under way, lies inside one; also when an earlier  *)
(* list failed and left its pass active.                                   *)
ListAccounted ==
  mode = "executing" =>
    LET performed == 1..(position - 1)
        dispatches == {k \in performed : commands[k].op = "dispatch"}
        draws == {k \in performed : commands[k].op \in DrawOps /\ PassAt(k)}
    IN /\ executed = entered.executed + Cardinality(dispatches) + Cardinality(draws)
       /\ \A k \in dispatches : ~PassAt(k)
       /\ call.pc # "idle" => ~PassAt(position)

(* A list that stops at a command leaves exactly what the commands before   *)
(* it did: buffers, textures, frame, storage and the count are those of     *)
(* the moment the failed command began.                                    *)
FailedCommandLeavesNoTrace ==
  [][mode = "executing" /\ outcome' # "ok" /\ mode' = "host" => Data' = start]_vars

=============================================================================
