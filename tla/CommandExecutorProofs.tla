------------------------- MODULE CommandExecutorProofs -------------------------
(***************************************************************************)
(* Theorems about the command executor, for any lists, buffers and limits:  *)
(* the statistics count exactly the work, and a command that fails leaves   *)
(* nothing behind, whichever thread of errors and open passes came before.  *)
(***************************************************************************)
EXTENDS CommandExecutor, ComputeManagerProofs, FiniteSetTheorems

(* The counters and flags, and what the history remembers of them.          *)
CountersOK ==
  /\ mode \in {"host", "executing"} /\ pass \in BOOLEAN /\ executed \in Nat
  /\ entered \in [pass : BOOLEAN, executed : Nat]
  /\ mode = "host" => entered.executed = executed /\ (entered.pass <=> pass)

(* A list under way is one of the host's, and the pass is the one its       *)
(* commands have left.                                                     *)
Within ==
  mode = "executing" =>
    /\ commands \in CommandLists
    /\ position \in Nat \ {0} /\ position <= Len(commands) + 1
    /\ pass <=> PassAt(position)

(* The dispatch under way is the list's current command, outside any pass,  *)
(* with the executor's own fence.                                          *)
DispatchOfList ==
  mode = "executing" /\ call.pc # "idle" =>
    /\ position <= Len(commands) /\ Current.op = "dispatch" /\ ~pass
    /\ call.fence = ExecutorFence
    /\ call.pc = "done" => fences[ExecutorFence] = "signaled"

(* Until its dispatch commits, the command has changed nothing.             *)
Storing == {"commit", "signal", "done"}
UnchangedSoFar == mode = "executing" /\ call.pc \notin Storing => start = Data

ExecutorInv ==
  /\ ManagerInv
  /\ CountersOK /\ Within /\ DispatchOfList /\ UnchangedSoFar /\ ListAccounted

-----------------------------------------------------------------------------
(* Counting along a list.                                                  *)

(* The pass after one more command.                                        *)
LEMMA PassMoves ==
  ASSUME NEW k \in Nat \ {0}, entered.pass \in BOOLEAN
  PROVE  PassAt(k + 1) <=> IF commands[k].op \in {"begin", "end"}
                             THEN commands[k].op = "begin" ELSE PassAt(k)
<1> DEFINE marks(n) == {i \in 1..(n - 1) : commands[i].op \in {"begin", "end"}}
<1>1. CASE commands[k].op \in {"begin", "end"}
  <2>1. k \in marks(k + 1) /\ \A i \in marks(k + 1) : i \in Nat /\ i <= k
    BY <1>1
  <2>2. Max(marks(k + 1)) = k
    <3>1. k \in marks(k + 1) /\ \A i \in marks(k + 1) : k >= i
      BY <2>1
    <3>2. PICK m : m = Max(marks(k + 1))
      OBVIOUS
    <3>3. m \in marks(k + 1) /\ \A i \in marks(k + 1) : m >= i
      BY <3>1, <3>2 DEF Max
    <3>4. m \in Nat /\ m <= k /\ m >= k
      BY <2>1, <3>1, <3>3
    <3> HIDE DEF marks
    <3> QED BY <3>2, <3>4
  <2> QED BY <1>1, <2>1, <2>2 DEF PassAt
<1>2. CASE commands[k].op \notin {"begin", "end"}
  <2>1. marks(k + 1) = marks(k)
    BY <1>2
  <2> QED BY <1>2, <2>1 DEF PassAt
<1> QED BY <1>1, <1>2

Dispatches(n) == {k \in 1..n : commands[k].op = "dispatch"}
Draws(n) == {k \in 1..n : commands[k].op \in DrawOps /\ PassAt(k)}

(* One more command adds one to a count.                                   *)
LEMMA OneMore ==
  ASSUME NEW k \in Nat \ {0}, NEW T, T \subseteq 1..(k - 1)
  PROVE  Cardinality(T) \in Nat /\ Cardinality(T \cup {k}) = Cardinality(T) + 1
<1>1. IsFiniteSet(1..(k - 1))
  BY FS_Interval
<1>2. IsFiniteSet(T)
  BY <1>1, FS_Subset
<1>3. k \notin T
  OBVIOUS
<1>4. Cardinality(T \cup {k}) = Cardinality(T) + 1
  BY <1>2, <1>3, FS_AddElement
<1> QED BY <1>2, <1>4, FS_CardinalityType

LEMMA CountsMove ==
  ASSUME NEW k \in Nat \ {0}
  PROVE  /\ Cardinality(Dispatches(k - 1)) \in Nat /\ Cardinality(Draws(k - 1)) \in Nat
         /\ Cardinality(Dispatches(k)) =
              IF commands[k].op = "dispatch" THEN Cardinality(Dispatches(k - 1)) + 1
                                             ELSE Cardinality(Dispatches(k - 1))
         /\ Cardinality(Draws(k)) =
              IF commands[k].op \in DrawOps /\ PassAt(k) THEN Cardinality(Draws(k - 1)) + 1
                                                         ELSE Cardinality(Draws(k - 1))
<1>1. Dispatches(k - 1) \subseteq 1..(k - 1) /\ Draws(k - 1) \subseteq 1..(k - 1)
  BY DEF Dispatches, Draws
<1>2. /\ commands[k].op = "dispatch" => Dispatches(k) = Dispatches(k - 1) \cup {k}
      /\ commands[k].op # "dispatch" => Dispatches(k) = Dispatches(k - 1)
  BY DEF Dispatches
<1>3. /\ commands[k].op \in DrawOps /\ PassAt(k) => Draws(k) = Draws(k - 1) \cup {k}
      /\ ~(commands[k].op \in DrawOps /\ PassAt(k)) => Draws(k) = Draws(k - 1)
  BY DEF Draws
<1>4. /\ Cardinality(Dispatches(k - 1)) \in Nat
      /\ Cardinality(Dispatches(k - 1) \cup {k}) = Cardinality(Dispatches(k - 1)) + 1
  BY <1>1, OneMore
<1>5. /\ Cardinality(Draws(k - 1)) \in Nat
      /\ Cardinality(Draws(k - 1) \cup {k}) = Cardinality(Draws(k - 1)) + 1
  BY <1>1, OneMore
<1> QED BY <1>2, <1>3, <1>4, <1>5
-----------------------------------------------------------------------------
(* What the steps do.                                                      *)

(* A dispatch keeps its fence and signals it last; only its commit touches  *)
(* the storage, and from then on it cannot fail.                            *)
LEMMA DispatchStepsOn ==
  ASSUME ManagerInv, DispatchStep
  PROVE  /\ call.pc # "idle" /\ call'.pc # "idle" /\ call'.fence = call.fence
         /\ call'.pc = "done" => fences'[call.fence] = "signaled"
         /\ call'.pc \notin Storing => call.pc \notin Storing /\ storage' = storage
<1>1. call \in Calls /\ fences \in [AllFences -> {"absent", "unsignaled", "signaled"}]
  BY DEF ManagerInv, ManagerTypeOK, Calls
<1>2. call.fence \in AllFences
  BY <1>1 DEF Calls
<1>3. CASE BackendFails \/ BackendCompletes \/ ReadbackFails
  BY <1>1, <1>3 DEF BackendFails, BackendCompletes, ReadbackFails, Calls, Storing
<1>4. ASSUME NEW v \in Value, Readback(v)
      PROVE  /\ call.pc # "idle" /\ call'.pc # "idle" /\ call'.fence = call.fence
             /\ call'.pc # "done" /\ call.pc \notin Storing /\ storage' = storage
  BY <1>1, <1>4 DEF Readback, NextTurn, Calls, Storing
<1>5. CASE Commit
  <2>1. call'.fence = call.fence /\ call'.pc \in {"commit", "signal"}
    BY <1>1, <1>5, NextTurnType DEF Commit
  <2> QED BY <1>5, <2>1 DEF Commit, Storing
<1>6. CASE SignalFence
  BY <1>1, <1>2, <1>6 DEF SignalFence, Calls, Storing
<1> QED BY <1>3, <1>4, <1>5, <1>6 DEF DispatchStep

(* The steps that move a list to its next command.                          *)
Moves ==
  /\ mode = "executing" /\ position <= Len(commands)
  /\ Advance
  /\ call'.pc = "idle" /\ (Current.op = "dispatch" \/ call.pc = "idle")
  /\ pass' \in BOOLEAN
  /\ pass' <=> IF Current.op \in {"begin", "end"} THEN Current.op = "begin" ELSE pass
  /\ executed' = IF Current.op = "dispatch" \/ (Current.op \in DrawOps /\ pass)
                   THEN executed + 1 ELSE executed
  /\ Current.op = "dispatch" => call.pc # "idle"

(* The steps that end a list, at once or early.                            *)
Ends ==
  /\ mode = "executing" /\ mode' = "host"
  /\ pass' = pass /\ executed' = executed
  /\ outcome' # "ok" =>
       /\ call.pc = "failed" \/ Current.op # "dispatch" \/ call.pc = "idle"
       /\ position <= Len(commands) /\ Data' = Data

LEMMA PlainMoves ==
  ASSUME ExecutorInv,
         \/ BeginRenderPass \/ EndRenderPass \/ Bind \/ SetOtherState
         \/ DrawOutsidePass \/ DrawRecorded \/ DrawRasterized
         \/ CopyBufferToTexture \/ CopyTextureToBuffer \/ ClearTexture
  PROVE  Moves /\ UNCHANGED managerVars
<1>1. /\ mode = "executing" /\ position <= Len(commands) /\ Current.op # "dispatch"
      /\ Advance /\ UNCHANGED managerVars
  BY DEF BeginRenderPass, EndRenderPass, Bind, SetOtherState, DrawOutsidePass, DrawRecorded,
         DrawRasterized, CopyBufferToTexture, CopyTextureToBuffer, ClearTexture, Executing,
         DrawOps
<1>2. call.pc = "idle" /\ call' = call
  BY <1>1 DEF ExecutorInv, DispatchOfList, managerVars
<1>3. pass \in BOOLEAN
  BY DEF ExecutorInv, CountersOK
<1>4. /\ Current.op \in {"begin", "end"} =>
           executed' = executed /\ (pass' <=> Current.op = "begin")
      /\ Current.op \in DrawOps =>
           executed' = (IF pass THEN executed + 1 ELSE executed) /\ pass' = pass
      /\ Current.op \notin {"begin", "end"} \union DrawOps =>
           executed' = executed /\ pass' = pass
  BY <1>3 DEF BeginRenderPass, EndRenderPass, Bind, SetOtherState, DrawOutsidePass, DrawRecorded,
         DrawRasterized, CopyBufferToTexture, CopyTextureToBuffer, ClearTexture, Executing,
         DrawOps, bindings
<1>5. {"begin", "end"} \cap DrawOps = {}
  BY DEF DrawOps
<1>6. pass' <=> IF Current.op \in {"begin", "end"} THEN Current.op = "begin" ELSE pass
  BY <1>3, <1>4
<1>7. executed' = IF Current.op = "dispatch" \/ (Current.op \in DrawOps /\ pass)
                    THEN executed + 1 ELSE executed
  BY <1>1, <1>4, <1>5
<1>8. pass' \in BOOLEAN
  BY <1>3 DEF BeginRenderPass, EndRenderPass, Bind, SetOtherState, DrawOutsidePass, DrawRecorded,
         DrawRasterized, CopyBufferToTexture, CopyTextureToBuffer, ClearTexture, bindings
<1> QED BY <1>1, <1>2, <1>6, <1>7, <1>8 DEF Moves

LEMMA DispatchEndedMoves ==
  ASSUME ExecutorInv, DispatchEnded
  PROVE  /\ ManagerInv' /\ call'.pc = "idle" /\ storage' = storage
         /\ Moves \/ (Ends /\ outcome' = "error")
<1>1. /\ mode = "executing" /\ position <= Len(commands) /\ Current.op = "dispatch"
      /\ call.pc \in {"done", "failed"} /\ call'.pc = "idle" /\ pass' = pass
      /\ storage' = storage /\ UNCHANGED <<graphics, frame>>
  BY DEF DispatchEnded, Executing, ReturnDispatch, Idle, bindings
<1>2. ManagerInv'
  BY ReturnKeepsInv DEF DispatchEnded, ExecutorInv
<1>3. CASE executed' = executed + 1 /\ Advance
  <2>1. Current.op \notin {"begin", "end"} /\ call.pc # "idle"
    BY <1>1
  <2>2. pass \in BOOLEAN
    BY DEF ExecutorInv, CountersOK
  <2>3. Moves
    BY <1>1, <1>3, <2>1, <2>2 DEF Moves
  <2> QED BY <1>1, <1>2, <2>3
<1>4. CASE /\ ~(call.pc = "done" /\ fences[ExecutorFence] = "signaled")
           /\ Leave("error") /\ UNCHANGED executed
  <2>1. call.pc = "failed"
    BY <1>1, <1>4 DEF ExecutorInv, DispatchOfList
  <2>2. Ends /\ outcome' = "error"
    BY <1>1, <1>4, <2>1 DEF Ends, Leave, Data, graphics
  <2> QED BY <1>1, <1>2, <2>2
<1> QED BY <1>3, <1>4 DEF DispatchEnded

LEMMA PlainEnds ==
  ASSUME ExecutorInv, DrawDegenerate \/ DrawPanics \/ DispatchRefused \/ FinishList
  PROVE  Ends /\ UNCHANGED managerVars
<1>1. CASE FinishList
  BY <1>1 DEF FinishList, Leave, Ends, bindings
<1>2. CASE DrawDegenerate \/ DrawPanics
  BY <1>2 DEF DrawDegenerate, DrawPanics, Executing, DrawOps, Leave, Ends, Data, graphics,
              bindings, managerVars
<1>3. CASE DispatchRefused
  BY <1>3 DEF DispatchRefused, Executing, Leave, Ends, Data, graphics, bindings, managerVars
<1> QED BY <1>1, <1>2, <1>3

-----------------------------------------------------------------------------
(* The invariant.                                                          *)

(* On the host only the manager and the counters are at stake.              *)
LEMMA HostKeeps ==
  ASSUME ManagerInv', mode' = "host", Remember, pass' \in BOOLEAN, executed' \in Nat
  PROVE  ExecutorInv'
<1>1. entered' = [pass |-> pass', executed |-> executed']
  BY DEF Remember
<1> QED BY <1>1 DEF ExecutorInv, CountersOK, Within, DispatchOfList, UnchangedSoFar,
                    ListAccounted

(* A list begins with nothing counted and the pass it found.                *)
LEMMA ListBegins ==
  ASSUME ExecutorInv, Remember, NEW l \in CommandLists, NEW g, Execute(l, g)
  PROVE  ExecutorInv'
<1>1. /\ mode = "host" /\ call.pc = "idle" /\ mode' = "executing" /\ commands' = l
      /\ position' = 1 /\ UNCHANGED managerVars /\ pass' = pass /\ executed' = executed
      /\ start' = Data' /\ entered' = entered /\ call' = call
  BY DEF Execute, OnHost, Remember, bindings, managerVars
<1>2. CountersOK'
  BY <1>1 DEF ExecutorInv, CountersOK
<1>3. PassAt(1)' <=> entered.pass
  BY <1>1 DEF PassAt
<1>4. Within'
  <2>1. Len(l) \in Nat
    BY ExecutorAssumption
  <2> QED BY <1>1, <1>3, <2>1 DEF Within, ExecutorInv, CountersOK
<1>5. ListAccounted'
  <2>1. Cardinality({}) = 0
    BY FS_EmptySet
  <2>2. 1..(position' - 1) = {}
    BY <1>1
  <2> QED BY <1>1, <2>1, <2>2 DEF ListAccounted, ExecutorInv, CountersOK
<1>6. ManagerInv'
  BY <1>1, StutterKeepsInv DEF ExecutorInv
<1> QED BY <1>1, <1>2, <1>4, <1>5, <1>6 DEF ExecutorInv, DispatchOfList, UnchangedSoFar

(* One command more, and one more in the counts if it is work.              *)
LEMMA ListMoves ==
  ASSUME ExecutorInv, ManagerInv', Remember, Moves
  PROVE  ExecutorInv'
<1>1. /\ mode' = "executing" /\ mode = "executing" /\ commands' = commands
      /\ position' = position + 1 /\ position \in Nat \ {0} /\ commands \in CommandLists
      /\ position <= Len(commands) /\ Len(commands) \in Nat
      /\ entered' = entered /\ start' = Data' /\ call'.pc = "idle"
  BY ExecutorAssumption DEF Moves, Advance, Remember, ExecutorInv, Within
<1>2. /\ entered.pass \in BOOLEAN /\ pass \in BOOLEAN /\ executed \in Nat
      /\ entered.executed \in Nat /\ (pass <=> PassAt(position))
  BY <1>1 DEF ExecutorInv, CountersOK, Within
<1>3. \A k : PassAt(k)' <=> PassAt(k)
  BY <1>1 DEF PassAt
<1>4. pass' <=> PassAt(position + 1)
  <2>1. pass' <=> IF commands[position].op \in {"begin", "end"}
                    THEN commands[position].op = "begin" ELSE PassAt(position)
    BY <1>2 DEF Moves, Current
  <2> QED BY <1>1, <1>2, <2>1, PassMoves
<1>5. Within'
  <2>1. PassAt(position)' <=> PassAt(position + 1)
    BY <1>1 DEF PassAt
  <2>2. (pass <=> PassAt(position))'
    BY <1>4, <2>1
  <2>3. (position \in Nat \ {0} /\ position <= Len(commands) + 1)'
    BY <1>1
  <2> QED BY <1>1, <2>2, <2>3 DEF Within
<1>6. ListAccounted'
  <2>1. PICK d, w, n : /\ d = Cardinality(Dispatches(position - 1))
                       /\ w = Cardinality(Draws(position - 1)) /\ n = position
    OBVIOUS
  <2>2. executed = entered.executed + d + w
    BY <1>1, <2>1 DEF ExecutorInv, ListAccounted, Dispatches, Draws
  <2>3. /\ d \in Nat /\ w \in Nat
        /\ Cardinality(Dispatches(position)) =
             IF Current.op = "dispatch" THEN d + 1 ELSE d
        /\ Cardinality(Draws(position)) =
             IF Current.op \in DrawOps /\ PassAt(position) THEN w + 1 ELSE w
    BY <1>1, <2>1, CountsMove DEF Current
  <2>4. Current.op \in DrawOps => Current.op # "dispatch"
    BY DEF DrawOps
  <2>5. executed' = entered.executed + Cardinality(Dispatches(position))
                      + Cardinality(Draws(position))
    <3>1. CASE Current.op = "dispatch"
      <4>1. executed' = executed + 1
        BY <3>1 DEF Moves
      <4>2. Cardinality(Dispatches(position)) = d + 1 /\ Cardinality(Draws(position)) = w
        BY <2>3, <2>4, <3>1
      <4> QED BY <1>2, <2>2, <2>3, <4>1, <4>2
    <3>2. CASE Current.op \in DrawOps /\ pass
      <4>1. executed' = executed + 1
        BY <3>2 DEF Moves
      <4>2. Cardinality(Dispatches(position)) = d /\ Cardinality(Draws(position)) = w + 1
        BY <1>2, <2>3, <2>4, <3>2
      <4> QED BY <1>2, <2>2, <2>3, <4>1, <4>2
    <3>3. CASE Current.op # "dispatch" /\ ~(Current.op \in DrawOps /\ pass)
      BY <1>2, <2>2, <2>3, <3>3 DEF Moves
    <3> QED BY <3>1, <3>2, <3>3
  <2>6. \A k \in Dispatches(position) : ~PassAt(k)
    <3>1. \A k \in Dispatches(position - 1) : ~PassAt(k)
      BY <1>1 DEF ExecutorInv, ListAccounted, Dispatches
    <3>2. Current.op = "dispatch" => ~PassAt(position)
      BY <1>1, <1>2 DEF Moves, ExecutorInv, DispatchOfList
    <3>3. Dispatches(position) \subseteq Dispatches(position - 1) \union {position}
      BY <1>1 DEF Dispatches
    <3>4. position \in Dispatches(position) => Current.op = "dispatch"
      BY DEF Dispatches, Current
    <3> QED BY <3>1, <3>2, <3>3, <3>4
  <2>7. /\ position' - 1 = position
        /\ Dispatches(position) = {k \in 1..position : commands'[k].op = "dispatch"}
        /\ Draws(position) = {k \in 1..position : commands'[k].op \in DrawOps /\ PassAt(k)'}
    BY <1>1, <1>3 DEF Dispatches, Draws
  <2>8. \A k \in 1..position : commands'[k].op = "dispatch" => ~PassAt(k)'
    BY <1>1, <1>3, <2>6 DEF Dispatches
  <2>9. /\ Dispatches(position) = {k \in 1..(position' - 1) : commands'[k].op = "dispatch"}
        /\ Draws(position) =
             {k \in 1..(position' - 1) : commands'[k].op \in DrawOps /\ PassAt(k)'}
    BY <2>7
  <2> HIDE DEF Dispatches, Draws
  <2> QED BY <1>1, <2>5, <2>8, <2>9 DEF ListAccounted
<1>7. CountersOK'
  <2>1. executed' \in Nat /\ pass' \in BOOLEAN
    BY <1>2 DEF Moves
  <2>2. entered \in [pass : BOOLEAN, executed : Nat]
    BY DEF ExecutorInv, CountersOK
  <2> QED BY <1>1, <2>1, <2>2 DEF CountersOK
<1> QED BY <1>1, <1>5, <1>6, <1>7 DEF ExecutorInv, DispatchOfList, UnchangedSoFar

(* A list waits at its current command while a dispatch runs.               *)
LEMMA ListWaits ==
  ASSUME ExecutorInv, ManagerInv', Remember,
         mode = "executing", position <= Len(commands), Current.op = "dispatch", ~pass,
         UNCHANGED executorVars, call'.pc # "idle", call'.fence = ExecutorFence,
         call'.pc = "done" => fences'[ExecutorFence] = "signaled",
         call'.pc \notin Storing => call.pc \notin Storing /\ storage' = storage
  PROVE  ExecutorInv'
<1>1. /\ mode' = mode /\ commands' = commands /\ position' = position
      /\ pass' = pass /\ executed' = executed
      /\ UNCHANGED <<vertexBuffers, textures, frame>>
  BY DEF executorVars, execution, bindings, graphics
<1>2. start' = start /\ entered' = entered
  BY <1>1 DEF Remember
<1>3. CountersOK'
  BY <1>1, <1>2 DEF ExecutorInv, CountersOK
<1>4. \A k : PassAt(k)' <=> PassAt(k)
  BY <1>1, <1>2 DEF PassAt
<1>5. PassAt(position)' <=> PassAt(position)
  BY <1>1, <1>2 DEF PassAt
<1>6. Within'
  BY <1>1, <1>5 DEF ExecutorInv, Within
<1>7. DispatchOfList'
  BY <1>1 DEF DispatchOfList, Current
<1>8. UnchangedSoFar'
  BY <1>1, <1>2 DEF ExecutorInv, UnchangedSoFar, Data
<1>9. ListAccounted'
  <2>1. ~PassAt(position)'
    BY <1>5 DEF ExecutorInv, Within
  <2>2. /\ {k \in 1..(position' - 1) : commands'[k].op = "dispatch"} = Dispatches(position - 1)
        /\ {k \in 1..(position' - 1) : commands'[k].op \in DrawOps /\ PassAt(k)'}
             = Draws(position - 1)
    BY <1>1, <1>4 DEF Dispatches, Draws
  <2>3. /\ executed = entered.executed + Cardinality(Dispatches(position - 1))
                        + Cardinality(Draws(position - 1))
        /\ \A k \in Dispatches(position - 1) : ~PassAt(k)
    BY DEF ExecutorInv, ListAccounted, Dispatches, Draws
  <2>4. \A k \in Dispatches(position - 1) : ~PassAt(k)'
    BY <1>4, <2>3
  <2> HIDE DEF Dispatches, Draws
  <2> QED BY <1>1, <1>2, <2>1, <2>2, <2>3, <2>4 DEF ListAccounted
<1> QED BY <1>3, <1>6, <1>7, <1>8, <1>9 DEF ExecutorInv

(* What the host does between lists.                                       *)
LEMMA HostSteps ==
  ASSUME ExecutorInv, Host, Remember
  PROVE  ExecutorInv'
<1>1. CASE \E l \in CommandLists, r, c \in BOOLEAN, n \in {0, 1} :
             Execute(l, [frames |-> n, rasterizer |-> r, compute |-> c])
  BY <1>1, ListBegins
<1>2. CASE mode = "host" /\ (HostStep \/ ReturnDispatch) /\ UNCHANGED executorVars
  <2>1. ManagerInv'
    BY <1>2, HostStepKeepsInv, ReturnKeepsInv DEF ExecutorInv
  <2>2. mode' = "host" /\ pass' = pass /\ executed' = executed
    BY <1>2 DEF executorVars, execution, bindings
  <2> QED BY <2>1, <2>2, HostKeeps DEF ExecutorInv, CountersOK
<1>3. CASE \/ \E n \in VertexSizes : CreateVertexBuffer(n)
           \/ \E n \in TextureSizes : CreateTexture(n)
           \/ \E numbers \in IndexLists : CreateIndexBuffer(numbers)
           \/ CreateUniformBuffer
           \/ \E b \in 1..MaxGraphicsBuffers, n \in VertexSizes, v \in Value :
                WriteVertexBuffer(b, Fill(n, v))
           \/ \E x \in 1..MaxTextures : DeleteTexture(x)
           \/ ResetStats
  <2>1. /\ mode' = "host" /\ UNCHANGED managerVars /\ pass' = pass
        /\ executed' = executed \/ executed' = 0
    <3>1. CASE ResetStats
      BY <3>1 DEF ResetStats, OnHost, bindings, execution
    <3>2. CASE OnHost /\ HostOnly
      BY <3>2 DEF OnHost, HostOnly, bindings, execution
    <3> QED BY <1>3, <3>1, <3>2
            DEF CreateVertexBuffer, CreateTexture, CreateIndexBuffer, CreateUniformBuffer,
                WriteVertexBuffer, DeleteTexture
  <2>2. ManagerInv'
    BY <2>1, StutterKeepsInv DEF ExecutorInv
  <2>3. pass' \in BOOLEAN /\ executed' \in Nat
    BY <2>1 DEF ExecutorInv, CountersOK
  <2> QED BY <2>1, <2>2, <2>3, HostKeeps
<1> QED BY <1>1, <1>2, <1>3 DEF Host

(* The loop over a list.                                                   *)
LEMMA ExecutionSteps ==
  ASSUME ExecutorInv, Execution, Remember
  PROVE  ExecutorInv'
<1>0. pass \in BOOLEAN /\ executed \in Nat
  BY DEF ExecutorInv, CountersOK
<1>1. ASSUME Moves, ManagerInv' PROVE ExecutorInv'
  BY <1>1, ListMoves
<1>2. ASSUME Ends, ManagerInv' PROVE ExecutorInv'
  BY <1>0, <1>2, HostKeeps DEF Ends
<1>3. CASE \/ BeginRenderPass \/ EndRenderPass \/ Bind \/ SetOtherState
           \/ DrawOutsidePass \/ DrawRecorded \/ DrawRasterized
           \/ CopyBufferToTexture \/ CopyTextureToBuffer \/ ClearTexture
  <2>1. Moves /\ UNCHANGED managerVars
    BY <1>3, PlainMoves
  <2> QED BY <1>1, <2>1, StutterKeepsInv DEF ExecutorInv
<1>4. CASE DrawDegenerate \/ DrawPanics \/ DispatchRefused \/ FinishList
  <2>1. Ends /\ UNCHANGED managerVars
    BY <1>4, PlainEnds
  <2> QED BY <1>2, <2>1, StutterKeepsInv DEF ExecutorInv
<1>5. CASE DispatchEnded
  BY <1>1, <1>2, <1>5, DispatchEndedMoves
<1>6. CASE DispatchBegun
  <2>1. BeginExecutorDispatch(Current.pipeline, Current.groups)
    BY <1>6 DEF DispatchBegun
  <2>2. Current.pipeline \in Nat
    BY <2>1 DEF BeginExecutorDispatch, Runnable, ExecutorInv, ManagerInv, ManagerTypeOK
  <2>3. ManagerInv'
    BY <2>1, <2>2, ExecutorBeginKeepsInv DEF ExecutorInv
  <2>4. call' = Started(Current.pipeline, ExecutorFence) /\ storage' = storage /\ call.pc = "idle"
    BY <2>1 DEF BeginExecutorDispatch
  <2>5. call'.pc = "gpu" /\ call'.fence = ExecutorFence
    BY <2>4 DEF Started
  <2>6. /\ mode = "executing" /\ position <= Len(commands) /\ Current.op = "dispatch"
        /\ ~pass /\ UNCHANGED executorVars
    BY <1>6 DEF DispatchBegun, Executing
  <2> QED BY <2>3, <2>4, <2>5, <2>6, ListWaits DEF Storing
<1>7. CASE DispatchStep /\ UNCHANGED executorVars
  <2>1. ManagerInv'
    BY <1>7, DispatchStepKeepsInv DEF ExecutorInv
  <2>2. /\ call.pc # "idle" /\ call'.pc # "idle" /\ call'.fence = call.fence
        /\ call'.pc = "done" => fences'[call.fence] = "signaled"
        /\ call'.pc \notin Storing => call.pc \notin Storing /\ storage' = storage
    BY <1>7, DispatchStepsOn DEF ExecutorInv
  <2>3. CASE mode = "host"
    <3>1. mode' = "host" /\ pass' = pass /\ executed' = executed
      BY <1>7, <2>3 DEF executorVars, execution, bindings
    <3> QED BY <1>0, <2>1, <3>1, HostKeeps
  <2>4. CASE mode = "executing"
    <3>1. /\ position <= Len(commands) /\ Current.op = "dispatch" /\ ~pass
          /\ call.fence = ExecutorFence
      BY <2>2, <2>4 DEF ExecutorInv, DispatchOfList
    <3> QED BY <1>7, <2>1, <2>2, <2>4, <3>1, ListWaits
  <2> QED BY <2>3, <2>4 DEF ExecutorInv, CountersOK
<1> QED BY <1>3, <1>4, <1>5, <1>6, <1>7 DEF Execution

LEMMA ExecutorStutter ==
  ASSUME ExecutorInv, UNCHANGED vars
  PROVE  ExecutorInv'
<1>1. /\ UNCHANGED <<managerVars, mode, commands, position, pass, executed, start, entered>>
      /\ UNCHANGED <<vertexBuffers, textures, frame, storage, call, fences>>
  BY DEF vars, executorVars, execution, bindings, graphics, managerVars
<1>2. ManagerInv'
  BY <1>1, StutterKeepsInv DEF ExecutorInv
<1>3. \A k : PassAt(k)' <=> PassAt(k)
  BY <1>1 DEF PassAt
<1>4. PassAt(position)' <=> PassAt(position)
  BY <1>1 DEF PassAt
<1>5. CountersOK' /\ Within' /\ DispatchOfList' /\ UnchangedSoFar'
  BY <1>1, <1>4 DEF ExecutorInv, CountersOK, Within, DispatchOfList, UnchangedSoFar, Current, Data
<1>6. ListAccounted'
  BY <1>1, <1>3, <1>4 DEF ExecutorInv, ListAccounted
<1> QED BY <1>2, <1>5, <1>6 DEF ExecutorInv

THEOREM ExecutorInvariance == ExecutorSpec => []ExecutorInv
<1>1. ExecutorInit => ExecutorInv
  <2> SUFFICES ASSUME ExecutorInit PROVE ExecutorInv
    OBVIOUS
  <2>1. ManagerInv
    BY InitInv DEF ExecutorInit
  <2> QED BY <2>1 DEF ExecutorInit, ExecutorInv, CountersOK, Within, DispatchOfList,
                      UnchangedSoFar, ListAccounted
<1>2. ExecutorInv /\ [ExecutorNext]_vars => ExecutorInv'
  BY HostSteps, ExecutionSteps, ExecutorStutter DEF ExecutorNext
<1> QED BY <1>1, <1>2, PTL DEF ExecutorSpec

(* The count of executed commands is what the list has done so far, and no  *)
(* dispatch has run inside a pass, for every list and every list before it. *)
THEOREM StatisticsAreExact == ExecutorSpec => []ListAccounted
<1>1. ExecutorInv => ListAccounted
  BY DEF ExecutorInv
<1> QED BY <1>1, ExecutorInvariance, PTL

(* A list that stops early has done nothing of the command it stopped at.   *)
THEOREM FailedCommandsLeaveNoTrace == ExecutorSpec => FailedCommandLeavesNoTrace
<1>1. ExecutorInv /\ [ExecutorNext]_vars =>
        [mode = "executing" /\ outcome' # "ok" /\ mode' = "host" => Data' = start]_vars
  <2> SUFFICES ASSUME ExecutorInv, ExecutorNext,
                      mode = "executing", outcome' # "ok", mode' = "host"
               PROVE  Data' = start
    OBVIOUS
  <2>1. ASSUME Ends, call.pc = "failed" \/ call.pc = "idle" PROVE Data' = start
    BY <2>1 DEF Ends, ExecutorInv, UnchangedSoFar, Storing
  <2>2. ~Host
    BY DEF Host, CreateVertexBuffer, CreateTexture, CreateIndexBuffer, CreateUniformBuffer,
           WriteVertexBuffer, DeleteTexture, ResetStats, Execute, OnHost
  <2>3. CASE DrawDegenerate \/ DrawPanics \/ DispatchRefused \/ FinishList
    <3>1. Ends
      BY <2>3, PlainEnds
    <3>2. call.pc = "failed" \/ call.pc = "idle"
      BY <3>1 DEF Ends, ExecutorInv, DispatchOfList
    <3> QED BY <2>1, <3>1, <3>2
  <2>4. CASE DispatchEnded
    <3>1. Ends
      BY <2>4, DispatchEndedMoves DEF Moves, Advance
    <3>2. call.pc = "failed" \/ call.pc = "idle"
      BY <2>4, <3>1 DEF Ends, DispatchEnded, Executing
    <3> QED BY <2>1, <3>1, <3>2
  <2>5. CASE DispatchBegun \/ (DispatchStep /\ UNCHANGED executorVars)
    BY <2>5 DEF DispatchBegun, executorVars, execution
  <2>6. CASE \/ BeginRenderPass \/ EndRenderPass \/ Bind \/ SetOtherState
             \/ DrawOutsidePass \/ DrawRecorded \/ DrawRasterized
             \/ CopyBufferToTexture \/ CopyTextureToBuffer \/ ClearTexture
    BY <2>6, PlainMoves DEF Moves, Advance
  <2> QED BY <2>2, <2>3, <2>4, <2>5, <2>6 DEF ExecutorNext, Execution
<1> QED BY <1>1, ExecutorInvariance, PTL DEF ExecutorSpec, FailedCommandLeavesNoTrace
================================================================================
