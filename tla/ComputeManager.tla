---------------------------- MODULE ComputeManager ----------------------------
(***************************************************************************)
(* ComputePipelineManager: pipelines, host storage buffers and dispatch.    *)
(* dispatch owns the manager while it runs, so its steps interleave only    *)
(* with other threads that share the fence; they are modelled one by one    *)
(* because the backend can fail between any two of them.                    *)
(***************************************************************************)
EXTENDS Integers, Sequences, FiniteSets, FiniteSetsExt

CONSTANTS
  Value,           \* contents of one byte
  Sizes,           \* sizes a host asks for when it creates a buffer
  Descriptors,     \* [workgroup, bindings], bindings a sequence of
                   \* [binding, buffer, offset, size]
  Groups,          \* workgroup counts; a workgroup or a count is the product
                   \* of its three dimensions, 0 when one of them is 0
  Fences,          \* fences of the host's synchronization manager
  ExecutorFence,   \* the fence the command executor makes for each dispatch
  MaxPipelines,    \* bound: pipelines ever created
  MaxBuffers,      \* bound: storage buffers ever created
  MaxInvocations,  \* 16 Mi in the code
  MaxBindings,     \* 8
  BindingSlots,    \* 32
  MaxBindingBytes, \* 16 MiB
  MaxBoundBytes,   \* 64 MiB
  Align            \* 4

ASSUME ManagerAssumption ==
  /\ Value \subseteq Nat /\ 0 \in Value /\ ExecutorFence \notin Fences
  /\ Sizes \subseteq Nat /\ Groups \subseteq Nat
  /\ MaxPipelines \in Nat /\ MaxBuffers \in Nat
  /\ MaxInvocations \in Nat /\ MaxBindings \in Nat /\ BindingSlots \in Nat
  /\ MaxBindingBytes \in Nat /\ MaxBoundBytes \in Nat /\ Align \in Nat \ {0}
  /\ \A d \in Descriptors :
       /\ d.workgroup \in Nat
       /\ d.bindings \in Seq([binding : Nat, buffer : Nat, offset : Nat, size : Nat])

VARIABLES
  pipelines,   \* id -> descriptor
  storage,     \* handle -> bytes
  nextId, nextHandle,
  backend,     \* Option<VulkanComputeBackend>: "absent", "ready", "poisoned"
  fences,      \* fence -> "absent", "unsignaled", "signaled"
  call         \* the dispatch under way: [pc, id, fence, turn, views, updated]

managerVars == <<pipelines, storage, nextId, nextHandle, backend, fences, call>>

AllFences == Fences \union {ExecutorFence}

Idle == [pc |-> "idle", id |-> 0, fence |-> ExecutorFence,
         turn |-> 1, views |-> <<>>, updated |-> <<>>]

(* HashMap::insert and HashMap::remove.                                    *)
Insert(f, x, v) == [y \in DOMAIN f \union {x} |-> IF y = x THEN v ELSE f[y]]
Remove(f, x)    == [y \in DOMAIN f \ {x} |-> f[y]]

(* Ranges of bytes [offset, offset + length).                              *)
Slice(bytes, offset, length) == SubSeq(bytes, offset + 1, offset + length)
Overwrite(bytes, offset, data) ==
  [i \in 1..Len(bytes) |-> IF i \in offset + 1 .. offset + Len(data)
                             THEN data[i - offset] ELSE bytes[i]]
Fill(length, v) == [i \in 1..length |-> v]

-----------------------------------------------------------------------------
(* Faulty variant: one buffer may be bound in two slots.                    *)
DistinctSlots(b) ==
  \A i, j \in 1..Len(b) : i # j => b[i].binding # b[j].binding

(* No slot is used twice and no two bindings name one buffer.               *)
NoAliasing(b) ==
  \A i, j \in 1..Len(b) :
    i # j => b[i].binding # b[j].binding /\ b[i].buffer # b[j].buffer

(* validate_dispatch.  A product that overflows u64 exceeds the cap too.    *)
ValidDispatch(desc, groups) ==
  LET b == desc.bindings IN
  /\ groups * desc.workgroup \in 1..MaxInvocations
  /\ Len(b) \in 1..MaxBindings
  /\ \A i \in 1..Len(b) :
       /\ b[i].binding < BindingSlots
       /\ b[i].size \in 1..MaxBindingBytes
       /\ b[i].offset % Align = 0 /\ b[i].size % Align = 0
  /\ NoAliasing(b)
  /\ MapThenSumSet(LAMBDA i : b[i].size, 1..Len(b)) <= MaxBoundBytes

(* Every binding lies in an existing buffer.                               *)
InStorage(desc) ==
  \A i \in 1..Len(desc.bindings) :
    LET b == desc.bindings[i]
    IN b.buffer \in DOMAIN storage /\ b.offset + b.size <= Len(storage[b.buffer])

(* What dispatch checks, besides its fence, before it looks for a backend.  *)
Runnable(id, groups) ==
  /\ id \in DOMAIN pipelines
  /\ groups # 0
  /\ ValidDispatch(pipelines[id], groups)
  /\ InStorage(pipelines[id])

Bound(id) == pipelines[id].bindings

-----------------------------------------------------------------------------
CreatePipeline(desc) ==
  /\ call.pc = "idle" /\ nextId <= MaxPipelines
  /\ pipelines' = Insert(pipelines, nextId, desc)
  /\ nextId' = nextId + 1
  /\ UNCHANGED <<storage, nextHandle, backend, fences, call>>

DeletePipeline(id) ==
  /\ call.pc = "idle" /\ id \in DOMAIN pipelines
  /\ pipelines' = Remove(pipelines, id)
  /\ UNCHANGED <<storage, nextId, nextHandle, backend, fences, call>>

CreateStorageBuffer(size) ==
  /\ call.pc = "idle" /\ nextHandle <= MaxBuffers
  /\ storage' = Insert(storage, nextHandle, Fill(size, 0))
  /\ nextHandle' = nextHandle + 1
  /\ UNCHANGED <<pipelines, nextId, backend, fences, call>>

(* write_storage_buffer; an unknown handle or a bad range changes nothing.  *)
WriteStorageBuffer(handle, offset, data) ==
  /\ call.pc = "idle" /\ handle \in DOMAIN storage
  /\ offset + Len(data) <= Len(storage[handle])
  /\ storage' = [storage EXCEPT ![handle] = Overwrite(@, offset, data)]
  /\ UNCHANGED <<pipelines, nextId, nextHandle, backend, fences, call>>

(* The fences of a synchronization manager: no dispatch borrows it while it *)
(* creates one; threads that hold a fence signal and re-arm it at any time. *)
CreateFence(f) ==
  /\ call.pc = "idle" /\ fences[f] = "absent"
  /\ fences' = [fences EXCEPT ![f] = "unsignaled"]
  /\ UNCHANGED <<pipelines, storage, nextId, nextHandle, backend, call>>

SetFence(f) ==
  /\ fences[f] = "unsignaled"
  /\ fences' = [fences EXCEPT ![f] = "signaled"]
  /\ UNCHANGED <<pipelines, storage, nextId, nextHandle, backend, call>>

ResetFence(f) ==
  /\ fences[f] = "signaled"
  /\ fences' = [fences EXCEPT ![f] = "unsignaled"]
  /\ UNCHANGED <<pipelines, storage, nextId, nextHandle, backend, call>>

-----------------------------------------------------------------------------
(* dispatch: checks, then the bytes of every binding are copied for the     *)
(* backend.                                                                *)
Views(id) ==
  [i \in 1..Len(Bound(id)) |->
     Slice(storage[Bound(id)[i].buffer], Bound(id)[i].offset, Bound(id)[i].size)]

Started(id, fence) == [pc |-> "gpu", id |-> id, fence |-> fence, turn |-> 1,
                       views |-> Views(id), updated |-> <<>>]

BeginDispatch(id, groups, fence) ==
  /\ call.pc = "idle" /\ backend # "absent"
  /\ Runnable(id, groups) /\ fences[fence] = "unsignaled"
  /\ call' = Started(id, fence)
  /\ UNCHANGED <<pipelines, storage, nextId, nextHandle, backend, fences>>

(* CommandExecutor, DispatchCompute: the same with a fence nobody else has. *)
BeginExecutorDispatch(id, groups) ==
  /\ call.pc = "idle" /\ backend # "absent"
  /\ Runnable(id, groups)
  /\ fences' = [fences EXCEPT ![ExecutorFence] = "unsignaled"]
  /\ call' = Started(id, ExecutorFence)
  /\ UNCHANGED <<pipelines, storage, nextId, nextHandle, backend>>

(* The backend refuses, or its submission fails with or without poison.     *)
BackendFails ==
  /\ call.pc = "gpu"
  /\ backend' \in {backend, "poisoned"}
  /\ call' = [call EXCEPT !.pc = "failed"]
  /\ UNCHANGED <<pipelines, storage, nextId, nextHandle, fences>>

BackendCompletes ==
  /\ call.pc = "gpu" /\ backend = "ready"
  /\ call' = [call EXCEPT !.pc = "read"]
  /\ UNCHANGED <<pipelines, storage, nextId, nextHandle, backend, fences>>

NextTurn(c, label) ==
  IF c.turn < Len(c.views) THEN [c EXCEPT !.turn = @ + 1]
                           ELSE [c EXCEPT !.turn = 1, !.pc = label]

(* Faulty variant: each binding is stored as soon as it is read back.       *)
ReadbackIntoStorage(v) ==
  /\ call.pc = "read"
  /\ LET b == Bound(call.id)[call.turn]
         data == Fill(b.size, v)
     IN /\ storage' = [storage EXCEPT ![b.buffer] = Overwrite(@, b.offset, data)]
        /\ call' = NextTurn([call EXCEPT !.updated = Append(@, data)], "commit")
  /\ UNCHANGED <<pipelines, nextId, nextHandle, backend, fences>>

(* The backend reads one binding back; the shader wrote any value.          *)
Readback(v) ==
  /\ call.pc = "read"
  /\ LET data == Fill(Len(call.views[call.turn]), v)
     IN call' = NextTurn([call EXCEPT !.updated = Append(@, data)], "commit")
  /\ UNCHANGED <<pipelines, storage, nextId, nextHandle, backend, fences>>

ReadbackFails ==
  /\ call.pc = "read"
  /\ call' = [call EXCEPT !.pc = "failed"]
  /\ UNCHANGED <<pipelines, storage, nextId, nextHandle, backend, fences>>

(* Faulty variant: the data lands at the start of the buffer.               *)
CommitIgnoringOffset ==
  /\ call.pc = "commit"
  /\ LET b == Bound(call.id)[call.turn]
     IN storage' = [storage EXCEPT ![b.buffer] = Overwrite(@, 0, call.updated[call.turn])]
  /\ call' = NextTurn(call, "signal")
  /\ UNCHANGED <<pipelines, nextId, nextHandle, backend, fences>>

(* Faulty variant: the fence is signaled with the first buffer.             *)
CommitSignalingEarly ==
  /\ call.pc = "commit"
  /\ LET b == Bound(call.id)[call.turn]
     IN storage' = [storage EXCEPT ![b.buffer] =
                      Overwrite(@, b.offset, call.updated[call.turn])]
  /\ call' = NextTurn(call, "signal")
  /\ fences' = [fences EXCEPT ![call.fence] = "signaled"]
  /\ UNCHANGED <<pipelines, nextId, nextHandle, backend>>

(* One turn of the commit loop, reached only with every buffer read back.   *)
Commit ==
  /\ call.pc = "commit"
  /\ LET b == Bound(call.id)[call.turn]
     IN storage' = [storage EXCEPT ![b.buffer] =
                      Overwrite(@, b.offset, call.updated[call.turn])]
  /\ call' = NextTurn(call, "signal")
  /\ UNCHANGED <<pipelines, nextId, nextHandle, backend, fences>>

SignalFence ==
  /\ call.pc = "signal"
  /\ fences' = [fences EXCEPT ![call.fence] = "signaled"]
  /\ call' = [call EXCEPT !.pc = "done"]
  /\ UNCHANGED <<pipelines, storage, nextId, nextHandle, backend>>

(* The caller gets Ok or Err.                                              *)
ReturnDispatch ==
  /\ call.pc \in {"done", "failed"}
  /\ call' = Idle
  /\ UNCHANGED <<pipelines, storage, nextId, nextHandle, backend, fences>>

-----------------------------------------------------------------------------
ManagerInit ==
  /\ pipelines = [i \in {} |-> 0] /\ storage = [h \in {} |-> <<>>]
  /\ nextId = 1 /\ nextHandle = 1
  /\ backend \in {"absent", "ready"}
  /\ fences = [f \in AllFences |-> "absent"]
  /\ call = Idle

(* The steps of a dispatch once it began.                                  *)
DispatchStep ==
  \/ BackendFails \/ BackendCompletes
  \/ \E v \in Value : Readback(v)
  \/ ReadbackFails \/ Commit \/ SignalFence

(* What the owner of the manager may call.                                 *)
HostStep ==
  \/ \E d \in Descriptors : CreatePipeline(d)
  \/ \E i \in 1..MaxPipelines : DeletePipeline(i)
  \/ \E n \in Sizes : CreateStorageBuffer(n)
  \/ \E h \in 1..MaxBuffers, n \in Sizes, v \in Value :
       WriteStorageBuffer(h, 0, Fill(n, v))
  \/ \E i \in 1..MaxPipelines, g \in Groups, f \in Fences : BeginDispatch(i, g, f)
  \/ \E i \in 1..MaxPipelines, g \in Groups : BeginExecutorDispatch(i, g)

ManagerNext ==
  \/ HostStep \/ DispatchStep \/ ReturnDispatch
  \/ \E f \in Fences : CreateFence(f) \/ SetFence(f) \/ ResetFence(f)

ManagerSpec == ManagerInit /\ [][ManagerNext]_managerVars

-----------------------------------------------------------------------------
(* Types, and that the dispatch under way keeps its pipeline and buffers.   *)
ManagerTypeOK ==
  /\ \A i \in DOMAIN pipelines : i \in 1 .. nextId - 1 /\ pipelines[i] \in Descriptors
  /\ \A h \in DOMAIN storage : h \in 1 .. nextHandle - 1 /\ storage[h] \in Seq(Value)
  /\ nextId \in Nat \ {0} /\ nextHandle \in Nat \ {0}
  /\ backend \in {"absent", "ready", "poisoned"}
  /\ fences \in [AllFences -> {"absent", "unsignaled", "signaled"}]
  /\ call \in [pc : {"idle", "gpu", "read", "commit", "signal", "done", "failed"},
                id : Nat, fence : AllFences, turn : Nat \ {0},
                views : Seq(Seq(Value)), updated : Seq(Seq(Value))]
  /\ call.pc # "idle" => call.id \in DOMAIN pipelines /\ InStorage(pipelines[call.id])

(* Until every binding has been read back, and for good when the dispatch   *)
(* fails, the bytes of every binding are those the dispatch started from.   *)
DispatchAtomic ==
  call.pc \in {"gpu", "read", "failed"} => Views(call.id) = call.views

(* When the fence is signaled and the caller gets Ok, every bound range     *)
(* holds what the GPU wrote for it; aliased bindings would break this.      *)
CommitComplete ==
  call.pc \in {"signal", "done"} => Views(call.id) = call.updated

(* Byte i of buffer h is bound by the dispatch under way.                   *)
IsBound(h, i) ==
  \E k \in 1..Len(Bound(call.id)) :
    LET b == Bound(call.id)[k]
    IN b.buffer = h /\ i \in b.offset + 1 .. b.offset + b.size

(* A dispatch changes no byte outside the ranges its bindings declare.      *)
DispatchConfined ==
  [][call.pc # "idle" =>
       \A h \in DOMAIN storage : \A i \in 1..Len(storage[h]) :
         storage'[h][i] = storage[h][i] \/ IsBound(h, i)]_managerVars

(* A dispatch signals no fence but its own, and only once all its buffers   *)
(* are updated; other threads may do as they like with theirs.              *)
FenceAfterCommit ==
  [][\A f \in AllFences :
       fences[f] # "signaled" /\ fences'[f] = "signaled" /\ call' # call =>
         f = call.fence /\ Views(call.id) = call.updated]_managerVars
=============================================================================
