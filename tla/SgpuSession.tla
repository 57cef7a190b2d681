----------------------------- MODULE SgpuSession -----------------------------
(***************************************************************************)
(* SgpuComputeSession: a guest's handles over the buffers and pipelines of  *)
(* one compute manager, and the execution of its command lists.  The host   *)
(* owns the manager, gives it to a session, and may take it back; while the *)
(* session lives the host can change neither pipelines nor buffers.         *)
(***************************************************************************)
EXTENDS ComputeManager

CONSTANTS
  Handles,               \* guest resource handles, 0 excluded
  GuestIds,              \* guest kernel ids, 0 excluded
  CommandLists,          \* lists a guest may submit: sequences of
                         \* [op : "copy", src, dst, size],
                         \* [op : "dispatch", kernel, grid, block], [op : "other"]
  MaxResources,          \* 64 in the code
  MaxKernels,            \* 256
  MaxResourceBytes,      \* 16 MiB
  MaxTotalResourceBytes, \* 64 MiB
  MaxCommands,           \* 1024
  CounterMax             \* 2^64 - 1

ASSUME SessionAssumption ==
  /\ MaxResources \in Nat /\ MaxKernels \in Nat
  /\ MaxResourceBytes \in Nat /\ MaxTotalResourceBytes \in Nat
  /\ MaxCommands \in Nat /\ CounterMax \in Nat
  /\ \A l \in CommandLists :
       /\ Len(l) \in Nat
       /\ \A i \in 1..Len(l) : l[i].op = "copy" => l[i].size \in Nat

VARIABLES
  mode,          \* "host": no session; "session"; "submitting" a list
  resources,     \* guest handle -> [buffer, size]
  kernels,       \* guest id -> pipeline id
  resourceBytes, \* resource_bytes
  completed,     \* commands completed in this session
  list, index,   \* the list being executed and its next command
  report         \* answer to the last submission: status, cause of an error,
                 \* command index (0 for None), completed commands

registryVars == <<resources, kernels, resourceBytes>>
listVars     == <<list, index>>
sessionVars  == <<mode, registryVars, completed, listVars, report>>
vars         == <<managerVars, sessionVars>>

Report(status, cause, at, count) ==
  [status |-> status, cause |-> cause, index |-> at, completed |-> count]

-----------------------------------------------------------------------------
(* The host builds a session on its manager, and into_manager ends it.      *)
EmptyRegistry ==
  /\ resources' = [h \in {} |-> 0] /\ kernels' = [k \in {} |-> 0]
  /\ resourceBytes' = 0 /\ completed' = 0

NewSession ==
  /\ mode = "host" /\ call.pc = "idle"
  /\ mode' = "session"
  /\ EmptyRegistry
  /\ UNCHANGED <<managerVars, listVars, report>>

IntoManager ==
  /\ mode = "session"
  /\ mode' = "host"
  /\ EmptyRegistry
  /\ UNCHANGED <<managerVars, listVars, report>>

-----------------------------------------------------------------------------
(* Registration.                                                           *)

Backing == {resources[h].buffer : h \in DOMAIN resources}

RegisterResource(h, b) ==
  /\ mode = "session"
  /\ h \notin DOMAIN resources /\ b \notin Backing
  /\ b \in DOMAIN storage
  /\ Len(storage[b]) \in 1..MaxResourceBytes
  /\ resourceBytes + Len(storage[b]) <= MaxTotalResourceBytes
  /\ Cardinality(DOMAIN resources) < MaxResources
  /\ resources' = Insert(resources, h, [buffer |-> b, size |-> Len(storage[b])])
  /\ resourceBytes' = resourceBytes + Len(storage[b])
  /\ UNCHANGED <<managerVars, mode, kernels, completed, listVars, report>>

(* Some registered kernel binds the buffer behind the handle.               *)
InUse(h) ==
  \E k \in DOMAIN kernels :
    /\ kernels[k] \in DOMAIN pipelines
    /\ \E i \in 1..Len(Bound(kernels[k])) :
         Bound(kernels[k])[i].buffer = resources[h].buffer

(* Faulty variants: a resource goes although a kernel binds it; its bytes   *)
(* stay accounted.                                                         *)
UnregisterResourceInUse(h) ==
  /\ mode = "session"
  /\ h \in DOMAIN resources
  /\ resources' = Remove(resources, h)
  /\ resourceBytes' = resourceBytes - resources[h].size
  /\ UNCHANGED <<managerVars, mode, kernels, completed, listVars, report>>
UnregisterResourceKeepingBytes(h) ==
  /\ mode = "session"
  /\ h \in DOMAIN resources /\ ~InUse(h)
  /\ resources' = Remove(resources, h)
  /\ UNCHANGED <<managerVars, mode, kernels, resourceBytes, completed, listVars, report>>

UnregisterResource(h) ==
  /\ mode = "session"
  /\ h \in DOMAIN resources /\ ~InUse(h)
  /\ resources' = Remove(resources, h)
  /\ resourceBytes' = resourceBytes - resources[h].size
  /\ UNCHANGED <<managerVars, mode, kernels, completed, listVars, report>>

(* Faulty variant: the range is compared with the binding's size alone.     *)
RegisteredBufferOnly(b) == \E h \in DOMAIN resources : resources[h].buffer = b.buffer

(* A binding lies in a registered resource.                                *)
Registered(b) ==
  \E h \in DOMAIN resources :
    resources[h].buffer = b.buffer /\ b.offset + b.size <= resources[h].size

RegisterKernel(k, p) ==
  /\ mode = "session"
  /\ k \notin DOMAIN kernels /\ Cardinality(DOMAIN kernels) < MaxKernels
  /\ p \in DOMAIN pipelines
  /\ ValidDispatch(pipelines[p], 1)
  /\ \A i \in 1..Len(Bound(p)) : Registered(Bound(p)[i])
  /\ kernels' = Insert(kernels, k, p)
  /\ UNCHANGED <<managerVars, mode, resources, resourceBytes, completed, listVars, report>>

UnregisterKernel(k) ==
  /\ mode = "session" /\ k \in DOMAIN kernels
  /\ kernels' = Remove(kernels, k)
  /\ UNCHANGED <<managerVars, mode, resources, resourceBytes, completed, listVars, report>>

(* checked_range of a registered resource from offset 0.                    *)
InResource(h, length) == h \in DOMAIN resources /\ length <= resources[h].size

(* ... which the manager checks again against its buffer.                   *)
Accessible(h, length) ==
  /\ InResource(h, length)
  /\ resources[h].buffer \in DOMAIN storage
  /\ length <= Len(storage[resources[h].buffer])

(* write_resource                                                          *)
WriteResource(h, data) ==
  /\ mode = "session"
  /\ Accessible(h, Len(data))
  /\ storage' = [storage EXCEPT ![resources[h].buffer] = Overwrite(@, 0, data)]
  /\ UNCHANGED <<pipelines, nextId, nextHandle, backend, fences, call, sessionVars>>

-----------------------------------------------------------------------------
(* submit: caps, then preflight of the whole list.                          *)

WithinLimits(l) == Len(l) <= MaxCommands /\ completed + Len(l) <= CounterMax

(* Faulty variant: the destination of a copy is not checked.                *)
ValidCopySourceOnly(c) == InResource(c.src, c.size)

ValidCopy(c) == InResource(c.src, c.size) /\ InResource(c.dst, c.size)

ValidLaunch(c) ==
  /\ c.kernel \in DOMAIN kernels /\ kernels[c.kernel] \in DOMAIN pipelines
  /\ pipelines[kernels[c.kernel]].workgroup = c.block
  /\ ValidDispatch(pipelines[kernels[c.kernel]], c.grid)

(* validate_command; every other operation is unsupported.                  *)
ValidCommand(c) ==
  \/ c.op = "copy" /\ ValidCopy(c)
  \/ c.op = "dispatch" /\ ValidLaunch(c)

Invalid(l) == {i \in 1..Len(l) : ~ValidCommand(l[i])}

Rejected(r) ==
  /\ report' = r
  /\ UNCHANGED <<managerVars, mode, registryVars, completed, listVars>>

(* submit_wire: the window does not decode.                                *)
RejectWindow == mode = "session" /\ Rejected(Report("rejected", "malformed", 0, 0))

RejectLength(l) ==
  /\ mode = "session" /\ ~WithinLimits(l)
  /\ Rejected(Report("rejected", "limit", 0, 0))

RejectCommand(l) ==
  /\ mode = "session" /\ WithinLimits(l) /\ Invalid(l) # {}
  /\ \E i \in Invalid(l) :
       /\ \A j \in Invalid(l) : i <= j
       /\ Rejected(Report("rejected", "command", i, 0))

Submit(l) ==
  /\ mode = "session" /\ WithinLimits(l) /\ Invalid(l) = {}
  /\ mode' = "submitting"
  /\ list' = l /\ index' = 1
  /\ UNCHANGED <<managerVars, registryVars, completed, report>>

-----------------------------------------------------------------------------
(* Execution, one command after the other.                                 *)

Current == list[index]
Executing(op) == /\ mode = "submitting" /\ index <= Len(list)
                 /\ Current.op = op

Advance ==
  /\ index' = index + 1 /\ completed' = completed + 1
  /\ UNCHANGED <<mode, registryVars, list, report>>

(* submit returns; its borrow of the list ends.                            *)
Leave(r) ==
  /\ report' = r
  /\ mode' = "session"
  /\ list' = <<>> /\ index' = 1
  /\ UNCHANGED <<registryVars, completed>>

(* Faulty variant: the failed command is counted.                          *)
AbortCountingFailure(cause) == Leave(Report("failed", cause, index, index))

(* The index and the number of commands completed before the failed one.    *)
Abort(cause) == Leave(Report("failed", cause, index, index - 1))

(* read_resource, then write_resource.                                     *)
ExecuteCopy ==
  /\ Executing("copy")
  /\ IF Accessible(Current.src, Current.size) /\ Accessible(Current.dst, Current.size)
       THEN /\ storage' = [storage EXCEPT ![resources[Current.dst].buffer] =
                 Overwrite(@, 0, Slice(storage[resources[Current.src].buffer],
                                       0, Current.size))]
            /\ Advance
       ELSE UNCHANGED storage /\ Abort("stale")
  /\ UNCHANGED <<pipelines, nextId, nextHandle, backend, fences, call>>

(* The kernel's pipeline goes to the command executor.                     *)
ExecuteDispatch ==
  /\ Executing("dispatch") /\ call.pc = "idle"
  /\ IF /\ Current.kernel \in DOMAIN kernels
        /\ Runnable(kernels[Current.kernel], Current.grid)
       THEN IF backend # "absent"
              THEN /\ BeginExecutorDispatch(kernels[Current.kernel], Current.grid)
                   /\ UNCHANGED sessionVars
              ELSE Abort("backend") /\ UNCHANGED managerVars
       ELSE Abort("stale") /\ UNCHANGED managerVars

FinishDispatch ==
  /\ Executing("dispatch") /\ call.pc \in {"done", "failed"}
  /\ ReturnDispatch
  /\ IF call.pc = "done" /\ fences[ExecutorFence] = "signaled"
       THEN Advance ELSE Abort("backend")

FinishList ==
  /\ mode = "submitting" /\ index > Len(list)
  /\ Leave(Report("ok", "none", 0, Len(list)))
  /\ UNCHANGED managerVars

-----------------------------------------------------------------------------
Init ==
  /\ ManagerInit
  /\ mode = "host"
  /\ resources = [h \in {} |-> 0] /\ kernels = [k \in {} |-> 0]
  /\ resourceBytes = 0 /\ completed = 0
  /\ list = <<>> /\ index = 1
  /\ report = Report("none", "none", 0, 0)

Host ==
  \/ NewSession \/ IntoManager
  \/ mode = "host" /\ (HostStep \/ ReturnDispatch) /\ UNCHANGED sessionVars

Registration ==
  \/ \E h \in Handles : \/ \E b \in 1..MaxBuffers : RegisterResource(h, b)
                        \/ UnregisterResource(h)
                        \/ \E n \in Sizes, v \in Value : WriteResource(h, Fill(n, v))
  \/ \E k \in GuestIds : \/ \E p \in 1..MaxPipelines : RegisterKernel(k, p)
                         \/ UnregisterKernel(k)

Submission ==
  \/ RejectWindow
  \/ \E l \in CommandLists : RejectLength(l) \/ RejectCommand(l) \/ Submit(l)

(* The loop of submit, the dispatch it calls included.                     *)
Execution ==
  \/ ExecuteCopy \/ ExecuteDispatch \/ FinishDispatch \/ FinishList
  \/ DispatchStep /\ UNCHANGED sessionVars

Next == Host \/ Registration \/ Submission \/ Execution

Spec == Init /\ [][Next]_vars

-----------------------------------------------------------------------------
(* Types, and the counter of completed commands, which must not overflow.   *)
TypeOK ==
  /\ ManagerTypeOK
  /\ mode \in {"host", "session", "submitting"}
  /\ DOMAIN resources \subseteq Handles /\ DOMAIN kernels \subseteq GuestIds
  /\ \A h \in DOMAIN resources : resources[h] \in [buffer : Nat, size : Nat]
  /\ \A k \in DOMAIN kernels : kernels[k] \in Nat
  /\ resourceBytes \in Int
  /\ completed \in 0..CounterMax
  /\ index \in Nat \ {0} /\ (mode = "submitting" => list \in CommandLists)
  /\ report.status \in {"none", "rejected", "failed", "ok"}
  /\ report.index \in Nat /\ report.completed \in Nat

(* What preflight relies on: no two handles share a buffer, a resource has  *)
(* the size of its buffer, and a kernel's pipeline exists, fits the profile *)
(* and binds registered ranges only, after any sequence of calls.           *)
NoSharedBuffer ==
  \A g, h \in DOMAIN resources : resources[g].buffer = resources[h].buffer => g = h

ResourcesBacked ==
  \A h \in DOMAIN resources :
    /\ resources[h].buffer \in DOMAIN storage
    /\ resources[h].size = Len(storage[resources[h].buffer])

KernelsBacked ==
  \A k \in DOMAIN kernels :
    /\ kernels[k] \in DOMAIN pipelines
    /\ ValidDispatch(pipelines[kernels[k]], 1)
    /\ \A i \in 1..Len(Bound(kernels[k])) : Bound(kernels[k])[i].buffer \in Backing
    /\ InStorage(pipelines[kernels[k]])

RegistrySound == NoSharedBuffer /\ ResourcesBacked /\ KernelsBacked

(* resource_bytes is the sum of what is registered and within its cap, so   *)
(* the subtraction of unregister_resource cannot underflow; the counter of  *)
(* completed commands stays in its width, also while a list runs.           *)
AccountingExact ==
  /\ resourceBytes = MapThenSumSet(LAMBDA h : resources[h].size, DOMAIN resources)
  /\ resourceBytes <= MaxTotalResourceBytes
  /\ Cardinality(DOMAIN resources) <= MaxResources
  /\ completed <= CounterMax

(* Once a list passed preflight only the backend can stop it: no command    *)
(* meets a handle, kernel or range that is no longer what preflight saw.    *)
OnlyBackendFails == report.cause # "stale"

(* A guest's calls never touch a buffer that is not registered.             *)
GuestConfined ==
  [][mode # "host" =>
       \A b \in DOMAIN storage \ Backing : storage'[b] = storage[b]]_vars

(* The buffers as they were before the dispatch under way: what its commit  *)
(* loop already stored is undone from the copy the dispatch was given.      *)
Undone(b) ==
  LET mine == {i \in 1..Len(Bound(call.id)) : Bound(call.id)[i].buffer = b}
      Back(bytes, i) == Overwrite(bytes, Bound(call.id)[i].offset, call.views[i])
  IN IF mine = {} THEN storage[b]
     ELSE Back(storage[b], CHOOSE i \in mine : TRUE)

Contract == INSTANCE SubmissionContract WITH
  phase  <- [host |-> "closed", session |-> "open", submitting |-> "running"][mode],
  data   <- IF mode = "submitting" /\ call.pc # "idle"
              THEN [b \in DOMAIN storage |-> Undone(b)] ELSE storage,
  total  <- Len(list),
  done   <- index - 1,
  report <- [status |-> report.status, completed |-> report.completed]

(* submit implements the contract of committed prefixes.                   *)
ImplementsContract == Contract!Spec
=============================================================================
