---------------------------- MODULE VulkanSession ----------------------------
(***************************************************************************)
(* One Vulkan compute backend: VulkanComputeBackend::dispatch, the Session  *)
(* it drives and the GPU that runs what the session submitted.  Every group *)
(* of driver calls that can fail on its own is a step; the GPU finishes a   *)
(* submission whenever it likes, also long after the host gave up waiting.  *)
(***************************************************************************)
EXTENDS Integers, Sequences

CONSTANTS
  Requests,    \* dispatches: [words, entry, bindings], bindings a sequence
  NoRequest,   \* PipelineKey is None, nothing requested or compiled yet
  MaxViews,    \* most storage bindings of a dispatch (8 in the code)
  MaxBuilds    \* bound: the host stops asking once so many pipelines are built

ASSUME RequestsAssumption ==
  /\ MaxViews \in Nat \ {0}
  /\ MaxBuilds \in Nat
  /\ NoRequest \notin Requests
  /\ \A r \in Requests : Len(r.bindings) \in 1..MaxViews
  /\ \A r, q \in Requests :   \* nothing else tells two requests apart
       r.words = q.words /\ r.entry = q.entry /\ r.bindings = q.bindings => r = q

VARIABLES
  session,      \* "opening", "live", "taken" after poison, "dropped"
  pc, step,     \* where dispatch is, and the turn of the loop it is in
  request,      \* the dispatch being served (the last one when idle)
  inFlight,     \* Session::in_flight
  held,         \* handles recorded in Session, counted by kind of object
  live,         \* objects of each kind that exist in the driver
  key,          \* CachedPipeline::key
  built,        \* what the driver's pipeline object was compiled from
  buildCount,   \* Session::pipeline_build_count
  memory,       \* per view: the host's and the device's sight of its memory
  fence,        \* the fence object has been signaled by the device
  outstanding,  \* submissions the GPU may still be executing
  results,      \* bytes read back so far
  outcome       \* what the last dispatch returned

vars == <<session, pc, step, request, inFlight, held, live, key, built,
          buildCount, memory, fence, outstanding, results, outcome>>

hostVars == <<session, request, outcome>>
gpuVars  == <<fence, outstanding>>
objects  == <<held, live>>
cacheVars == <<key, built, buildCount>>

(* Kinds of object, in the order the code creates them.                    *)
BaseKinds     == {"loader", "instance", "device"}
PipelineOrder == <<"descriptorLayout", "pipelineLayout", "shader", "pipeline">>
DispatchOrder == <<"descriptorPool", "commandPool", "fence">>
PipelineKinds == {PipelineOrder[i] : i \in 1..4}
ViewKinds     == {"buffer", "memory"}
DispatchKinds == ViewKinds \union {DispatchOrder[i] : i \in 1..3}
Kinds         == BaseKinds \union PipelineKinds \union DispatchKinds

(* "undef" is memory nobody wrote, "in" the caller's bytes, "out" what the  *)
(* requested shader makes of them, "junk" anything else a shader computes.  *)
Bytes == {"undef", "in", "out", "junk"}
Fresh(coherent) == [coherent |-> coherent, host |-> "undef", device |-> "undef"]

Views == 1..Len(request.bindings)

-----------------------------------------------------------------------------
(* Vulkan objects.                                                         *)

(* A handle of a ViewKind is pushed on a vector, any other is assigned to   *)
(* its field whatever the field held.                                      *)
Create(kind) ==
  /\ live' = [live EXCEPT ![kind] = @ + 1]
  /\ held' = [held EXCEPT ![kind] = IF kind \in ViewKinds THEN @ + 1 ELSE 1]

(* mem::take of the fields, then a destroy call for every non-null handle.  *)
Destroy(kinds) ==
  /\ live' = [k \in Kinds |-> IF k \in kinds THEN live[k] - held[k] ELSE live[k]]
  /\ held' = [k \in Kinds |-> IF k \in kinds THEN 0 ELSE held[k]]

(* Faulty variant: the command pool is forgotten.                          *)
CleanupKeepingCommands ==
  IF inFlight THEN UNCHANGED objects ELSE Destroy(DispatchKinds \ {"commandPool"})

(* Session::cleanup: nothing while a submission may be executing.           *)
Cleanup == IF inFlight THEN UNCHANGED objects ELSE Destroy(DispatchKinds)

(* Faulty variant: the fields are taken but nothing is destroyed.           *)
CleanupPipelineFieldsOnly ==
  /\ held' = [k \in Kinds |-> IF k \in PipelineKinds THEN 0 ELSE held[k]]
  /\ key' = NoRequest /\ built' = NoRequest
  /\ UNCHANGED live

(* Session::cleanup_pipeline, which also takes the key.                     *)
CleanupPipeline ==
  IF inFlight THEN UNCHANGED <<held, live, key, built>>
  ELSE Destroy(PipelineKinds) /\ key' = NoRequest /\ built' = NoRequest

(* Faulty variant: Drop does not look at in_flight.                        *)
DropSessionUnguarded == Destroy(Kinds) /\ key' = NoRequest /\ built' = NoRequest

(* Drop for Session: an unresolved submission keeps every object and the    *)
(* loader; otherwise cleanup, cleanup_pipeline, device, instance, loader.   *)
DropSession ==
  IF inFlight THEN held' = [k \in Kinds |-> 0] /\ UNCHANGED <<live, key, built>>
  ELSE Destroy(Kinds) /\ key' = NoRequest /\ built' = NoRequest

(* PipelineKey::matches                                                    *)
KeyMatches == key # NoRequest /\ key.words = request.words
                              /\ key.entry = request.entry
                              /\ key.bindings = request.bindings

-----------------------------------------------------------------------------
(* Session::empty and Session::new_selected.                               *)

(* Loader and instance; if there is no instance the loader is unloaded.     *)
OpenInstance ==
  /\ session = "opening" /\ live["instance"] = 0
  /\ \/ /\ live' = [live EXCEPT !["loader"] = 1, !["instance"] = 1]
        /\ held' = live'
        /\ UNCHANGED session
     \/ session' = "dropped" /\ UNCHANGED objects
  /\ UNCHANGED <<pc, step, request, inFlight, cacheVars, memory, gpuVars,
                 results, outcome>>

(* Probing, the selection of one device and create_device; whichever fails  *)
(* drops the session that has no device yet.                               *)
OpenDevice ==
  /\ session = "opening" /\ live["instance"] = 1
  /\ \/ /\ Create("device") /\ session' = "live"
        /\ UNCHANGED <<key, built>>
     \/ session' = "dropped" /\ DropSession
  /\ UNCHANGED <<pc, step, request, inFlight, buildCount, memory, gpuVars,
                 results, outcome>>

-----------------------------------------------------------------------------
(* VulkanComputeBackend::dispatch up to Session::execute.                   *)

Goto(label, turn) == pc' = label /\ step' = turn

(* A driver call failed: its error is propagated with "?".                  *)
Fail == Goto("return", 1) /\ outcome' = "error"

(* A poisoned backend refuses before it looks at the request.               *)
DispatchPoisoned ==
  /\ pc = "idle" /\ session = "taken"
  /\ outcome' = "poisoned"
  /\ UNCHANGED <<session, pc, step, request, inFlight, objects, cacheVars,
                 memory, gpuVars, results>>

(* The shader, the limits or the validator rejects the request.             *)
DispatchRejected ==
  /\ pc = "idle" /\ session = "live"
  /\ outcome' = "error"
  /\ UNCHANGED <<session, pc, step, request, inFlight, objects, cacheVars,
                 memory, gpuVars, results>>

Dispatch(r) ==
  /\ pc = "idle" /\ session = "live" /\ buildCount < MaxBuilds
  /\ request' = r
  /\ Cleanup
  /\ results' = <<>>
  /\ outcome' = "pending"
  /\ Goto("prepare", 1)
  /\ UNCHANGED <<session, inFlight, cacheVars, memory, gpuVars>>

-----------------------------------------------------------------------------
(* Session::prepare_pipeline                                               *)

PrepareCached ==
  /\ pc = "prepare" /\ KeyMatches
  /\ Goto("buffer", 1)
  /\ UNCHANGED <<hostVars, inFlight, objects, cacheVars, memory, gpuVars, results>>

PrepareNew ==
  /\ pc = "prepare" /\ ~KeyMatches
  /\ CleanupPipeline
  /\ Goto("build", 1)
  /\ UNCHANGED <<hostVars, inFlight, buildCount, memory, gpuVars, results>>

(* One of the four creations; the key is set only after the last of them.   *)
BuildObject ==
  /\ pc = "build"
  /\ Create(PipelineOrder[step])
  /\ IF step < 4
       THEN Goto("build", step + 1) /\ UNCHANGED cacheVars
       ELSE /\ Goto("buffer", 1)
            /\ key' = request /\ built' = request
            /\ buildCount' = buildCount + 1
  /\ UNCHANGED <<hostVars, inFlight, memory, gpuVars, results>>

BuildFails ==
  /\ pc = "build"
  /\ Fail
  /\ UNCHANGED <<session, request, inFlight, objects, cacheVars, memory,
                 gpuVars, results>>

-----------------------------------------------------------------------------
(* Session::execute_inner: upload, one turn of the loop per view.           *)

CreateBuffer ==
  /\ pc = "buffer"
  /\ \/ Create("buffer") /\ Goto("allocate", step) /\ UNCHANGED outcome
     \/ Fail /\ UNCHANGED objects
  /\ UNCHANGED <<session, request, inFlight, cacheVars, memory, gpuVars, results>>

(* host_memory_type finds no type, or the allocation fails, or it succeeds  *)
(* with memory that is coherent or not.                                    *)
AllocateMemory ==
  /\ pc = "allocate"
  /\ \/ /\ Create("memory") /\ Goto("upload", step) /\ UNCHANGED outcome
        /\ \E c \in BOOLEAN : memory' = [memory EXCEPT ![step] = Fresh(c)]
     \/ Fail /\ UNCHANGED <<objects, memory>>
  /\ UNCHANGED <<session, request, inFlight, cacheVars, gpuVars, results>>

(* Bind, map, copy, flush unless coherent, unmap.                           *)
Copied(m) == [m EXCEPT !.host = "in", !.device = IF m.coherent THEN "in" ELSE @]
Flushed(m) == [m EXCEPT !.device = m.host]

Upload ==
  /\ pc = "upload"
  /\ memory' = [memory EXCEPT ![step] = IF @.coherent THEN Copied(@)
                                                      ELSE Flushed(Copied(@))]
  /\ IF step < Len(request.bindings) THEN Goto("buffer", step + 1)
                                     ELSE Goto("record", 1)
  /\ UNCHANGED <<hostVars, inFlight, objects, cacheVars, gpuVars, results>>

(* Bind or map fails before the copy, or the flush after it.                *)
UploadFails ==
  /\ pc = "upload"
  /\ Fail
  /\ \/ UNCHANGED memory
     \/ ~memory[step].coherent /\ memory' = [memory EXCEPT ![step] = Copied(@)]
  /\ UNCHANGED <<session, request, inFlight, objects, cacheVars, gpuVars, results>>

-----------------------------------------------------------------------------
(* Descriptor pool and set, command pool and buffer, fence.                 *)

RecordObject ==
  /\ pc = "record"
  /\ Create(DispatchOrder[step])
  /\ fence' = IF DispatchOrder[step] = "fence" THEN FALSE ELSE fence
  /\ IF step < 3 THEN Goto("record", step + 1) ELSE Goto("submit", 1)
  /\ UNCHANGED <<hostVars, inFlight, cacheVars, memory, outstanding, results>>

(* The pool itself is not created, or it is and a call that uses it fails.  *)
RecordFails ==
  /\ pc = "record"
  /\ Fail
  /\ \/ UNCHANGED objects
     \/ DispatchOrder[step] # "fence" /\ Create(DispatchOrder[step])
  /\ UNCHANGED <<session, request, inFlight, cacheVars, memory, gpuVars, results>>

(* Faulty variant: in_flight is set only once queue_submit succeeded.       *)
SubmitMarkedAfterwards ==
  /\ pc = "submit"
  /\ \/ /\ inFlight' = TRUE /\ outstanding' = outstanding + 1
        /\ Goto("wait", 1) /\ UNCHANGED outcome
     \/ /\ outstanding' \in {outstanding, outstanding + 1} /\ Fail
        /\ UNCHANGED inFlight
  /\ UNCHANGED <<session, request, objects, cacheVars, memory, fence, results>>

(* in_flight is set before queue_submit, whose errors do not tell whether   *)
(* the device took the work.                                               *)
Submit ==
  /\ pc = "submit"
  /\ inFlight' = TRUE
  /\ \/ outstanding' = outstanding + 1 /\ Goto("wait", 1) /\ UNCHANGED outcome
     \/ outstanding' \in {outstanding, outstanding + 1} /\ Fail
  /\ UNCHANGED <<session, request, objects, cacheVars, memory, fence, results>>

(* The GPU: shader, memory barrier to the host domain, fence.               *)
GpuComplete ==
  /\ outstanding > 0
  /\ LET output == IF built = request /\ \A v \in Views : memory[v].device = "in"
                     THEN "out" ELSE "junk"
     IN memory' = [v \in 1..MaxViews |->
                     IF v \notin Views THEN memory[v]
                     ELSE [memory[v] EXCEPT !.device = output,
                             !.host = IF memory[v].coherent THEN output ELSE @]]
  /\ outstanding' = outstanding - 1
  /\ fence' = TRUE
  /\ UNCHANGED <<hostVars, pc, step, inFlight, objects, cacheVars, results>>

(* wait_for_fences                                                         *)
WaitOk ==
  /\ pc = "wait" /\ fence
  /\ inFlight' = FALSE
  /\ Goto("readback", 1)
  /\ UNCHANGED <<hostVars, objects, cacheVars, memory, gpuVars, results>>

(* Faulty variant: the wait has no timeout.                                 *)
WaitFailsOnlyAfterFence ==
  /\ pc = "wait" /\ fence
  /\ Fail
  /\ UNCHANGED <<session, request, inFlight, objects, cacheVars, memory,
                 gpuVars, results>>

(* Timeout or a lost device, with the GPU in whatever state it is.          *)
WaitFails ==
  /\ pc = "wait"
  /\ Fail
  /\ UNCHANGED <<session, request, inFlight, objects, cacheVars, memory,
                 gpuVars, results>>

-----------------------------------------------------------------------------
(* Map, invalidate unless coherent, copy, unmap.                            *)

NotInvalidated(m) == m   \* Faulty variant of the next definition.
Invalidated(m) == [m EXCEPT !.host = m.device]

Readback ==
  /\ pc = "readback"
  /\ LET seen == IF memory[step].coherent THEN memory[step]
                                          ELSE Invalidated(memory[step])
     IN /\ memory' = [memory EXCEPT ![step] = seen]
        /\ results' = Append(results, seen.host)
  /\ IF step < Len(request.bindings)
       THEN Goto("readback", step + 1) /\ UNCHANGED outcome
       ELSE Goto("return", 1) /\ outcome' = "ok"
  /\ UNCHANGED <<session, request, inFlight, objects, cacheVars, gpuVars>>

ReadbackFails ==
  /\ pc = "readback"
  /\ Fail
  /\ UNCHANGED <<session, request, inFlight, objects, cacheVars, memory,
                 gpuVars, results>>

(* End of execute (cleanup) and of dispatch (take, hence drop, the session  *)
(* of an unresolved submission).                                           *)
Return ==
  /\ pc = "return"
  /\ IF inFlight THEN session' = "taken" /\ DropSession
                 ELSE Cleanup /\ UNCHANGED <<session, key, built>>
  /\ Goto("idle", 1)
  /\ UNCHANGED <<request, inFlight, buildCount, memory, gpuVars, results, outcome>>

(* The host drops the backend between two calls.                            *)
DropBackend ==
  /\ pc = "idle" /\ session \in {"live", "taken"}
  /\ IF session = "live" THEN DropSession ELSE UNCHANGED <<objects, key, built>>
  /\ session' = "dropped"
  /\ UNCHANGED <<pc, step, request, inFlight, buildCount, memory, gpuVars,
                 results, outcome>>

-----------------------------------------------------------------------------
Init ==
  /\ session = "opening" /\ pc = "idle" /\ step = 1
  /\ request = NoRequest
  /\ inFlight = FALSE
  /\ live = [k \in Kinds |-> 0]
  /\ held = live
  /\ key = NoRequest /\ built = NoRequest /\ buildCount = 0
  /\ memory = [v \in 1..MaxViews |-> Fresh(TRUE)]
  /\ fence = FALSE /\ outstanding = 0
  /\ results = <<>> /\ outcome = "none"

(* What the thread inside dispatch does; it never waits for its caller.     *)
Host ==
  \/ PrepareCached \/ PrepareNew \/ BuildObject \/ BuildFails
  \/ CreateBuffer \/ AllocateMemory \/ Upload \/ UploadFails
  \/ RecordObject \/ RecordFails \/ Submit \/ WaitOk \/ WaitFails
  \/ Readback \/ ReadbackFails \/ Return

Next ==
  \/ OpenInstance \/ OpenDevice
  \/ DispatchPoisoned \/ DispatchRejected \/ \E r \in Requests : Dispatch(r)
  \/ Host
  \/ GpuComplete
  \/ DropBackend

Spec == Init /\ [][Next]_vars

(* The host thread runs, and wait_for_fences returns by its timeout.  The   *)
(* GPU is not assumed ever to finish, nor the caller ever to call.          *)
FairSpec == Spec /\ WF_vars(Host)

-----------------------------------------------------------------------------
Labels == {"idle", "prepare", "build", "buffer", "allocate", "upload",
           "record", "submit", "wait", "readback", "return"}

(* Every variable has its type; in particular no object is destroyed twice, *)
(* which would make a count of live objects negative.                      *)
TypeOK ==
  /\ session \in {"opening", "live", "taken", "dropped"}
  /\ pc \in Labels /\ step \in Nat \ {0}
  /\ request \in Requests \union {NoRequest}
  /\ inFlight \in BOOLEAN /\ fence \in BOOLEAN
  /\ held \in [Kinds -> Nat] /\ live \in [Kinds -> Nat]
  /\ key \in Requests \union {NoRequest} /\ built \in Requests \union {NoRequest}
  /\ buildCount \in Nat /\ outstanding \in Nat
  /\ memory \in [1..MaxViews -> [coherent : BOOLEAN, host : Bytes, device : Bytes]]
  /\ results \in Seq(Bytes)
  /\ outcome \in {"none", "pending", "ok", "error", "poisoned"}

(* How many objects of each kind a submission of the request uses.          *)
Uses(kind) == IF kind \in ViewKinds THEN Len(request.bindings) ELSE 1

(* While the GPU may be executing a submission, everything it uses exists:  *)
(* buffers, memory, pools, fence, pipeline, device, loader (the promise of  *)
(* the module comment of vulkan_compute.rs).                               *)
InFlightRetained ==
  outstanding > 0 => \A k \in Kinds : live[k] >= Uses(k)

(* Nothing is destroyed twice (the count would be negative), and a session  *)
(* that is not abandoned owns exactly what exists: no failed                *)
(* call leaks an object or loses its handle, a finished call leaves none of *)
(* its own, and dropping a sound backend leaves nothing at all.             *)
HandlesExact ==
  /\ \A k \in Kinds : live[k] \in Nat
  /\ session = "live" => live = held
  /\ session = "live" /\ pc = "idle" => \A k \in DispatchKinds : live[k] = 0
  /\ session = "dropped" /\ ~inFlight => \A k \in Kinds : live[k] = 0

(* Bytes handed back by a successful dispatch are, for every binding, what  *)
(* the GPU wrote: upload, flush, submit, fence, invalidate in this order.   *)
OkMeansGpuOutput ==
  outcome = "ok" /\ request # NoRequest =>
    results = [v \in Views |-> "out"]

(* A pipeline object is destroyed only when no descriptor pool, command     *)
(* buffer or submission that refers to it is left.                         *)
PipelineOutlivesUsers ==
  [][\A k \in PipelineKinds : live'[k] < live[k] =>
       outstanding = 0 /\ \A d \in DispatchKinds : live'[d] = 0]_vars

(* Every dispatch returns, even if the GPU never signals the fence.         *)
DispatchReturns == pc # "idle" ~> pc = "idle"

(* The session implements the contract its callers rely on.                 *)
Contract == INSTANCE BackendContract WITH
  usable   <- session,
  serving  <- pc # "idle",
  outcome  <- IF pc = "idle" THEN outcome ELSE "pending",
  running  <- outstanding > 0,
  retained <- InFlightRetained

ImplementsContract == Contract!Spec
=============================================================================
