------------------------- MODULE VulkanSessionProofs -------------------------
(***************************************************************************)
(* What a Vulkan backend promises for any dispatches, any number of bindings *)
(* and any failure: nothing the GPU may use is destroyed, nothing else is    *)
(* left, and "ok" means the GPU's output.  Three layers: where the host is,  *)
(* which objects exist there, and which bytes they hold.                    *)
(***************************************************************************)
EXTENDS VulkanSession, TLAPS

-----------------------------------------------------------------------------
(* Where the host is.                                                      *)
Building  == {"prepare", "build"}
Uploading == {"buffer", "allocate", "upload"}
Complete  == {"submit", "wait", "readback"}
Working   == Uploading \union {"record"} \union Complete

(* At most one submission is unresolved, and only while in_flight is set.   *)
ControlInv ==
  /\ session # "live" => pc = "idle"
  /\ session = "taken" => inFlight
  /\ inFlight => \/ session = "live" /\ pc \in {"wait", "return"}
                 \/ session \in {"taken", "dropped"}
  /\ pc = "wait" => inFlight
  /\ outstanding \in {0, 1} /\ (outstanding = 1 => inFlight)
  /\ pc # "idle" \/ inFlight => request \in Requests
  /\ pc \in Building \union Working => outcome = "pending"
  /\ pc = "return" => outcome \in {"ok", "error"} /\ (inFlight => outcome = "error")
  /\ pc = "build" => step \in 1..4
  /\ pc \in Uploading \union {"readback"} => step \in Views
  /\ pc = "record" => step \in 1..3

-----------------------------------------------------------------------------
(* Which objects exist.                                                    *)
HeldInv ==
  /\ session \in {"opening", "live"} => held = live
  /\ session \in {"taken", "dropped"} => \A k \in Kinds : held[k] = 0
  /\ session = "opening" => /\ \A k \in Kinds \ {"loader", "instance"} : live[k] = 0
                            /\ live["loader"] = live["instance"]
                            /\ live["instance"] \in {0, 1}
  /\ session = "dropped" /\ ~inFlight => \A k \in Kinds : live[k] = 0
  /\ session = "live" => \A k \in BaseKinds : live[k] = 1

KeyInv ==
  /\ session = "opening" => key = NoRequest
  /\ session = "live" /\ key # NoRequest =>
       built = key /\ \A k \in PipelineKinds : live[k] = 1
  /\ pc = "build" => /\ key = NoRequest
                     /\ \A i \in 1..4 : live[PipelineOrder[i]] = IF i < step THEN 1 ELSE 0
  /\ pc \in Working => key = request

DispatchInv ==
  /\ session = "live" /\ pc \in {"idle"} \union Building => \A k \in DispatchKinds : live[k] = 0
  /\ pc \in Uploading =>
       /\ live["buffer"] = IF pc = "buffer" THEN step - 1 ELSE step
       /\ live["memory"] = IF pc = "upload" THEN step ELSE step - 1
       /\ \A i \in 1..3 : live[DispatchOrder[i]] = 0
  /\ pc = "record" =>
       /\ \A k \in ViewKinds : live[k] = Len(request.bindings)
       /\ \A i \in 1..3 : live[DispatchOrder[i]] = IF i < step THEN 1 ELSE 0
  /\ pc \in Complete \/ inFlight => \A k \in Kinds : live[k] = Uses(k)

-----------------------------------------------------------------------------
(* Which bytes the views hold.                                             *)
Holds(v, bytes) == memory[v].device = bytes
Computed(v) == Holds(v, "out") /\ (memory[v].coherent => memory[v].host = "out")

DataInv ==
  /\ pc \in Uploading => \A v \in 1..(step - 1) : Holds(v, "in")
  /\ pc \in {"record", "submit"} => \A v \in Views : Holds(v, "in")
  /\ pc = "submit" => ~fence
  /\ pc \in Building \union Uploading \union {"record", "submit", "wait"} => results = <<>>
  /\ pc = "wait" =>
       \/ outstanding = 1 /\ ~fence /\ \A v \in Views : Holds(v, "in")
       \/ outstanding = 0 /\ \A v \in Views : Computed(v)
  /\ pc = "readback" =>
       /\ outstanding = 0
       /\ \A v \in Views : Computed(v)
       /\ Len(results) = step - 1 /\ \A v \in 1..(step - 1) : results[v] = "out"

SessionInv ==
  /\ TypeOK /\ ControlInv /\ HeldInv /\ KeyInv /\ DispatchInv /\ DataInv
  /\ OkMeansGpuOutput

-----------------------------------------------------------------------------
(* The kinds, spelled out.                                                  *)
LEMMA KindsAre ==
  /\ PipelineKinds = {"descriptorLayout", "pipelineLayout", "shader", "pipeline"}
  /\ DispatchKinds = {"buffer", "memory", "descriptorPool", "commandPool", "fence"}
  /\ ViewKinds = {"buffer", "memory"} /\ BaseKinds = {"loader", "instance", "device"}
  /\ Kinds = BaseKinds \union PipelineKinds \union DispatchKinds
  /\ \A i \in 1..4 : PipelineOrder[i] \in PipelineKinds
  /\ \A i \in 1..3 : DispatchOrder[i] \in DispatchKinds
<1>1. PipelineOrder[1] = "descriptorLayout" /\ PipelineOrder[2] = "pipelineLayout"
      /\ PipelineOrder[3] = "shader" /\ PipelineOrder[4] = "pipeline"
  BY DEF PipelineOrder
<1>2. DispatchOrder[1] = "descriptorPool" /\ DispatchOrder[2] = "commandPool"
      /\ DispatchOrder[3] = "fence"
  BY DEF DispatchOrder
<1>3. \A i : (i \in 1..4 <=> i = 1 \/ i = 2 \/ i = 3 \/ i = 4)
             /\ (i \in 1..3 <=> i = 1 \/ i = 2 \/ i = 3)
  OBVIOUS
<1>4. PipelineKinds = {"descriptorLayout", "pipelineLayout", "shader", "pipeline"}
  BY <1>1, <1>3 DEF PipelineKinds
<1>5. {DispatchOrder[i] : i \in 1..3} = {"descriptorPool", "commandPool", "fence"}
  BY <1>2, <1>3
<1> QED BY <1>1, <1>2, <1>3, <1>4, <1>5 DEF DispatchKinds, ViewKinds, BaseKinds, Kinds

(* While the session owns its objects, creating keeps the two counts equal.  *)
LEMMA CreateIs ==
  ASSUME TypeOK, held = live, NEW kind \in Kinds, Create(kind),
         kind \in ViewKinds \/ live[kind] = 0
  PROVE  /\ live' = [live EXCEPT ![kind] = @ + 1] /\ live' \in [Kinds -> Nat]
         /\ held' = live'
<1>1. live' = [live EXCEPT ![kind] = @ + 1] /\ live' \in [Kinds -> Nat]
  BY DEF Create, TypeOK
<1>2. /\ held' = [live EXCEPT ![kind] = IF kind \in ViewKinds THEN live[kind] + 1 ELSE 1]
      /\ live[kind] \in Nat
  BY DEF Create, TypeOK
<1>3. (IF kind \in ViewKinds THEN live[kind] + 1 ELSE 1) = live[kind] + 1
  BY <1>2
<1> QED BY <1>1, <1>2, <1>3

LEMMA DestroyIs ==
  ASSUME TypeOK, held = live, NEW S, Destroy(S)
  PROVE  /\ live' = [k \in Kinds |-> IF k \in S THEN 0 ELSE live[k]]
         /\ live' \in [Kinds -> Nat] /\ held' = live'
<1>1. \A k \in Kinds : live[k] \in Nat /\ live[k] - held[k] = 0
  BY DEF TypeOK
<1>2. /\ live' = [k \in Kinds |-> IF k \in S THEN 0 ELSE live[k]]
      /\ held' = [k \in Kinds |-> IF k \in S THEN 0 ELSE live[k]]
  BY <1>1 DEF Destroy
<1> QED BY <1>1, <1>2

(* What the GPU leaves alone.                                               *)
LEMMA GpuIs ==
  ASSUME GpuComplete
  PROVE  /\ outstanding > 0 /\ outstanding' = outstanding - 1 /\ fence' = TRUE
         /\ session' = session /\ request' = request /\ outcome' = outcome
         /\ pc' = pc /\ step' = step /\ inFlight' = inFlight /\ held' = held /\ live' = live
         /\ key' = key /\ built' = built /\ buildCount' = buildCount /\ results' = results
BY DEF GpuComplete, hostVars, objects, cacheVars

-----------------------------------------------------------------------------
LEMMA InitEstablishes == Init => SessionInv
<1> SUFFICES ASSUME Init PROVE SessionInv
  OBVIOUS
<1>1. TypeOK
  <2>1. \A v \in 1..MaxViews : memory[v] \in [coherent : BOOLEAN, host : Bytes, device : Bytes]
    BY DEF Init, Fresh, Bytes
  <2>2. memory \in [1..MaxViews -> [coherent : BOOLEAN, host : Bytes, device : Bytes]]
    BY <2>1 DEF Init
  <2>3. live \in [Kinds -> Nat] /\ results \in Seq(Bytes)
    BY DEF Init
  <2>4. step \in Nat \ {0} /\ buildCount \in Nat /\ outstanding \in Nat
    BY DEF Init
  <2> QED BY <2>2, <2>3, <2>4 DEF Init, TypeOK, Labels
<1>2. ControlInv /\ DataInv /\ OkMeansGpuOutput
  BY DEF Init, ControlInv, Building, Uploading, Complete, Working, DataInv, OkMeansGpuOutput
<1>3. HeldInv /\ KeyInv /\ DispatchInv
  BY KindsAre DEF Init, HeldInv, KeyInv, DispatchInv, Building, Uploading, Complete, Working
<1> QED BY <1>1, <1>2, <1>3 DEF SessionInv

LEMMA NextKeepsControl ==
  ASSUME TypeOK, ControlInv, DataInv, Next
  PROVE  ControlInv'
<1>0. outstanding \in Nat /\ step \in Nat \ {0} /\ pc \in Labels
  BY DEF TypeOK
<1> USE <1>0, RequestsAssumption DEF ControlInv, Building, Uploading, Complete, Working
<1>1. CASE OpenInstance \/ OpenDevice \/ DispatchPoisoned \/ DispatchRejected \/ DropBackend
  BY <1>1 DEF OpenInstance, OpenDevice, DispatchPoisoned, DispatchRejected, DropBackend, Views,
     gpuVars
<1>2. CASE \E r \in Requests : Dispatch(r)
  BY <1>2 DEF Dispatch, Goto, gpuVars
<1>3. CASE PrepareCached \/ PrepareNew \/ BuildObject \/ BuildFails
  BY <1>3 DEF PrepareCached, PrepareNew, BuildObject, BuildFails, Fail, Goto, gpuVars, Views, hostVars
<1>4. CASE CreateBuffer \/ AllocateMemory \/ Upload \/ UploadFails
  BY <1>4 DEF CreateBuffer, AllocateMemory, Upload, UploadFails, Fail, Goto, gpuVars, Views, hostVars
<1>5. CASE RecordObject \/ RecordFails
  <2>1. /\ session' = session /\ request' = request /\ inFlight' = inFlight
        /\ outstanding' = outstanding
        /\ \/ pc' = "return" /\ outcome' = "error"
           \/ pc' = "record" /\ step' = step + 1 /\ step < 3 /\ outcome' = outcome
           \/ pc' = "submit" /\ outcome' = outcome
    BY <1>5 DEF RecordObject, RecordFails, Fail, Goto, gpuVars, hostVars
  <2>2. pc = "record" /\ session = "live" /\ ~inFlight
    BY <1>5 DEF RecordObject, RecordFails
  <2> QED BY <2>1, <2>2
<1>10. CASE Submit
  <2>1. /\ pc = "submit" /\ inFlight' = TRUE /\ session' = session /\ request' = request
        /\ session = "live" /\ request \in Requests /\ outstanding = 0
    BY <1>10 DEF Submit, DataInv
  <2>2. \/ outstanding' = 1 /\ pc' = "wait" /\ outcome' = outcome
        \/ outstanding' \in {0, 1} /\ pc' = "return" /\ outcome' = "error"
    BY <1>10, <2>1 DEF Submit, Fail, Goto
  <2> QED BY <2>1, <2>2
<1>6. CASE WaitOk \/ WaitFails
  BY <1>6 DEF WaitOk, WaitFails, Fail, Goto, gpuVars, Views, hostVars, DataInv
<1>7. CASE Readback \/ ReadbackFails
  BY <1>7 DEF Readback, ReadbackFails, Fail, Goto, gpuVars, Views, hostVars, DataInv
<1>8. CASE Return
  BY <1>8 DEF Return, Goto, gpuVars, Views
<1>9. CASE GpuComplete
  <2>1. outstanding' = 0
    BY <1>9, GpuIs
  <2> QED BY <1>9, <2>1, GpuIs DEF Views
<1> QED BY <1>10, <1>1, <1>2, <1>3, <1>4, <1>5, <1>6, <1>7, <1>8, <1>9 DEF Next, Host

-----------------------------------------------------------------------------
ObjectInv == HeldInv /\ KeyInv /\ DispatchInv
ObjectsTyped == live \in [Kinds -> Nat] /\ held \in [Kinds -> Nat]

(* Steps that create and destroy nothing.                                   *)
LEMMA QuietStepsKeepObjects ==
  ASSUME TypeOK, ControlInv, ObjectInv, UNCHANGED <<objects, key, built, request>>,
         \/ DispatchPoisoned \/ DispatchRejected \/ PrepareCached \/ BuildFails
         \/ Upload \/ UploadFails \/ Submit \/ WaitOk \/ WaitFails
         \/ Readback \/ ReadbackFails \/ GpuComplete
         \/ (CreateBuffer /\ Fail) \/ (AllocateMemory /\ Fail) \/ RecordFails
  PROVE  ObjectsTyped' /\ ObjectInv'
<1>0. /\ live' = live /\ held' = held /\ key' = key /\ built' = built /\ request' = request
      /\ live \in [Kinds -> Nat] /\ held \in [Kinds -> Nat]
      /\ \A r \in Requests : Len(r.bindings) \in Nat
  BY RequestsAssumption DEF TypeOK, objects
<1>1. ObjectsTyped'
  BY <1>0 DEF ObjectsTyped
<1> USE <1>0 DEF ObjectInv, HeldInv, KeyInv, DispatchInv, Building, Uploading, Complete, Working, Uses, Views
<1>2. CASE DispatchPoisoned \/ DispatchRejected \/ GpuComplete
  <2>1. session' = session /\ pc' = pc /\ step' = step /\ inFlight' = inFlight
    BY <1>2, GpuIs DEF DispatchPoisoned, DispatchRejected
  <2> QED BY <1>1, <2>1
<1>3. CASE \/ BuildFails \/ UploadFails \/ WaitFails \/ ReadbackFails
           \/ (CreateBuffer /\ Fail) \/ (AllocateMemory /\ Fail) \/ RecordFails
  <2>1. session' = session /\ pc' = "return" /\ inFlight' = inFlight
    BY <1>3 DEF BuildFails, UploadFails, WaitFails, ReadbackFails, CreateBuffer, AllocateMemory,
                RecordFails, Fail, Goto
  <2> QED BY <1>1, <2>1 DEF ControlInv
<1>4. CASE PrepareCached
  <2>1. /\ pc = "prepare" /\ pc' = "buffer" /\ step' = 1 /\ session' = session
        /\ inFlight' = inFlight /\ session = "live" /\ ~inFlight
        /\ key # NoRequest /\ key = request
    BY <1>4, RequestsAssumption
       DEF PrepareCached, Goto, hostVars, ControlInv, KeyMatches, TypeOK
  <2>2. \A k \in DispatchKinds : live[k] = 0
    BY <2>1
  <2>3. DispatchInv'
    BY <2>1, <2>2, KindsAre
  <2> QED BY <1>1, <2>1, <2>3
<1>5. CASE Upload
  <2>1. /\ pc = "upload" /\ session' = session /\ inFlight' = inFlight /\ ~inFlight
        /\ step \in 1..Len(request.bindings) /\ Len(request.bindings) \in Nat
        /\ session = "live"
    BY <1>5 DEF Upload, hostVars, ControlInv
  <2>2. \/ pc' = "buffer" /\ step' = step + 1
        \/ pc' = "record" /\ step' = 1 /\ step = Len(request.bindings)
    BY <1>5, <2>1 DEF Upload, Goto
  <2> QED BY <1>1, <2>1, <2>2, KindsAre
<1>6. CASE Submit \/ WaitOk \/ Readback
  <2>1. /\ pc \in {"submit", "wait", "readback"} /\ session' = session /\ session = "live"
        /\ pc' \in {"wait", "readback", "return"}
    BY <1>6 DEF Submit, WaitOk, Readback, Fail, Goto, hostVars, ControlInv
  <2> QED BY <1>1, <2>1
<1> QED BY <1>2, <1>3, <1>4, <1>5, <1>6

(* Opening a session.                                                       *)
LEMMA OpenKeepsObjects ==
  ASSUME TypeOK, ControlInv, ObjectInv, OpenInstance \/ OpenDevice
  PROVE  ObjectsTyped' /\ ObjectInv'
<1>0. /\ session = "opening" /\ held = live /\ pc = "idle" /\ pc' = "idle" /\ inFlight' = inFlight
      /\ ~inFlight /\ live \in [Kinds -> Nat]
      /\ \A k \in Kinds \ {"loader", "instance"} : live[k] = 0
  BY DEF OpenInstance, OpenDevice, ControlInv, ObjectInv, HeldInv, TypeOK
<1> USE <1>0 DEF ObjectInv, HeldInv, KeyInv, DispatchInv, ObjectsTyped, Building, Uploading,
                Complete, Working
<1>1. CASE OpenInstance
  <2>1. CASE /\ live' = [live EXCEPT !["loader"] = 1, !["instance"] = 1]
             /\ held' = live' /\ UNCHANGED session
    BY <1>1, <2>1, KindsAre DEF OpenInstance, cacheVars
  <2>2. CASE session' = "dropped" /\ UNCHANGED objects
    <3>1. \A k \in Kinds : live[k] = 0
      BY <1>1, KindsAre DEF OpenInstance
    <3> QED BY <2>2, <3>1, <1>1 DEF objects, OpenInstance
  <2> QED BY <1>1, <2>1, <2>2 DEF OpenInstance
<1>2. CASE OpenDevice
  <2>1. CASE Create("device") /\ session' = "live" /\ UNCHANGED <<key, built>>
    <3>1. /\ live' = [live EXCEPT !["device"] = @ + 1] /\ live' \in [Kinds -> Nat]
          /\ held' = live'
      BY <2>1, CreateIs, KindsAre
    <3>2. live["loader"] = 1 /\ live["instance"] = 1 /\ live["device"] = 0 /\ key = NoRequest
      BY <1>2, KindsAre DEF OpenDevice
    <3> QED BY <2>1, <3>1, <3>2, KindsAre
  <2>2. CASE session' = "dropped" /\ DropSession
    <3>1. Destroy(Kinds)
      BY <2>2 DEF DropSession
    <3>2. \A k \in Kinds : live'[k] = 0 /\ held'[k] = 0
      BY <3>1, DestroyIs
    <3> QED BY <2>2, <3>1, <3>2, DestroyIs
  <2> QED BY <1>2, <2>1, <2>2 DEF OpenDevice
<1> QED BY <1>1, <1>2

(* Where the host works on a session, it owns what exists.                  *)
LEMMA HostOwns ==
  ASSUME TypeOK, ControlInv, ObjectInv, pc # "idle"
  PROVE  /\ session = "live" /\ held = live /\ live \in [Kinds -> Nat]
         /\ request \in Requests /\ request # NoRequest
         /\ Len(request.bindings) \in Nat /\ \A k \in BaseKinds : live[k] = 1
BY RequestsAssumption DEF TypeOK, ControlInv, ObjectInv, HeldInv

(* The pipeline is destroyed and built again.                               *)
LEMMA PipelineStepsKeepObjects ==
  ASSUME TypeOK, ControlInv, ObjectInv, PrepareNew \/ BuildObject
  PROVE  ObjectsTyped' /\ ObjectInv'
<1>0. /\ session = "live" /\ held = live /\ live \in [Kinds -> Nat] /\ ~inFlight
      /\ request \in Requests /\ request # NoRequest
      /\ session' = session /\ inFlight' = inFlight /\ request' = request
      /\ \A k \in BaseKinds : live[k] = 1
  BY HostOwns DEF PrepareNew, BuildObject, hostVars, ControlInv
<1>1. CASE PrepareNew
  <2>1. Destroy(PipelineKinds) /\ key' = NoRequest /\ pc = "prepare" /\ pc' = "build" /\ step' = 1
    BY <1>0, <1>1 DEF PrepareNew, CleanupPipeline, Goto
  <2>2. /\ live' = [k \in Kinds |-> IF k \in PipelineKinds THEN 0 ELSE live[k]]
        /\ live' \in [Kinds -> Nat] /\ held' = live'
    BY <1>0, <2>1, DestroyIs
  <2>3. HeldInv'
    BY <1>0, <2>2, KindsAre DEF HeldInv
  <2>4. KeyInv'
    BY <1>0, <2>1, <2>2, KindsAre DEF KeyInv, Working, Uploading, Complete
  <2>5. DispatchInv'
    BY <1>0, <2>1, <2>2, KindsAre DEF ObjectInv, DispatchInv, Building, Uploading, Complete
  <2> QED BY <2>2, <2>3, <2>4, <2>5 DEF ObjectInv, ObjectsTyped
<1>2. CASE BuildObject
  <2>1. /\ pc = "build" /\ step \in 1..4 /\ key = NoRequest
        /\ \A i \in 1..4 : live[PipelineOrder[i]] = IF i < step THEN 1 ELSE 0
        /\ \A k \in DispatchKinds : live[k] = 0
    BY <1>0, <1>2 DEF BuildObject, ControlInv, ObjectInv, KeyInv, DispatchInv, Building
  <2>2. PipelineOrder[step] \in Kinds /\ live[PipelineOrder[step]] = 0
    BY <2>1, KindsAre
  <2>3. /\ live' = [live EXCEPT ![PipelineOrder[step]] = @ + 1]
        /\ live' \in [Kinds -> Nat] /\ held' = live'
    BY <1>0, <1>2, <2>2, CreateIs DEF BuildObject
  <2>4. \A k \in Kinds \ PipelineKinds : live'[k] = live[k]
    BY <1>0, <2>1, <2>3, KindsAre
  <2>5. \A i, j \in 1..4 : PipelineOrder[i] = PipelineOrder[j] => i = j
    BY DEF PipelineOrder
  <2>6. \A i \in 1..4 : live'[PipelineOrder[i]] = IF i < step + 1 THEN 1 ELSE 0
    BY <1>0, <2>1, <2>2, <2>3, <2>5, KindsAre
  <2>7. HeldInv'
    BY <1>0, <2>3, <2>4, KindsAre DEF HeldInv
  <2>8. CASE step < 4
    <3>1. pc' = "build" /\ step' = step + 1 /\ key' = NoRequest
      BY <1>2, <2>1, <2>8 DEF BuildObject, Goto, cacheVars
    <3>2. KeyInv'
      BY <1>0, <2>6, <3>1 DEF KeyInv, Working, Uploading, Complete
    <3>3. DispatchInv'
      BY <1>0, <2>1, <2>4, <3>1, KindsAre DEF DispatchInv, Building, Uploading, Complete
    <3> QED BY <2>3, <2>7, <3>2, <3>3 DEF ObjectInv, ObjectsTyped
  <2>9. CASE step = 4
    <3>1. pc' = "buffer" /\ step' = 1 /\ key' = request /\ built' = request
      BY <1>2, <2>9 DEF BuildObject, Goto
    <3>2. \A k \in PipelineKinds : live'[k] = 1
      BY <2>6, <2>9 DEF PipelineKinds
    <3>3. KeyInv'
      BY <1>0, <3>1, <3>2 DEF KeyInv, Working, Uploading, Complete
    <3>4. DispatchInv'
      BY <1>0, <2>1, <2>4, <3>1, KindsAre DEF DispatchInv, Building, Uploading, Complete
    <3> QED BY <2>3, <2>7, <3>3, <3>4 DEF ObjectInv, ObjectsTyped
  <2> QED BY <2>1, <2>8, <2>9
<1> QED BY <1>1, <1>2

(* A view's buffer and memory.                                              *)
LEMMA ViewStepsKeepObjects ==
  ASSUME TypeOK, ControlInv, ObjectInv,
         NEW kind \in ViewKinds, Create(kind),
         \/ CreateBuffer /\ kind = "buffer" /\ Goto("allocate", step)
         \/ AllocateMemory /\ kind = "memory" /\ Goto("upload", step)
  PROVE  ObjectsTyped' /\ ObjectInv'
<1>0. /\ session = "live" /\ held = live /\ live \in [Kinds -> Nat] /\ ~inFlight
      /\ session' = session /\ inFlight' = inFlight /\ request' = request
      /\ key' = key /\ built' = built /\ \A k \in BaseKinds : live[k] = 1
  BY HostOwns DEF CreateBuffer, AllocateMemory, cacheVars, ControlInv
<1>1. /\ live' = [live EXCEPT ![kind] = @ + 1] /\ live' \in [Kinds -> Nat] /\ held' = live'
      /\ kind \in Kinds
  BY <1>0, CreateIs, KindsAre
<1>2. HeldInv'
  BY <1>0, <1>1, KindsAre DEF HeldInv
<1>3. pc \in Uploading /\ pc' \in Uploading /\ step' = step /\ step \in Nat
  BY DEF CreateBuffer, AllocateMemory, Goto, Uploading, TypeOK
<1>4. KeyInv'
  BY <1>0, <1>1, <1>3, KindsAre DEF ObjectInv, KeyInv, Working, Uploading, Complete
<1>5. /\ live'["buffer"] = IF kind = "buffer" THEN live["buffer"] + 1 ELSE live["buffer"]
      /\ live'["memory"] = IF kind = "memory" THEN live["memory"] + 1 ELSE live["memory"]
      /\ \A i \in 1..3 : live'[DispatchOrder[i]] = live[DispatchOrder[i]]
  <2>1. \A i \in 1..3 : DispatchOrder[i] \notin ViewKinds
    BY KindsAre DEF DispatchOrder
  <2> QED BY <1>0, <1>1, <2>1, KindsAre
<1>6. DispatchInv'
  BY <1>0, <1>3, <1>5
     DEF ObjectInv, DispatchInv, CreateBuffer, AllocateMemory, Goto, Building, Uploading, Complete
<1> QED BY <1>1, <1>2, <1>4, <1>6 DEF ObjectInv, ObjectsTyped

(* Pools and fence; what a failed call created is recorded as well.         *)
LEMMA RecordStepsKeepObjects ==
  ASSUME TypeOK, ControlInv, ObjectInv, Create(DispatchOrder[step]), RecordObject \/ RecordFails
  PROVE  ObjectsTyped' /\ ObjectInv'
<1>0. /\ session = "live" /\ held = live /\ live \in [Kinds -> Nat] /\ ~inFlight
      /\ session' = session /\ inFlight' = inFlight /\ request' = request
      /\ key' = key /\ built' = built /\ Len(request.bindings) \in Nat
      /\ pc = "record" /\ step \in 1..3 /\ \A k \in BaseKinds : live[k] = 1
  BY HostOwns DEF RecordObject, RecordFails, cacheVars, hostVars, ControlInv
<1>1. /\ \A k \in ViewKinds : live[k] = Len(request.bindings)
      /\ \A i \in 1..3 : live[DispatchOrder[i]] = IF i < step THEN 1 ELSE 0
      /\ key = request /\ \A k \in PipelineKinds : live[k] = 1
  BY <1>0, HostOwns DEF ObjectInv, KeyInv, DispatchInv, Working
<1>2. DispatchOrder[step] \in Kinds /\ live[DispatchOrder[step]] = 0
  BY <1>0, <1>1, KindsAre
<1>3. /\ live' = [live EXCEPT ![DispatchOrder[step]] = @ + 1]
      /\ live' \in [Kinds -> Nat] /\ held' = live'
  BY <1>0, <1>2, CreateIs
<1>4. \A k \in Kinds \ {DispatchOrder[i] : i \in 1..3} : live'[k] = live[k]
  BY <1>0, <1>3
<1>5. \A i \in 1..3 : live'[DispatchOrder[i]] = IF i < step + 1 THEN 1 ELSE 0
  <2>1. \A i, j \in 1..3 : DispatchOrder[i] = DispatchOrder[j] => i = j
    BY DEF DispatchOrder
  <2> QED BY <1>0, <1>1, <1>2, <1>3, <2>1, KindsAre
<1>6. \A i \in 1..3 : DispatchOrder[i] \notin ViewKinds \union PipelineKinds \union BaseKinds
  BY KindsAre DEF DispatchOrder
<1>7. HeldInv'
  BY <1>0, <1>3, <1>4, <1>6, KindsAre DEF HeldInv
<1>8. KeyInv'
  <2>1. pc' \in {"record", "submit", "return"}
    BY DEF RecordObject, RecordFails, Fail, Goto
  <2>2. \A k \in PipelineKinds : live'[k] = 1
    BY <1>1, <1>4, <1>6, KindsAre
  <2>3. built = key /\ request # NoRequest
    BY <1>0, <1>1, HostOwns DEF ObjectInv, KeyInv
  <2> QED BY <1>0, <1>1, <2>1, <2>2, <2>3 DEF KeyInv, Working
<1>9. CASE RecordFails
  BY <1>0, <1>3, <1>7, <1>8, <1>9
     DEF ObjectInv, ObjectsTyped, DispatchInv, RecordFails, Fail, Goto, Building, Uploading, Complete
<1>10. CASE RecordObject /\ step < 3
  <2>1. pc' = "record" /\ step' = step + 1
    BY <1>10 DEF RecordObject, Goto
  <2>2. DispatchInv'
    BY <1>0, <1>1, <1>4, <1>5, <1>6, <2>1, KindsAre DEF DispatchInv, Building, Uploading, Complete
  <2> QED BY <1>3, <1>7, <1>8, <2>2 DEF ObjectInv, ObjectsTyped
<1>11. CASE RecordObject /\ step = 3
  <2>1. pc' = "submit"
    BY <1>11 DEF RecordObject, Goto
  <2>2. \A i \in 1..3 : live'[DispatchOrder[i]] = 1
    BY <1>5, <1>11
  <2>3. \A k \in Kinds : live'[k] = Uses(k)
    BY <1>0, <1>1, <1>4, <1>6, <2>2, KindsAre DEF Uses, DispatchKinds
  <2>4. DispatchInv'
    BY <1>0, <2>1, <2>3 DEF DispatchInv, Uses, Building, Uploading, Complete
  <2> QED BY <1>3, <1>7, <1>8, <2>4 DEF ObjectInv, ObjectsTyped
<1> QED BY <1>0, <1>9, <1>10, <1>11

(* A new dispatch, the end of one, and the end of the backend.              *)
LEMMA CleanupStepsKeepObjects ==
  ASSUME TypeOK, ControlInv, ObjectInv,
         (\E r \in Requests : Dispatch(r)) \/ Return \/ DropBackend
  PROVE  ObjectsTyped' /\ ObjectInv'
<1>0. live \in [Kinds -> Nat] /\ held \in [Kinds -> Nat]
  BY DEF TypeOK
<1>1. CASE \E r \in Requests : Dispatch(r)
  <2>1. /\ session = "live" /\ session' = session /\ pc = "idle" /\ pc' = "prepare" /\ ~inFlight
        /\ inFlight' = inFlight /\ key' = key /\ built' = built /\ held = live
        /\ Destroy(DispatchKinds)
    BY <1>1 DEF Dispatch, Goto, Cleanup, cacheVars, ControlInv, ObjectInv, HeldInv
  <2>2. /\ live' = [k \in Kinds |-> IF k \in DispatchKinds THEN 0 ELSE live[k]]
        /\ live' \in [Kinds -> Nat] /\ held' = live'
    BY <2>1, DestroyIs
  <2>3. HeldInv'
    BY <2>1, <2>2, KindsAre DEF ObjectInv, HeldInv
  <2>4. KeyInv'
    BY <2>1, <2>2, KindsAre DEF ObjectInv, KeyInv, Working, Uploading, Complete
  <2>5. DispatchInv'
    BY <2>1, <2>2, KindsAre DEF DispatchInv, Uploading, Complete
  <2> QED BY <2>2, <2>3, <2>4, <2>5 DEF ObjectInv, ObjectsTyped
<1>2. CASE Return /\ inFlight
  <2>1. /\ session' = "taken" /\ pc = "return" /\ pc' = "idle" /\ inFlight' = inFlight
        /\ live' = live /\ key' = key /\ built' = built /\ request' = request
        /\ held' = [k \in Kinds |-> 0]
    BY <1>2 DEF Return, DropSession, Goto
  <2>2. HeldInv' /\ KeyInv'
    BY <1>2, <2>1 DEF HeldInv, KeyInv, Working, Uploading, Complete
  <2>3. DispatchInv'
    BY <1>2, <2>1 DEF ObjectInv, DispatchInv, Uses, Uploading, Complete
  <2> QED BY <1>0, <2>1, <2>2, <2>3 DEF ObjectInv, ObjectsTyped
<1>3. CASE Return /\ ~inFlight
  <2>1. /\ session' = session /\ pc = "return" /\ pc' = "idle" /\ inFlight' = inFlight
        /\ key' = key /\ built' = built /\ held = live /\ session = "live"
        /\ Destroy(DispatchKinds)
    BY <1>3, HostOwns DEF Return, Goto, Cleanup
  <2>2. /\ live' = [k \in Kinds |-> IF k \in DispatchKinds THEN 0 ELSE live[k]]
        /\ live' \in [Kinds -> Nat] /\ held' = live'
    BY <2>1, DestroyIs
  <2>3. HeldInv'
    BY <2>1, <2>2, KindsAre DEF ObjectInv, HeldInv
  <2>4. KeyInv'
    BY <2>1, <2>2, KindsAre DEF ObjectInv, KeyInv, Working, Uploading, Complete
  <2>5. DispatchInv'
    BY <1>3, <2>1, <2>2, KindsAre DEF DispatchInv, Uploading, Complete
  <2> QED BY <2>2, <2>3, <2>4, <2>5 DEF ObjectInv, ObjectsTyped
<1>4. CASE DropBackend /\ session = "live"
  <2>1. /\ session' = "dropped" /\ pc = "idle" /\ pc' = pc /\ inFlight' = inFlight /\ ~inFlight
        /\ held = live /\ Destroy(Kinds)
    BY <1>4 DEF DropBackend, DropSession, ControlInv, ObjectInv, HeldInv
  <2>2. /\ live' = [k \in Kinds |-> IF k \in Kinds THEN 0 ELSE live[k]]
        /\ live' \in [Kinds -> Nat] /\ held' = live'
    BY <2>1, DestroyIs
  <2>3. HeldInv' /\ KeyInv'
    BY <2>1, <2>2 DEF HeldInv, KeyInv, Working, Uploading, Complete
  <2>4. DispatchInv'
    BY <2>1, <2>2 DEF DispatchInv, Uploading, Complete
  <2> QED BY <2>2, <2>3, <2>4 DEF ObjectInv, ObjectsTyped
<1>5. CASE DropBackend /\ session = "taken"
  <2>1. /\ session' = "dropped" /\ pc = "idle" /\ pc' = pc /\ inFlight' = inFlight /\ inFlight
        /\ live' = live /\ held' = held /\ request' = request
    BY <1>5 DEF DropBackend, objects, ControlInv
  <2>2. HeldInv' /\ KeyInv'
    BY <1>5, <2>1 DEF ObjectInv, HeldInv, KeyInv, Working, Uploading, Complete
  <2>3. DispatchInv'
    BY <2>1 DEF ObjectInv, DispatchInv, Uses, Uploading, Complete
  <2> QED BY <1>0, <2>1, <2>2, <2>3 DEF ObjectInv, ObjectsTyped
<1> QED BY <1>1, <1>2, <1>3, <1>4, <1>5 DEF DropBackend

LEMMA NextKeepsObjects ==
  ASSUME TypeOK, ControlInv, ObjectInv, Next
  PROVE  ObjectsTyped' /\ ObjectInv'
<1>1. CASE \/ DispatchPoisoned \/ DispatchRejected \/ PrepareCached \/ BuildFails
           \/ Upload \/ UploadFails \/ Submit \/ WaitOk \/ WaitFails
           \/ Readback \/ ReadbackFails \/ GpuComplete
  <2>1. UNCHANGED <<objects, key, built, request>>
    BY <1>1, GpuIs
       DEF DispatchPoisoned, DispatchRejected, PrepareCached, BuildFails, Upload, UploadFails,
           Submit, WaitOk, WaitFails, Readback, ReadbackFails, hostVars, cacheVars, objects
  <2> QED BY <1>1, <2>1, QuietStepsKeepObjects
<1>2. CASE CreateBuffer
  <2>1. UNCHANGED <<key, built, request>>
    BY <1>2 DEF CreateBuffer, cacheVars
  <2>2. CASE Fail /\ UNCHANGED objects
    BY <1>2, <2>1, <2>2, QuietStepsKeepObjects
  <2>3. CASE Create("buffer") /\ Goto("allocate", step)
    BY <1>2, <2>3, ViewStepsKeepObjects, KindsAre
  <2> QED BY <1>2, <2>2, <2>3 DEF CreateBuffer
<1>3. CASE AllocateMemory
  <2>1. UNCHANGED <<key, built, request>>
    BY <1>3 DEF AllocateMemory, cacheVars
  <2>2. CASE Fail /\ UNCHANGED objects
    BY <1>3, <2>1, <2>2, QuietStepsKeepObjects
  <2>3. CASE Create("memory") /\ Goto("upload", step)
    BY <1>3, <2>3, ViewStepsKeepObjects, KindsAre
  <2> QED BY <1>3, <2>2, <2>3 DEF AllocateMemory
<1>4. CASE RecordObject
  BY <1>4, RecordStepsKeepObjects DEF RecordObject
<1>5. CASE RecordFails
  <2>1. UNCHANGED <<key, built, request>>
    BY <1>5 DEF RecordFails, cacheVars
  <2>2. CASE UNCHANGED objects
    BY <1>5, <2>1, <2>2, QuietStepsKeepObjects
  <2>3. CASE Create(DispatchOrder[step])
    BY <1>5, <2>3, RecordStepsKeepObjects
  <2> QED BY <1>5, <2>2, <2>3 DEF RecordFails
<1> QED BY <1>1, <1>2, <1>3, <1>4, <1>5, OpenKeepsObjects, PipelineStepsKeepObjects,
           CleanupStepsKeepObjects DEF Next, Host

-----------------------------------------------------------------------------
(* What a copy, a flush and an invalidation make of a view.                 *)
Sight == [coherent : BOOLEAN, host : Bytes, device : Bytes]

LEMMA SightsAre ==
  ASSUME NEW m \in Sight
  PROVE  /\ \A c \in BOOLEAN : Fresh(c) \in Sight
         /\ Copied(m) \in Sight /\ (m.coherent => Copied(m).device = "in")
         /\ Flushed(m) \in Sight /\ Flushed(m).device = m.host
         /\ Copied(m).host = "in"
         /\ Invalidated(m) \in Sight /\ Invalidated(m).host = m.device
         /\ Invalidated(m).device = m.device /\ Invalidated(m).coherent = m.coherent
BY DEF Sight, Fresh, Copied, Flushed, Invalidated, Bytes

(* One view changes, or none.                                               *)
LEMMA ViewStepsAre ==
  ASSUME TypeOK, ControlInv,
         AllocateMemory \/ Upload \/ UploadFails \/ Readback
  PROVE  /\ step \in 1..MaxViews /\ step \in Views
         /\ memory \in [1..MaxViews -> Sight]
         /\ \E m \in Sight : memory' = [memory EXCEPT ![step] = m]
<1>1. /\ step \in Views /\ Len(request.bindings) \in 1..MaxViews /\ MaxViews \in Nat
      /\ memory \in [1..MaxViews -> Sight]
  BY RequestsAssumption
     DEF AllocateMemory, Upload, UploadFails, Readback, ControlInv, Uploading, Sight, TypeOK
<1>2. step \in 1..MaxViews
  BY <1>1 DEF Views
<1>3. /\ memory[step] \in Sight /\ memory = [memory EXCEPT ![step] = memory[step]]
  BY <1>1, <1>2
<1> SUFFICES \E m \in Sight : memory' = [memory EXCEPT ![step] = m]
  BY <1>1, <1>2
<1>4. CASE AllocateMemory
  <2>1. CASE \E c \in BOOLEAN : memory' = [memory EXCEPT ![step] = Fresh(c)]
    <3>1. \A c \in BOOLEAN : Fresh(c) \in Sight
      BY <1>3, SightsAre
    <3> QED BY <2>1, <3>1
  <2>2. CASE memory' = memory
    BY <1>3, <2>2
  <2> QED BY <1>4, <2>1, <2>2 DEF AllocateMemory
<1>5. CASE Upload
  <2>1. PICK m : m = IF memory[step].coherent THEN Copied(memory[step])
                                              ELSE Flushed(Copied(memory[step]))
    OBVIOUS
  <2>2. memory' = [memory EXCEPT ![step] = m]
    BY <1>5, <2>1 DEF Upload
  <2>3. Copied(memory[step]) \in Sight /\ Flushed(Copied(memory[step])) \in Sight
    BY <1>3, SightsAre
  <2> QED BY <2>1, <2>2, <2>3
<1>6. CASE UploadFails
  <2>1. CASE memory' = memory
    BY <1>3, <2>1
  <2>2. CASE memory' = [memory EXCEPT ![step] = Copied(@)]
    BY <1>3, <2>2, SightsAre
  <2> QED BY <1>6, <2>1, <2>2 DEF UploadFails
<1>7. CASE Readback
  <2>1. PICK m : m = IF memory[step].coherent THEN memory[step] ELSE Invalidated(memory[step])
    OBVIOUS
  <2>2. memory' = [memory EXCEPT ![step] = m]
    BY <1>7, <2>1 DEF Readback
  <2>3. Invalidated(memory[step]) \in Sight
    BY <1>3, SightsAre
  <2> QED BY <1>3, <2>1, <2>2, <2>3
<1> QED BY <1>4, <1>5, <1>6, <1>7

(* The GPU: every view of the request holds the shader's output, seen by    *)
(* the host at once where the memory is coherent.                          *)
LEMMA GpuWrites ==
  ASSUME TypeOK, request \in Requests, GpuComplete
  PROVE  \E output \in {"out", "junk"} :
           /\ built = request /\ (\A v \in Views : memory[v].device = "in") => output = "out"
           /\ memory' \in [1..MaxViews -> Sight]
           /\ \A v \in Views : /\ memory'[v].device = output
                               /\ memory'[v].coherent => memory'[v].host = output
<1>1. PICK output \in {"out", "junk"} :
        /\ built = request /\ (\A v \in Views : memory[v].device = "in") => output = "out"
        /\ memory' = [v \in 1..MaxViews |->
                        IF v \notin Views THEN memory[v]
                        ELSE [memory[v] EXCEPT !.device = output,
                                !.host = IF memory[v].coherent THEN output ELSE @]]
  BY DEF GpuComplete
<1>2. memory \in [1..MaxViews -> Sight] /\ Views \subseteq 1..MaxViews
  BY RequestsAssumption DEF TypeOK, Sight, Views
<1>3. ASSUME NEW v \in 1..MaxViews PROVE memory'[v] \in Sight
  <2>1. memory[v] \in Sight /\ output \in Bytes
    BY <1>2 DEF Bytes
  <2>2. memory'[v] = IF v \notin Views THEN memory[v]
                     ELSE [memory[v] EXCEPT !.device = output,
                             !.host = IF memory[v].coherent THEN output ELSE @]
    BY <1>1
  <2>3. [memory[v] EXCEPT !.device = output,
           !.host = IF memory[v].coherent THEN output ELSE @] \in Sight
    BY <2>1 DEF Sight
  <2> QED BY <2>1, <2>2, <2>3
<1>4. memory' \in [1..MaxViews -> Sight]
  BY <1>1, <1>3
<1>5. ASSUME NEW v \in Views
      PROVE memory'[v].device = output /\ (memory'[v].coherent => memory'[v].host = output)
  <2>1. memory[v] \in Sight
    BY <1>2
  <2>2. memory'[v] = [memory[v] EXCEPT !.device = output,
                        !.host = IF memory[v].coherent THEN output ELSE @]
    BY <1>1, <1>2
  <2> QED BY <2>1, <2>2 DEF Sight
<1> QED BY <1>1, <1>4, <1>5

-----------------------------------------------------------------------------
LEMMA NextKeepsTypes ==
  ASSUME TypeOK, ControlInv, ObjectsTyped', Next
  PROVE  TypeOK'
<1>0. /\ memory \in [1..MaxViews -> Sight] /\ results \in Seq(Bytes)
      /\ step \in Nat /\ step > 0 /\ buildCount \in Nat /\ outstanding \in Nat
  BY DEF TypeOK, Sight
<1>1. memory' \in [1..MaxViews -> Sight]
  <2>1. CASE AllocateMemory \/ Upload \/ UploadFails \/ Readback
    BY <2>1, ViewStepsAre
  <2>2. CASE GpuComplete
    <3>1. request \in Requests
      BY <2>2, GpuIs DEF ControlInv
    <3> QED BY <2>2, <3>1, GpuWrites
  <2>3. CASE memory' = memory
    BY <1>0, <2>3
  <2> QED BY <2>1, <2>2, <2>3
      DEF Next, Host, OpenInstance, OpenDevice, DispatchPoisoned, DispatchRejected, Dispatch,
          PrepareCached, PrepareNew, BuildObject, BuildFails, CreateBuffer, RecordObject,
          RecordFails, Submit, WaitOk, WaitFails, ReadbackFails, Return, DropBackend
<1>2. results' \in Seq(Bytes)
  <2>1. CASE Readback
    <3>1. PICK m \in Sight : results' = Append(results, m.host)
      <4>1. memory[step] \in Sight
        BY <2>1, ViewStepsAre
      <4>2. Invalidated(memory[step]) \in Sight
        BY <4>1, SightsAre
      <4> QED BY <2>1, <4>1, <4>2 DEF Readback
    <3>2. m.host \in Bytes
      BY DEF Sight
    <3> QED BY <1>0, <3>1, <3>2
  <2>2. CASE results' = results
    BY <1>0, <2>2
  <2>3. CASE results' = <<>>
    BY <2>3
  <2> QED BY <2>1, <2>2, <2>3
      DEF Next, Host, OpenInstance, OpenDevice, DispatchPoisoned, DispatchRejected, Dispatch,
          PrepareCached, PrepareNew, BuildObject, BuildFails, CreateBuffer, RecordObject,
          RecordFails, Submit, WaitOk, WaitFails, ReadbackFails, Return, DropBackend,
          AllocateMemory, Upload, UploadFails, GpuComplete
<1>3. /\ session' \in {"opening", "live", "taken", "dropped"}
      /\ pc' \in Labels /\ step' \in Nat /\ step' > 0
      /\ outcome' \in {"none", "pending", "ok", "error", "poisoned"}
      /\ request' \in Requests \union {NoRequest} /\ inFlight' \in BOOLEAN
  <2>0. /\ session \in {"opening", "live", "taken", "dropped"} /\ pc \in Labels
        /\ outcome \in {"none", "pending", "ok", "error", "poisoned"}
        /\ request \in Requests \union {NoRequest} /\ inFlight \in BOOLEAN
    BY DEF TypeOK
  <2> USE <1>0, <2>0 DEF Labels, hostVars, Goto, Fail
  <2>1. CASE \/ OpenInstance \/ OpenDevice \/ DispatchPoisoned \/ DispatchRejected
             \/ (\E r \in Requests : Dispatch(r)) \/ Return \/ DropBackend
    BY <2>1 DEF OpenInstance, OpenDevice, DispatchPoisoned, DispatchRejected, Dispatch, Return,
                DropBackend
  <2>2. CASE PrepareCached \/ PrepareNew \/ BuildObject \/ BuildFails \/ CreateBuffer \/ AllocateMemory
    BY <2>2 DEF PrepareCached, PrepareNew, BuildObject, BuildFails, CreateBuffer, AllocateMemory
  <2>3. CASE RecordObject
    BY <2>3 DEF RecordObject
  <2>7. CASE Upload
    BY <2>7 DEF Upload
  <2>6. CASE Submit
    BY <2>6 DEF Submit
  <2>4. CASE WaitOk
    <3>1. /\ session' = session /\ request' = request /\ outcome' = outcome
          /\ inFlight' = FALSE /\ pc' = "readback" /\ step' = 1
      BY <2>4 DEF WaitOk
    <3>2. inFlight' \in BOOLEAN
      BY ONLY <3>1
    <3> QED BY ONLY <1>0, <2>0, <3>1, <3>2 DEF Labels
  <2>9. CASE UploadFails \/ RecordFails \/ WaitFails \/ ReadbackFails
    <3>1. session' = session /\ request' = request /\ inFlight' = inFlight /\ Fail
      BY <2>9 DEF UploadFails, RecordFails, WaitFails, ReadbackFails
    <3> QED BY <3>1
  <2>8. CASE Readback
    BY <2>8 DEF Readback
  <2>5. CASE GpuComplete
    BY <2>5, GpuIs
  <2> QED BY <2>1, <2>2, <2>3, <2>4, <2>5, <2>6, <2>7, <2>8, <2>9 DEF Next, Host
<1>4. /\ key' \in Requests \union {NoRequest} /\ built' \in Requests \union {NoRequest}
      /\ buildCount' \in Nat
  <2> USE <1>0 DEF TypeOK, cacheVars
  <2>1. CASE \/ OpenInstance \/ OpenDevice \/ Return \/ DropBackend \/ PrepareNew
    BY <2>1 DEF OpenInstance, OpenDevice, Return, DropBackend, PrepareNew, DropSession, CleanupPipeline
  <2>2. CASE BuildObject
    <3>1. request \in Requests
      BY <2>2 DEF BuildObject, ControlInv
    <3> QED BY <2>2, <3>1 DEF BuildObject
  <2>3. CASE UNCHANGED cacheVars
    BY <2>3
  <2> QED BY <2>1, <2>2, <2>3, GpuIs
      DEF Next, Host, DispatchPoisoned, DispatchRejected, Dispatch, PrepareCached, BuildFails,
          CreateBuffer, AllocateMemory, Upload, UploadFails, RecordObject, RecordFails, Submit,
          WaitOk, WaitFails, Readback, ReadbackFails
<1>5. fence' \in BOOLEAN /\ outstanding' \in Nat
  <2> USE <1>0 DEF TypeOK, gpuVars
  <2>1. CASE GpuComplete
    BY <2>1, GpuIs
  <2>2. CASE RecordObject
    <3>1. fence' \in {FALSE, fence} /\ outstanding' = outstanding
      BY <2>2 DEF RecordObject
    <3> QED BY <3>1
  <2>3. CASE Submit
    <3>1. fence' = fence /\ outstanding' \in {outstanding, outstanding + 1}
      BY <2>3 DEF Submit
    <3> QED BY <3>1
  <2>4. CASE UNCHANGED gpuVars
    BY <2>4
  <2> QED BY <2>1, <2>2, <2>3, <2>4
      DEF Next, Host, OpenInstance, OpenDevice, DispatchPoisoned, DispatchRejected, Dispatch,
          PrepareCached, PrepareNew, BuildObject, BuildFails, CreateBuffer, AllocateMemory,
          Upload, UploadFails, RecordFails, WaitOk, WaitFails, Readback, ReadbackFails, Return,
          DropBackend
<1>6. step' \in Nat \ {0}
  BY <1>3
<1> QED BY <1>1, <1>2, <1>3, <1>4, <1>5, <1>6 DEF TypeOK, ObjectsTyped, Sight

-----------------------------------------------------------------------------
BytesInv == DataInv /\ OkMeansGpuOutput

(* Steps after which nothing is said of the bytes.                          *)
LEMMA OutsideBytes ==
  ASSUME pc' \in {"idle", "prepare", "build", "return"}, pc' \in Building => results' = <<>>,
         \/ outcome' # "ok"
         \/ outcome' = outcome /\ request' = request /\ results' = results /\ OkMeansGpuOutput
  PROVE  BytesInv'
BY DEF BytesInv, DataInv, OkMeansGpuOutput, Views, Building, Uploading, Holds, Computed

(* Before the upload, nothing has to hold yet.                              *)
LEMMA PrepareKeepsBytes ==
  ASSUME TypeOK, ControlInv, BytesInv, PrepareCached \/ PrepareNew \/ BuildObject \/ BuildFails
  PROVE  BytesInv'
<1>1. /\ pc \in Building /\ results' = results /\ results = <<>>
      /\ outcome = "pending" /\ outcome' \in {"pending", "error"}
      /\ \/ pc' \in {"build", "return"}
         \/ pc' = "buffer" /\ step' = 1
  BY DEF PrepareCached, PrepareNew, BuildObject, BuildFails, Fail, Goto, hostVars, Building,
         ControlInv, BytesInv, DataInv
<1>2. CASE pc' \in {"build", "return"}
  BY <1>1, <1>2, OutsideBytes
<1>3. CASE pc' = "buffer" /\ step' = 1
  BY <1>1, <1>3 DEF BytesInv, DataInv, OkMeansGpuOutput, Building, Uploading
<1> QED BY <1>1, <1>2, <1>3

LEMMA UploadKeepsBytes ==
  ASSUME TypeOK, ControlInv, BytesInv, CreateBuffer \/ AllocateMemory \/ Upload \/ UploadFails
  PROVE  BytesInv'
<1>0. /\ pc \in Uploading /\ results' = results /\ results = <<>> /\ step \in Nat
      /\ outcome = "pending" /\ step \in Views /\ request' = request
      /\ \A v \in 1..(step - 1) : Holds(v, "in")
      /\ Len(request.bindings) \in Nat /\ MaxViews \in Nat /\ Len(request.bindings) <= MaxViews
  BY RequestsAssumption
     DEF CreateBuffer, AllocateMemory, Upload, UploadFails, Uploading, Working, Building, ControlInv,
         BytesInv, DataInv, hostVars, TypeOK
<1>1. CASE pc' = "return" /\ outcome' = "error"
  BY <1>1, OutsideBytes DEF Building
<1>2. CASE CreateBuffer /\ ~(pc' = "return" /\ outcome' = "error")
  <2>1. pc' = "allocate" /\ step' = step /\ outcome' = outcome /\ memory' = memory
    BY <1>2 DEF CreateBuffer, Goto, Fail
  <2> QED BY <1>0, <2>1 DEF BytesInv, DataInv, OkMeansGpuOutput, Uploading, Building, Holds
<1>3. CASE AllocateMemory /\ ~(pc' = "return" /\ outcome' = "error")
  <2>1. pc' = "upload" /\ step' = step /\ outcome' = outcome
    BY <1>3 DEF AllocateMemory, Goto, Fail
  <2>2. PICK m \in Sight : memory' = [memory EXCEPT ![step] = m]
    BY <1>3, ViewStepsAre
  <2>3. memory \in [1..MaxViews -> Sight]
    BY <1>3, ViewStepsAre
  <2>4. \A v \in 1..(step - 1) : memory'[v] = memory[v]
    BY <1>0, <2>2, <2>3 DEF Views
  <2> QED BY <1>0, <2>1, <2>4 DEF BytesInv, DataInv, OkMeansGpuOutput, Uploading, Building, Holds
<1>4. CASE Upload
  <2>1. /\ outcome' = outcome
        /\ \/ pc' = "buffer" /\ step' = step + 1
           \/ pc' = "record" /\ step = Len(request.bindings)
    BY <1>0, <1>4 DEF Upload, Goto, hostVars, Views
  <2>2. memory \in [1..MaxViews -> Sight] /\ memory[step] \in Sight
    BY <1>4, ViewStepsAre
  <2>3. PICK m : m = IF memory[step].coherent THEN Copied(memory[step])
                                              ELSE Flushed(Copied(memory[step]))
    OBVIOUS
  <2>4. memory' = [memory EXCEPT ![step] = m]
    BY <1>4, <2>3 DEF Upload
  <2>5. m.device = "in"
    BY <2>2, <2>3, SightsAre
  <2>6. \A v \in 1..step : memory'[v].device = "in"
    BY <1>0, <2>2, <2>4, <2>5 DEF Views, Holds
  <2> QED BY <1>0, <2>1, <2>6
          DEF BytesInv, DataInv, OkMeansGpuOutput, Uploading, Building, Holds, Views
<1>5. CASE UploadFails
  BY <1>1, <1>5 DEF UploadFails, Fail, Goto
<1> QED BY <1>1, <1>2, <1>3, <1>4, <1>5

LEMMA RecordAndSubmitKeepBytes ==
  ASSUME TypeOK, ControlInv, BytesInv, RecordObject \/ RecordFails \/ Submit
  PROVE  BytesInv'
<1>0. /\ pc \in {"record", "submit"} /\ results' = results /\ results = <<>>
      /\ outcome = "pending" /\ request' = request /\ memory' = memory
      /\ \A v \in Views : Holds(v, "in")
      /\ outstanding = 0 /\ (pc = "submit" => ~fence)
  BY DEF RecordObject, RecordFails, Submit, Uploading, Working, Complete, ControlInv,
         BytesInv, DataInv, hostVars
<1>1. CASE pc' = "return" /\ outcome' = "error"
  BY <1>1, OutsideBytes DEF Building
<1>2. CASE RecordObject
  <2>1. outcome' = outcome /\ pc' \in {"record", "submit"}
    BY <1>2 DEF RecordObject, Goto, hostVars
  <2>2. pc' = "submit" => fence' = FALSE
    <3>1. step \in 1..3 /\ (step = 3 => DispatchOrder[step] = "fence")
      BY <1>2 DEF RecordObject, ControlInv, DispatchOrder
    <3>2. pc' = "submit" => step = 3
      BY <1>2, <3>1 DEF RecordObject, Goto
    <3> QED BY <1>2, <3>1, <3>2 DEF RecordObject
  <2> QED BY <1>0, <2>1, <2>2
          DEF BytesInv, DataInv, OkMeansGpuOutput, Uploading, Building, Holds, Views
<1>3. CASE Submit /\ ~(pc' = "return" /\ outcome' = "error")
  <2>1. pc' = "wait" /\ outcome' = outcome /\ outstanding' = 1 /\ fence' = fence /\ ~fence
    BY <1>0, <1>3 DEF Submit, Goto, Fail
  <2> QED BY <1>0, <2>1
          DEF BytesInv, DataInv, OkMeansGpuOutput, Uploading, Building, Holds, Views
<1>4. CASE RecordFails
  BY <1>1, <1>4 DEF RecordFails, Fail, Goto
<1> QED BY <1>1, <1>2, <1>3, <1>4

LEMMA GpuKeepsBytes ==
  ASSUME TypeOK, ControlInv, KeyInv, DispatchInv, BytesInv, GpuComplete
  PROVE  BytesInv'
<1>1. /\ inFlight /\ outstanding = 1 /\ outstanding' = 0 /\ request \in Requests
      /\ pc \in {"idle", "wait", "return"} /\ request # NoRequest
  BY GpuIs, RequestsAssumption DEF ControlInv
<1>2. CASE pc # "wait"
  BY <1>1, <1>2, GpuIs, OutsideBytes DEF BytesInv, Building
<1>3. CASE pc = "wait"
  <2>1. (\A v \in Views : memory[v].device = "in") /\ outcome = "pending" /\ results = <<>>
    BY <1>1, <1>3 DEF BytesInv, DataInv, ControlInv, Holds, Working, Complete
  <2>2. built = request
    BY <1>1, <1>3 DEF KeyInv, ControlInv, Working, Complete
  <2>3. \A v \in Views : /\ memory'[v].device = "out"
                         /\ memory'[v].coherent => memory'[v].host = "out"
    BY <1>1, <2>1, <2>2, GpuWrites
  <2> QED BY <1>1, <1>3, <2>1, <2>3, GpuIs
          DEF BytesInv, DataInv, OkMeansGpuOutput, Uploading, Building, Holds, Computed, Views
<1> QED BY <1>2, <1>3

LEMMA ReadbackKeepsBytes ==
  ASSUME TypeOK, ControlInv, BytesInv, WaitOk \/ WaitFails \/ Readback \/ ReadbackFails
  PROVE  BytesInv'
<1>1. CASE WaitFails \/ ReadbackFails
  <2>1. pc' = "return" /\ outcome' = "error"
    BY <1>1 DEF WaitFails, ReadbackFails, Fail, Goto
  <2> QED BY <2>1, OutsideBytes DEF Building
<1>2. CASE WaitOk
  <2>1. /\ outstanding = 0 /\ (\A v \in Views : Computed(v)) /\ results = <<>>
        /\ outcome = "pending"
    BY <1>2 DEF WaitOk, BytesInv, DataInv, ControlInv, Working, Complete
  <2>2. /\ pc' = "readback" /\ step' = 1 /\ memory' = memory /\ request' = request
        /\ results' = results /\ outcome' = outcome /\ outstanding' = outstanding
    BY <1>2 DEF WaitOk, Goto, hostVars, gpuVars
  <2> QED BY <2>1, <2>2
          DEF BytesInv, DataInv, OkMeansGpuOutput, Uploading, Building, Holds, Computed, Views
<1>3. CASE Readback
  <2>0. /\ pc = "readback" /\ outstanding = 0 /\ (\A v \in Views : Computed(v))
        /\ results \in Seq(Bytes) /\ Len(results) = step - 1 /\ step \in Nat \ {0}
        /\ \A v \in 1..(step - 1) : results[v] = "out"
        /\ outcome = "pending" /\ request' = request /\ outstanding' = outstanding
        /\ Len(request.bindings) \in Nat
    BY <1>3, RequestsAssumption
       DEF Readback, BytesInv, DataInv, ControlInv, Working, Complete, TypeOK, gpuVars
  <2>1. step \in Views /\ memory \in [1..MaxViews -> Sight] /\ memory[step] \in Sight
    BY <1>3, ViewStepsAre
  <2>2. PICK m : m = IF memory[step].coherent THEN memory[step] ELSE Invalidated(memory[step])
    OBVIOUS
  <2>3. memory' = [memory EXCEPT ![step] = m] /\ results' = Append(results, m.host)
    BY <1>3, <2>2 DEF Readback
  <2>4. m.host = "out" /\ m.device = "out"
    BY <2>0, <2>1, <2>2, SightsAre DEF Computed, Holds
  <2>5. \A v \in Views : /\ memory'[v].device = "out"
                         /\ memory'[v].coherent => memory'[v].host = "out"
    <3>1. ASSUME NEW v \in Views, v # step PROVE memory'[v] = memory[v]
      BY <2>1, <2>3, <3>1
    <3>2. memory'[step] = m
      <4>1. step \in 1..MaxViews
        BY <1>3, ViewStepsAre
      <4> QED BY <2>1, <2>3, <4>1
    <3> QED BY <2>0, <2>4, <3>1, <3>2 DEF Computed, Holds
  <2>6. /\ results' \in Seq(Bytes) /\ Len(results') = step
        /\ \A v \in 1..step : results'[v] = "out"
    BY <2>0, <2>3, <2>4 DEF Bytes
  <2>7. CASE step < Len(request.bindings)
    <3>1. pc' = "readback" /\ step' = step + 1 /\ outcome' = outcome
      BY <1>3, <2>7 DEF Readback, Goto
    <3> QED BY <2>0, <2>5, <2>6, <3>1
            DEF BytesInv, DataInv, OkMeansGpuOutput, Uploading, Building, Holds, Computed, Views
  <2>8. CASE ~(step < Len(request.bindings))
    <3>1. pc' = "return" /\ step = Len(request.bindings)
      BY <1>3, <2>0, <2>1, <2>8 DEF Readback, Goto, Views
    <3>2. results' = [v \in Views |-> "out"]
      <4>1. results' = [v \in 1..Len(results') |-> results'[v]]
        BY <2>6
      <4> QED BY <2>6, <3>1, <4>1 DEF Views
    <3> QED BY <2>0, <3>1, <3>2
            DEF BytesInv, DataInv, OkMeansGpuOutput, Uploading, Building, Views
  <2> QED BY <2>7, <2>8
<1> QED BY <1>1, <1>2, <1>3

LEMMA NextKeepsBytes ==
  ASSUME TypeOK, ControlInv, KeyInv, DispatchInv, BytesInv, Next
  PROVE  BytesInv'
<1>1. CASE OpenInstance \/ OpenDevice \/ DispatchPoisoned \/ DispatchRejected \/ DropBackend
  <2>1. /\ pc = "idle" /\ pc' = pc /\ results' = results /\ request' = request
        /\ outcome' = outcome \/ outcome' # "ok"
    BY <1>1 DEF OpenInstance, OpenDevice, DispatchPoisoned, DispatchRejected, DropBackend, ControlInv
  <2> QED BY <2>1, OutsideBytes DEF BytesInv, Building
<1>2. CASE \E r \in Requests : Dispatch(r)
  BY <1>2, OutsideBytes DEF Dispatch, Goto
<1>3. CASE Return
  BY <1>3, OutsideBytes DEF Return, Goto, BytesInv, Building
<1> QED BY <1>1, <1>2, <1>3, PrepareKeepsBytes, UploadKeepsBytes, RecordAndSubmitKeepBytes,
           GpuKeepsBytes, ReadbackKeepsBytes DEF Next, Host

-----------------------------------------------------------------------------
LEMMA NextKeeps == SessionInv /\ [Next]_vars => SessionInv'
<1> SUFFICES ASSUME SessionInv, [Next]_vars PROVE SessionInv'
  OBVIOUS
<1>1. CASE Next
  <2>1. ControlInv'
    BY <1>1, NextKeepsControl DEF SessionInv
  <2>2. ObjectsTyped' /\ ObjectInv'
    BY <1>1, NextKeepsObjects DEF SessionInv, ObjectInv
  <2>3. TypeOK'
    BY <1>1, <2>2, NextKeepsTypes DEF SessionInv
  <2>4. BytesInv'
    BY <1>1, NextKeepsBytes DEF SessionInv, BytesInv
  <2> QED BY <2>1, <2>2, <2>3, <2>4 DEF SessionInv, ObjectInv, BytesInv
<1>2. CASE UNCHANGED vars
  BY <1>2
     DEF vars, SessionInv, TypeOK, ControlInv, HeldInv, KeyInv, DispatchInv, DataInv,
         OkMeansGpuOutput, Views, Uses, Holds, Computed
<1> QED BY <1>1, <1>2

LEMMA InvHolds == Spec => []SessionInv
BY InitEstablishes, NextKeeps, PTL DEF Spec

LEMMA RetainedIs == SessionInv => InFlightRetained
<1> SUFFICES ASSUME SessionInv, outstanding > 0 PROVE \A k \in Kinds : live[k] >= Uses(k)
  BY DEF InFlightRetained
<1>1. inFlight
  BY DEF SessionInv, ControlInv
<1>2. \A k \in Kinds : live[k] = Uses(k) /\ live[k] \in Nat
  BY <1>1 DEF SessionInv, DispatchInv, TypeOK
<1> QED BY <1>2

(* Every variable keeps its type; no count of driver objects is negative.   *)
THEOREM SessionTypeCorrect == Spec => []TypeOK
BY InvHolds, PTL DEF SessionInv

(* While the GPU may be executing a submission, everything it uses exists:  *)
(* neither a timeout nor a lost device nor dropping the backend frees it.   *)
THEOREM SubmissionsAreRetained == Spec => []InFlightRetained
BY RetainedIs, InvHolds, PTL

(* The session's fields are exactly what exists in the driver, after any    *)
(* failure of any call; a call leaves no object of its own behind, and a    *)
(* dropped backend nothing at all unless a submission is unresolved.        *)
THEOREM NothingLeaksOrDies == Spec => []HandlesExact
<1>1. SessionInv => HandlesExact
  BY DEF SessionInv, TypeOK, HeldInv, DispatchInv, HandlesExact
<1> QED BY <1>1, InvHolds, PTL

(* A dispatch that answers "ok" hands back, for every binding, what the GPU *)
(* wrote for this request, on coherent and on other memory alike.           *)
THEOREM OkIsGpuOutput == Spec => []OkMeansGpuOutput
BY InvHolds, PTL DEF SessionInv

-----------------------------------------------------------------------------
(* A pipeline object is destroyed only when nothing that uses it exists.    *)
PipelineStep ==
  \A k \in PipelineKinds : live'[k] < live[k] =>
    outstanding = 0 /\ \A d \in DispatchKinds : live'[d] = 0

LEMMA StepsSparePipelines ==
  ASSUME SessionInv, Next
  PROVE  PipelineStep
<1>0. live \in [Kinds -> Nat] /\ PipelineKinds \subseteq Kinds
  BY KindsAre DEF SessionInv, TypeOK
<1>1. CASE UNCHANGED live
  BY <1>0, <1>1 DEF PipelineStep
<1>2. CASE \E kind \in Kinds : Create(kind)
  <2>1. PICK kind \in Kinds : live' = [live EXCEPT ![kind] = @ + 1]
    BY <1>2 DEF Create
  <2> QED BY <1>0, <2>1 DEF PipelineStep
<1>3. CASE OpenInstance
  <2>1. \A k \in PipelineKinds : live'[k] = live[k]
    BY <1>0, <1>3, KindsAre DEF OpenInstance, objects
  <2> QED BY <1>0, <2>1 DEF PipelineStep
<1>4. CASE held = live /\ Destroy(DispatchKinds)
  <2>1. live' = [k \in Kinds |-> IF k \in DispatchKinds THEN 0 ELSE live[k]]
    BY <1>4, DestroyIs DEF SessionInv
  <2>2. \A k \in PipelineKinds : live'[k] = live[k]
    BY <1>0, <2>1, KindsAre
  <2> QED BY <1>0, <2>2 DEF PipelineStep
<1>5. CASE PrepareNew \/ (DropBackend /\ session = "live") \/ (OpenDevice /\ DropSession)
  <2>1. ~inFlight /\ outstanding = 0 /\ held = live
    BY <1>5 DEF PrepareNew, DropBackend, OpenDevice, SessionInv, ControlInv, HeldInv
  <2>2. Destroy(PipelineKinds) \/ Destroy(Kinds)
    BY <1>5, <2>1 DEF PrepareNew, CleanupPipeline, DropBackend, DropSession
  <2>3. \A d \in DispatchKinds : live[d] = 0
    BY <1>5, KindsAre DEF PrepareNew, DropBackend, OpenDevice, SessionInv, ControlInv, HeldInv,
                          DispatchInv, Building
  <2>4. \A d \in DispatchKinds : live'[d] = 0
    BY <2>1, <2>2, <2>3, DestroyIs, KindsAre DEF SessionInv
  <2> QED BY <2>1, <2>4 DEF PipelineStep
<1>6. CASE (\E r \in Requests : Dispatch(r)) \/ Return
  <2>1. CASE inFlight
    BY <1>1, <1>6, <2>1 DEF Dispatch, Return, Cleanup, DropSession, objects
  <2>2. CASE ~inFlight
    <3>1. session = "live" /\ held = live
      BY <1>6 DEF Dispatch, Return, SessionInv, ControlInv, HeldInv
    <3> QED BY <1>4, <1>6, <2>2, <3>1 DEF Dispatch, Return, Cleanup
  <2> QED BY <2>1, <2>2
<1>7. CASE OpenDevice \/ DropBackend
  BY <1>1, <1>2, <1>5, <1>7, KindsAre DEF OpenDevice, DropBackend, objects
<1>8. CASE BuildObject \/ CreateBuffer \/ AllocateMemory \/ RecordObject \/ RecordFails
  <2>1. UNCHANGED live \/ \E kind \in Kinds : Create(kind)
    <3>1. BuildObject => PipelineOrder[step] \in Kinds
      BY KindsAre DEF BuildObject, SessionInv, ControlInv
    <3>2. RecordObject \/ RecordFails => DispatchOrder[step] \in Kinds
      BY KindsAre DEF RecordObject, RecordFails, SessionInv, ControlInv
    <3>3. "buffer" \in Kinds /\ "memory" \in Kinds
      BY KindsAre
    <3> QED BY <1>8, <3>1, <3>2, <3>3
            DEF BuildObject, CreateBuffer, AllocateMemory, RecordObject, RecordFails, objects
  <2> QED BY <1>1, <1>2, <2>1
<1>9. CASE \/ DispatchPoisoned \/ DispatchRejected \/ PrepareCached \/ BuildFails
           \/ Upload \/ UploadFails \/ Submit \/ WaitOk \/ WaitFails
           \/ Readback \/ ReadbackFails \/ GpuComplete
  <2>1. UNCHANGED live
    BY <1>9, GpuIs
       DEF DispatchPoisoned, DispatchRejected, PrepareCached, BuildFails, Upload, UploadFails,
           Submit, WaitOk, WaitFails, Readback, ReadbackFails, objects
  <2> QED BY <1>1, <2>1
<1>10. CASE PrepareNew
  BY <1>5, <1>10
<1> QED BY <1>3, <1>6, <1>7, <1>8, <1>9, <1>10 DEF Next, Host

(* A pipeline, its layouts and its shader are destroyed only when no pool,  *)
(* command buffer or submission that refers to them is left, whatever       *)
(* rebuilds, fails or is dropped.                                          *)
THEOREM PipelinesOutlive == Spec => PipelineOutlivesUsers
<1>1. SessionInv /\ [Next]_vars =>
        [\A k \in PipelineKinds : live'[k] < live[k] =>
           outstanding = 0 /\ \A d \in DispatchKinds : live'[d] = 0]_vars
  BY StepsSparePipelines DEF PipelineStep
<1> QED BY <1>1, InvHolds, PTL DEF Spec, PipelineOutlivesUsers

-----------------------------------------------------------------------------
(* Every step is a step of the contract, or nothing its callers can see.    *)
LEMMA StepImplements ==
  ASSUME SessionInv, SessionInv', Next
  PROVE  Contract!Next \/ UNCHANGED Contract!vars
<1>0. /\ InFlightRetained' = InFlightRetained
      /\ outstanding \in {0, 1} /\ outstanding' \in {0, 1}
  <2>1. InFlightRetained /\ InFlightRetained'
    BY RetainedIs, PTL
  <2> QED BY <2>1 DEF InFlightRetained, SessionInv, ControlInv
<1> DEFINE Stutter == /\ session' = session /\ (pc' = "idle" <=> pc = "idle")
                      /\ outstanding' = outstanding /\ (pc = "idle" => outcome' = outcome)
<1>1. ASSUME Stutter PROVE UNCHANGED Contract!vars
  BY <1>0, <1>1 DEF Contract!vars
<1>2. CASE OpenInstance
  <2>1. CASE session' = session
    BY <1>1, <1>2, <2>1 DEF OpenInstance, gpuVars
  <2>2. CASE session' = "dropped"
    <3>1. Contract!Close
      BY <1>0, <1>2, <2>2 DEF OpenInstance, gpuVars, Contract!Close, SessionInv, ControlInv
    <3> QED BY <3>1 DEF Contract!Next
  <2> QED BY <1>2, <2>1, <2>2 DEF OpenInstance
<1>3. CASE OpenDevice
  <2>1. CASE session' = "live"
    <3>1. Contract!Open
      BY <1>0, <1>3, <2>1 DEF OpenDevice, gpuVars, Contract!Open, SessionInv, ControlInv
    <3> QED BY <3>1 DEF Contract!Next
  <2>2. CASE session' = "dropped"
    <3>1. Contract!Close
      BY <1>0, <1>3, <2>2 DEF OpenDevice, gpuVars, Contract!Close, SessionInv, ControlInv
    <3> QED BY <3>1 DEF Contract!Next
  <2> QED BY <1>3, <2>1, <2>2 DEF OpenDevice
<1>4. CASE DispatchPoisoned \/ DispatchRejected
  <2>1. Contract!Refuse
    BY <1>0, <1>4 DEF DispatchPoisoned, DispatchRejected, gpuVars, Contract!Refuse
  <2> QED BY <2>1 DEF Contract!Next
<1>5. CASE \E r \in Requests : Dispatch(r)
  <2>1. ~(outstanding > 0)
    BY <1>5 DEF Dispatch, SessionInv, ControlInv
  <2>2. Contract!Accept
    BY <1>0, <1>5, <2>1 DEF Dispatch, Goto, gpuVars, Contract!Accept
  <2> QED BY <2>2 DEF Contract!Next
<1>6. CASE \/ PrepareCached \/ PrepareNew \/ BuildObject \/ BuildFails
           \/ CreateBuffer \/ AllocateMemory
  <2>1. Stutter
    BY <1>6 DEF PrepareCached, PrepareNew, BuildObject, BuildFails, CreateBuffer, AllocateMemory,
                Fail, Goto, gpuVars, hostVars
  <2> QED BY <1>1, <2>1
<1>7. CASE Upload \/ UploadFails \/ RecordObject \/ RecordFails
  <2>1. Stutter
    <3>1. pc # "idle" /\ pc' # "idle" /\ session' = session
      BY <1>7 DEF Upload, UploadFails, RecordObject, RecordFails, Fail, Goto, hostVars
    <3>2. outstanding' = outstanding
      BY <1>7 DEF Upload, UploadFails, RecordObject, RecordFails, gpuVars
    <3> QED BY <3>1, <3>2
  <2> QED BY <1>1, <2>1
<1>8. CASE Submit
  <2>1. pc # "idle" /\ pc' # "idle" /\ session' = session /\ ~(outstanding > 0)
    BY <1>8 DEF Submit, Fail, Goto, SessionInv, ControlInv
  <2>2. CASE outstanding' = outstanding
    BY <1>1, <2>1, <2>2
  <2>3. CASE outstanding' # outstanding
    <3>1. outstanding' > 0
      BY <1>0, <2>1, <2>3
    <3>2. Contract!Start
      BY <1>0, <2>1, <3>1 DEF Contract!Start
    <3> QED BY <3>2 DEF Contract!Next
  <2> QED BY <2>2, <2>3
<1>9. CASE GpuComplete
  <2>1. outstanding > 0 /\ ~(outstanding' > 0)
    BY <1>0, <1>9, GpuIs
  <2>2. Contract!Finish
    BY <1>0, <1>9, <2>1, GpuIs DEF Contract!Finish
  <2> QED BY <2>2 DEF Contract!Next
<1>10. CASE WaitOk \/ WaitFails \/ Readback \/ ReadbackFails
  <2>1. Stutter
    <3>1. pc # "idle" /\ pc' # "idle" /\ session' = session
      BY <1>10 DEF WaitOk, WaitFails, Readback, ReadbackFails, Fail, Goto, hostVars
    <3>2. outstanding' = outstanding
      BY <1>10 DEF WaitOk, WaitFails, Readback, ReadbackFails, gpuVars
    <3> QED BY <3>1, <3>2
  <2> QED BY <1>1, <2>1
<1>11. CASE Return
  <2>1. /\ pc = "return" /\ pc' = "idle" /\ outcome' = outcome /\ outstanding' = outstanding
        /\ outcome \in {"ok", "error"} /\ (inFlight => outcome = "error")
    BY <1>11 DEF Return, Goto, gpuVars, SessionInv, ControlInv
  <2>2. CASE inFlight
    <3>1. Contract!Poison
      BY <1>0, <1>11, <2>1, <2>2 DEF Return, Contract!Poison
    <3> QED BY <3>1 DEF Contract!Next
  <2>3. CASE ~inFlight
    <3>1. session' = session /\ ~(outstanding > 0)
      BY <1>11, <2>3 DEF Return, SessionInv, ControlInv
    <3>2. Contract!Answer
      BY <1>0, <2>1, <3>1 DEF Contract!Answer
    <3> QED BY <3>2 DEF Contract!Next
  <2> QED BY <2>2, <2>3
<1>12. CASE DropBackend
  <2>1. Contract!Close
    BY <1>0, <1>12 DEF DropBackend, gpuVars, Contract!Close
  <2> QED BY <2>1 DEF Contract!Next
<1> QED BY <1>2, <1>3, <1>4, <1>5, <1>6, <1>7, <1>8, <1>9, <1>10, <1>11, <1>12 DEF Next, Host

(* The session, with all its driver calls, failures and the GPU running on  *)
(* its own, is what the compute manager relies on: a call is answered with  *)
(* no work left on the GPU, or the backend is poisoned for good.            *)
THEOREM SessionRefinesContract == Spec => ImplementsContract
<1>1. Init => Contract!Init
  <2>1. Init => InFlightRetained
    BY InitEstablishes, RetainedIs
  <2> QED BY <2>1 DEF Init, Contract!Init, InFlightRetained
<1>2. SessionInv /\ SessionInv' /\ [Next]_vars => [Contract!Next]_(Contract!vars)
  <2> SUFFICES ASSUME SessionInv, SessionInv', [Next]_vars
               PROVE  Contract!Next \/ UNCHANGED Contract!vars
    OBVIOUS
  <2>1. CASE Next
    BY <2>1, StepImplements
  <2>2. CASE UNCHANGED vars
    BY <2>2 DEF vars, Contract!vars, InFlightRetained, Uses
  <2> QED BY <2>1, <2>2
<1> QED BY <1>1, <1>2, InvHolds, PTL DEF Spec, ImplementsContract, Contract!Spec
=============================================================================
