--------------------------- MODULE SgpuSessionProofs ---------------------------
(***************************************************************************)
(* What preflight saw stays true until the list ends, for any limits, lists *)
(* and handles: the registry is sound after every sequence of calls, only   *)
(* the backend stops an accepted list, and a guest never reaches a buffer   *)
(* it has not registered.                                                  *)
(***************************************************************************)
EXTENDS SgpuSession, ComputeManagerProofs, FiniteSetTheorems, WellFoundedInduction

(* The list under way passed preflight, and the dispatch under way is its   *)
(* current command.                                                        *)
Preflighted ==
  mode = "submitting" => \A i \in 1..Len(list) : ValidCommand(list[i])

Position ==
  mode = "submitting" =>
    /\ index <= Len(list) + 1
    /\ completed + (Len(list) + 1 - index) <= CounterMax

CallOfCurrent ==
  /\ mode = "session" => call.pc = "idle"
  /\ mode = "submitting" /\ call.pc # "idle" =>
       /\ index <= Len(list) /\ Current.op = "dispatch"
       /\ Current.kernel \in DOMAIN kernels /\ call.id = kernels[Current.kernel]

NoSessionNoHandles ==
  mode = "host" => DOMAIN resources = {} /\ DOMAIN kernels = {}

SessionInv ==
  /\ ManagerInv /\ TypeOK /\ RegistrySound /\ OnlyBackendFails
  /\ Preflighted /\ Position /\ CallOfCurrent /\ NoSessionNoHandles

-----------------------------------------------------------------------------
(* The owner of an idle manager may overwrite a range.                      *)
LEMMA WriteKeepsManagerInv ==
  ASSUME ManagerInv, call.pc = "idle", NEW h \in DOMAIN storage,
         NEW data \in Seq(Value),
         storage' = [storage EXCEPT ![h] = Overwrite(@, 0, data)],
         UNCHANGED <<pipelines, nextId, nextHandle, backend, fences, call>>
  PROVE  /\ ManagerInv'
         /\ DOMAIN storage' = DOMAIN storage
         /\ \A b \in DOMAIN storage : Len(storage'[b]) = Len(storage[b])
<1>1. storage[h] \in Seq(Value)
  BY DEF ManagerInv, ManagerTypeOK
<1>2. /\ Overwrite(storage[h], 0, data) \in Seq(Value)
      /\ Len(Overwrite(storage[h], 0, data)) = Len(storage[h])
  BY <1>1, OverwriteType
<1>3. ManagerTypeOK'
  BY <1>2 DEF ManagerInv, ManagerTypeOK
<1>4. CallShape' /\ DispatchAtomic' /\ CommitProgress' /\ CommitComplete'
  BY DEF CallShape, DispatchAtomic, CommitProgress, CommitComplete
<1> QED BY <1>2, <1>3, <1>4 DEF ManagerInv

(* The registry depends on the sizes of the buffers, not on their bytes.    *)
LEMMA SizesKeepRegistry ==
  ASSUME RegistrySound, DOMAIN storage' = DOMAIN storage,
         \A b \in DOMAIN storage : Len(storage'[b]) = Len(storage[b]),
         pipelines' = pipelines, resources' = resources, kernels' = kernels
  PROVE  RegistrySound'
<1>1. NoSharedBuffer'
  BY DEF RegistrySound, NoSharedBuffer
<1>2. ResourcesBacked'
  BY DEF RegistrySound, ResourcesBacked
<1>3. KernelsBacked'
  BY DEF RegistrySound, KernelsBacked, InStorage, Bound, Backing
<1> QED BY <1>1, <1>2, <1>3 DEF RegistrySound

(* A valid command does not depend on the bytes at all.                     *)
LEMMA ValidityFrozen ==
  ASSUME pipelines' = pipelines, resources' = resources, kernels' = kernels,
         list' = list, Preflighted, mode' = "submitting" => mode = "submitting"
  PROVE  Preflighted'
BY DEF Preflighted, ValidCommand, ValidCopy, ValidLaunch, InResource

(* A dispatch step keeps the sizes, the pipelines and the call's identity.  *)
LEMMA DispatchStepShape ==
  ASSUME ManagerInv, DispatchStep
  PROVE  /\ pipelines' = pipelines /\ call.pc # "idle" /\ call'.id = call.id
         /\ DOMAIN storage' = DOMAIN storage
         /\ \A b \in DOMAIN storage : Len(storage'[b]) = Len(storage[b])
<1>1. call \in Calls
  BY DEF ManagerInv, ManagerTypeOK, Calls
<1>2. CASE BackendFails \/ BackendCompletes \/ ReadbackFails \/ SignalFence
  BY <1>1, <1>2 DEF BackendFails, BackendCompletes, ReadbackFails, SignalFence, Calls
<1>3. ASSUME NEW v \in Value, Readback(v)
      PROVE  call'.id = call.id
  BY <1>1, <1>3 DEF Readback, NextTurn, Calls
<1>4. CASE \E v \in Value : Readback(v)
  BY <1>3, <1>4 DEF Readback
<1>5. CASE Commit
  BY <1>1, <1>5, CommitStores, NextTurnType DEF Commit
<1> QED BY <1>2, <1>4, <1>5 DEF DispatchStep

(* While no list runs only types, registry and counter are at stake.        *)
LEMMA IdleSession ==
  ASSUME SessionInv, ManagerInv', TypeOK', RegistrySound', report' = report,
         mode' = "session", call'.pc = "idle"
  PROVE  SessionInv'
BY DEF SessionInv, OnlyBackendFails, Preflighted, Position, CallOfCurrent,
       NoSessionNoHandles

-----------------------------------------------------------------------------
LEMMA HostKeepsSessionInv ==
  ASSUME SessionInv, Host
  PROVE  SessionInv'
<1> USE DEF SessionInv
<1>1. CASE NewSession \/ IntoManager
  <2>1. ManagerInv' /\ call.pc = "idle" /\ call' = call
    BY <1>1, StutterKeepsInv DEF NewSession, IntoManager, CallOfCurrent, managerVars
  <2>2. TypeOK'
    BY <1>1, <2>1, SessionAssumption
       DEF NewSession, IntoManager, EmptyRegistry, TypeOK, listVars, ManagerInv
  <2>3. DOMAIN resources' = {} /\ DOMAIN kernels' = {}
    BY <1>1 DEF NewSession, IntoManager, EmptyRegistry
  <2>4. RegistrySound'
    BY <2>3 DEF RegistrySound, NoSharedBuffer, ResourcesBacked, KernelsBacked
  <2>5. OnlyBackendFails'
    BY <1>1 DEF NewSession, IntoManager, OnlyBackendFails
  <2>6. mode' # "submitting"
    BY <1>1 DEF NewSession, IntoManager
  <2> QED BY <2>1, <2>2, <2>3, <2>4, <2>5, <2>6
          DEF Preflighted, Position, CallOfCurrent, NoSessionNoHandles
<1>2. CASE mode = "host" /\ (HostStep \/ ReturnDispatch) /\ UNCHANGED sessionVars
  <2>1. ManagerInv'
    BY <1>2, HostStepKeepsInv, ReturnKeepsInv
  <2>2. /\ mode' = "host" /\ DOMAIN resources' = {} /\ DOMAIN kernels' = {}
        /\ TypeOK' /\ OnlyBackendFails'
    BY <1>2, <2>1 DEF sessionVars, registryVars, listVars, NoSessionNoHandles, TypeOK,
                      OnlyBackendFails, ManagerInv
  <2>3. RegistrySound'
    BY <2>2 DEF RegistrySound, NoSharedBuffer, ResourcesBacked, KernelsBacked
  <2> QED BY <2>1, <2>2, <2>3
          DEF Preflighted, Position, CallOfCurrent, NoSessionNoHandles
<1> QED BY <1>1, <1>2 DEF Host

-----------------------------------------------------------------------------
(* Registration: the manager rests.                                        *)
LEMMA RegisterResourceKeepsInv ==
  ASSUME SessionInv, NEW h \in Handles, NEW b, RegisterResource(h, b)
  PROVE  SessionInv'
<1> USE DEF SessionInv
<1>1. /\ ManagerInv' /\ call.pc = "idle" /\ call' = call /\ mode' = "session"
      /\ storage' = storage /\ pipelines' = pipelines
      /\ report' = report /\ kernels' = kernels
  BY StutterKeepsInv DEF RegisterResource, CallOfCurrent, managerVars
<1>2. /\ b \in Nat /\ Len(storage[b]) \in Nat
      /\ b \in DOMAIN storage /\ h \notin DOMAIN resources /\ b \notin Backing
      /\ resources' = Insert(resources, h, [buffer |-> b, size |-> Len(storage[b])])
      /\ resourceBytes' = resourceBytes + Len(storage[b])
  BY DEF RegisterResource, ManagerInv, ManagerTypeOK
<1>3. /\ DOMAIN resources' = DOMAIN resources \union {h}
      /\ resources'[h] = [buffer |-> b, size |-> Len(storage[b])]
      /\ \A g \in DOMAIN resources : g # h /\ resources'[g] = resources[g]
  BY <1>2 DEF Insert
<1>4. TypeOK'
  BY <1>1, <1>2, <1>3 DEF TypeOK, RegisterResource, listVars, ManagerInv
<1>5. NoSharedBuffer'
  BY <1>2, <1>3 DEF RegistrySound, NoSharedBuffer, Backing
<1>6. ResourcesBacked'
  BY <1>1, <1>2, <1>3 DEF RegistrySound, ResourcesBacked
<1>7. KernelsBacked'
  <2>1. Backing \subseteq Backing'
    BY <1>3 DEF Backing
  <2> QED BY <1>1, <2>1 DEF RegistrySound, KernelsBacked, InStorage, Bound
<1> QED BY <1>1, <1>4, <1>5, <1>6, <1>7, IdleSession DEF RegistrySound

LEMMA UnregisterResourceKeepsInv ==
  ASSUME SessionInv, NEW h, UnregisterResource(h)
  PROVE  SessionInv'
<1> USE DEF SessionInv
<1>1. /\ ManagerInv' /\ call.pc = "idle" /\ call' = call /\ mode' = "session"
      /\ storage' = storage /\ pipelines' = pipelines
      /\ report' = report /\ kernels' = kernels
  BY StutterKeepsInv DEF UnregisterResource, CallOfCurrent, managerVars
<1>2. /\ DOMAIN resources' = DOMAIN resources \ {h}
      /\ \A g \in DOMAIN resources \ {h} : resources'[g] = resources[g]
  BY DEF UnregisterResource, Remove
<1>3. TypeOK'
  BY <1>1, <1>2 DEF TypeOK, UnregisterResource, listVars, ManagerInv
<1>4. NoSharedBuffer' /\ ResourcesBacked'
  BY <1>1, <1>2 DEF RegistrySound, NoSharedBuffer, ResourcesBacked
<1>5. KernelsBacked'
  <2>1. ASSUME NEW k \in DOMAIN kernels, NEW i \in 1..Len(Bound(kernels[k]))
        PROVE  Bound(kernels[k])[i].buffer \in Backing'
    <3>1. PICK g \in DOMAIN resources :
            resources[g].buffer = Bound(kernels[k])[i].buffer
      BY DEF RegistrySound, KernelsBacked, Backing
    <3>2. kernels[k] \in DOMAIN pipelines
      BY DEF RegistrySound, KernelsBacked
    <3>3. g # h
      BY <3>1, <3>2 DEF UnregisterResource, InUse
    <3> QED BY <1>2, <3>1, <3>3 DEF Backing
  <2> QED BY <1>1, <2>1 DEF RegistrySound, KernelsBacked, InStorage, Bound
<1> QED BY <1>1, <1>3, <1>4, <1>5, IdleSession DEF RegistrySound

LEMMA RegisterKernelKeepsInv ==
  ASSUME SessionInv, NEW k \in GuestIds, NEW p, RegisterKernel(k, p)
  PROVE  SessionInv'
<1> USE DEF SessionInv
<1>1. /\ ManagerInv' /\ call.pc = "idle" /\ call' = call /\ mode' = "session"
      /\ storage' = storage /\ pipelines' = pipelines
      /\ report' = report /\ resources' = resources
  BY StutterKeepsInv DEF RegisterKernel, CallOfCurrent, managerVars, registryVars
<1>2. /\ p \in DOMAIN pipelines /\ p \in Nat /\ k \notin DOMAIN kernels
      /\ ValidDispatch(pipelines[p], 1)
      /\ kernels' = Insert(kernels, k, p)
      /\ \A i \in 1..Len(Bound(p)) : Registered(Bound(p)[i])
  BY DEF RegisterKernel, ManagerInv, ManagerTypeOK
<1>3. /\ DOMAIN kernels' = DOMAIN kernels \union {k} /\ kernels'[k] = p
      /\ \A j \in DOMAIN kernels : kernels'[j] = kernels[j]
  BY <1>2 DEF Insert
<1>4. TypeOK'
  BY <1>1, <1>2, <1>3 DEF TypeOK, RegisterKernel, listVars, ManagerInv
<1>5. \A i \in 1..Len(Bound(p)) : Bound(p)[i].buffer \in Backing
  BY <1>2 DEF Registered, Backing
<1>6. InStorage(pipelines[p])
  <2>1. ASSUME NEW i \in 1..Len(Bound(p))
        PROVE  /\ Bound(p)[i].buffer \in DOMAIN storage
               /\ Bound(p)[i].offset + Bound(p)[i].size <= Len(storage[Bound(p)[i].buffer])
    BY <1>2 DEF Registered, RegistrySound, ResourcesBacked
  <2> QED BY <2>1 DEF InStorage, Bound
<1>7. NoSharedBuffer' /\ ResourcesBacked'
  BY <1>1 DEF RegistrySound, NoSharedBuffer, ResourcesBacked
<1>8. Backing' = Backing /\ (\A q : InStorage(q)' <=> InStorage(q))
      /\ \A q : Bound(q)' = Bound(q)
  BY <1>1 DEF Backing, InStorage, Bound
<1>9. KernelsBacked'
  <2> SUFFICES ASSUME NEW j \in DOMAIN kernels'
               PROVE  /\ kernels'[j] \in DOMAIN pipelines
                      /\ ValidDispatch(pipelines[kernels'[j]], 1)
                      /\ \A i \in 1..Len(Bound(kernels'[j])) :
                           Bound(kernels'[j])[i].buffer \in Backing
                      /\ InStorage(pipelines[kernels'[j]])
    BY <1>1, <1>8 DEF KernelsBacked, InStorage, Bound
  <2>1. CASE j = k
    BY <1>2, <1>3, <1>5, <1>6, <2>1
  <2>2. CASE j # k
    BY <1>3, <2>2 DEF RegistrySound, KernelsBacked
  <2> QED BY <2>1, <2>2
<1> QED BY <1>1, <1>4, <1>7, <1>9, IdleSession DEF RegistrySound

LEMMA UnregisterKernelKeepsInv ==
  ASSUME SessionInv, NEW k, UnregisterKernel(k)
  PROVE  SessionInv'
<1> USE DEF SessionInv
<1>1. /\ ManagerInv' /\ call.pc = "idle" /\ call' = call /\ mode' = "session"
      /\ storage' = storage /\ pipelines' = pipelines
      /\ report' = report /\ resources' = resources
  BY StutterKeepsInv DEF UnregisterKernel, CallOfCurrent, managerVars
<1>2. /\ DOMAIN kernels' = DOMAIN kernels \ {k}
      /\ \A j \in DOMAIN kernels \ {k} : kernels'[j] = kernels[j]
  BY DEF UnregisterKernel, Remove
<1>3. TypeOK'
  BY <1>1, <1>2 DEF TypeOK, UnregisterKernel, listVars, ManagerInv
<1>4. NoSharedBuffer' /\ ResourcesBacked'
  BY <1>1 DEF RegistrySound, NoSharedBuffer, ResourcesBacked
<1>5. KernelsBacked'
  <2> SUFFICES ASSUME NEW j \in DOMAIN kernels'
               PROVE  /\ kernels'[j] \in DOMAIN pipelines
                      /\ ValidDispatch(pipelines[kernels'[j]], 1)
                      /\ \A i \in 1..Len(Bound(kernels'[j])) :
                           Bound(kernels'[j])[i].buffer \in Backing
                      /\ InStorage(pipelines[kernels'[j]])
    BY <1>1 DEF KernelsBacked, InStorage, Bound, Backing
  <2> QED BY <1>2 DEF RegistrySound, KernelsBacked
<1> QED BY <1>1, <1>3, <1>4, <1>5, IdleSession DEF RegistrySound

LEMMA WriteResourceKeepsInv ==
  ASSUME SessionInv, NEW h, NEW data \in Seq(Value), WriteResource(h, data)
  PROVE  SessionInv'
<1> USE DEF SessionInv
<1>1. call.pc = "idle" /\ mode = "session" /\ UNCHANGED sessionVars /\ call' = call
  BY DEF WriteResource, CallOfCurrent
<1>2. /\ ManagerInv' /\ pipelines' = pipelines
      /\ DOMAIN storage' = DOMAIN storage
      /\ \A b \in DOMAIN storage : Len(storage'[b]) = Len(storage[b])
  BY <1>1, WriteKeepsManagerInv DEF WriteResource, Accessible
<1>3. RegistrySound'
  BY <1>1, <1>2, SizesKeepRegistry DEF sessionVars, registryVars
<1>4. TypeOK'
  BY <1>1, <1>2 DEF sessionVars, registryVars, listVars, TypeOK, ManagerInv
<1> QED BY <1>1, <1>2, <1>3, <1>4, IdleSession DEF sessionVars

LEMMA RegistrationKeepsInv ==
  ASSUME SessionInv, Registration
  PROVE  SessionInv'
<1>1. ASSUME NEW h \in Handles, NEW n \in Sizes, NEW v \in Value,
             WriteResource(h, Fill(n, v))
      PROVE  SessionInv'
  <2>1. Fill(n, v) \in Seq(Value)
    BY FillType, ManagerAssumption
  <2> QED BY <1>1, <2>1, WriteResourceKeepsInv
<1> QED BY <1>1, RegisterResourceKeepsInv, UnregisterResourceKeepsInv,
           RegisterKernelKeepsInv, UnregisterKernelKeepsInv DEF Registration

-----------------------------------------------------------------------------
(* Submission: nothing happens, or the whole list passed preflight.         *)
LEMMA SubmissionKeepsInv ==
  ASSUME SessionInv, Submission
  PROVE  SessionInv'
<1> USE DEF SessionInv
<1>1. ASSUME NEW at \in Nat, NEW cause \in {"malformed", "limit", "command"},
             mode = "session", Rejected(Report("rejected", cause, at, 0))
      PROVE  SessionInv'
  <2>1. /\ ManagerInv' /\ call.pc = "idle" /\ call' = call /\ mode' = "session"
        /\ storage' = storage /\ pipelines' = pipelines
        /\ resources' = resources /\ kernels' = kernels
    BY <1>1, StutterKeepsInv DEF Rejected, CallOfCurrent, managerVars, registryVars
  <2>2. RegistrySound'
    BY <2>1, SizesKeepRegistry
  <2>3. TypeOK'
    BY <1>1, <2>1 DEF Rejected, Report, TypeOK, registryVars, listVars, ManagerInv
  <2>4. OnlyBackendFails'
    BY <1>1 DEF Rejected, Report, OnlyBackendFails
  <2> QED BY <2>1, <2>2, <2>3, <2>4
          DEF Preflighted, Position, CallOfCurrent, NoSessionNoHandles
<1>2. ASSUME NEW l \in CommandLists, RejectCommand(l)
      PROVE  SessionInv'
  <2>1. PICK i \in Invalid(l) : Rejected(Report("rejected", "command", i, 0))
    BY <1>2 DEF RejectCommand
  <2>2. i \in Nat
    BY SessionAssumption DEF Invalid
  <2> QED BY <1>1, <1>2, <2>1, <2>2 DEF RejectCommand
<1>3. ASSUME NEW l \in CommandLists, Submit(l)
      PROVE  SessionInv'
  <2>1. /\ ManagerInv' /\ call.pc = "idle" /\ call' = call
        /\ storage' = storage /\ pipelines' = pipelines
        /\ resources' = resources /\ kernels' = kernels /\ resourceBytes' = resourceBytes
        /\ mode' = "submitting" /\ list' = l /\ index' = 1
        /\ completed' = completed /\ report' = report
    BY <1>3, StutterKeepsInv DEF Submit, CallOfCurrent, managerVars, registryVars
  <2>2. RegistrySound'
    BY <2>1, SizesKeepRegistry
  <2>3. TypeOK'
    BY <2>1 DEF TypeOK, ManagerInv
  <2>4. Preflighted'
    <3>1. \A i \in 1..Len(l) : ValidCommand(l[i])
      BY <1>3 DEF Submit, Invalid
    <3> QED BY <2>1, <3>1
            DEF Preflighted, ValidCommand, ValidCopy, ValidLaunch, InResource
  <2>5. Position'
    <3>1. completed + Len(l) <= CounterMax /\ Len(l) \in Nat /\ completed \in Nat
      BY <1>3, SessionAssumption DEF Submit, WithinLimits, TypeOK
    <3> QED BY <2>1, <3>1 DEF Position
  <2> QED BY <2>1, <2>2, <2>3, <2>4, <2>5
          DEF OnlyBackendFails, CallOfCurrent, NoSessionNoHandles
<1>4. CASE RejectWindow
  BY <1>1, <1>4 DEF RejectWindow
<1>5. ASSUME NEW l \in CommandLists, RejectLength(l)
      PROVE  SessionInv'
  BY <1>1, <1>5 DEF RejectLength
<1> QED BY <1>2, <1>3, <1>4, <1>5 DEF Submission

-----------------------------------------------------------------------------
(* Execution.                                                              *)

(* One command is done: the index and the counter move on together.         *)
LEMMA AdvanceKeepsInv ==
  ASSUME SessionInv, mode = "submitting", index <= Len(list), Advance,
         ManagerInv', RegistrySound', pipelines' = pipelines, call'.pc = "idle"
  PROVE  SessionInv'
<1> USE DEF SessionInv
<1>1. /\ mode' = "submitting" /\ list' = list /\ report' = report
      /\ resources' = resources /\ kernels' = kernels /\ resourceBytes' = resourceBytes
      /\ index' = index + 1 /\ completed' = completed + 1
  BY DEF Advance, registryVars
<1>2. /\ Len(list) \in Nat /\ index \in Nat \ {0} /\ completed \in 0..CounterMax
      /\ completed + (Len(list) + 1 - index) <= CounterMax /\ CounterMax \in Nat
  BY SessionAssumption DEF TypeOK, Position
<1>3. /\ index + 1 \in Nat \ {0} /\ completed + 1 \in 0..CounterMax
      /\ index + 1 <= Len(list) + 1
      /\ completed + 1 + (Len(list) + 1 - (index + 1)) <= CounterMax
  BY <1>2
<1>4. TypeOK'
  BY <1>1, <1>3 DEF TypeOK, ManagerInv
<1>5. Preflighted'
  BY <1>1, ValidityFrozen
<1> QED BY <1>1, <1>3, <1>4, <1>5
        DEF Position, OnlyBackendFails, CallOfCurrent, NoSessionNoHandles

(* The list ends, with or without an error.                                *)
LEMMA LeaveKeepsInv ==
  ASSUME SessionInv, NEW status \in {"failed", "ok"}, NEW cause \in {"backend", "none"},
         NEW at \in Nat, NEW count \in Nat, Leave(Report(status, cause, at, count)),
         ManagerInv', RegistrySound', call'.pc = "idle"
  PROVE  SessionInv'
<1> USE DEF SessionInv
<1>1. /\ mode' = "session" /\ index' = 1 /\ completed' = completed
      /\ resources' = resources /\ kernels' = kernels /\ resourceBytes' = resourceBytes
  BY DEF Leave, registryVars
<1>2. TypeOK' /\ OnlyBackendFails'
  BY <1>1 DEF TypeOK, Leave, Report, OnlyBackendFails, ManagerInv
<1> QED BY <1>1, <1>2 DEF Preflighted, Position, CallOfCurrent, NoSessionNoHandles

(* The command about to run is still what preflight accepted.               *)
LEMMA CurrentValid ==
  ASSUME SessionInv, mode = "submitting", index <= Len(list)
  PROVE  /\ ValidCommand(Current)
         /\ Current.op = "copy" => ValidCopy(Current) /\ Current.size \in Nat
         /\ Current.op = "dispatch" => ValidLaunch(Current)
<1>1. index \in 1..Len(list) /\ list \in CommandLists
  BY SessionAssumption DEF SessionInv, TypeOK
<1>2. ValidCommand(Current)
  BY <1>1 DEF SessionInv, Preflighted, Current
<1> QED BY <1>1, <1>2, SessionAssumption DEF ValidCommand, Current

LEMMA InResourceAccessible ==
  ASSUME SessionInv, NEW h, NEW n, InResource(h, n)
  PROVE  Accessible(h, n)
BY DEF InResource, Accessible, SessionInv, RegistrySound, ResourcesBacked

LEMMA CopyKeepsInv ==
  ASSUME SessionInv, ExecuteCopy
  PROVE  SessionInv'
<1> DEFINE source == resources[Current.src].buffer
           data == Slice(storage[source], 0, Current.size)
           target == resources[Current.dst].buffer
<1>1. /\ mode = "submitting" /\ index <= Len(list) /\ Current.op = "copy"
      /\ call.pc = "idle" /\ call' = call
      /\ UNCHANGED <<pipelines, nextId, nextHandle, backend, fences>>
  BY DEF ExecuteCopy, Executing, SessionInv, CallOfCurrent
<1>2. /\ Accessible(Current.src, Current.size) /\ Accessible(Current.dst, Current.size)
      /\ Current.size \in Nat
  BY <1>1, CurrentValid, InResourceAccessible DEF ValidCopy
<1>3. storage' = [storage EXCEPT ![target] = Overwrite(@, 0, data)] /\ Advance
  BY <1>2 DEF ExecuteCopy
<1>4. data \in Seq(Value) /\ target \in DOMAIN storage
  <2>1. /\ source \in DOMAIN storage /\ 0 + Current.size <= Len(storage[source])
        /\ target \in DOMAIN storage
    BY <1>2 DEF Accessible
  <2>2. storage[source] \in Seq(Value)
    BY <2>1 DEF SessionInv, ManagerInv, ManagerTypeOK
  <2> QED BY <1>2, <2>1, <2>2, SliceType
<1> HIDE DEF data, target
<1>5. /\ ManagerInv' /\ DOMAIN storage' = DOMAIN storage
      /\ \A b \in DOMAIN storage : Len(storage'[b]) = Len(storage[b])
  BY <1>1, <1>3, <1>4, WriteKeepsManagerInv DEF SessionInv
<1>6. RegistrySound'
  BY <1>1, <1>3, <1>5, SizesKeepRegistry DEF Advance, registryVars, SessionInv
<1> QED BY <1>1, <1>3, <1>5, <1>6, AdvanceKeepsInv

LEMMA LaunchKeepsInv ==
  ASSUME SessionInv, ExecuteDispatch
  PROVE  SessionInv'
<1> DEFINE p == kernels[Current.kernel]
<1>1. /\ mode = "submitting" /\ index <= Len(list) /\ Current.op = "dispatch"
      /\ call.pc = "idle"
  BY DEF ExecuteDispatch, Executing
<1>2. /\ Current.kernel \in DOMAIN kernels /\ p \in DOMAIN pipelines /\ p \in Nat
      /\ ValidDispatch(pipelines[p], Current.grid) /\ InStorage(pipelines[p])
  BY <1>1, CurrentValid DEF ValidLaunch, SessionInv, RegistrySound, KernelsBacked,
                            ManagerInv, ManagerTypeOK
<1>3. Current.grid # 0
  <2>1. pipelines[p].workgroup \in Nat
    BY <1>2, ManagerAssumption DEF SessionInv, ManagerInv, ManagerTypeOK
  <2>2. 0 * pipelines[p].workgroup = 0
    BY <2>1
  <2>3. Current.grid * pipelines[p].workgroup # 0
    BY <1>2, ManagerAssumption DEF ValidDispatch
  <2> QED BY <2>2, <2>3
<1>4. Runnable(p, Current.grid)
  BY <1>2, <1>3 DEF Runnable
<1>5. CASE backend # "absent"
  <2>1. BeginExecutorDispatch(p, Current.grid) /\ UNCHANGED sessionVars
    BY <1>2, <1>4, <1>5 DEF ExecuteDispatch
  <2>2. ManagerInv'
    BY <1>2, <2>1, ExecutorBeginKeepsInv DEF SessionInv
  <2>3. /\ pipelines' = pipelines /\ storage' = storage /\ call'.id = p
    BY <2>1 DEF BeginExecutorDispatch, Started
  <2>4. RegistrySound' /\ Preflighted'
    BY <2>1, <2>3, SizesKeepRegistry, ValidityFrozen
       DEF sessionVars, registryVars, listVars, SessionInv
  <2>5. TypeOK'
    BY <2>1, <2>2 DEF sessionVars, registryVars, listVars, TypeOK, SessionInv, ManagerInv
  <2>6. CallOfCurrent'
    BY <1>1, <1>2, <2>1, <2>3
       DEF sessionVars, registryVars, listVars, CallOfCurrent, Current
  <2> QED BY <1>1, <2>1, <2>2, <2>4, <2>5, <2>6
          DEF sessionVars, registryVars, listVars, SessionInv, OnlyBackendFails, Position,
              NoSessionNoHandles
<1>6. CASE backend = "absent"
  <2>1. Leave(Report("failed", "backend", index, index - 1)) /\ UNCHANGED managerVars
    BY <1>2, <1>4, <1>6 DEF ExecuteDispatch, Abort
  <2>2. ManagerInv' /\ call'.pc = "idle"
    BY <1>1, <2>1, StutterKeepsInv DEF SessionInv, managerVars
  <2>3. RegistrySound'
    BY <2>1, SizesKeepRegistry DEF Leave, registryVars, managerVars, SessionInv
  <2>4. index \in Nat /\ index - 1 \in Nat
    BY DEF SessionInv, TypeOK
  <2> QED BY <2>1, <2>2, <2>3, <2>4, LeaveKeepsInv
<1> QED BY <1>5, <1>6

LEMMA FinishDispatchKeepsInv ==
  ASSUME SessionInv, FinishDispatch
  PROVE  SessionInv'
<1>1. /\ mode = "submitting" /\ index <= Len(list) /\ ReturnDispatch
      /\ call'.pc = "idle" /\ pipelines' = pipelines /\ storage' = storage
      /\ Advance \/ Abort("backend")
  BY DEF FinishDispatch, Executing, ReturnDispatch, Idle
<1>2. ManagerInv'
  BY <1>1, ReturnKeepsInv DEF SessionInv
<1>3. resources' = resources /\ kernels' = kernels
  BY <1>1 DEF Advance, Abort, Leave, registryVars
<1>4. RegistrySound'
  BY <1>1, <1>3, SizesKeepRegistry DEF SessionInv
<1>5. CASE Advance
  BY <1>1, <1>2, <1>4, <1>5, AdvanceKeepsInv
<1>6. CASE Abort("backend")
  <2>1. index \in Nat /\ index - 1 \in Nat
    BY DEF SessionInv, TypeOK
  <2> QED BY <1>1, <1>2, <1>4, <1>6, <2>1, LeaveKeepsInv DEF Abort
<1> QED BY <1>1, <1>5, <1>6

LEMMA FinishListKeepsInv ==
  ASSUME SessionInv, FinishList
  PROVE  SessionInv'
<1>1. /\ mode = "submitting" /\ index > Len(list) /\ UNCHANGED managerVars
      /\ Leave(Report("ok", "none", 0, Len(list)))
  BY DEF FinishList
<1>2. Len(list) \in Nat /\ index \in Nat
  BY <1>1, SessionAssumption DEF SessionInv, TypeOK
<1>3. call.pc = "idle" /\ call' = call /\ ManagerInv'
  BY <1>1, <1>2, StutterKeepsInv DEF SessionInv, CallOfCurrent, managerVars
<1>4. RegistrySound'
  BY <1>1, SizesKeepRegistry DEF Leave, registryVars, managerVars, SessionInv
<1> QED BY <1>1, <1>2, <1>3, <1>4, LeaveKeepsInv

LEMMA BackendStepKeepsInv ==
  ASSUME SessionInv, DispatchStep, UNCHANGED sessionVars
  PROVE  SessionInv'
<1>1. ManagerInv'
  BY DispatchStepKeepsInv DEF SessionInv
<1>2. RegistrySound' /\ Preflighted'
  BY DispatchStepShape, SizesKeepRegistry, ValidityFrozen
     DEF SessionInv, sessionVars, registryVars, listVars
<1>3. TypeOK'
  BY <1>1 DEF SessionInv, ManagerInv, TypeOK, sessionVars, registryVars, listVars
<1>4. CallOfCurrent'
  BY DispatchStepShape
     DEF SessionInv, CallOfCurrent, Current, sessionVars, registryVars, listVars
<1> QED BY <1>1, <1>2, <1>3, <1>4
        DEF SessionInv, OnlyBackendFails, Position, NoSessionNoHandles,
            sessionVars, registryVars, listVars

-----------------------------------------------------------------------------
LEMMA SessionInitInv == Init => SessionInv
<1> SUFFICES ASSUME Init PROVE SessionInv
  OBVIOUS
<1>1. ManagerInv
  BY InitInv DEF Init
<1>2. DOMAIN resources = {} /\ DOMAIN kernels = {} /\ mode = "host"
  BY DEF Init
<1>3. TypeOK
  BY <1>1, <1>2, SessionAssumption DEF Init, TypeOK, ManagerInv, Report
<1>4. RegistrySound
  BY <1>2 DEF RegistrySound, NoSharedBuffer, ResourcesBacked, KernelsBacked
<1> QED BY <1>1, <1>2, <1>3, <1>4
        DEF Init, SessionInv, OnlyBackendFails, Report, Preflighted, Position,
            CallOfCurrent, NoSessionNoHandles

LEMMA SessionStutter ==
  ASSUME SessionInv, UNCHANGED vars
  PROVE  SessionInv'
<1> USE DEF SessionInv, vars, sessionVars, registryVars, listVars, managerVars
<1>1. ManagerInv'
  BY StutterKeepsInv
<1>2. RegistrySound' /\ Preflighted'
  BY SizesKeepRegistry, ValidityFrozen
<1>3. TypeOK'
  BY <1>1 DEF TypeOK, ManagerInv
<1> QED BY <1>1, <1>2, <1>3
        DEF OnlyBackendFails, Position, CallOfCurrent, Current, NoSessionNoHandles

LEMMA SessionNextInv ==
  ASSUME SessionInv, [Next]_vars
  PROVE  SessionInv'
<1>1. CASE Execution
  BY <1>1, CopyKeepsInv, LaunchKeepsInv, FinishDispatchKeepsInv, FinishListKeepsInv,
     BackendStepKeepsInv DEF Execution
<1> QED BY <1>1, HostKeepsSessionInv, RegistrationKeepsInv, SubmissionKeepsInv,
           SessionStutter DEF Next

(* The inductive invariant holds in every state of a session.               *)
THEOREM SessionInvariance == Spec => []SessionInv
<1>1. Init => SessionInv
  BY SessionInitInv
<1>2. SessionInv /\ [Next]_vars => SessionInv'
  BY SessionNextInv
<1> QED BY <1>1, <1>2, PTL DEF Spec

(* Types; the counter of completed commands never leaves its width.         *)
THEOREM TypeCorrect == Spec => []TypeOK
<1>1. SessionInv => TypeOK
  BY DEF SessionInv
<1> QED BY <1>1, SessionInvariance, PTL

(* No sequence of registrations leaves a handle or a kernel dangling.       *)
THEOREM RegistryIsSound == Spec => []RegistrySound
<1>1. SessionInv => RegistrySound
  BY DEF SessionInv
<1> QED BY <1>1, SessionInvariance, PTL

(* A list that passed preflight is stopped by the backend or not at all.    *)
THEOREM PreflightSuffices == Spec => []OnlyBackendFails
<1>1. SessionInv => OnlyBackendFails
  BY DEF SessionInv
<1> QED BY <1>1, SessionInvariance, PTL

-----------------------------------------------------------------------------
(* Sums over finite sets.                                                  *)

(* Induction, for a set of numbers.                                         *)
LEMMA EveryNumber ==
  ASSUME NEW T \in SUBSET Nat, 0 \in T, \A n \in T : n + 1 \in T
  PROVE  T = Nat
<1> SUFFICES ASSUME Nat \ T # {} PROVE FALSE
  OBVIOUS
<1>1. PICK n \in Nat \ T : \A m \in Nat \ T : <<m, n>> \notin OpToRel(<, Nat)
  BY NatLessThanWellFounded, WFMin
<1>2. \A m \in Nat \ T : ~(m < n)
  BY <1>1 DEF OpToRel
<1>3. n # 0 /\ n - 1 \in Nat
  OBVIOUS
<1>4. n - 1 \in T
  BY <1>2, <1>3
<1> QED BY <1>4

(* The bytes of the records r[h] for h in D, as MapThenSumSet adds them up: *)
(* g is its recursive function on the subsets of U.                         *)
Total(r, D) == MapThenSumSet(LAMBDA h : r[h].size, D)
Pick(s) == CHOOSE x \in s : TRUE
Sums(r, U, g) ==
  g = [s \in SUBSET U |-> IF s = {} THEN 0 ELSE r[Pick(s)].size + g[s \ {Pick(s)}]]

LEMMA TotalIs ==
  ASSUME NEW r, NEW U
  PROVE  Total(r, U) = (CHOOSE g : Sums(r, U, g))[U]
BY DEF Total, MapThenSumSet, MapThenFoldSet, Sums, Pick

LEMMA SumsOfNone ==
  ASSUME NEW r, NEW U, NEW g, Sums(r, U, g)
  PROVE  g[{}] = 0
<1>1. {} \in SUBSET U
  OBVIOUS
<1>2. PICK B : B = [s \in SUBSET U |->
                      IF s = {} THEN 0 ELSE r[Pick(s)].size + g[s \ {Pick(s)}]]
  OBVIOUS
<1>3. B[{}] = 0
  BY <1>1, <1>2
<1> QED BY <1>2, <1>3 DEF Sums

LEMMA SumsOfSome ==
  ASSUME NEW r, NEW U, NEW g, Sums(r, U, g), NEW s \in SUBSET U, s # {}
  PROVE  g[s] = r[Pick(s)].size + g[s \ {Pick(s)}]
BY DEF Sums

LEMMA PickIn == ASSUME NEW s, s # {} PROVE Pick(s) \in s
BY DEF Pick

(* A recursive definition over the finite sets defines something.           *)
LEMMA SumsExist ==
  ASSUME NEW r, NEW U, IsFiniteSet(U)
  PROVE  \E g : Sums(r, U, g)
<1> DEFINE Small(n) == {s \in SUBSET U : Cardinality(s) <= n}
           Body(g, s) == IF s = {} THEN 0 ELSE r[Pick(s)].size + g[s \ {Pick(s)}]
           T == {n \in Nat : \E g : g = [s \in Small(n) |-> Body(g, s)]}
<1>0. /\ \A s \in SUBSET U : IsFiniteSet(s) /\ Cardinality(s) \in Nat
      /\ \A s \in SUBSET U : s # {} => Cardinality(s \ {Pick(s)}) = Cardinality(s) - 1
  BY FS_Subset, FS_CardinalityType, FS_RemoveElement, PickIn
<1>1. 0 \in T
  <2> DEFINE z == [s \in Small(0) |-> 0]
  <2>1. \A s \in Small(0) : s = {}
    BY <1>0, FS_EmptySet
  <2>2. z = [s \in Small(0) |-> Body(z, s)]
    BY <2>1
  <2> QED BY <2>2
<1>2. ASSUME NEW n \in T PROVE n + 1 \in T
  <2>1. PICK g : g = [s \in Small(n) |-> Body(g, s)]
    BY <1>2
  <2> DEFINE k == [s \in Small(n + 1) |-> Body(g, s)]
  <2>2. n \in Nat
    OBVIOUS
  <2>3. Small(n) \subseteq Small(n + 1)
    BY <1>0, <2>2
  <2>4. \A s \in Small(n) : k[s] = g[s]
    <3> TAKE s \in Small(n)
    <3>1. g[s] = Body(g, s)
      BY <2>1
    <3> QED BY <2>3, <3>1
  <2>5. \A s \in Small(n + 1) : s # {} => s \ {Pick(s)} \in Small(n)
    BY <1>0, <2>2
  <2>6. \A s \in Small(n + 1) : Body(g, s) = Body(k, s)
    BY <2>4, <2>5
  <2>7. k = [s \in Small(n + 1) |-> Body(k, s)]
    BY <2>6
  <2> HIDE DEF k, Small, Body
  <2> QED BY <2>2, <2>7
<1>3. T = Nat
  <2> HIDE DEF Small, Body
  <2> QED BY <1>1, <1>2, EveryNumber
<1>4. Cardinality(U) \in Nat /\ Small(Cardinality(U)) = SUBSET U
  BY <1>0, FS_Subset
<1>5. PICK g : g = [s \in Small(Cardinality(U)) |-> Body(g, s)]
  <2> HIDE DEF Small, Body
  <2> QED BY <1>3, <1>4
<1> QED BY <1>4, <1>5 DEF Sums

(* A sum depends on what is added, not on where it is defined.              *)
LEMMA SumsAgree ==
  ASSUME NEW r, NEW U, NEW g, Sums(r, U, g), NEW q, NEW V, NEW k, Sums(q, V, k),
         NEW S \in SUBSET U, S \in SUBSET V, IsFiniteSet(S),
         \A x \in S : r[x].size \in Nat /\ q[x].size = r[x].size
  PROVE  g[S] = k[S] /\ g[S] \in Nat
<1> DEFINE T == {n \in Nat : \A s \in SUBSET S :
                   Cardinality(s) = n => g[s] = k[s] /\ g[s] \in Nat}
<1>0. \A s \in SUBSET S : IsFiniteSet(s) /\ Cardinality(s) \in Nat
  BY FS_Subset, FS_CardinalityType
<1>1. 0 \in T
  <2>1. \A s \in SUBSET S : Cardinality(s) = 0 => s = {}
    BY <1>0, FS_EmptySet
  <2>2. g[{}] = 0 /\ k[{}] = 0
    BY SumsOfNone
  <2> QED BY <2>1, <2>2
<1>2. ASSUME NEW n \in T PROVE n + 1 \in T
  <2> SUFFICES ASSUME NEW s \in SUBSET S, Cardinality(s) = n + 1
               PROVE  g[s] = k[s] /\ g[s] \in Nat
    OBVIOUS
  <2>1. n \in Nat /\ s # {}
    <3>1. Cardinality(s) # 0
      OBVIOUS
    <3> QED BY <3>1, FS_EmptySet
  <2>2. PICK x : x = Pick(s)
    OBVIOUS
  <2>3. x \in s /\ r[x].size \in Nat /\ q[x].size = r[x].size
    BY <2>1, <2>2, PickIn
  <2>4. Cardinality(s \ {x}) = n
    <3>1. IsFiniteSet(s) /\ Cardinality(s \ {x}) = Cardinality(s) - 1
      BY <1>0, <2>3, FS_RemoveElement
    <3> QED BY <2>1, <3>1
  <2>5. g[s \ {x}] = k[s \ {x}] /\ g[s \ {x}] \in Nat
    BY <1>2, <2>4
  <2>6. s \in SUBSET U /\ s \in SUBSET V
    OBVIOUS
  <2>7. g[s] = r[x].size + g[s \ {x}]
    BY <2>1, <2>2, <2>6, SumsOfSome
  <2>8. k[s] = q[x].size + k[s \ {x}]
    BY <2>1, <2>2, <2>6, SumsOfSome
  <2> QED BY <2>3, <2>5, <2>7, <2>8
<1>3. T = Nat
  <2> HIDE DEF T
  <2> QED BY <1>1, <1>2, EveryNumber DEF T
<1> QED BY <1>0, <1>3

(* Any element may be taken out first.                                      *)
LEMMA SumsSplit ==
  ASSUME NEW r, NEW U, NEW g, Sums(r, U, g), IsFiniteSet(U),
         \A x \in U : r[x].size \in Nat, NEW y \in U
  PROVE  g[U] = r[y].size + g[U \ {y}]
<1> DEFINE T == {n \in Nat : \A s \in SUBSET U :
                   Cardinality(s) = n => \A z \in s : g[s] = r[z].size + g[s \ {z}]}
<1>0. \A s \in SUBSET U : IsFiniteSet(s) /\ Cardinality(s) \in Nat /\ g[s] \in Nat
  BY FS_Subset, FS_CardinalityType, SumsAgree
<1>1. 0 \in T
  BY <1>0, FS_EmptySet
<1>2. ASSUME NEW n \in T PROVE n + 1 \in T
  <2> SUFFICES ASSUME NEW s \in SUBSET U, Cardinality(s) = n + 1, NEW z \in s
               PROVE  g[s] = r[z].size + g[s \ {z}]
    OBVIOUS
  <2>1. n \in Nat /\ s # {}
    OBVIOUS
  <2>2. PICK x : x = Pick(s)
    OBVIOUS
  <2>3. x \in s /\ r[x].size \in Nat /\ r[z].size \in Nat
    BY <2>1, <2>2, PickIn
  <2>4. g[s] = r[x].size + g[s \ {x}]
    BY <2>1, <2>2, SumsOfSome
  <2>5. CASE z # x
    <3>1. Cardinality(s \ {x}) = n /\ Cardinality(s \ {z}) = n
      <4>1. IsFiniteSet(s)
        BY <1>0
      <4>2. /\ Cardinality(s \ {x}) = Cardinality(s) - 1
            /\ Cardinality(s \ {z}) = Cardinality(s) - 1
        BY <2>3, <4>1, FS_RemoveElement
      <4> QED BY <2>1, <4>2
    <3>2. /\ g[s \ {x}] = r[z].size + g[(s \ {x}) \ {z}]
          /\ g[s \ {z}] = r[x].size + g[(s \ {z}) \ {x}]
      BY <1>2, <2>3, <2>5, <3>1
    <3>3. (s \ {x}) \ {z} = (s \ {z}) \ {x} /\ g[(s \ {x}) \ {z}] \in Nat
      BY <1>0
    <3>4. PICK a, b, c \in Nat : a = r[x].size /\ b = r[z].size /\ c = g[(s \ {x}) \ {z}]
      BY <2>3, <3>3
    <3>5. g[s] = a + (b + c) /\ g[s \ {z}] = a + c
      BY <2>4, <3>2, <3>3, <3>4
    <3>6. a + (b + c) = b + (a + c)
      OBVIOUS
    <3> QED BY <3>4, <3>5, <3>6
  <2> QED BY <2>4, <2>5
<1>3. T = Nat
  <2> HIDE DEF T
  <2> QED BY <1>1, <1>2, EveryNumber DEF T
<1> QED BY <1>0, <1>3

LEMMA TotalOfNone == ASSUME NEW r PROVE Total(r, {}) = 0
<1>1. PICK g : g = CHOOSE k : Sums(r, {}, k)
  OBVIOUS
<1>2. Sums(r, {}, g)
  BY <1>1, SumsExist, FS_EmptySet
<1>3. g[{}] = 0
  BY <1>2, SumsOfNone
<1> QED BY <1>1, <1>3, TotalIs

(* One more element adds what it has.                                       *)
LEMMA TotalOfOneMore ==
  ASSUME NEW r, NEW q, NEW D, IsFiniteSet(D), NEW h, h \notin D,
         \A x \in D : r[x].size \in Nat /\ q[x].size = r[x].size, q[h].size \in Nat
  PROVE  /\ Total(r, D) \in Nat
         /\ Total(q, D \cup {h}) = Total(r, D) + q[h].size
<1>1. PICK g : g = CHOOSE k : Sums(r, D, k)
  OBVIOUS
<1>2. PICK k : k = CHOOSE j : Sums(q, D \cup {h}, j)
  OBVIOUS
<1>3. IsFiniteSet(D \cup {h})
  BY FS_AddElement
<1>4. Sums(r, D, g) /\ Sums(q, D \cup {h}, k)
  BY <1>1, <1>2, <1>3, SumsExist
<1>5. g[D] = k[D] /\ g[D] \in Nat
  BY <1>4, SumsAgree
<1>6. k[D \cup {h}] = q[h].size + k[(D \cup {h}) \ {h}]
  BY <1>3, <1>4, SumsSplit
<1>7. (D \cup {h}) \ {h} = D
  OBVIOUS
<1>8. Total(r, D) = g[D]
  BY <1>1, TotalIs
<1>9. Total(q, D \cup {h}) = k[D \cup {h}]
  BY <1>2, TotalIs
<1>10. k[D \cup {h}] = q[h].size + g[D]
  BY <1>5, <1>6, <1>7
<1> QED BY <1>5, <1>8, <1>9, <1>10

-----------------------------------------------------------------------------
(* Accounting: the bytes and the number of the registered resources.        *)
AccountingInv == AccountingExact /\ IsFiniteSet(DOMAIN resources)

Accounted(r, bytes, count) ==
  /\ bytes = Total(r, DOMAIN r) /\ bytes <= MaxTotalResourceBytes
  /\ IsFiniteSet(DOMAIN r) /\ Cardinality(DOMAIN r) <= MaxResources
  /\ count <= CounterMax

LEMMA AccountingIs == AccountingInv <=> Accounted(resources, resourceBytes, completed)
BY DEF AccountingInv, AccountingExact, Accounted, Total

LEMMA AccountingWillBe == AccountingInv' <=> Accounted(resources', resourceBytes', completed')
<1>1. AccountingInv' <=> Accounted(resources, resourceBytes, completed)'
  BY AccountingIs, PTL
<1>2. Accounted(resources, resourceBytes, completed)'
        <=> Accounted(resources', resourceBytes', completed')
  BY DEF Accounted
<1> QED BY <1>1, <1>2

LEMMA RegisterAccounts ==
  ASSUME SessionInv, AccountingInv, NEW h, NEW b, RegisterResource(h, b)
  PROVE  AccountingInv'
<1>1. PICK r, q : r = resources /\ q = resources'
  OBVIOUS
<1>2. PICK D : D = DOMAIN r /\ IsFiniteSet(D) /\ h \notin D
  BY <1>1 DEF RegisterResource, AccountingInv
<1>3. /\ q = Insert(r, h, [buffer |-> b, size |-> Len(storage[b])])
      /\ Len(storage[b]) \in Nat /\ resourceBytes' = resourceBytes + Len(storage[b])
      /\ resourceBytes' <= MaxTotalResourceBytes /\ Cardinality(D) < MaxResources
  BY <1>1, <1>2 DEF RegisterResource
<1>4. /\ DOMAIN q = D \cup {h} /\ q[h].size = Len(storage[b])
      /\ \A x \in D : q[x] = r[x]
  BY <1>2, <1>3 DEF Insert
<1>5. \A x \in D : r[x].size \in Nat
  BY <1>1, <1>2 DEF SessionInv, TypeOK
<1>6. Total(r, D) \in Nat /\ Total(q, D \cup {h}) = Total(r, D) + q[h].size
  <2>1. q[h].size \in Nat /\ \A x \in D : r[x].size \in Nat /\ q[x].size = r[x].size
    <3>1. \A x \in D : q[x].size = r[x].size
      BY <1>4
    <3> QED BY <1>3, <1>4, <1>5, <3>1
  <2>2. /\ IsFiniteSet(D) /\ h \notin D
    BY <1>2
  <2> QED BY <2>1, <2>2, TotalOfOneMore
<1>7. resourceBytes = Total(r, D)
  BY <1>1, <1>2 DEF AccountingInv, AccountingExact, Total
<1>8. resourceBytes' = Total(q, DOMAIN q)
  BY <1>3, <1>4, <1>6, <1>7
<1>9. IsFiniteSet(DOMAIN q) /\ Cardinality(DOMAIN q) <= MaxResources
  <2>1. IsFiniteSet(D \cup {h}) /\ Cardinality(D \cup {h}) = Cardinality(D) + 1
    BY <1>2, FS_AddElement
  <2>2. Cardinality(D) \in Nat
    BY <1>2, FS_CardinalityType
  <2> QED BY <1>3, <1>4, <2>1, <2>2, SessionAssumption
<1>10. completed' <= CounterMax
  BY DEF RegisterResource, AccountingInv, AccountingExact
<1> QED BY <1>1, <1>3, <1>8, <1>9, <1>10, AccountingWillBe DEF Accounted

LEMMA UnregisterAccounts ==
  ASSUME SessionInv, AccountingInv, NEW h, UnregisterResource(h)
  PROVE  AccountingInv'
<1>1. PICK r, q : r = resources /\ q = resources'
  OBVIOUS
<1>2. PICK D : D = DOMAIN r \ {h} /\ h \in DOMAIN r /\ IsFiniteSet(DOMAIN r)
  BY <1>1 DEF UnregisterResource, AccountingInv
<1>3. q = Remove(r, h) /\ resourceBytes' = resourceBytes - r[h].size
  BY <1>1 DEF UnregisterResource
<1>4. DOMAIN q = D /\ DOMAIN r = D \cup {h} /\ \A x \in D : q[x] = r[x]
  BY <1>2, <1>3 DEF Remove
<1>5. \A x \in DOMAIN r : r[x].size \in Nat
  BY <1>1 DEF SessionInv, TypeOK
<1>6. /\ IsFiniteSet(D) /\ Cardinality(D) = Cardinality(DOMAIN r) - 1
      /\ Cardinality(DOMAIN r) \in Nat
  BY <1>2, FS_RemoveElement, FS_CardinalityType
<1>7. Total(q, D) \in Nat /\ Total(r, D \cup {h}) = Total(q, D) + r[h].size
  BY <1>2, <1>4, <1>5, <1>6, TotalOfOneMore
<1>8. /\ resourceBytes = Total(r, DOMAIN r) /\ resourceBytes <= MaxTotalResourceBytes
      /\ Cardinality(DOMAIN r) <= MaxResources
  BY <1>1 DEF AccountingInv, AccountingExact, Total
<1>9. resourceBytes' = Total(q, DOMAIN q) /\ resourceBytes' <= MaxTotalResourceBytes
  <2>1. r[h].size \in Nat
    BY <1>2, <1>5
  <2> QED BY <1>3, <1>4, <1>7, <1>8, <2>1, SessionAssumption
<1>10. Cardinality(DOMAIN q) <= MaxResources
  BY <1>4, <1>6, <1>8, SessionAssumption
<1>11. completed' <= CounterMax
  BY DEF UnregisterResource, AccountingInv, AccountingExact
<1> QED BY <1>1, <1>4, <1>6, <1>9, <1>10, <1>11, AccountingWillBe DEF Accounted

LEMMA EmptyAccounts ==
  ASSUME DOMAIN resources = {}, resourceBytes = 0, completed <= CounterMax
  PROVE  AccountingInv
<1>1. IsFiniteSet({}) /\ Cardinality({}) = 0
  BY FS_EmptySet
<1>2. Total(resources, {}) = 0
  BY TotalOfNone
<1> QED BY <1>1, <1>2, SessionAssumption DEF AccountingInv, AccountingExact, Total

(* resource_bytes is the sum of the registered sizes and, with the number   *)
(* of resources and of completed commands, within its cap, after any        *)
(* sequence of calls.                                                      *)
THEOREM AccountingIsExact == Spec => []AccountingExact
<1>1. Init => AccountingInv
  BY EmptyAccounts, SessionAssumption DEF Init
<1>2. SessionInv /\ SessionInv' /\ AccountingInv /\ [Next]_vars => AccountingInv'
  <2> SUFFICES ASSUME SessionInv, SessionInv', AccountingInv, [Next]_vars PROVE AccountingInv'
    OBVIOUS
  <2>0. completed' <= CounterMax
    BY SessionAssumption DEF SessionInv, TypeOK
  <2>1. CASE NewSession \/ IntoManager
    <3>1. DOMAIN resources' = {} /\ resourceBytes' = 0
      BY <2>1 DEF NewSession, IntoManager, EmptyRegistry
    <3>2. (DOMAIN resources = {} /\ resourceBytes = 0 /\ completed <= CounterMax
             => AccountingInv)'
      BY EmptyAccounts, PTL
    <3> QED BY <2>0, <3>1, <3>2
  <2>2. CASE \E h \in Handles : \/ \E b \in 1..MaxBuffers : RegisterResource(h, b)
                               \/ UnregisterResource(h)
    BY <2>2, RegisterAccounts, UnregisterAccounts
  <2>3. CASE UNCHANGED <<resources, resourceBytes>>
    BY <2>0, <2>3, AccountingIs, AccountingWillBe DEF Accounted
  <2>4. CASE UNCHANGED registryVars
    BY <2>3, <2>4 DEF registryVars
  <2>5. CASE Host
    BY <2>1, <2>4, <2>5 DEF Host, sessionVars
  <2>6. CASE Registration
    BY <2>2, <2>3, <2>4, <2>6
       DEF Registration, RegisterKernel, UnregisterKernel, WriteResource, sessionVars
  <2>7. CASE Submission
    BY <2>4, <2>7
       DEF Submission, RejectWindow, RejectLength, RejectCommand, Rejected, Submit
  <2>8. CASE Execution
    BY <2>4, <2>8
       DEF Execution, ExecuteCopy, ExecuteDispatch, FinishDispatch, FinishList, Advance, Abort,
           Leave, sessionVars
  <2>9. CASE UNCHANGED vars
    BY <2>4, <2>9 DEF vars, sessionVars
  <2> QED BY <2>5, <2>6, <2>7, <2>8, <2>9 DEF Next
<1>3. AccountingInv => AccountingExact
  BY DEF AccountingInv
<1> QED BY <1>1, <1>2, <1>3, SessionInvariance, PTL DEF Spec

-----------------------------------------------------------------------------
(* A commit of the dispatch under way lands in a registered buffer.         *)
LEMMA CommitInBacking ==
  ASSUME SessionInv, mode # "host", Commit, NEW b \in DOMAIN storage \ Backing
  PROVE  storage'[b] = storage[b]
<1> DEFINE c == Bound(call.id)[call.turn]
<1>1. call.pc = "commit" /\ mode = "submitting"
  BY DEF Commit, SessionInv, CallOfCurrent, TypeOK
<1>2. Current.kernel \in DOMAIN kernels /\ call.id = kernels[Current.kernel]
  BY <1>1 DEF SessionInv, CallOfCurrent
<1>3. call.turn \in 1..Len(Bound(call.id))
  BY <1>1 DEF SessionInv, ManagerInv, CallShape
<1>4. c.buffer \in Backing
  BY <1>2, <1>3 DEF SessionInv, RegistrySound, KernelsBacked
<1> QED BY <1>4 DEF Commit

(* Between its host's turns a session changes registered buffers only.      *)
THEOREM GuestIsConfined == Spec => GuestConfined
<1> DEFINE Confined ==
      mode # "host" => \A b \in DOMAIN storage \ Backing : storage'[b] = storage[b]
<1>1. ASSUME SessionInv, [Next]_vars, mode # "host", NEW b \in DOMAIN storage \ Backing
      PROVE  storage'[b] = storage[b]
  <2>1. CASE Host \/ UNCHANGED vars
    BY <1>1, <2>1 DEF Host, NewSession, IntoManager, managerVars, vars
  <2>2. CASE Registration
    BY <1>1, <2>2
       DEF Registration, RegisterResource, UnregisterResource, RegisterKernel,
           UnregisterKernel, WriteResource, Accessible, InResource, Backing, managerVars
  <2>3. CASE Submission
    BY <2>3
       DEF Submission, RejectWindow, RejectLength, RejectCommand, Submit, Rejected,
           managerVars
  <2>4. CASE ExecuteCopy
    BY <1>1, <2>4 DEF ExecuteCopy, Accessible, InResource, Backing
  <2>5. CASE ExecuteDispatch \/ FinishDispatch \/ FinishList
    BY <2>5
       DEF ExecuteDispatch, FinishDispatch, FinishList, BeginExecutorDispatch,
           ReturnDispatch, managerVars
  <2>6. CASE DispatchStep
    <3>1. CASE Commit
      BY <1>1, <3>1, CommitInBacking
    <3> QED BY <2>6, <3>1
            DEF DispatchStep, BackendFails, BackendCompletes, Readback, ReadbackFails,
                SignalFence
  <2> QED BY <1>1, <2>1, <2>2, <2>3, <2>4, <2>5, <2>6 DEF Next, Execution
<1>2. SessionInv /\ [Next]_vars => [Confined]_vars
  BY <1>1
<1> QED BY <1>2, SessionInvariance, PTL DEF Spec, GuestConfined

-----------------------------------------------------------------------------
(* The contract of committed prefixes.  While a dispatch runs its callers   *)
(* may not see what the commit loop stored already.                        *)

(* A range written back where it was read changes nothing.                  *)
LEMMA SliceThenOverwrite ==
  ASSUME NEW bytes \in Seq(Value), NEW offset \in Nat, NEW length \in Nat,
         offset + length <= Len(bytes)
  PROVE  Overwrite(bytes, offset, Slice(bytes, offset, length)) = bytes
<1> DEFINE data == Slice(bytes, offset, length)
           o == Overwrite(bytes, offset, data)
<1>1. data \in Seq(Value) /\ Len(data) = length
  BY SliceType
<1>2. o \in Seq(Value) /\ Len(o) = Len(bytes)
  BY <1>1, OverwriteType
<1>3. \A i \in 1..Len(bytes) : o[i] = bytes[i]
  <2>1. \A j \in 1..length : data[j] = bytes[j + offset]
    BY DEF Slice
  <2>2. \A i \in 1..Len(bytes) :
          o[i] = IF i \in offset + 1 .. offset + length THEN data[i - offset] ELSE bytes[i]
    BY <1>1 DEF Overwrite
  <2> QED BY <2>1, <2>2
<1> QED BY <1>2, <1>3, SameElements

(* The last of two writes to one range wins.                                *)
LEMMA OverwriteTwice ==
  ASSUME NEW bytes \in Seq(Value), NEW offset \in Nat,
         NEW data \in Seq(Value), NEW back \in Seq(Value), Len(data) = Len(back)
  PROVE  Overwrite(Overwrite(bytes, offset, data), offset, back)
           = Overwrite(bytes, offset, back)
<1> DEFINE o == Overwrite(bytes, offset, data)
           p == Overwrite(o, offset, back)
           q == Overwrite(bytes, offset, back)
<1>1. o \in Seq(Value) /\ Len(o) = Len(bytes) /\ q \in Seq(Value) /\ Len(q) = Len(bytes)
  BY OverwriteType
<1>2. p \in Seq(Value) /\ Len(p) = Len(bytes)
  BY <1>1, OverwriteType
<1>3. \A i \in 1..Len(bytes) : p[i] = q[i]
  <2>1. \A i \in 1..Len(bytes) :
          o[i] = IF i \in offset + 1 .. offset + Len(data) THEN data[i - offset] ELSE bytes[i]
    BY DEF Overwrite
  <2>2. \A i \in 1..Len(bytes) :
          q[i] = IF i \in offset + 1 .. offset + Len(back) THEN back[i - offset] ELSE bytes[i]
    BY DEF Overwrite
  <2>3. \A i \in 1..Len(o) :
          p[i] = IF i \in offset + 1 .. offset + Len(back) THEN back[i - offset] ELSE o[i]
    BY DEF Overwrite
  <2> HIDE DEF o, p, q
  <2> QED BY <1>1, <2>1, <2>2, <2>3
<1> QED BY <1>1, <1>2, <1>3, SameElements

(* The bindings of the dispatch under way that name a buffer: one at most.  *)
Mine(b) == {i \in 1..Len(Bound(call.id)) : Bound(call.id)[i].buffer = b}

LEMMA UndoneIs ==
  ASSUME SessionInv, call.pc # "idle", NEW b \in DOMAIN storage
  PROVE  \/ Mine(b) = {} /\ Undone(b) = storage[b]
         \/ \E i \in 1..Len(Bound(call.id)) :
              /\ Mine(b) = {i}
              /\ Undone(b) = Overwrite(storage[b], Bound(call.id)[i].offset, call.views[i])
<1>1. CASE Mine(b) = {}
  BY <1>1 DEF Undone, Mine
<1>2. CASE Mine(b) # {}
  <2>1. PICK i : i = CHOOSE j \in Mine(b) : TRUE
    OBVIOUS
  <2>2. i \in Mine(b)
    BY <1>2, <2>1
  <2>3. \A j \in Mine(b) : j = i
    BY <2>2 DEF Mine, SessionInv, ManagerInv, CallShape, NoAliasing
  <2>4. Undone(b) = Overwrite(storage[b], Bound(call.id)[i].offset, call.views[i])
    BY <1>2, <2>1 DEF Undone, Mine
  <2> QED BY <2>2, <2>3, <2>4 DEF Mine
<1> QED BY <1>1, <1>2

(* Ranges the dispatch under way binds.                                     *)
LEMMA BoundRanges ==
  ASSUME SessionInv, call.pc # "idle", NEW i \in 1..Len(Bound(call.id))
  PROVE  LET r == Bound(call.id)[i] IN
         /\ r.buffer \in DOMAIN storage /\ storage[r.buffer] \in Seq(Value)
         /\ r.offset \in Nat /\ r.size \in Nat /\ r.offset + r.size <= Len(storage[r.buffer])
         /\ call.views[i] \in Seq(Value) /\ Len(call.views[i]) = r.size
<1>1. call.id \in DOMAIN pipelines /\ InStorage(pipelines[call.id]) /\ ManagerTypeOK
  BY DEF SessionInv, ManagerInv, ManagerTypeOK
<1>2. /\ Len(call.views) = Len(Bound(call.id)) /\ call.views \in Seq(Seq(Value))
      /\ Len(call.views[i]) = Bound(call.id)[i].size
  BY DEF SessionInv, ManagerInv, ManagerTypeOK, CallShape
<1>3. /\ Bound(call.id)[i].buffer \in DOMAIN storage
      /\ Bound(call.id)[i].offset + Bound(call.id)[i].size
           <= Len(storage[Bound(call.id)[i].buffer])
  BY <1>1 DEF InStorage, Bound
<1>4. Bound(call.id)[i].offset \in Nat /\ Bound(call.id)[i].size \in Nat
  BY <1>1, BindingType
<1>5. storage[Bound(call.id)[i].buffer] \in Seq(Value)
  BY <1>1, <1>3 DEF ManagerTypeOK
<1>6. call.views[i] \in Seq(Value)
  BY <1>2
<1> QED BY <1>2, <1>3, <1>4, <1>5, <1>6

(* Before its commit, and when it failed, a dispatch has stored nothing.    *)
LEMMA NothingToUndo ==
  SessionInv /\ call.pc \in {"gpu", "read", "failed"} =>
    \A b \in DOMAIN storage : Undone(b) = storage[b]
<1> SUFFICES ASSUME SessionInv, call.pc \in {"gpu", "read", "failed"}, NEW b \in DOMAIN storage
             PROVE  Undone(b) = storage[b]
  OBVIOUS
<1>1. CASE Mine(b) = {}
  BY <1>1, UndoneIs
<1>2. ASSUME NEW i \in 1..Len(Bound(call.id)), Mine(b) = {i},
             Undone(b) = Overwrite(storage[b], Bound(call.id)[i].offset, call.views[i])
      PROVE  Undone(b) = storage[b]
  <2>1. Bound(call.id)[i].buffer = b
    BY <1>2 DEF Mine
  <2>2. call.id \in DOMAIN pipelines /\ InStorage(pipelines[call.id]) /\ ManagerTypeOK
    BY DEF SessionInv, ManagerInv, ManagerTypeOK
  <2>3. call.views[i] = Slice(storage[b], Bound(call.id)[i].offset, Bound(call.id)[i].size)
    BY <2>1, <2>2, ViewsType DEF SessionInv, ManagerInv, DispatchAtomic
  <2>4. /\ storage[b] \in Seq(Value) /\ Bound(call.id)[i].offset \in Nat
        /\ Bound(call.id)[i].size \in Nat
        /\ Bound(call.id)[i].offset + Bound(call.id)[i].size <= Len(storage[b])
    BY <2>1, BoundRanges
  <2> QED BY <1>2, <2>3, <2>4, SliceThenOverwrite
<1> QED BY <1>1, <1>2, UndoneIs

(* No step of a dispatch changes what its undoing would restore.            *)
LEMMA UndoneFrozen ==
  ASSUME SessionInv, SessionInv', DispatchStep, NEW b \in DOMAIN storage
  PROVE  Undone(b)' = Undone(b)
<1>0. /\ pipelines' = pipelines /\ call.pc # "idle" /\ call'.id = call.id
      /\ DOMAIN storage' = DOMAIN storage /\ call'.views = call.views /\ call'.pc # "idle"
  <2>1. call \in Calls
    BY DEF SessionInv, ManagerInv, ManagerTypeOK, Calls
  <2>2. CASE BackendFails \/ BackendCompletes \/ ReadbackFails \/ SignalFence
    BY <2>1, <2>2, DispatchStepShape
       DEF SessionInv, BackendFails, BackendCompletes, ReadbackFails, SignalFence, Calls
  <2>3. ASSUME NEW v \in Value, Readback(v)
        PROVE  call'.views = call.views /\ call'.pc # "idle"
    BY <2>1, <2>3 DEF Readback, NextTurn, Calls
  <2>4. CASE Commit
    BY <2>1, <2>4, DispatchStepShape, NextTurnType DEF SessionInv, Commit
  <2> QED BY <2>2, <2>3, <2>4, DispatchStepShape DEF DispatchStep, SessionInv
<1>1. CASE UNCHANGED storage
  BY <1>0, <1>1 DEF Undone, Bound
<1>2. CASE Commit
  <2>1. PICK t \in 1..Len(Bound(call.id)) : t = call.turn
    BY <1>2 DEF Commit, SessionInv, ManagerInv, CallShape
  <2>2. PICK a, o, new : /\ a = Bound(call.id)[t].buffer /\ o = Bound(call.id)[t].offset
                         /\ new = call.updated[t]
    OBVIOUS
  <2>3. storage' = [storage EXCEPT ![a] = Overwrite(@, o, new)]
    BY <1>2, <2>1, <2>2 DEF Commit
  <2>4. /\ a \in DOMAIN storage /\ storage[a] \in Seq(Value) /\ o \in Nat
        /\ call.views[t] \in Seq(Value)
    BY <1>0, <2>2, BoundRanges
  <2>5. new \in Seq(Value) /\ Len(new) = Len(call.views[t])
    <3>1. /\ call.updated \in Seq(Seq(Value)) /\ Len(call.updated) = Len(call.views)
          /\ Len(call.views) = Len(Bound(call.id))
          /\ \A i \in 1..Len(call.updated) : Len(call.updated[i]) = Bound(call.id)[i].size
          /\ \A i \in 1..Len(call.views) : Len(call.views[i]) = Bound(call.id)[i].size
      BY <1>2 DEF Commit, SessionInv, ManagerInv, ManagerTypeOK, CallShape
    <3> QED BY <2>2, <3>1
  <2>6. Mine(b)' = Mine(b)
    BY <1>0 DEF Mine, Bound
  <2>7. CASE b # a
    BY <1>0, <2>3, <2>7 DEF Undone, Bound
  <2>8. CASE b = a
    <3>1. t \in Mine(b)
      BY <2>2, <2>8 DEF Mine
    <3>2. Mine(b) = {t}
      BY <1>0, <3>1, UndoneIs
    <3>3. Undone(b) = Overwrite(storage[b], o, call.views[t])
      BY <1>0, <2>2, <3>2, UndoneIs
    <3>4. Undone(b)' = Overwrite(storage'[b], o, call.views[t])
      <4>1. (CHOOSE i \in Mine(b) : TRUE) = t
        BY <3>2
      <4>2. Undone(b)' = LET mine == Mine(b)' IN
              IF mine = {} THEN storage'[b]
              ELSE Overwrite(storage'[b], Bound(call.id)[CHOOSE i \in mine : TRUE].offset,
                             call.views[CHOOSE i \in mine : TRUE])
        BY <1>0 DEF Undone, Mine, Bound
      <4> QED BY <2>2, <2>6, <3>1, <4>1, <4>2
    <3>5. storage'[b] = Overwrite(storage[b], o, new)
      BY <2>3, <2>4, <2>8
    <3>6. storage[b] \in Seq(Value)
      BY <2>4, <2>8
    <3>7. Overwrite(Overwrite(storage[b], o, new), o, call.views[t])
            = Overwrite(storage[b], o, call.views[t])
      BY <2>4, <2>5, <3>6, OverwriteTwice
    <3> QED BY <3>3, <3>4, <3>5, <3>7
  <2> QED BY <2>7, <2>8
<1> QED BY <1>1, <1>2
        DEF DispatchStep, BackendFails, BackendCompletes, Readback, ReadbackFails, SignalFence

(* The map of the buffers is a function, which a copy of it has to be, too. *)
StorageMap == storage = [h \in DOMAIN storage |-> storage[h]]

LEMMA StorageStaysMap == Spec => []StorageMap
<1>1. Init => StorageMap
  BY DEF Init, ManagerInit, StorageMap
<1>2. StorageMap /\ [Next]_vars => StorageMap'
  <2> SUFFICES ASSUME StorageMap, [Next]_vars PROVE StorageMap'
    OBVIOUS
  <2>1. \/ storage' = storage
        \/ \E h, bytes : storage' = Insert(storage, h, bytes)
        \/ \E h, bytes : storage' = [storage EXCEPT ![h] = bytes]
    <3>1. CASE Host
      BY <3>1
         DEF Host, NewSession, IntoManager, managerVars, HostStep, CreatePipeline, DeletePipeline,
             CreateStorageBuffer, WriteStorageBuffer, BeginDispatch, BeginExecutorDispatch,
             ReturnDispatch
    <3>2. CASE Registration
      BY <3>2
         DEF Registration, RegisterResource, UnregisterResource, RegisterKernel,
             UnregisterKernel, WriteResource, managerVars
    <3>3. CASE Submission
      BY <3>3
         DEF Submission, RejectWindow, RejectLength, RejectCommand, Submit, Rejected, managerVars
    <3>4. CASE Execution
      BY <3>4
         DEF Execution, ExecuteCopy, ExecuteDispatch, FinishDispatch, FinishList, DispatchStep,
             BackendFails, BackendCompletes, Readback, ReadbackFails, Commit, SignalFence,
             BeginExecutorDispatch, ReturnDispatch, managerVars
    <3>5. CASE UNCHANGED vars
      BY <3>5 DEF vars, managerVars
    <3> QED BY <3>1, <3>2, <3>3, <3>4, <3>5 DEF Next
  <2>2. ASSUME NEW h, NEW bytes, storage' = Insert(storage, h, bytes) PROVE StorageMap'
    BY <2>2 DEF StorageMap, Insert
  <2>3. ASSUME NEW h, NEW bytes, storage' = [storage EXCEPT ![h] = bytes] PROVE StorageMap'
    BY <2>3 DEF StorageMap
  <2> QED BY <2>1, <2>2, <2>3 DEF StorageMap
<1> QED BY <1>1, <1>2, PTL DEF Spec

(* The buffers as the contract sees them.                                   *)
Data == IF mode = "submitting" /\ call.pc # "idle"
          THEN [b \in DOMAIN storage |-> Undone(b)] ELSE storage
Phase == [host |-> "closed", session |-> "open", submitting |-> "running"][mode]

LEMMA PhaseIs ==
  /\ mode = "host" => Phase = "closed"
  /\ mode = "session" => Phase = "open"
  /\ mode = "submitting" => Phase = "running"
BY DEF Phase

(* Seen from outside, nothing happens to the buffers while a dispatch runs. *)
LEMMA DispatchHidden ==
  ASSUME SessionInv, SessionInv', StorageMap, mode = "submitting", mode' = "submitting",
         \/ DispatchStep
         \/ call.pc = "idle" /\ storage' = storage /\ call'.pc \in {"gpu", "read", "failed"}
  PROVE  Data' = Data
<1>1. CASE DispatchStep
  <2>1. DOMAIN storage' = DOMAIN storage /\ call.pc # "idle" /\ call'.pc # "idle"
    <3>1. call \in Calls
      BY DEF SessionInv, ManagerInv, ManagerTypeOK, Calls
    <3>2. call'.pc # "idle"
      <4>1. CASE BackendFails \/ BackendCompletes \/ ReadbackFails \/ SignalFence
        BY <3>1, <4>1 DEF BackendFails, BackendCompletes, ReadbackFails, SignalFence, Calls
      <4>2. ASSUME NEW v \in Value, Readback(v) PROVE call'.pc # "idle"
        BY <3>1, <4>2 DEF Readback, NextTurn, Calls
      <4>3. CASE Commit
        BY <3>1, <4>3, NextTurnType DEF Commit
      <4> QED BY <1>1, <4>1, <4>2, <4>3 DEF DispatchStep
    <3> QED BY <1>1, <3>2, DispatchStepShape DEF SessionInv
  <2>2. \A b \in DOMAIN storage : Undone(b)' = Undone(b)
    BY <1>1, UndoneFrozen
  <2> QED BY <2>1, <2>2 DEF Data
<1>2. CASE call.pc = "idle" /\ storage' = storage /\ call'.pc \in {"gpu", "read", "failed"}
  <2>1. SessionInv' /\ (call.pc \in {"gpu", "read", "failed"})' =>
          (\A b \in DOMAIN storage : Undone(b) = storage[b])'
    BY NothingToUndo, PTL
  <2> QED BY <1>2, <2>1 DEF Data, StorageMap
<1> QED BY <1>1, <1>2

(* A dispatch of the list owns the executor's fence, which is signaled when *)
(* the dispatch is done.                                                    *)
FenceOfCall ==
  mode = "submitting" /\ call.pc # "idle" =>
    /\ call.fence = ExecutorFence
    /\ call.pc = "done" => fences[ExecutorFence] = "signaled"

LEMMA FenceFollows ==
  ASSUME SessionInv, FenceOfCall, Next
  PROVE  FenceOfCall'
<1>0. call \in Calls /\ fences \in [AllFences -> {"absent", "unsignaled", "signaled"}]
  BY DEF SessionInv, ManagerInv, ManagerTypeOK, Calls
<1>1. CASE Host \/ Registration \/ Submission
  <2>1. mode' # "submitting" \/ (call' = call /\ call.pc = "idle")
    BY <1>1
       DEF Host, NewSession, IntoManager, sessionVars, Registration, RegisterResource,
           UnregisterResource, RegisterKernel, UnregisterKernel, WriteResource, Submission,
           RejectWindow, RejectLength, RejectCommand, Submit, Rejected, SessionInv,
           CallOfCurrent, managerVars
  <2> QED BY <2>1 DEF FenceOfCall
<1>2. CASE ExecuteCopy \/ FinishList
  <2>1. ExecuteCopy => /\ mode = "submitting" /\ call' = call /\ fences' = fences
                       /\ Advance \/ Abort("stale")
    BY DEF ExecuteCopy, Executing
  <2>2. Advance => mode' = mode
    BY DEF Advance
  <2>3. Abort("stale") \/ FinishList => mode' = "session"
    BY DEF Abort, Leave, FinishList
  <2> QED BY <1>2, <2>1, <2>2, <2>3 DEF FenceOfCall
<1>3. CASE ExecuteDispatch
  <2>1. CASE \E cause \in {"backend", "stale"} : Abort(cause)
    <3>1. mode' = "session"
      BY <2>1 DEF Abort, Leave
    <3> QED BY <3>1 DEF FenceOfCall
  <2>2. CASE BeginExecutorDispatch(kernels[Current.kernel], Current.grid)
    <3>1. call' = Started(kernels[Current.kernel], ExecutorFence)
      BY <2>2 DEF BeginExecutorDispatch
    <3>2. call'.pc = "gpu" /\ call'.fence = ExecutorFence
      BY <3>1 DEF Started
    <3> QED BY <3>2 DEF FenceOfCall
  <2>3. \/ Abort("backend")
        \/ Abort("stale")
        \/ BeginExecutorDispatch(kernels[Current.kernel], Current.grid)
    BY <1>3 DEF ExecuteDispatch
  <2> QED BY <2>1, <2>2, <2>3
<1>4. CASE FinishDispatch
  <2>1. call'.pc = "idle"
    BY <1>4 DEF FinishDispatch, ReturnDispatch, Idle
  <2> QED BY <2>1 DEF FenceOfCall
<1>5. CASE DispatchStep /\ UNCHANGED sessionVars
  <2>0. mode' = mode /\ call.pc # "idle"
    BY <1>5, DispatchStepShape DEF sessionVars, SessionInv
  <2>1. CASE BackendFails \/ BackendCompletes \/ ReadbackFails
    <3>1. call'.fence = call.fence /\ call'.pc # "done"
      BY <1>0, <2>1 DEF BackendFails, BackendCompletes, ReadbackFails, Calls
    <3> QED BY <2>0, <3>1 DEF FenceOfCall
  <2>2. ASSUME NEW v \in Value, Readback(v) PROVE FenceOfCall'
    <3>1. call'.fence = call.fence /\ call'.pc # "done"
      BY <1>0, <2>2 DEF Readback, NextTurn, Calls
    <3> QED BY <2>0, <3>1 DEF FenceOfCall
  <2>3. CASE Commit
    <3>1. call'.fence = call.fence /\ call'.pc # "done"
      BY <1>0, <2>3, NextTurnType DEF Commit
    <3> QED BY <2>0, <3>1 DEF FenceOfCall
  <2>4. CASE SignalFence
    <3>1. call'.fence = call.fence /\ fences' = [fences EXCEPT ![call.fence] = "signaled"]
      BY <1>0, <2>4 DEF SignalFence, Calls
    <3> QED BY <1>0, <2>0, <3>1 DEF FenceOfCall, AllFences
  <2> QED BY <1>5, <2>1, <2>2, <2>3, <2>4 DEF DispatchStep
<1> QED BY <1>1, <1>2, <1>3, <1>4, <1>5 DEF Next, Execution

LEMMA FenceOfCallHolds == Spec => []FenceOfCall
<1>1. Init => FenceOfCall
  BY DEF Init, FenceOfCall
<1>2. SessionInv /\ FenceOfCall /\ [Next]_vars => FenceOfCall'
  BY FenceFollows DEF FenceOfCall, vars, sessionVars, managerVars
<1> QED BY <1>1, <1>2, SessionInvariance, PTL DEF Spec

(* Between two commands the contract sees the buffers as they are.          *)
LEMMA DataIs ==
  /\ mode # "submitting" \/ call.pc = "idle" => Data = storage
  /\ SessionInv /\ StorageMap /\ call.pc = "failed" => Data = storage
<1>1. mode # "submitting" \/ call.pc = "idle" => Data = storage
  BY DEF Data
<1>2. ASSUME SessionInv, StorageMap, call.pc = "failed" PROVE Data = storage
  <2>1. \A b \in DOMAIN storage : Undone(b) = storage[b]
    BY <1>2, NothingToUndo
  <2> QED BY <1>2, <2>1 DEF Data, StorageMap
<1> QED BY <1>1, <1>2

LEMMA SubmissionImplements ==
  ASSUME SessionInv, SessionInv', StorageMap, FenceOfCall, Next
  PROVE  Contract!Next \/ UNCHANGED Contract!vars
<1> DEFINE outer == list' = list /\ index' = index /\ completed' = completed
<1>0. /\ index \in Nat \ {0} /\ completed \in Nat
      /\ mode \in {"host", "session", "submitting"}
      /\ (mode = "submitting" => Len(list) \in Nat /\ index <= Len(list) + 1)
  BY SessionAssumption DEF SessionInv, TypeOK, Position
<1>1. ASSUME outer, report' = report, mode' = mode, mode # "submitting"
      PROVE  Contract!Next
  <2>1. Phase' = Phase /\ Phase # "running"
    BY <1>0, <1>1, PhaseIs DEF Phase
  <2>2. Contract!HostWrite
    BY <1>1, <2>1 DEF Contract!HostWrite, Phase
  <2> QED BY <2>2 DEF Contract!Next
<1>2. CASE Host
  <2>1. CASE NewSession
    <3>1. Phase = "closed" /\ Phase' = "open" /\ Data' = Data
      BY <2>1 DEF NewSession, Phase, Data, managerVars
    <3>2. Contract!Open
      BY <2>1, <3>1 DEF NewSession, EmptyRegistry, listVars, Contract!Open, Phase, Data
    <3> QED BY <3>2 DEF Contract!Next
  <2>2. CASE IntoManager
    <3>1. Phase = "open" /\ Phase' = "closed" /\ Data' = Data
      BY <2>2 DEF IntoManager, Phase, Data, managerVars
    <3>2. Contract!Close
      BY <2>2, <3>1 DEF IntoManager, EmptyRegistry, listVars, Contract!Close, Phase, Data
    <3> QED BY <3>2 DEF Contract!Next
  <2>3. CASE mode = "host" /\ UNCHANGED sessionVars
    BY <1>1, <2>3 DEF sessionVars, listVars
  <2> QED BY <1>2, <2>1, <2>2, <2>3 DEF Host
<1>3. CASE Registration
  <2>1. outer /\ report' = report /\ mode' = mode /\ mode = "session"
    BY <1>3
       DEF Registration, RegisterResource, UnregisterResource, RegisterKernel, UnregisterKernel,
           WriteResource, sessionVars, registryVars, listVars
  <2> QED BY <1>1, <2>1
<1>4. CASE Submission
  <2>1. ASSUME NEW cause, NEW at, mode = "session", Rejected(Report("rejected", cause, at, 0))
        PROVE  Contract!Next
    <3>1. Phase = "open" /\ Phase' = Phase /\ Data' = Data
      BY <2>1 DEF Rejected, Phase, Data, managerVars
    <3>2. Contract!Reject
      BY <2>1, <3>1 DEF Rejected, Report, listVars, Contract!Reject, Phase, Data
    <3> QED BY <3>2 DEF Contract!Next
  <2>2. ASSUME NEW l \in CommandLists, Submit(l)
        PROVE  Contract!Next
    <3>1. /\ Phase = "open" /\ Phase' = "running" /\ Data' = Data
      BY <2>2 DEF Submit, Phase, Data, managerVars, SessionInv, CallOfCurrent
    <3>2. Len(list') \in Nat /\ index' - 1 = 0 /\ completed' = completed /\ report' = report
      BY <2>2, SessionAssumption DEF Submit
    <3>3. Contract!Accept
      BY <3>1, <3>2 DEF Contract!Accept, Phase, Data
    <3> QED BY <3>3 DEF Contract!Next
  <2> QED BY <1>4, <2>1, <2>2 DEF Submission, RejectWindow, RejectLength, RejectCommand
<1>5. ASSUME mode = "submitting", index <= Len(list), Advance
      PROVE  Contract!Next
  <2>1. /\ Phase = "running" /\ Phase' = Phase /\ report' = report /\ list' = list
        /\ index' = index + 1 /\ completed' = completed + 1
    BY <1>5 DEF Advance, Phase
  <2>2. index - 1 < Len(list) /\ index' - 1 = (index - 1) + 1
    BY <1>0, <1>5, <2>1
  <2>3. Contract!CommitNext
    BY <2>1, <2>2 DEF Contract!CommitNext, Phase
  <2> QED BY <2>3 DEF Contract!Next
<1>6. ASSUME mode = "submitting", index <= Len(list), NEW cause, Abort(cause),
             Data = storage, storage' = storage
      PROVE  Contract!Next
  <2>1. /\ Phase = "running" /\ Phase' = "open" /\ Data' = Data
        /\ Len(list') = 0 /\ index' - 1 = 0 /\ completed' = completed
        /\ report'.status = "failed" /\ report'.completed = index - 1
    BY <1>6 DEF Abort, Leave, Report, Phase, Data
  <2>2. index - 1 < Len(list)
    BY <1>0, <1>6
  <2>3. Contract!Stop
    BY <2>1, <2>2 DEF Contract!Stop, Phase, Data
  <2> QED BY <2>3 DEF Contract!Next
<1>7. ASSUME outer, report' = report, mode' = mode, Data' = Data
      PROVE  UNCHANGED Contract!vars
  BY <1>7 DEF Contract!vars, Phase, Data
<1>8. CASE ExecuteCopy
  <2>1. /\ mode = "submitting" /\ index <= Len(list) /\ call.pc = "idle"
        /\ Advance \/ (storage' = storage /\ Abort("stale"))
    BY <1>8 DEF ExecuteCopy, Executing, SessionInv, CallOfCurrent
  <2> QED BY <1>5, <1>6, <2>1, DataIs
<1>9. CASE ExecuteDispatch
  <2>1. mode = "submitting" /\ index <= Len(list) /\ call.pc = "idle"
    BY <1>9 DEF ExecuteDispatch, Executing
  <2>2. CASE /\ BeginExecutorDispatch(kernels[Current.kernel], Current.grid)
             /\ UNCHANGED sessionVars
    <3>1. storage' = storage /\ call'.pc = "gpu" /\ mode' = mode
      BY <2>2 DEF BeginExecutorDispatch, Started, sessionVars
    <3>2. Data' = Data
      BY <2>1, <3>1, DispatchHidden
    <3> QED BY <1>7, <2>2, <3>2 DEF sessionVars, listVars
  <2>3. CASE \E cause \in {"backend", "stale"} : Abort(cause) /\ UNCHANGED managerVars
    BY <1>6, <2>1, <2>3, DataIs DEF managerVars
  <2> QED BY <1>9, <2>2, <2>3 DEF ExecuteDispatch
<1>10. CASE FinishDispatch
  <2>1. /\ mode = "submitting" /\ index <= Len(list) /\ storage' = storage
        /\ call.pc \in {"done", "failed"}
        /\ \/ Advance
           \/ Abort("backend") /\ ~(call.pc = "done" /\ fences[ExecutorFence] = "signaled")
    BY <1>10 DEF FinishDispatch, Executing, ReturnDispatch
  <2>2. CASE Advance
    BY <1>5, <2>1, <2>2
  <2>3. CASE /\ Abort("backend")
             /\ ~(call.pc = "done" /\ fences[ExecutorFence] = "signaled")
    <3>1. call.pc = "failed"
      BY <2>1, <2>3 DEF FenceOfCall
    <3> QED BY <1>6, <2>1, <2>3, <3>1, DataIs
  <2> QED BY <2>1, <2>2, <2>3
<1>11. CASE FinishList
  <2>1. mode = "submitting" /\ index = Len(list) + 1 /\ call.pc = "idle" /\ storage' = storage
    BY <1>0, <1>11 DEF FinishList, managerVars, SessionInv, CallOfCurrent
  <2>2. /\ Phase = "running" /\ Phase' = "open" /\ Data' = Data /\ index - 1 = Len(list)
        /\ Len(list') = 0 /\ index' - 1 = 0 /\ completed' = completed
        /\ report'.status = "ok" /\ report'.completed = Len(list)
    BY <1>0, <1>11, <2>1 DEF FinishList, Leave, Report, Phase, Data
  <2>3. Contract!Finish
    BY <2>2 DEF Contract!Finish, Phase, Data
  <2> QED BY <2>3 DEF Contract!Next
<1>12. CASE DispatchStep /\ UNCHANGED sessionVars
  <2>1. (mode = "submitting" /\ mode' = mode /\ outer /\ report' = report) \/ mode = "host"
    <3>1. call.pc # "idle"
      BY <1>12, DispatchStepShape DEF SessionInv
    <3> QED BY <1>0, <1>12, <3>1 DEF sessionVars, listVars, SessionInv, CallOfCurrent
  <2>2. CASE mode = "host"
    BY <1>1, <1>12, <2>2 DEF sessionVars, listVars
  <2>3. CASE mode = "submitting"
    <3>1. Data' = Data
      BY <1>12, <2>3, DispatchHidden DEF sessionVars
    <3> QED BY <1>7, <1>12, <3>1 DEF sessionVars, listVars
  <2> QED BY <2>1, <2>2, <2>3
<1> QED BY <1>2, <1>3, <1>4, <1>8, <1>9, <1>10, <1>11, <1>12 DEF Next, Execution

(* submit does what its guest may rely on: a rejected list changes nothing, *)
(* a failed one is a prefix of whole commands whose length is reported, and *)
(* the bytes of a failed dispatch are those from before it.                 *)
THEOREM SubmissionRefinesContract == Spec => ImplementsContract
<1>1. Init => Contract!Init
  BY DEF Init, ManagerInit, Contract!Init, Report
<1>2. SessionInv /\ SessionInv' /\ StorageMap /\ FenceOfCall /\ [Next]_vars
        => [Contract!Next]_(Contract!vars)
  <2> SUFFICES ASSUME SessionInv, SessionInv', StorageMap, FenceOfCall, [Next]_vars
               PROVE  Contract!Next \/ UNCHANGED Contract!vars
    OBVIOUS
  <2>1. CASE Next
    BY <2>1, SubmissionImplements
  <2>2. CASE UNCHANGED vars
    <3>1. Data' = Data
      BY <2>2 DEF vars, sessionVars, managerVars, Data, Undone, Bound
    <3> QED BY <2>2, <3>1 DEF vars, sessionVars, listVars, Contract!vars, Phase, Data
  <2> QED BY <2>1, <2>2
<1> QED BY <1>1, <1>2, SessionInvariance, StorageStaysMap, FenceOfCallHolds, PTL
        DEF Spec, ImplementsContract, Contract!Spec
================================================================================
