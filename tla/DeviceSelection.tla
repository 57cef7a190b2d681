------------------------------ MODULE DeviceSelection ------------------------------
(* vulkan_compute.rs: how a backend finds its device.  The configuration names *)
(* one device by its ids and, optionally, its UUID; every device the loader    *)
(* shows is probed into a report with the reasons that rule it out; exactly    *)
(* one report may match.  Dispatches are then checked against the limits of    *)
(* that device and get the memory type that suits a buffer best.               *)
(* What happens to the session afterwards is VulkanSession.                    *)
EXTENDS Integers, Sequences, FiniteSets

CONSTANTS
  DeviceLists,  \* device sequences a loader may show
  Configs,      \* [ids, uuid, sane]: selector, "any" or a UUID, other settings valid
  Dispatches,   \* [groups, workgroup, sizes]: what a dispatch asks for
  MemoryBits    \* sets of memory type indices a buffer may live in

(* What the driver's structures hold: unsigned limits, three per dimension.     *)
IsDevice(d) ==
  /\ d.types \in Seq({d.types[t] : t \in DOMAIN d.types})
  /\ \A h \in DOMAIN d.heaps : d.heaps[h] \in Nat
  /\ d.limits \in [groupCount : [1..3 -> Nat], groupSize : [1..3 -> Nat], invocations : Nat,
                   range : Nat, perStage : Nat, perSet : Nat, resources : Nat, sets : Nat,
                   allocations : Nat, atomPowerOfTwo : BOOLEAN]

(* A buffer of size 0 is refused with the pipeline that declares it.           *)
ASSUME SelectionAssumption ==
  /\ \A list \in DeviceLists :
       /\ list \in Seq({list[k] : k \in DOMAIN list})
       /\ \A k \in DOMAIN list : IsDevice(list[k])
  /\ \A r \in Dispatches : \A b \in DOMAIN r.sizes : r.sizes[b] \in Nat \ {0}

VARIABLES
  pc,         \* idle, probing, select, create, open, refused
  devices,    \* what the loader shows
  config,     \* VulkanComputeConfig and the UUID
  reports,    \* probe_devices: unsupported_reasons # {} per device probed so far
  chosen,     \* index of the selected device, 0 for none
  cause,      \* why opening was refused
  verdict,    \* answer to the last dispatch check: "none", "accepted", "refused"
  request,    \* the dispatch last checked
  memory      \* answer to the last allocation: [bits, size, type], type 0 for an error

selectionVars == <<pc, devices, config, reports, chosen, cause, verdict, request, memory>>
session == <<pc, devices, config, reports, chosen, cause>>

NoRequest == [groups |-> <<>>, workgroup |-> <<>>, sizes |-> <<>>]
NoMemory  == [bits |-> {}, size |-> 0, type |-> 0]
Word      == 4   \* bytes of a storage word

--------------------------------------------------------------------------------
(* Reports.                                                                    *)

(* Memory that the host can map with no optional feature enabled.              *)
HostMemory(flags) == "visible" \in flags /\ flags \cap {"deviceCoherent", "protected", "lazy"} = {}

ComputeFamilies(d) == {f \in DOMAIN d.families : d.families[f].count > 0 /\ d.families[f].compute}

(* A driver that describes memory types on heaps it does not have.             *)
Malformed(d) == \E t \in DOMAIN d.types : d.types[t].heap \notin DOMAIN d.heaps

BadLimits(l) ==
  \/ \E k \in 1..3 : l.groupCount[k] = 0 \/ l.groupSize[k] = 0
  \/ l.invocations = 0
  \/ l.range < Word
  \/ 0 \in {l.perStage, l.perSet, l.resources, l.sets, l.allocations}
  \/ ~l.atomPowerOfTwo

(* Faulty variant: descriptor sets are not looked at.                          *)
RejectedButForSets(d) ==
  \/ d.kind \notin {"integrated", "discrete"} \/ ~d.version11 \/ ~d.robust
  \/ ComputeFamilies(d) = {}
  \/ ~\E t \in DOMAIN d.types : HostMemory(d.types[t].flags) /\ d.heaps[d.types[t].heap] >= Word
  \/ BadLimits([d.limits EXCEPT !.sets = 1])

(* baseline_rejections gives at least one reason.                              *)
Rejected(d) ==
  \/ d.kind \notin {"integrated", "discrete"} \/ ~d.version11 \/ ~d.robust
  \/ ComputeFamilies(d) = {}
  \/ ~\E t \in DOMAIN d.types : HostMemory(d.types[t].flags) /\ d.heaps[d.types[t].heap] >= Word
  \/ BadLimits(d.limits)

(* Devices below Vulkan 1.1 report no UUID.                                    *)
Uuid(d) == IF d.version11 THEN d.uuid ELSE "none"

Matches(d, c) == d.ids = c.ids /\ (c.uuid = "any" \/ Uuid(d) = c.uuid)

--------------------------------------------------------------------------------
SelectionInit ==
  /\ pc = "idle" /\ devices = <<>> /\ config = [ids |-> 0, uuid |-> "any", sane |-> FALSE]
  /\ reports = <<>> /\ chosen = 0 /\ cause = "none"
  /\ verdict = "none" /\ request = NoRequest /\ memory = NoMemory

(* Ids of 0, a bad timeout or validator path: refused before the loader.       *)
Open(list, c) ==
  /\ pc = "idle"
  /\ devices' = list /\ config' = c
  /\ IF c.ids # 0 /\ c.sane THEN pc' = "probing" /\ cause' = "none"
     ELSE pc' = "refused" /\ cause' = "config"
  /\ UNCHANGED <<reports, chosen, verdict, request, memory>>

Refuse(why) ==
  /\ pc' = "refused" /\ cause' = why
  /\ UNCHANGED <<devices, config, reports, chosen, verdict, request, memory>>

(* The loader, its version or the instance fail.                               *)
LoaderFails == pc = "probing" /\ reports = <<>> /\ Refuse("driver")

Probe ==
  /\ pc = "probing" /\ Len(reports) < Len(devices)
  /\ LET d == devices[Len(reports) + 1]
     IN ~Malformed(d) /\ reports' = Append(reports, Rejected(d))
  /\ UNCHANGED <<pc, devices, config, chosen, cause, verdict, request, memory>>

(* One malformed device ends the probe of all of them.                         *)
ProbeFails ==
  /\ pc = "probing" /\ Len(reports) < Len(devices)
  /\ Malformed(devices[Len(reports) + 1])
  /\ Refuse("malformed")

Probed ==
  /\ pc = "probing" /\ Len(reports) = Len(devices)
  /\ pc' = "select"
  /\ UNCHANGED <<devices, config, reports, chosen, cause, verdict, request, memory>>

Matching == {k \in DOMAIN devices : Matches(devices[k], config)}

(* Faulty variant: of several matching devices the first is taken.             *)
SelectFirst ==
  /\ pc = "select" /\ Matching # {}
  /\ LET k == CHOOSE k \in Matching : \A j \in Matching : k <= j
     IN ~reports[k] /\ chosen' = k /\ pc' = "create"
  /\ UNCHANGED <<devices, config, reports, cause, verdict, request, memory>>

Select ==
  /\ pc = "select"
  /\ \E k \in DOMAIN devices :
       Matching = {k} /\ ~reports[k] /\ chosen' = k /\ pc' = "create"
  /\ UNCHANGED <<devices, config, reports, cause, verdict, request, memory>>

(* No match, more than one, or a match that was ruled out.                     *)
SelectNone ==
  /\ pc = "select" /\ ~\E k \in DOMAIN devices : Matching = {k} /\ ~reports[k]
  /\ Refuse("selection")

CreateDevice ==
  /\ pc = "create" /\ pc' = "open"
  /\ UNCHANGED <<devices, config, reports, chosen, cause, verdict, request, memory>>

CreateFails == pc = "create" /\ Refuse("driver")

--------------------------------------------------------------------------------
(* The open session.                                                           *)

Device == devices[chosen]

(* validate_limits.                                                            *)
WithinLimits(r, l) ==
  /\ \A k \in 1..3 : r.groups[k] <= l.groupCount[k] /\ r.workgroup[k] <= l.groupSize[k]
  /\ r.workgroup[1] * r.workgroup[2] * r.workgroup[3] <= l.invocations
  /\ \A m \in {l.perStage, l.perSet, l.resources, l.allocations} : Len(r.sizes) <= m
  /\ l.sets # 0
  /\ \A b \in DOMAIN r.sizes : r.sizes[b] <= l.range

ValidateLimits(r) ==
  /\ pc = "open" /\ verdict = "none"
  /\ request' = r
  /\ verdict' = IF WithinLimits(r, Device.limits) THEN "accepted" ELSE "refused"
  /\ UNCHANGED <<session, memory>>

Usable(d, bits, size) ==
  {t \in DOMAIN d.types \cap bits :
     /\ HostMemory(d.types[t].flags)
     /\ d.types[t].heap \in DOMAIN d.heaps /\ size <= d.heaps[d.types[t].heap]}

(* Faulty variant: cached memory is preferred to coherent memory.              *)
RankCachedFirst(d, t) ==
  (IF "coherent" \in d.types[t].flags THEN 1 ELSE 0)
    + (IF "cached" \in d.types[t].flags THEN 2 ELSE 0)

Rank(d, t) ==
  (IF "coherent" \in d.types[t].flags THEN 2 ELSE 0)
    + (IF "cached" \in d.types[t].flags THEN 1 ELSE 0)

(* host_memory_type: the highest rank, and of that the lowest index.           *)
HostMemoryType(d, bits, size) ==
  IF size = 0 \/ Usable(d, bits, size) = {} THEN 0
  ELSE CHOOSE t \in Usable(d, bits, size) :
         \A u \in Usable(d, bits, size) :
           Rank(d, t) > Rank(d, u) \/ (Rank(d, t) = Rank(d, u) /\ t <= u)

ChooseMemory(bits, size) ==
  /\ pc = "open" /\ memory = NoMemory
  /\ memory' = [bits |-> bits, size |-> size, type |-> HostMemoryType(Device, bits, size)]
  /\ UNCHANGED <<session, verdict, request>>

(* The answers were used; after a refusal the caller may try again.            *)
Answered ==
  /\ verdict # "none" \/ memory # NoMemory
  /\ verdict' = "none" /\ request' = NoRequest /\ memory' = NoMemory
  /\ UNCHANGED session

Close ==
  /\ pc \in {"open", "refused"} /\ verdict = "none" /\ memory = NoMemory
  /\ pc' = "idle" /\ devices' = <<>> /\ config' = [ids |-> 0, uuid |-> "any", sane |-> FALSE]
  /\ reports' = <<>> /\ chosen' = 0 /\ cause' = "none"
  /\ UNCHANGED <<verdict, request, memory>>

SelectionNext ==
  \/ pc = "idle" /\ \E list \in DeviceLists, c \in Configs : Open(list, c)
  \/ LoaderFails \/ Probe \/ ProbeFails \/ Probed \/ Select \/ SelectNone
  \/ CreateDevice \/ CreateFails
  \/ \E r \in Dispatches : ValidateLimits(r)
  \/ \E bits \in MemoryBits : \E r \in Dispatches : \E b \in DOMAIN r.sizes :
       ChooseMemory(bits, r.sizes[b])
  \/ Answered \/ Close

--------------------------------------------------------------------------------
(* Properties.                                                                 *)

(* The least a dispatch can ask for: one invocation on one storage word.       *)
OneWord == [groups |-> <<1, 1, 1>>, workgroup |-> <<1, 1, 1>>, sizes |-> <<Word>>]

CanRunOneWord(d) ==
  /\ WithinLimits(OneWord, d.limits)
  /\ HostMemoryType(d, DOMAIN d.types, Word) # 0

(* The backend never opens another device than the one named: the open one has *)
(* the ids and the UUID asked for, it is real hardware, and no second device   *)
(* answers to the same name.                                                   *)
OpensOnlyTheNamed ==
  pc = "open" =>
    /\ Device.ids = config.ids /\ config.uuid \in {"any", Device.uuid}
    /\ Device.kind \in {"integrated", "discrete"} /\ Device.robust
    /\ \A k \in DOMAIN devices :
         devices[k].ids = config.ids /\ config.uuid \in {"any", Uuid(devices[k])} => k = chosen

(* What the report promises the dispatch checks keep: on an open device a      *)
(* dispatch of one word is within the limits, finds memory and has a queue.    *)
BaselineSuffices ==
  pc = "open" => CanRunOneWord(Device) /\ ComputeFamilies(Device) # {}

(* The memory of a buffer is mappable, allowed for the buffer and large enough, *)
(* and coherent whenever some such memory is: only then no flush is needed.    *)
MemorySuits ==
  LET t == memory.type
      suits(u) ==
        /\ u \in memory.bits /\ "visible" \in Device.types[u].flags
        /\ ~\E f \in {"deviceCoherent", "protected", "lazy"} : f \in Device.types[u].flags
        /\ memory.size <= Device.heaps[Device.types[u].heap]
  IN memory # NoMemory =>
       IF t = 0 THEN ~\E u \in DOMAIN Device.types : suits(u)
       ELSE /\ suits(t)
            /\ \A u \in DOMAIN Device.types :
                 suits(u) /\ "coherent" \in Device.types[u].flags =>
                   "coherent" \in Device.types[t].flags

================================================================================
