------------------------------ MODULE MetalTrack ------------------------------
(* What the crate says of guest Metal: the evaluator of guest transcripts      *)
(* (metal_d10_gates.rs), the acceptance report, the display path freeze, the   *)
(* guest ABI, and the two probes.  Every surface answers with a receipt; only  *)
(* a live transcript with evidence for all four gates of Design D10 verifies.  *)
(*                                                                             *)
(* A transcript is the set of gates whose evidence token its text contains.    *)
EXTENDS Integers, SequencesExt

CONSTANT
  VulkanFeature   \* the crate is built with feature "vulkan"

ASSUME TrackAssumption == VulkanFeature \in BOOLEAN

VARIABLES
  probe,      \* the accel probe under way: [pc, host]
  instances,  \* Vulkan instances of this process that exist
  receipt     \* the latest answer

trackVars == <<probe, instances, receipt>>

Gates      == {"enumeration", "resources", "queue", "fences"}
Provenance == {"absent", "fixture", "live"}

Transcripts == [from : Provenance, body : SUBSET Gates]
AbsentOnHost == [from |-> "absent", body |-> {}]

--------------------------------------------------------------------------------
(* Acceptance and the display path, which it never touches.                    *)

Unmet == [gates |-> {}, verified |-> FALSE]
D10Complete(acceptance) == acceptance.gates = Gates

WithMetalVerified(acceptance, verified) ==
  IF verified /\ ~D10Complete(acceptance) THEN [kind |-> "refused"]
  ELSE [kind |-> "acceptance", acceptance |-> [acceptance EXCEPT !.verified = verified]]

Locked == [window |-> 6, irq |-> 2]
WithMetalAcceptance(freeze, acceptance) == freeze
FreezeGreen == WithMetalAcceptance(WithMetalAcceptance(Locked, Unmet), Unmet) = Locked

--------------------------------------------------------------------------------
(* evaluate_transcript.                                                        *)

Met(t) == t.body

MayPromote(t) == t.from = "live"
Complete(t)   == Met(t) = Gates
Verified(t)   == Complete(t) /\ MayPromote(t)

FailCodes(t) ==
  LET If(code, applies) == IF applies THEN <<code>> ELSE <<>>
      Missing(gate) == If(gate, gate \notin Met(t))
      codes == If(t.from, ~MayPromote(t))
                 \o Missing("enumeration") \o Missing("resources")
                 \o Missing("queue") \o Missing("fences")
                 \o If("cannotVerify", Complete(t) /\ ~MayPromote(t))
  IN IF Verified(t) THEN <<>>
     ELSE IF codes = <<>> THEN <<"acceptanceUnmet">>
     ELSE codes

EvaluateTranscript(t) ==
  [kind |-> "evaluation", from |-> t.from, body |-> t.body,
   met |-> Met(t), complete |-> Complete(t), verified |-> Verified(t),
   acceptance |-> IF Verified(t) THEN [gates |-> Gates, verified |-> TRUE] ELSE Unmet,
   continued |-> ~Verified(t), codes |-> FailCodes(t), freezeGreen |-> FreezeGreen]

AssertsHonestFailWithoutGuest(report) ==
  /\ ~report.verified /\ ~report.acceptance.verified /\ ~D10Complete(report.acceptance)
  /\ report.continued /\ report.met = {} /\ report.codes # <<>>

--------------------------------------------------------------------------------
(* The guest ABI: MetalPublicAbi::current() is the only one there is.          *)

Abi == [acceptance |-> Unmet, capabilities |-> {}]

RequiredCapability ==
  [enumerateDevices |-> "deviceEnumeration", createBuffer |-> "resourceAllocation",
   createCommandQueue |-> "commandQueueSubmit", submitCommandBuffer |-> "commandQueueSubmit",
   createFence |-> "fenceSynchronization", waitFence |-> "fenceSynchronization",
   loadMetallib |-> "metallibLoad", dispatchCompute |-> "computeDispatch",
   encodeRender |-> "renderEncode", presentDrawable |-> "presentDrawable"]

(* Faulty variant: who asks for the devices is told that there are none.       *)
ExecuteOpEmptySuccess(abi, op) ==
  IF abi.acceptance.verified \/ D10Complete(abi.acceptance) THEN "acceptance-unmet"
  ELSE IF op = "enumerateDevices" THEN "ok"
  ELSE IF RequiredCapability[op] \notin abi.capabilities THEN "capability-unsupported"
  ELSE "no-metal-device"

ExecuteOp(abi, op) ==
  IF abi.acceptance.verified \/ D10Complete(abi.acceptance) THEN "acceptance-unmet"
  ELSE IF op = "enumerateDevices" THEN "enumeration-not-advertised"
  ELSE IF RequiredCapability[op] \notin abi.capabilities THEN "capability-unsupported"
  ELSE "no-metal-device"

(* run_probe_attempt: the codes of its reasons.  Some reasons come once only.  *)
GuestReceipt ==
  LET Once(codes, code) == IF code \in Range(codes) THEN codes ELSE Append(codes, code)
      samples == << "guest-runtime-unavailable", ExecuteOp(Abi, "enumerateDevices") >>
                   \o <<ExecuteOp(Abi, "createBuffer"), "virtual-device-no-metal">>
      device == Once(samples, "no-metal-device")
  IN [kind |-> "guestProbe", passed |-> FALSE, verified |-> FALSE, device |-> FALSE,
      codes |-> device
                  \o (IF D10Complete(Abi.acceptance) THEN <<>> ELSE <<"acceptance-unmet">>)
                  \o <<"pass-forbidden-without-guest-device">>,
      freezeGreen |-> FreezeGreen]

AssertsHonestFailWithoutDevice(r) ==
  /\ ~r.passed /\ ~r.verified /\ ~r.device
  /\ {"no-metal-device", "pass-forbidden-without-guest-device"} \subseteq Range(r.codes)

--------------------------------------------------------------------------------
NoReceipt == [kind |-> "none"]
Resting   == [pc |-> "idle", host |-> "unknown"]

TrackInit ==
  probe = Resting /\ instances = 0 /\ receipt = NoReceipt

Asked == probe.pc = "idle"

Evaluate(t) ==
  /\ Asked /\ receipt' = EvaluateTranscript(t)
  /\ UNCHANGED <<probe, instances>>

RunProbeAttempt == Asked /\ receipt' = GuestReceipt /\ UNCHANGED <<probe, instances>>

GuestCalls(op) ==
  /\ Asked /\ receipt' = [kind |-> "op", answer |-> ExecuteOp(Abi, op)]
  /\ UNCHANGED <<probe, instances>>

Promote(gates, verified) ==
  /\ Asked /\ receipt' = WithMetalVerified([gates |-> gates, verified |-> FALSE], verified)
  /\ UNCHANGED <<probe, instances>>

(* run_software_probe begins with the soft detection of host Vulkan.           *)
RunSoftwareProbe ==
  /\ Asked
  /\ probe' = IF VulkanFeature THEN [Resting EXCEPT !.pc = "load"]
              ELSE [pc |-> "software", host |-> "disabled"]
  /\ receipt' = NoReceipt /\ UNCHANGED instances

Absent(pc) == [pc |-> pc, host |-> "unavailable"]

(* Entry::load and the query of extensions; either may fail.                   *)
Load ==
  /\ probe.pc \in {"load", "query"}
  /\ probe' \in {[probe EXCEPT !.pc = IF @ = "load" THEN "query" ELSE "create"], Absent("software")}
  /\ UNCHANGED <<instances, receipt>>

CreateInstance ==
  /\ probe.pc = "create"
  /\ \/ probe' = [probe EXCEPT !.pc = "enumerate"] /\ instances' = instances + 1
     \/ probe' = Absent("software") /\ UNCHANGED instances
  /\ UNCHANGED receipt

(* An error, no device, or some.                                               *)
EnumerateDevices ==
  /\ probe.pc = "enumerate"
  /\ probe' \in {Absent("destroy"), [pc |-> "destroy", host |-> "present"]}
  /\ UNCHANGED <<instances, receipt>>

DestroyInstance ==
  /\ probe.pc = "destroy"
  /\ probe' = [probe EXCEPT !.pc = "software"] /\ instances' = instances - 1
  /\ UNCHANGED receipt

(* The copy and the fill on host memory; what became of them is told.          *)
SoftwareProbes(computeOk, renderOk) ==
  /\ probe.pc = "software"
  /\ receipt' = [kind |-> "accelProbe", host |-> probe.host, compute |-> computeOk,
                 render |-> renderOk, claimed |-> FALSE, verified |-> FALSE, device |-> FALSE,
                 freezeGreen |-> FreezeGreen]
  /\ probe' = Resting
  /\ UNCHANGED instances

TrackNext ==
  \/ \E t \in Transcripts : Evaluate(t)
  \/ RunProbeAttempt \/ RunSoftwareProbe
  \/ \E op \in DOMAIN RequiredCapability : GuestCalls(op)
  \/ \E gates \in SUBSET Gates, verified \in BOOLEAN : Promote(gates, verified)
  \/ Load \/ CreateInstance \/ EnumerateDevices \/ DestroyInstance
  \/ \E computeOk, renderOk \in BOOLEAN : SoftwareProbes(computeOk, renderOk)

--------------------------------------------------------------------------------
(* Properties.                                                                 *)

(* No answer claims Metal without evidence.  A report verifies exactly if its  *)
(* one transcript is live and has all four tokens, so does the acceptance in   *)
(* it, and its codes name what was missing and nothing else: the gates without *)
(* a token, the provenance that cannot verify, and that it could not although  *)
(* all tokens are there.  They are never the fallback, and none are left if it *)
(* verifies.  An absent guest gets the report that is promised for it.         *)
(*                                                                             *)
(* The ABI answers no call with success, least of all the one for the devices, *)
(* where an empty list would tell that Metal is there.  Acceptance is verified *)
(* only with all gates, and the guest probe keeps its receipt's promise.       *)
(*                                                                             *)
(* The detection of host Vulkan ends with an answer, whichever of its calls    *)
(* fails, and by then the instance that it may have created is destroyed.      *)
HonestReports ==
  /\ receipt.kind = "evaluation" =>
       LET live == receipt.from = "live" /\ receipt.body = Gates
           unable == receipt.from # "live" /\ receipt.body = Gates
       IN /\ receipt.verified = live /\ receipt.continued = ~live
          /\ receipt.acceptance.verified = live /\ D10Complete(receipt.acceptance) = live
          /\ Range(receipt.codes) = (Gates \ receipt.body) \cup ({receipt.from} \ {"live"})
                                       \cup (IF unable THEN {"cannotVerify"} ELSE {})
          /\ [from |-> receipt.from, body |-> receipt.body] = AbsentOnHost =>
               AssertsHonestFailWithoutGuest(receipt)
  /\ receipt.kind = "op" => receipt.answer # "ok"
  /\ receipt.kind = "acceptance" /\ receipt.acceptance.verified => D10Complete(receipt.acceptance)
  /\ receipt.kind = "guestProbe" => AssertsHonestFailWithoutDevice(receipt)
  /\ receipt.kind = "accelProbe" =>
       receipt.host \in IF VulkanFeature THEN {"present", "unavailable"} ELSE {"disabled"}
  /\ probe.pc = "idle" => instances = 0

================================================================================
