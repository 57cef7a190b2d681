------------------------------- MODULE Preflight -------------------------------
(* What the Vulkan backend decides before it submits anything: whether a shader *)
(* is one it understands, and which device and memory it uses.  The two share   *)
(* no state, so each is taken with the other at rest.                           *)
EXTENDS SpirvProfile, DeviceSelection

PreflightInit == Init /\ SelectionInit

PreflightNext ==
  \/ pc = "idle" /\ Next /\ UNCHANGED selectionVars
  \/ outcome = "none" /\ SelectionNext /\ UNCHANGED vars

PreflightSpec == PreflightInit /\ [][PreflightNext]_<<vars, selectionVars>>

================================================================================
