------------------------------ MODULE MCPreflight ------------------------------
(* The modules and devices of MCSpirvProfile and MCDeviceSelection.             *)
EXTENDS Preflight, MCSpirvProfile, MCDeviceSelection

================================================================================
