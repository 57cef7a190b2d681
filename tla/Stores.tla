--------------------------------- MODULE Stores ---------------------------------
(* The two stores of host memory that hand out ids: the virtual device and the *)
(* textures.  They share no state.                                             *)
EXTENDS VirtualDevice, TextureStore

StoresInit == Init /\ TextureInit

(* Each store is used while the other is empty.                                *)
StoresNext ==
  \/ made = <<>> /\ samplers = <<>> /\ Next /\ UNCHANGED textureVars
  \/ nextHandle = 1 /\ run = Idle /\ TextureNext /\ UNCHANGED vars

StoresSpec == StoresInit /\ [][StoresNext]_<<vars, textureVars>>

================================================================================
