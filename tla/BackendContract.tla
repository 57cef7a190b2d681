--------------------------- MODULE BackendContract ---------------------------
(***************************************************************************)
(* What the compute manager may rely on when it calls a Vulkan backend: a   *)
(* call is answered while no work of it is left on the GPU, or the backend  *)
(* is poisoned for good; and whatever the GPU may still touch stays alive.  *)
(***************************************************************************)
EXTENDS Naturals

VARIABLES
  usable,      \* "opening", "live", "taken" (poisoned) or "dropped"
  serving,     \* a call is being served
  outcome,     \* answer to the last call
  running,     \* the GPU may be executing a submission
  retained     \* every object the GPU may be using exists

vars == <<usable, serving, outcome, running, retained>>

Init ==
  /\ usable = "opening" /\ serving = FALSE /\ outcome = "none"
  /\ running = FALSE /\ retained = TRUE

(* A backend is usable once a device was selected and created for it.       *)
Open ==
  /\ usable = "opening"
  /\ usable' = "live"
  /\ UNCHANGED <<serving, outcome, running, retained>>

(* A call that is turned down at once.                                     *)
Refuse ==
  /\ ~serving
  /\ \/ usable = "live"  /\ outcome' = "error"
     \/ usable = "taken" /\ outcome' = "poisoned"
  /\ UNCHANGED <<usable, serving, running, retained>>

Accept ==
  /\ ~serving /\ usable = "live" /\ ~running
  /\ serving' = TRUE /\ outcome' = "pending"
  /\ UNCHANGED <<usable, running, retained>>

Start  == serving /\ ~running /\ running' = TRUE
          /\ UNCHANGED <<usable, serving, outcome, retained>>
Finish == running /\ running' = FALSE
          /\ UNCHANGED <<usable, serving, outcome, retained>>

(* Success or a plain error: the GPU is idle and the backend stays usable.  *)
Answer ==
  /\ serving /\ ~running
  /\ serving' = FALSE /\ outcome' \in {"ok", "error"}
  /\ UNCHANGED <<usable, running, retained>>

(* The fate of the submission is unknown: no later call is served.          *)
Poison ==
  /\ serving
  /\ serving' = FALSE /\ outcome' = "error" /\ usable' = "taken"
  /\ UNCHANGED <<running, retained>>

Close ==
  /\ ~serving /\ usable # "dropped"
  /\ usable' = "dropped"
  /\ UNCHANGED <<serving, outcome, running, retained>>

Next == Open \/ Refuse \/ Accept \/ Start \/ Finish \/ Answer \/ Poison \/ Close

Spec == Init /\ [][Next]_vars
=============================================================================
