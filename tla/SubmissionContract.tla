-------------------------- MODULE SubmissionContract --------------------------
(***************************************************************************)
(* What a guest may rely on when it submits a command list: either nothing  *)
(* happens and the report says so, or a prefix of the list takes effect,    *)
(* one whole command after the other, and the report gives its length.      *)
(***************************************************************************)
EXTENDS Naturals

VARIABLES
  phase,      \* "closed", "open", "running"
  data,       \* the buffers
  completed,  \* commands completed since the session was opened
  total,      \* length of the list being executed
  done,       \* how many of its commands took effect
  report      \* [status, completed] of the last submission

vars == <<phase, data, completed, total, done, report>>

Init ==
  /\ phase = "closed" /\ completed = 0 /\ total = 0 /\ done = 0
  /\ report = [status |-> "none", completed |-> 0]

(* The owner of the buffers changes them while no list runs.                *)
HostWrite ==
  /\ phase # "running"
  /\ UNCHANGED <<phase, completed, total, done, report>>

Open ==
  /\ phase = "closed" /\ phase' = "open"
  /\ completed' = 0
  /\ UNCHANGED <<data, total, done, report>>

Close ==
  /\ phase = "open" /\ phase' = "closed"
  /\ completed' = 0
  /\ UNCHANGED <<data, total, done, report>>

Reject ==
  /\ phase = "open"
  /\ report' = [status |-> "rejected", completed |-> 0]
  /\ UNCHANGED <<phase, data, completed, total, done>>

Accept ==
  /\ phase = "open" /\ phase' = "running"
  /\ total' \in Nat /\ done' = 0
  /\ UNCHANGED <<data, completed, report>>

CommitNext ==
  /\ phase = "running" /\ done < total
  /\ done' = done + 1 /\ completed' = completed + 1
  /\ UNCHANGED <<phase, total, report>>

Stop ==
  /\ phase = "running" /\ done < total
  /\ report' = [status |-> "failed", completed |-> done]
  /\ phase' = "open" /\ total' = 0 /\ done' = 0
  /\ UNCHANGED <<data, completed>>

Finish ==
  /\ phase = "running" /\ done = total
  /\ report' = [status |-> "ok", completed |-> total]
  /\ phase' = "open" /\ total' = 0 /\ done' = 0
  /\ UNCHANGED <<data, completed>>

Next == \/ HostWrite \/ Open \/ Close \/ Reject \/ Accept
        \/ CommitNext \/ Stop \/ Finish

Spec == Init /\ [][Next]_vars
=============================================================================
