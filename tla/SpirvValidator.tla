---------------------------- MODULE SpirvValidator ----------------------------
(***************************************************************************)
(* validate_module: threads of one process that hand a module to spirv-val  *)
(* through a temporary file and poll the child under a deadline.  The       *)
(* process may crash at any point and leave its files to a successor, which *)
(* may get the same process id and starts counting again.                   *)
(***************************************************************************)
EXTENDS Naturals

CONSTANTS
  Callers,    \* threads
  Binaries,   \* modules that passed the profile, as the file holds them
  Valid,      \* those spirv-val accepts
  Pids,       \* process ids
  MaxCalls,   \* bound: calls of one process
  MaxCrashes  \* bound

ASSUME ValidatorAssumption ==
  Valid \subseteq Binaries /\ "empty" \notin Binaries /\ MaxCalls \in Nat /\ MaxCrashes \in Nat

VARIABLES
  run, pid, next,  \* crashes so far, process id, the static counter NEXT
  files,           \* path -> [owner, bytes], owner the run that created it
  caller,          \* thread -> [pc, module, path, late, answer]
  child            \* thread -> "none", "running", "accepted", "rejected", "killed"

validatorVars == <<run, pid, next, files, caller, child>>
process == <<run, pid>>

Resting(a) == [pc |-> "idle", module |-> "empty", path |-> <<0, 0>>, late |-> FALSE, answer |-> a]
At(c, label) == caller[c].pc = label
Goto(c, label) == caller' = [caller EXCEPT ![c].pc = label]
Without(path) == [p \in DOMAIN files \ {path} |-> files[p]]
Put(path, bytes) == [p \in DOMAIN files \union {path} |->
                       IF p = path THEN [owner |-> run, bytes |-> bytes] ELSE files[p]]

(* The call returns and TemporaryModule is dropped with it.                 *)
Finish(c, answer) ==
  /\ caller' = [caller EXCEPT ![c] = Resting(answer)]
  /\ files' = Without(caller[c].path)

-----------------------------------------------------------------------------
(* The path is made of the process id and the counter.                      *)
Call(c, m) ==
  /\ At(c, "idle") /\ next <= MaxCalls
  /\ caller' = [caller EXCEPT ![c] = [Resting("none") EXCEPT
                  !.pc = "open", !.module = m, !.path = <<pid, next>>]]
  /\ next' = next + 1
  /\ UNCHANGED <<process, files, child>>

(* Faulty variant: the guard exists before the file is known to be new.     *)
OpenGuarded(c) ==
  /\ At(c, "open")
  /\ \/ caller[c].path \in DOMAIN files /\ Finish(c, "error")
     \/ /\ caller[c].path \notin DOMAIN files
        /\ files' = Put(caller[c].path, "empty") /\ Goto(c, "write")
  /\ UNCHANGED <<process, next, child>>

(* create_new fails, at the latest on a file that exists.                   *)
OpenFile(c) ==
  /\ At(c, "open")
  /\ \/ caller' = [caller EXCEPT ![c] = Resting("error")] /\ UNCHANGED files
     \/ /\ caller[c].path \notin DOMAIN files
        /\ files' = Put(caller[c].path, "empty") /\ Goto(c, "write")
  /\ UNCHANGED <<process, next, child>>

Write(c) ==
  /\ At(c, "write")
  /\ \/ Finish(c, "error")
     \/ files' = Put(caller[c].path, caller[c].module) /\ Goto(c, "spawn")
  /\ UNCHANGED <<process, next, child>>

Spawn(c) ==
  /\ At(c, "spawn")
  /\ \/ Finish(c, "error") /\ UNCHANGED child
     \/ child' = [child EXCEPT ![c] = "running"] /\ Goto(c, "poll") /\ UNCHANGED files
  /\ UNCHANGED <<process, next>>

(* spirv-val reads its input and exits, or it hangs.                        *)
ChildExits(c) ==
  /\ child[c] = "running" /\ caller[c].path \in DOMAIN files
  /\ child' = [child EXCEPT ![c] = IF files[caller[c].path].bytes \in Valid
                                     THEN "accepted" ELSE "rejected"]
  /\ UNCHANGED <<process, next, files, caller>>

Exited(c) == child[c] \in {"accepted", "rejected"}

(* Faulty variant: whatever the child answered is success.                  *)
PollExitedAlways(c) ==
  /\ At(c, "poll") /\ Exited(c)
  /\ Finish(c, "ok")
  /\ child' = [child EXCEPT ![c] = "none"]
  /\ UNCHANGED <<process, next>>

(* try_wait reports the exit status; a child that is not done is polled     *)
(* again, which changes nothing, until the deadline.                        *)
PollExited(c) ==
  /\ At(c, "poll") /\ Exited(c)
  /\ Finish(c, IF child[c] = "accepted" THEN "ok" ELSE "error")
  /\ child' = [child EXCEPT ![c] = "none"]
  /\ UNCHANGED <<process, next>>

Deadline(c) ==
  /\ At(c, "poll") /\ ~caller[c].late
  /\ caller' = [caller EXCEPT ![c].late = TRUE]
  /\ UNCHANGED <<process, next, files, child>>

KillChild(c) ==
  /\ child' = [child EXCEPT ![c] = "killed"] /\ Goto(c, "reap")
  /\ UNCHANGED <<process, next, files>>

(* Faulty variant: the deadline counts only once the child is done.         *)
KillExited(c) == At(c, "poll") /\ caller[c].late /\ Exited(c) /\ KillChild(c)

(* The child was not done when it was looked at after the deadline; it may  *)
(* have exited since.                                                      *)
Kill(c) == At(c, "poll") /\ caller[c].late /\ KillChild(c)

(* try_wait itself fails.                                                  *)
WaitError(c) == At(c, "poll") /\ KillChild(c)

(* Faulty variant: the killed child is not waited for.                      *)
ReturnUnreaped(c) ==
  /\ At(c, "reap")
  /\ Finish(c, "error")
  /\ UNCHANGED <<process, next, child>>

Reap(c) ==
  /\ At(c, "reap")
  /\ Finish(c, "error")
  /\ child' = [child EXCEPT ![c] = "none"]
  /\ UNCHANGED <<process, next>>

(* The process dies and is started again; its files stay.                   *)
Crash(p) ==
  /\ run < MaxCrashes
  /\ run' = run + 1 /\ pid' = p /\ next' = 1
  /\ caller' = [c \in Callers |-> Resting("none")]
  /\ child' = [c \in Callers |-> "none"]
  /\ UNCHANGED files

-----------------------------------------------------------------------------
ValidatorInit ==
  /\ run = 0 /\ pid \in Pids /\ next = 1
  /\ files = [p \in {} |-> 0]
  /\ caller = [c \in Callers |-> Resting("none")]
  /\ child = [c \in Callers |-> "none"]

Step(c) == OpenFile(c) \/ Write(c) \/ Spawn(c) \/ PollExited(c) \/ Kill(c) \/ Reap(c)

ValidatorNext ==
  \/ \E c \in Callers : \/ \E m \in Binaries : Call(c, m)
                        \/ Step(c) \/ ChildExits(c)
                        \/ Deadline(c) \/ WaitError(c)
  \/ \E p \in Pids : Crash(p)

(* Threads run and time passes; the child is not assumed ever to exit.      *)
ValidatorSpec ==
  /\ ValidatorInit /\ [][ValidatorNext]_validatorVars
  /\ \A c \in Callers : WF_validatorVars(Step(c)) /\ WF_validatorVars(Deadline(c))

-----------------------------------------------------------------------------
InCall == {c \in Callers : ~At(c, "idle")}

Calls == [pc : {"idle", "open", "write", "spawn", "poll", "reap"},
          module : Binaries \union {"empty"}, path : (Pids \union {0}) \X Nat,
          late : BOOLEAN, answer : {"none", "ok", "error"}]

(* Types; two calls of one process never use the same path.                 *)
TypeOK ==
  /\ run \in 0..MaxCrashes /\ pid \in Pids /\ next \in 1 .. MaxCalls + 1
  /\ \A p \in DOMAIN files : /\ files[p].owner \in 0..run
                             /\ files[p].bytes \in Binaries \union {"empty"}
  /\ caller \in [Callers -> Calls]
  /\ child \in [Callers -> {"none", "running", "accepted", "rejected", "killed"}]
  /\ \A c \in InCall : /\ caller[c].module \in Binaries
                       /\ caller[c].path[2] < next
                       /\ \A d \in InCall \ {c} : caller[d].path # caller[c].path

(* A module is accepted only if spirv-val accepted exactly this module: no  *)
(* other thread's file, stale file or killed child answers for it.          *)
AcceptedIsValid ==
  [][\A c \in Callers :
       ~At(c, "idle") /\ caller'[c].answer = "ok" => caller[c].module \in Valid]_validatorVars

(* When a call is over, on whatever path, its child has been waited for and *)
(* its file is gone; only a crash leaves files behind.                      *)
NothingLeftBehind ==
  /\ \A c \in Callers \ InCall : child[c] = "none"
  /\ \A p \in DOMAIN files :
       files[p].owner = run => \E c \in InCall : caller[c].path = p

(* A process neither removes nor overwrites what an earlier one left, even  *)
(* if it got the same process id and meets the same names.                  *)
OnlyOwnFiles ==
  [][\A p \in DOMAIN files :
       files[p].owner # run => p \in DOMAIN files' /\ files'[p] = files[p]]_validatorVars

(* Every call returns, also when spirv-val hangs.                          *)
CallReturns == \A c \in Callers : ~At(c, "idle") ~> At(c, "idle")
=============================================================================
