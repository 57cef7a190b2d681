------------------------------ MODULE VirtualDevice ------------------------------
(* virtual_device.rs: the software model of a device.  GpuMemoryManager owns  *)
(* host vectors under handles it never reuses; write_command_buffer validates *)
(* the whole list before the first copy and then executes it copy by copy,    *)
(* reading and writing through the checked accessors, which may still fail.   *)
(* Kernels, clears and presents have no backend here: one kind "other".       *)
EXTENDS Integers, SequencesExt

CONSTANTS
  Value,       \* bytes; 0 is the content of fresh memory
  Sizes,       \* sizes an owner allocates
  CopySizes,   \* sizes a copy asks for
  MaxHandles,  \* bound: allocations in a behaviour
  MaxList      \* bound: commands of a list

ASSUME DeviceAssumption ==
  /\ 0 \in Value
  /\ Sizes \subseteq Nat /\ CopySizes \subseteq Nat
  /\ MaxHandles \in Nat /\ MaxList \in Nat

VARIABLES
  nextHandle,  \* GpuMemoryManager::next_handle
  buffers,     \* GpuMemoryManager::buffers, handle -> bytes
  freed,       \* history: handles the owner gave back
  run          \* the list being executed: [pc, list, at, before]

vars == <<nextHandle, buffers, freed, run>>

(* One handle more than can be allocated: a handle nobody ever received.     *)
Handles  == 1..(MaxHandles + 1)
Commands == [kind : {"copy"}, src : Handles, dst : Handles, size : CopySizes]
              \cup {[kind |-> "other"]}
Idle     == [pc |-> "idle", list |-> <<>>, at |-> 1, before |-> <<>>]
Current  == run.list[run.at]

Init ==
  /\ nextHandle = 1 /\ buffers = <<>> /\ freed = {}
  /\ run = Idle

--------------------------------------------------------------------------------
(* The owner's calls.                                                         *)

Zeros(size) == [i \in 1..size |-> 0]

Allocate(size) ==
  /\ run.pc = "idle" /\ nextHandle <= MaxHandles
  /\ buffers' = [h \in DOMAIN buffers \cup {nextHandle} |->
                   IF h = nextHandle THEN Zeros(size) ELSE buffers[h]]
  /\ nextHandle' = nextHandle + 1
  /\ UNCHANGED <<freed, run>>

Free(handle) ==
  /\ run.pc = "idle" /\ handle \in DOMAIN buffers
  /\ buffers' = Restrict(buffers, DOMAIN buffers \ {handle})
  /\ freed' = freed \cup {handle}
  /\ UNCHANGED <<nextHandle, run>>

(* read and write check the handle and the range [offset, offset + length).   *)
InRange(mem, handle, offset, length) ==
  handle \in DOMAIN mem /\ offset + length <= Len(mem[handle])

Stored(mem, handle, offset, data) ==
  [mem EXCEPT ![handle] =
     [i \in 1..Len(@) |-> IF i \in offset + 1..offset + Len(data)
                          THEN data[i - offset] ELSE @[i]]]

Write(handle, offset, data) ==
  /\ run.pc = "idle" /\ InRange(buffers, handle, offset, Len(data))
  /\ buffers' = Stored(buffers, handle, offset, data)
  /\ UNCHANGED <<nextHandle, freed, run>>

--------------------------------------------------------------------------------
(* write_command_buffer.                                                      *)

Submit(list) ==
  /\ run.pc = "idle"
  /\ run' = [pc |-> "validate", list |-> list, at |-> 1, before |-> buffers]
  /\ UNCHANGED <<nextHandle, buffers, freed>>

(* Faulty variant: only the source is compared with the size.                 *)
ExecutableBySource(cmd) ==
  /\ cmd.kind = "copy"
  /\ {cmd.src, cmd.dst} \subseteq DOMAIN buffers
  /\ cmd.size <= Len(buffers[cmd.src])

Executable(cmd) ==
  /\ cmd.kind = "copy"
  /\ {cmd.src, cmd.dst} \subseteq DOMAIN buffers
  /\ cmd.size <= Len(buffers[cmd.src]) /\ cmd.size <= Len(buffers[cmd.dst])

Step(pc, again) ==
  run' = IF run.at < Len(run.list) THEN [run EXCEPT !.at = @ + 1]
         ELSE [run EXCEPT !.pc = pc, !.at = again]

Validate ==
  /\ run.pc = "validate" /\ run.list # <<>> /\ Executable(Current)
  /\ Step("execute", 1)
  /\ UNCHANGED <<nextHandle, buffers, freed>>

Reject ==
  /\ run.pc = "validate" /\ run.list # <<>> /\ ~Executable(Current)
  /\ run' = [run EXCEPT !.pc = "error"]
  /\ UNCHANGED <<nextHandle, buffers, freed>>

(* A list without commands passes both loops.                                 *)
EmptyList ==
  /\ run.pc = "validate" /\ run.list = <<>>
  /\ run' = [run EXCEPT !.pc = "ok"]
  /\ UNCHANGED <<nextHandle, buffers, freed>>

(* Faulty variant: the copies of a list all read what was there before it.    *)
ExecuteFromSnapshot ==
  /\ run.pc = "execute"
  /\ LET cmd == Current
     IN /\ buffers' = Stored(buffers, cmd.dst, 0, SubSeq(run.before[cmd.src], 1, cmd.size))
        /\ Step("ok", run.at)
  /\ UNCHANGED <<nextHandle, freed>>

(* The read and then the write; each reports an error instead of a copy when  *)
(* its range does not fit.                                                    *)
Execute ==
  /\ run.pc = "execute"
  /\ LET cmd == Current
     IN IF /\ InRange(buffers, cmd.src, 0, cmd.size)
           /\ InRange(buffers, cmd.dst, 0, cmd.size)
        THEN /\ buffers' = Stored(buffers, cmd.dst, 0, SubSeq(buffers[cmd.src], 1, cmd.size))
             /\ Step("ok", run.at)
        ELSE run' = [run EXCEPT !.pc = "error"] /\ UNCHANGED buffers
  /\ UNCHANGED <<nextHandle, freed>>

Return ==
  /\ run.pc \in {"ok", "error"}
  /\ run' = Idle
  /\ UNCHANGED <<nextHandle, buffers, freed>>

Next ==
  \/ \E size \in Sizes : Allocate(size)
  \/ \E handle \in Handles : Free(handle)
  \/ \E handle \in Handles, offset \in {0, 1}, v \in Value : Write(handle, offset, <<v>>)
  \/ \E list \in SeqOf(Commands, MaxList) : Submit(list)
  \/ Validate \/ Reject \/ EmptyList \/ Execute \/ Return

Spec == Init /\ [][Next]_vars

--------------------------------------------------------------------------------
(* Properties.                                                                *)

(* A list that is refused left no trace in memory, wherever its first bad     *)
(* command stands: the error of a command is found before the first copy.     *)
AllOrNothing == run.pc = "error" => buffers = run.before

(* Memory after one copy: the bytes of the source and what was behind them.   *)
Copied(mem, cmd) ==
  [mem EXCEPT ![cmd.dst] =
     SubSeq(mem[cmd.src], 1, cmd.size) \o SubSeq(@, cmd.size + 1, Len(@))]

(* Success means the whole list in its order: every copy sees what the copies *)
(* before it wrote, also when they chain or copy a buffer onto itself, and    *)
(* none named memory that its owner had given back.                           *)
OkMeansWholeList ==
  run.pc = "ok" =>
    /\ \A k \in DOMAIN run.list : {run.list[k].src, run.list[k].dst} \cap freed = {}
    /\ buffers = FoldLeft(Copied, run.before, run.list)

(* A handle that was freed never names memory again: a late use of it fails   *)
(* and cannot reach the buffer of somebody else.                              *)
FreedStaysFreed == DOMAIN buffers \cap freed = {}

================================================================================
