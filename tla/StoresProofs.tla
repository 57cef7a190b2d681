------------------------------ MODULE StoresProofs ------------------------------
(* The stores of host memory, for any sizes and numbers.                       *)
(*                                                                             *)
(* The virtual device: the checked accessors of write_command_buffer cannot    *)
(* fail after its validation, since copies keep the handles and the size of    *)
(* every buffer; so a refused list changed nothing, and an accepted one has    *)
(* had its whole effect.                                                       *)
(*                                                                             *)
(* The textures: ids are given out in order and never twice, so the table and  *)
(* the account of the owners agree; and a folded coordinate is one that the    *)
(* address mode shows, whatever the sign and the size of the coordinate.       *)
EXTENDS Stores, FiniteSetTheorems, WellFoundedInduction, TLAPS

--------------------------------------------------------------------------------
(* The inductive invariant.                                                   *)

MemoryTypeOK == \A h \in DOMAIN buffers : buffers[h] \in Seq(Value)

(* Every handle given out, freed or not, is below the next one.               *)
HandlesBelow ==
  /\ nextHandle \in Nat \ {0}
  /\ DOMAIN buffers \subseteq 1..(nextHandle - 1)
  /\ freed \subseteq 1..(nextHandle - 1)

(* How far the two loops came, and what the first one established.            *)
ListProgress ==
  /\ run.list \in Seq(Commands)
  /\ run.pc \in {"validate", "execute"} /\ run.list # <<>> => run.at \in 1..Len(run.list)
  /\ run.pc = "validate" => buffers = run.before
  /\ run.pc = "validate" => \A i \in 1..Len(run.list) : i < run.at => Executable(run.list[i])
  /\ run.pc = "execute" =>
       run.list # <<>> /\ \A i \in 1..Len(run.list) : Executable(run.list[i])

(* The fields of the list under way; "before" is whatever memory was.         *)
RunTypeOK ==
  run \in [pc : {"idle", "validate", "execute", "ok", "error"}, list : Seq(Commands),
           at : Nat, before : {run.before}]

DeviceInv ==
  /\ MemoryTypeOK /\ HandlesBelow /\ RunTypeOK /\ ListProgress
  /\ FreedStaysFreed /\ AllOrNothing

--------------------------------------------------------------------------------

(* A write in range keeps the handles, the size of the buffer and its type.   *)
LEMMA StoredKeepsSizes ==
  ASSUME MemoryTypeOK, NEW handle \in DOMAIN buffers, NEW offset \in Nat,
         NEW data \in Seq(Value), InRange(buffers, handle, offset, Len(data)),
         buffers' = Stored(buffers, handle, offset, data)
  PROVE  /\ MemoryTypeOK' /\ DOMAIN buffers' = DOMAIN buffers
         /\ \A h \in DOMAIN buffers : Len(buffers'[h]) = Len(buffers[h])
<1> DEFINE old == buffers[handle]
           new == [i \in 1..Len(old) |-> IF i \in offset + 1..offset + Len(data)
                                         THEN data[i - offset] ELSE old[i]]
<1>1. old \in Seq(Value) /\ Len(old) \in Nat
  BY DEF MemoryTypeOK
<1>2. \A i \in 1..Len(old) : new[i] \in Value
  <2>1. \A i \in offset + 1..offset + Len(data) : i - offset \in 1..Len(data)
    OBVIOUS
  <2> QED BY <1>1, <2>1
<1>3. new \in Seq(Value) /\ Len(new) = Len(old)
  BY <1>1, <1>2
<1>4. buffers' = [buffers EXCEPT ![handle] = new]
  BY DEF Stored
<1> HIDE DEF new
<1> QED BY <1>3, <1>4 DEF MemoryTypeOK

(* Two commands of the list can be told apart by their kind.                  *)
LEMMA CopyShape ==
  ASSUME NEW cmd \in Commands, cmd.kind = "copy"
  PROVE  cmd.src \in Handles /\ cmd.dst \in Handles /\ cmd.size \in Nat
<1>1. [kind |-> "other"].kind # "copy"
  OBVIOUS
<1>2. cmd \in [kind : {"copy"}, src : Handles, dst : Handles, size : CopySizes]
  BY <1>1 DEF Commands
<1> QED BY <1>2, DeviceAssumption

--------------------------------------------------------------------------------

LEMMA InitEstablishes == Init => DeviceInv
BY DEF Init, DeviceInv, MemoryTypeOK, HandlesBelow, RunTypeOK, ListProgress, Idle,
       FreedStaysFreed, AllOrNothing

(* The owner's calls happen between lists and never reuse a handle.           *)
LEMMA OwnerKeeps ==
  ASSUME DeviceInv,
         \/ \E size \in Sizes : Allocate(size)
         \/ \E handle \in Handles : Free(handle)
         \/ \E handle \in Handles, offset \in {0, 1}, v \in Value :
              Write(handle, offset, <<v>>)
  PROVE  DeviceInv'
<1>1. run' = run /\ run.pc = "idle"
  BY DEF Allocate, Free, Write
<1>2. RunTypeOK' /\ ListProgress' /\ AllOrNothing'
  BY <1>1 DEF DeviceInv, RunTypeOK, ListProgress, AllOrNothing
<1>3. ASSUME NEW size \in Sizes, Allocate(size)
      PROVE  MemoryTypeOK' /\ HandlesBelow' /\ FreedStaysFreed'
  <2>1. Zeros(size) \in Seq(Value)
    <3>1. size \in Nat /\ Zeros(size) \in [1..size -> Value]
      BY DeviceAssumption DEF Zeros
    <3> QED BY <3>1
  <2>2. /\ DOMAIN buffers' = DOMAIN buffers \cup {nextHandle}
        /\ buffers'[nextHandle] = Zeros(size)
        /\ \A h \in DOMAIN buffers \ {nextHandle} : buffers'[h] = buffers[h]
        /\ nextHandle' = nextHandle + 1 /\ freed' = freed
    BY <1>3 DEF Allocate
  <2>3. MemoryTypeOK'
    BY <2>1, <2>2 DEF DeviceInv, MemoryTypeOK
  <2>4. HandlesBelow' /\ FreedStaysFreed'
    BY <2>2 DEF DeviceInv, HandlesBelow, FreedStaysFreed
  <2> QED BY <2>3, <2>4
<1>4. ASSUME NEW handle \in Handles, Free(handle)
      PROVE  MemoryTypeOK' /\ HandlesBelow' /\ FreedStaysFreed'
  BY <1>4 DEF Free, Restrict, DeviceInv, MemoryTypeOK, HandlesBelow, FreedStaysFreed
<1>5. ASSUME NEW handle \in Handles, NEW offset \in {0, 1}, NEW v \in Value,
             Write(handle, offset, <<v>>)
      PROVE  MemoryTypeOK' /\ HandlesBelow' /\ FreedStaysFreed'
  <2>1. /\ <<v>> \in Seq(Value) /\ handle \in DOMAIN buffers
        /\ InRange(buffers, handle, offset, Len(<<v>>))
        /\ buffers' = Stored(buffers, handle, offset, <<v>>)
        /\ UNCHANGED <<nextHandle, freed>>
    BY <1>5 DEF Write, InRange
  <2>2. MemoryTypeOK' /\ DOMAIN buffers' = DOMAIN buffers
    BY <2>1, StoredKeepsSizes DEF DeviceInv
  <2> QED BY <2>1, <2>2 DEF DeviceInv, HandlesBelow, FreedStaysFreed
<1> QED BY <1>2, <1>3, <1>4, <1>5 DEF DeviceInv

(* Between validation and the end of a list only its own copies change memory. *)
LEMMA ValidationKeeps ==
  ASSUME DeviceInv,
         \/ \E list \in SeqOf(Commands, MaxList) : Submit(list)
         \/ Validate \/ Reject \/ EmptyList \/ Return
  PROVE  DeviceInv'
<1>1. UNCHANGED <<nextHandle, buffers, freed>>
  BY DEF Submit, Validate, Reject, EmptyList, Return
<1>2. MemoryTypeOK' /\ HandlesBelow' /\ FreedStaysFreed'
  BY <1>1 DEF DeviceInv, MemoryTypeOK, HandlesBelow, FreedStaysFreed
<1>3. \A cmd : Executable(cmd)' <=> Executable(cmd)
  BY <1>1 DEF Executable
<1>4. ASSUME NEW list \in SeqOf(Commands, MaxList), Submit(list)
      PROVE  RunTypeOK' /\ ListProgress' /\ AllOrNothing'
  <2>1. list \in Seq(Commands)
    BY DEF SeqOf
  <2>2. list # <<>> => 1 \in 1..Len(list)
    BY <2>1
  <2> QED BY <1>1, <1>4, <2>1, <2>2 DEF Submit, RunTypeOK, ListProgress, AllOrNothing
<1>5. ASSUME Validate
      PROVE  RunTypeOK' /\ ListProgress' /\ AllOrNothing'
  <2>1. /\ run.list \in Seq(Commands) /\ run.at \in 1..Len(run.list)
        /\ run.pc = "validate" /\ buffers = run.before /\ run.list # <<>>
        /\ \A i \in 1..Len(run.list) : i <= run.at => Executable(run.list[i])
        /\ RunTypeOK
    BY <1>5 DEF Validate, Current, DeviceInv, ListProgress
  <2>2. CASE run.at < Len(run.list)
    <3>1. run' = [run EXCEPT !.at = @ + 1]
      BY <1>5, <2>2 DEF Validate, Step
    <3>2. /\ run'.pc = "validate" /\ run'.list = run.list /\ run'.before = run.before
          /\ run'.at = run.at + 1 /\ RunTypeOK'
      BY <2>1, <3>1 DEF RunTypeOK
    <3>3. run.at + 1 \in 1..Len(run.list)
      BY <2>1, <2>2
    <3>4. \A i \in 1..Len(run.list) : i < run.at + 1 => Executable(run.list[i])
      BY <2>1
    <3> QED BY <1>1, <1>3, <2>1, <3>2, <3>3, <3>4 DEF ListProgress, AllOrNothing
  <2>3. CASE ~(run.at < Len(run.list))
    <3>1. run' = [run EXCEPT !.pc = "execute", !.at = 1]
      BY <1>5, <2>3 DEF Validate, Step
    <3>2. /\ run'.pc = "execute" /\ run'.list = run.list /\ run'.at = 1 /\ RunTypeOK'
      BY <2>1, <3>1 DEF RunTypeOK
    <3>3. 1 \in 1..Len(run.list) /\ \A i \in 1..Len(run.list) : Executable(run.list[i])
      BY <2>1, <2>3
    <3> QED BY <1>1, <1>3, <2>1, <3>2, <3>3 DEF ListProgress, AllOrNothing
  <2> QED BY <2>2, <2>3
<1>6. ASSUME Reject \/ EmptyList \/ Return
      PROVE  RunTypeOK' /\ ListProgress' /\ AllOrNothing'
  <2>1. CASE Reject
    <3>1. run' = [run EXCEPT !.pc = "error"] /\ run.pc = "validate" /\ buffers = run.before
      BY <2>1 DEF Reject, DeviceInv, ListProgress
    <3> QED BY <1>1, <3>1 DEF DeviceInv, RunTypeOK, ListProgress, AllOrNothing
  <2>2. CASE EmptyList
    BY <2>2 DEF EmptyList, DeviceInv, RunTypeOK, ListProgress, AllOrNothing
  <2>3. CASE Return
    BY <2>3 DEF Return, Idle, DeviceInv, RunTypeOK, ListProgress, AllOrNothing
  <2> QED BY <1>6, <2>1, <2>2, <2>3
<1> QED BY <1>2, <1>4, <1>5, <1>6 DEF DeviceInv

(* A copy of a validated list finds both its ranges.                          *)
LEMMA ExecuteKeeps ==
  ASSUME DeviceInv, Execute
  PROVE  DeviceInv'
<1> DEFINE cmd == Current
           data == SubSeq(buffers[cmd.src], 1, cmd.size)
<1>1. /\ run.list \in Seq(Commands) /\ run.at \in 1..Len(run.list) /\ run.list # <<>>
      /\ run.pc = "execute" /\ RunTypeOK /\ MemoryTypeOK
      /\ \A i \in 1..Len(run.list) : Executable(run.list[i])
  BY DEF Execute, DeviceInv, ListProgress
<1>2. Executable(cmd) /\ cmd \in Commands
  BY <1>1 DEF Current
<1>3. /\ {cmd.src, cmd.dst} \subseteq DOMAIN buffers /\ cmd.size \in Nat
      /\ cmd.size <= Len(buffers[cmd.src]) /\ cmd.size <= Len(buffers[cmd.dst])
  BY <1>2, CopyShape DEF Executable
<1>4. /\ data \in Seq(Value) /\ Len(data) = cmd.size
      /\ InRange(buffers, cmd.src, 0, cmd.size) /\ InRange(buffers, cmd.dst, 0, cmd.size)
  <2>1. buffers[cmd.src] \in Seq(Value) /\ buffers[cmd.dst] \in Seq(Value)
    BY <1>1, <1>3 DEF MemoryTypeOK
  <2>2. InRange(buffers, cmd.src, 0, cmd.size) /\ InRange(buffers, cmd.dst, 0, cmd.size)
    BY <1>3, <2>1 DEF InRange
  <2> HIDE DEF cmd
  <2>3. data \in Seq(Value) /\ Len(data) = cmd.size
    BY <1>3, <2>1
  <2> QED BY <2>2, <2>3
<1>5. buffers' = Stored(buffers, cmd.dst, 0, data) /\ Step("ok", run.at)
      /\ UNCHANGED <<nextHandle, freed>>
  BY <1>4 DEF Execute
<1> HIDE DEF cmd, data
<1>6. /\ MemoryTypeOK' /\ DOMAIN buffers' = DOMAIN buffers
      /\ \A h \in DOMAIN buffers : Len(buffers'[h]) = Len(buffers[h])
  BY <1>1, <1>3, <1>4, <1>5, StoredKeepsSizes
<1>7. HandlesBelow' /\ FreedStaysFreed'
  BY <1>5, <1>6 DEF DeviceInv, HandlesBelow, FreedStaysFreed
<1>8. run'.list = run.list => \A i \in 1..Len(run.list) : Executable(run.list[i])'
  <2>1. ASSUME run'.list = run.list, NEW i \in 1..Len(run.list)
        PROVE  Executable(run.list[i])'
    BY <1>1, <1>6, <2>1 DEF Executable
  <2> QED BY <2>1
<1>9. RunTypeOK' /\ ListProgress' /\ AllOrNothing'
  <2>1. CASE run.at < Len(run.list)
    <3>1. run' = [run EXCEPT !.at = @ + 1]
      BY <1>5, <2>1 DEF Step
    <3>2. /\ run'.pc = "execute" /\ run'.list = run.list /\ run'.at = run.at + 1
          /\ RunTypeOK'
      <4>1. run.at + 1 \in Nat
        BY <1>1
      <4> QED BY <1>1, <3>1, <4>1 DEF RunTypeOK
    <3>3. run.at + 1 \in 1..Len(run.list)
      BY <1>1, <2>1
    <3> QED BY <1>1, <1>8, <3>2, <3>3 DEF ListProgress, AllOrNothing
  <2>2. CASE ~(run.at < Len(run.list))
    <3>1. run' = [run EXCEPT !.pc = "ok", !.at = run.at]
      BY <1>5, <2>2 DEF Step
    <3>2. run'.pc = "ok" /\ run'.list = run.list /\ RunTypeOK'
      BY <1>1, <3>1 DEF RunTypeOK
    <3> QED BY <1>1, <3>2 DEF ListProgress, AllOrNothing
  <2> QED BY <2>1, <2>2
<1> QED BY <1>6, <1>7, <1>9 DEF DeviceInv

LEMMA NextKeeps ==
  ASSUME DeviceInv, [Next]_vars
  PROVE  DeviceInv'
<1>1. CASE UNCHANGED vars
  BY <1>1 DEF vars, DeviceInv, MemoryTypeOK, HandlesBelow, RunTypeOK, ListProgress,
              Executable, FreedStaysFreed, AllOrNothing
<1>2. CASE Execute
  BY <1>2, ExecuteKeeps
<1>3. CASE \/ \E list \in SeqOf(Commands, MaxList) : Submit(list)
           \/ Validate \/ Reject \/ EmptyList \/ Return
  BY <1>3, ValidationKeeps
<1>4. CASE \/ \E size \in Sizes : Allocate(size)
           \/ \E handle \in Handles : Free(handle)
           \/ \E handle \in Handles, offset \in {0, 1}, v \in Value :
                Write(handle, offset, <<v>>)
  BY <1>4, OwnerKeeps
<1> QED BY <1>1, <1>2, <1>3, <1>4 DEF Next

(* The inductive invariant holds in every state of the device.                *)
THEOREM DeviceInvariance == Spec => []DeviceInv
<1>1. DeviceInv /\ [Next]_vars => DeviceInv'
  BY NextKeeps
<1> QED BY <1>1, InitEstablishes, PTL DEF Spec

(* A list that write_command_buffer refuses has not changed memory: the       *)
(* errors of the second loop, after the first copy, cannot happen.            *)
THEOREM ListsAreAllOrNothing == Spec => []AllOrNothing
<1>1. DeviceInv => AllOrNothing
  BY DEF DeviceInv
<1> QED BY <1>1, DeviceInvariance, PTL

(* No allocation ever hands out the handle of a buffer that was freed.        *)
THEOREM HandlesAreNotReused == Spec => []FreedStaysFreed
<1>1. DeviceInv => FreedStaysFreed
  BY DEF DeviceInv
<1> QED BY <1>1, DeviceInvariance, PTL
--------------------------------------------------------------------------------
(* Executing a list is folding it: FoldLeft applied to a longer and longer    *)
(* part of the list.  g is its recursive function, on the sets of indices.    *)

Folds(mem, list, g) ==
  g = [s \in SUBSET DOMAIN list |->
         IF s = {} THEN mem ELSE Copied(g[s \ {Max(s)}], list[Max(s)])]
After(mem, list, k) == (CHOOSE g : Folds(mem, list, g))[1..k]

LEMMA FoldIsAfter ==
  ASSUME NEW mem, NEW list, DOMAIN list = 1..Len(list)
  PROVE  FoldLeft(Copied, mem, list) = After(mem, list, Len(list))
BY DEF FoldLeft, MapThenFoldSet, After, Folds

(* Induction, for a set of numbers.                                           *)
LEMMA EveryNumber ==
  ASSUME NEW T \in SUBSET Nat, 0 \in T, \A n \in T : n + 1 \in T
  PROVE  T = Nat
<1> SUFFICES ASSUME Nat \ T # {} PROVE FALSE
  OBVIOUS
<1>1. PICK n \in Nat \ T : \A m \in Nat \ T : <<m, n>> \notin OpToRel(<, Nat)
  BY NatLessThanWellFounded, WFMin
<1>2. \A m \in Nat \ T : ~(m < n)
  BY <1>1 DEF OpToRel
<1>3. n # 0 /\ n - 1 \in Nat
  OBVIOUS
<1>4. n - 1 \in T
  BY <1>2, <1>3
<1> QED BY <1>4

LEMMA MaxOfRange ==
  ASSUME NEW k \in Nat \ {0}
  PROVE  Max(1..k) = k /\ (1..k) \ {k} = 1..(k - 1)
<1>1. k \in 1..k /\ \A i \in 1..k : k >= i
  OBVIOUS
<1>2. PICK m : m = Max(1..k)
  OBVIOUS
<1>3. m \in 1..k /\ \A i \in 1..k : m >= i
  BY <1>1, <1>2 DEF Max
<1>4. m = k
  BY <1>1, <1>3
<1> QED BY <1>2, <1>4

(* Max on the indices of a list is one of them.                               *)
LEMMA MaxIn ==
  ASSUME NEW n \in Nat, NEW s \in SUBSET (1..n), s # {}
  PROVE  Max(s) \in s
<1> DEFINE above == {m \in Nat : \A i \in s : i <= m}
<1>1. n \in above
  OBVIOUS
<1>2. PICK m \in above : \A j \in above : <<j, m>> \notin OpToRel(<, Nat)
  BY <1>1, NatLessThanWellFounded, WFMin
<1>3. m \in Nat /\ (\A i \in s : i <= m) /\ \A j \in above : ~(j < m)
  BY <1>2 DEF OpToRel
<1>4. m \in s
  <2> SUFFICES ASSUME m \notin s PROVE FALSE
    OBVIOUS
  <2>1. \A i \in s : i \in Nat /\ i <= m - 1 /\ i >= 1
    BY <1>3
  <2>2. m - 1 \in Nat
    <3>1. PICK i : i \in s
      OBVIOUS
    <3> QED BY <1>3, <2>1, <3>1
  <2>3. m - 1 \in above
    BY <2>1, <2>2
  <2> QED BY <1>3, <2>3
<1>5. \A i \in s : m >= i
  BY <1>3
<1> QED BY <1>4, <1>5 DEF Max

(* The recursion over the finite sets of indices defines something.           *)
LEMMA FoldsExist ==
  ASSUME NEW mem, NEW list, NEW len \in Nat, DOMAIN list = 1..len
  PROVE  \E g : Folds(mem, list, g)
<1>u. PICK U : U = 1..len
  OBVIOUS
<1> DEFINE Small(n) == {s \in SUBSET U : Cardinality(s) <= n}
           Body(g, s) == IF s = {} THEN mem ELSE Copied(g[s \ {Max(s)}], list[Max(s)])
           T == {n \in Nat : \E g : g = [s \in Small(n) |-> Body(g, s)]}
<1>0. /\ \A s \in SUBSET U : IsFiniteSet(s) /\ Cardinality(s) \in Nat
      /\ \A s \in SUBSET U : s # {} => Cardinality(s \ {Max(s)}) = Cardinality(s) - 1
  <2>1. IsFiniteSet(U)
    BY <1>u, FS_Interval
  <2>2. \A s \in SUBSET U : IsFiniteSet(s) /\ Cardinality(s) \in Nat
    BY <2>1, FS_Subset, FS_CardinalityType
  <2>3. \A s \in SUBSET U : s # {} => Max(s) \in s
    BY <1>u, MaxIn
  <2> QED BY <2>2, <2>3, FS_RemoveElement
<1>1. 0 \in T
  <2> DEFINE z == [s \in Small(0) |-> mem]
  <2>1. \A s \in Small(0) : s = {}
    BY <1>0, FS_EmptySet
  <2>2. z = [s \in Small(0) |-> Body(z, s)]
    BY <2>1
  <2> QED BY <2>2
<1>2. ASSUME NEW n \in T PROVE n + 1 \in T
  <2>1. PICK g : g = [s \in Small(n) |-> Body(g, s)]
    BY <1>2
  <2> DEFINE k == [s \in Small(n + 1) |-> Body(g, s)]
  <2>2. n \in Nat
    OBVIOUS
  <2>3. Small(n) \subseteq Small(n + 1)
    BY <1>0, <2>2
  <2>4. \A s \in Small(n) : k[s] = g[s]
    <3> TAKE s \in Small(n)
    <3>1. g[s] = Body(g, s)
      BY <2>1
    <3> QED BY <2>3, <3>1
  <2>5. \A s \in Small(n + 1) : s # {} => s \ {Max(s)} \in Small(n)
    BY <1>0, <2>2
  <2>6. \A s \in Small(n + 1) : Body(g, s) = Body(k, s)
    BY <2>4, <2>5
  <2>7. k = [s \in Small(n + 1) |-> Body(k, s)]
    BY <2>6
  <2> HIDE DEF k, Small, Body
  <2> QED BY <2>2, <2>7
<1>3. T = Nat
  <2> HIDE DEF Small, Body
  <2> QED BY <1>1, <1>2, EveryNumber
<1>4. Small(len) = SUBSET U
  <2>1. IsFiniteSet(U) /\ Cardinality(U) = len
    BY <1>u, FS_Interval
  <2>2. \A s \in SUBSET U : Cardinality(s) <= len
    BY <2>1, FS_Subset
  <2> QED BY <2>2
<1>5. PICK g : g = [s \in Small(len) |-> Body(g, s)]
  <2> HIDE DEF Small, Body
  <2> QED BY <1>3, <1>4
<1> QED BY <1>u, <1>4, <1>5 DEF Folds

(* A list of len commands: kept folded, its domain slows the provers down.      *)
Listed(list, len) == DOMAIN list = 1..len

(* ... and its values on 1..k are the memory after k copies.                  *)
LEMMA AfterMoves ==
  ASSUME NEW mem, NEW list, NEW len \in Nat, Listed(list, len)
  PROVE  /\ After(mem, list, 0) = mem
         /\ \A k \in 1..len : After(mem, list, k) = Copied(After(mem, list, k - 1), list[k])
<1>1. PICK g : g = CHOOSE f : Folds(mem, list, f)
  OBVIOUS
<1>2. Folds(mem, list, g)
  BY <1>1, FoldsExist DEF Listed
<1>3. \A k : After(mem, list, k) = g[1..k]
  BY <1>1 DEF After
<1>4. \A s \in SUBSET (1..len) :
        g[s] = IF s = {} THEN mem ELSE Copied(g[s \ {Max(s)}], list[Max(s)])
  BY <1>2 DEF Folds, Listed
<1>5. g[{}] = mem
  BY <1>4
<1>6. ASSUME NEW k \in 1..len
      PROVE  g[1..k] = Copied(g[1..(k - 1)], list[k])
  <2>1. 1..k \in SUBSET (1..len) /\ 1..k # {}
    <3>1. k \in Nat \ {0} /\ k <= len
      OBVIOUS
    <3>2. 1 \in 1..k /\ \A i \in 1..k : i \in 1..len
      BY <3>1
    <3> QED BY <3>2
  <2>2. g[1..k] = Copied(g[(1..k) \ {Max(1..k)}], list[Max(1..k)])
    BY <1>4, <2>1
  <2>3. k \in Nat \ {0}
    OBVIOUS
  <2>4. Max(1..k) = k /\ (1..k) \ {k} = 1..(k - 1)
    BY <2>3, MaxOfRange
  <2> QED BY <2>2, <2>4
<1>7. 1..0 = {}
  OBVIOUS
<1> QED BY <1>3, <1>5, <1>6, <1>7

(* What the accessors store is the copy.                                      *)
LEMMA StoredIsCopied ==
  ASSUME MemoryTypeOK, NEW cmd, {cmd.src, cmd.dst} \subseteq DOMAIN buffers,
         cmd.size \in Nat, cmd.size <= Len(buffers[cmd.src]), cmd.size <= Len(buffers[cmd.dst])
  PROVE  Stored(buffers, cmd.dst, 0, SubSeq(buffers[cmd.src], 1, cmd.size))
           = Copied(buffers, cmd)
<1>1. PICK old, from, n : old = buffers[cmd.dst] /\ from = buffers[cmd.src] /\ n = cmd.size
  OBVIOUS
<1>2. /\ old \in Seq(Value) /\ from \in Seq(Value) /\ n \in Nat
      /\ n <= Len(old) /\ n <= Len(from) /\ Len(old) \in Nat /\ Len(from) \in Nat
  BY <1>1 DEF MemoryTypeOK
<1>3. PICK data, rest : data = SubSeq(from, 1, n) /\ rest = SubSeq(old, n + 1, Len(old))
  OBVIOUS
<1>4. /\ data \in Seq(Value) /\ Len(data) = n /\ \A i \in 1..n : data[i] = from[i]
      /\ rest \in Seq(Value) /\ Len(rest) = Len(old) - n
      /\ \A i \in 1..(Len(old) - n) : rest[i] = old[n + i]
  BY <1>2, <1>3
<1>5. PICK new : new = [i \in 1..Len(old) |-> IF i \in 0 + 1..0 + Len(data)
                                              THEN data[i - 0] ELSE old[i]]
  OBVIOUS
<1>6. /\ new \in Seq(Value) /\ Len(new) = Len(old)
      /\ \A i \in 1..Len(old) : new[i] = IF i <= n THEN data[i] ELSE old[i]
  <2>1. \A i \in 1..Len(old) : i \in 0 + 1..0 + Len(data) <=> i <= n
    BY <1>2, <1>4
  <2>2. \A i \in 1..Len(old) : new[i] = IF i <= n THEN data[i] ELSE old[i]
    BY <1>2, <1>5, <2>1
  <2>3. \A i \in 1..Len(old) : new[i] \in Value
    BY <1>2, <1>4, <2>2
  <2>4. new = [i \in 1..Len(old) |-> new[i]]
    BY <1>5
  <2> QED BY <1>2, <2>2, <2>3, <2>4
<1>7. PICK both : both = data \o rest
  OBVIOUS
<1>8. /\ both \in Seq(Value) /\ Len(both) = Len(old)
      /\ \A i \in 1..Len(old) : both[i] = IF i <= n THEN data[i] ELSE rest[i - n]
  BY <1>2, <1>4, <1>7
<1>9. \A i \in 1..Len(old) : new[i] = both[i]
  <2> TAKE i \in 1..Len(old)
  <2>1. CASE i <= n
    BY <1>6, <1>8, <2>1
  <2>2. CASE ~(i <= n)
    <3>1. i - n \in 1..(Len(old) - n) /\ n + (i - n) = i
      BY <1>2, <2>2
    <3> QED BY <1>4, <1>6, <1>8, <2>2, <3>1
  <2> QED BY <2>1, <2>2
<1>10. new = both
  BY <1>6, <1>8, <1>9
<1>11. Stored(buffers, cmd.dst, 0, data) = [buffers EXCEPT ![cmd.dst] = new]
  BY <1>1, <1>5 DEF Stored
<1>12. Copied(buffers, cmd) = [buffers EXCEPT ![cmd.dst] = both]
  BY <1>1, <1>3, <1>7 DEF Copied
<1> QED BY <1>1, <1>3, <1>10, <1>11, <1>12

(* As far as a list has come its copies are a fold, and none of its handles   *)
(* has been given back.                                                       *)
FoldSoFar ==
  /\ run.pc = "execute" => buffers = After(run.before, run.list, run.at - 1)
  /\ run.pc = "ok" =>
       /\ buffers = After(run.before, run.list, Len(run.list))
       /\ \A k \in DOMAIN run.list : {run.list[k].src, run.list[k].dst} \cap freed = {}

LEMMA FoldGoesOn ==
  ASSUME DeviceInv, FoldSoFar, Execute
  PROVE  FoldSoFar'
<1>1. PICK cmd, at, list, before :
        cmd = Current /\ at = run.at /\ list = run.list /\ before = run.before
  OBVIOUS
<1>2. /\ list \in Seq(Commands) /\ at \in 1..Len(list) /\ Len(list) \in Nat
      /\ run.pc = "execute" /\ RunTypeOK /\ MemoryTypeOK
      /\ \A i \in 1..Len(list) : Executable(list[i])
  BY <1>1 DEF Execute, DeviceInv, ListProgress
<1>3. cmd = list[at] /\ Executable(cmd) /\ cmd \in Commands
  BY <1>1, <1>2 DEF Current
<1>4. /\ {cmd.src, cmd.dst} \subseteq DOMAIN buffers /\ cmd.size \in Nat
      /\ cmd.size <= Len(buffers[cmd.src]) /\ cmd.size <= Len(buffers[cmd.dst])
  BY <1>3, CopyShape DEF Executable
<1>5. InRange(buffers, cmd.src, 0, cmd.size) /\ InRange(buffers, cmd.dst, 0, cmd.size)
  <2>1. Len(buffers[cmd.src]) \in Nat /\ Len(buffers[cmd.dst]) \in Nat
    BY <1>2, <1>4 DEF MemoryTypeOK
  <2> QED BY <1>4, <2>1 DEF InRange
<1>6. /\ buffers' = Stored(buffers, cmd.dst, 0, SubSeq(buffers[cmd.src], 1, cmd.size))
      /\ Step("ok", run.at) /\ freed' = freed
  BY <1>1, <1>5 DEF Execute
<1>7. buffers' = Copied(buffers, cmd)
  BY <1>2, <1>4, <1>6, StoredIsCopied
<1>8. buffers = After(before, list, at - 1)
  BY <1>1, <1>2 DEF FoldSoFar
<1>9. buffers' = After(before, list, at)
  <2>1. PICK len : len = Len(list) /\ len \in Nat /\ DOMAIN list = 1..len /\ at \in 1..len
    BY <1>2
  <2>2. \A k \in 1..len : After(before, list, k) = Copied(After(before, list, k - 1), list[k])
    <3>1. len \in Nat /\ Listed(list, len)
      BY <2>1 DEF Listed
    <3> QED BY <3>1, AfterMoves
  <2>3. After(before, list, at) = Copied(After(before, list, at - 1), list[at])
    BY <2>1, <2>2
  <2> QED BY <1>3, <1>7, <1>8, <2>3
<1>10. CASE at < Len(list)
  <2>1. run' = [run EXCEPT !.at = @ + 1]
    BY <1>1, <1>6, <1>10 DEF Step
  <2>2. run'.pc = "execute" /\ run'.list = list /\ run'.before = before /\ run'.at = at + 1
    BY <1>1, <1>2, <2>1 DEF RunTypeOK
  <2>3. run'.at - 1 = at
    BY <1>2, <2>2
  <2> QED BY <1>9, <2>2, <2>3 DEF FoldSoFar
<1>11. CASE ~(at < Len(list))
  <2>1. run' = [run EXCEPT !.pc = "ok", !.at = run.at]
    BY <1>1, <1>6, <1>11 DEF Step
  <2>2. run'.pc = "ok" /\ run'.list = list /\ run'.before = before
    BY <1>1, <1>2, <2>1 DEF RunTypeOK
  <2>3. at = Len(list)
    BY <1>2, <1>11
  <2>4. \A k \in DOMAIN list : {list[k].src, list[k].dst} \cap freed = {}
    BY <1>2 DEF Executable, DeviceInv, FreedStaysFreed
  <2> QED BY <1>6, <1>9, <2>2, <2>3, <2>4 DEF FoldSoFar
<1> QED BY <1>10, <1>11

LEMMA FoldStarts ==
  ASSUME DeviceInv, FoldSoFar,
         \/ \E list \in SeqOf(Commands, MaxList) : Submit(list)
         \/ Validate \/ Reject \/ EmptyList \/ Return
  PROVE  FoldSoFar'
<1>1. UNCHANGED <<buffers, freed>>
  BY DEF Submit, Validate, Reject, EmptyList, Return
<1>2. CASE \/ \E list \in SeqOf(Commands, MaxList) : Submit(list)
           \/ Reject \/ Return
  <2>1. run'.pc \in {"validate", "error", "idle"}
    BY <1>2 DEF Submit, Reject, Return, Idle, DeviceInv, RunTypeOK
  <2> QED BY <2>1 DEF FoldSoFar
<1>3. CASE EmptyList
  <2>1. run'.pc = "ok" /\ run'.list = <<>> /\ run'.before = run.before /\ buffers = run.before
    BY <1>3 DEF EmptyList, DeviceInv, RunTypeOK, ListProgress
  <2>2. Listed(<<>>, 0) /\ Len(<<>>) = 0
    BY DEF Listed
  <2>3. After(run.before, <<>>, 0) = run.before
    BY <2>2, AfterMoves
  <2> QED BY <1>1, <2>1, <2>2, <2>3 DEF FoldSoFar
<1>4. CASE Validate
  <2>1. /\ run.list \in Seq(Commands) /\ Len(run.list) \in Nat /\ buffers = run.before
        /\ DOMAIN run.list = 1..Len(run.list) /\ RunTypeOK /\ run.pc = "validate"
    BY <1>4 DEF Validate, DeviceInv, ListProgress
  <2>2. Step("execute", 1)
    BY <1>4 DEF Validate
  <2>3. CASE run.at < Len(run.list)
    <3>1. run'.pc = "validate"
      BY <2>1, <2>2, <2>3 DEF Step, RunTypeOK
    <3> QED BY <3>1 DEF FoldSoFar
  <2>4. CASE ~(run.at < Len(run.list))
    <3>1. /\ run'.pc = "execute" /\ run'.at = 1 /\ run'.list = run.list
          /\ run'.before = run.before
      BY <2>1, <2>2, <2>4 DEF Step, RunTypeOK
    <3>2. Listed(run.list, Len(run.list))
      BY <2>1 DEF Listed
    <3>3. After(run.before, run.list, 0) = run.before
      BY <2>1, <3>2, AfterMoves
    <3> QED BY <1>1, <2>1, <3>1, <3>3 DEF FoldSoFar
  <2> QED BY <2>3, <2>4
<1> QED BY <1>2, <1>3, <1>4

(* Ok means that every copy of the list happened, in its order, on memory     *)
(* that nobody had given back.                                                *)
THEOREM OkIsTheWholeList == Spec => []OkMeansWholeList
<1>1. Init => FoldSoFar
  BY DEF Init, Idle, FoldSoFar
<1>2. DeviceInv /\ FoldSoFar /\ [Next]_vars => FoldSoFar'
  <2> SUFFICES ASSUME DeviceInv, FoldSoFar, [Next]_vars PROVE FoldSoFar'
    OBVIOUS
  <2>1. CASE Execute
    BY <2>1, FoldGoesOn
  <2>2. CASE \/ \E list \in SeqOf(Commands, MaxList) : Submit(list)
             \/ Validate \/ Reject \/ EmptyList \/ Return
    BY <2>2, FoldStarts
  <2>3. CASE \/ \E size \in Sizes : Allocate(size)
             \/ \E handle \in Handles : Free(handle)
             \/ \E handle \in Handles, offset \in {0, 1}, v \in Value :
                  Write(handle, offset, <<v>>)
    <3>1. run' = run /\ run.pc = "idle"
      BY <2>3 DEF Allocate, Free, Write
    <3> QED BY <3>1 DEF FoldSoFar
  <2>4. CASE UNCHANGED vars
    BY <2>4 DEF vars, FoldSoFar
  <2> QED BY <2>1, <2>2, <2>3, <2>4 DEF Next
<1>3. DeviceInv /\ FoldSoFar => OkMeansWholeList
  <2> SUFFICES ASSUME DeviceInv, FoldSoFar, run.pc = "ok" PROVE OkMeansWholeList
    BY DEF OkMeansWholeList
  <2>1. DOMAIN run.list = 1..Len(run.list)
    BY DEF DeviceInv, ListProgress
  <2>2. FoldLeft(Copied, run.before, run.list) = After(run.before, run.list, Len(run.list))
    BY <2>1, FoldIsAfter
  <2> QED BY <2>2 DEF OkMeansWholeList, FoldSoFar
<1> QED BY <1>1, <1>2, <1>3, DeviceInvariance, PTL DEF Spec

--------------------------------------------------------------------------------
(* The textures.  Division and its remainder.                                  *)
LEMMA DivMod ==
  ASSUME NEW a \in Int, NEW b \in Nat \ {0}
  PROVE  \E q \in Int, r \in 0 .. b - 1 : q = a \div b /\ r = a % b /\ a = b * q + r
<1>1. PICK q : q = a \div b
  OBVIOUS
<1>2. PICK r : r = a % b
  OBVIOUS
<1>3. q \in Int /\ r \in Int /\ r >= 0 /\ r < b
  BY <1>1, <1>2
<1>4. a = b * q + r
  BY <1>1, <1>2, <1>3
<1> QED BY <1>1, <1>2, <1>3, <1>4

LEMMA RemainderIs ==
  ASSUME NEW a \in Int, NEW b \in Nat \ {0}, NEW q \in Int, NEW r \in 0 .. b - 1, a = b * q + r
  PROVE  a % b = r /\ a \div b = q
  OBVIOUS

LEMMA Monotone ==
  ASSUME NEW a \in Nat, NEW b \in Nat, NEW c \in Nat, a <= b
  PROVE  a * c <= b * c
  OBVIOUS

LEMMA MultipleMod ==
  ASSUME NEW a \in Int, NEW b \in Nat \ {0}, NEW k \in Int, a = b * k
  PROVE  a % b = 0
<1>1. 0 \in 0 .. b - 1 /\ a = b * k + 0
  OBVIOUS
<1> QED BY <1>1, RemainderIs

(* The smaller and the greater of two numbers.                                 *)
LEMMA LesserOfTwo ==
  ASSUME NEW a \in Int, NEW b \in Int
  PROVE  Min({a, b}) = IF a <= b THEN a ELSE b
<1>1. PICK m : m = (IF a <= b THEN a ELSE b) /\ m \in {a, b} /\ m <= a /\ m <= b
  OBVIOUS
<1>2. \A x \in {a, b} : (\A y \in {a, b} : x <= y) => x = m
  BY <1>1
<1> QED BY <1>1, <1>2 DEF Min

LEMMA GreaterOfTwo ==
  ASSUME NEW a \in Int, NEW b \in Int
  PROVE  Max({a, b}) = IF a >= b THEN a ELSE b
<1>1. PICK m : m = (IF a >= b THEN a ELSE b) /\ m \in {a, b} /\ m >= a /\ m >= b
  OBVIOUS
<1>2. \A x \in {a, b} : (\A y \in {a, b} : x >= y) => x = m
  BY <1>1
<1> QED BY <1>1, <1>2 DEF Max

(* Whole textures, and pairs of one and its reflection, away from c.           *)
LEMMA Repeats ==
  ASSUME NEW g \in Nat \ {0}, NEW q \in Int, NEW r \in 0 .. g - 1, NEW c \in Int, c = g * q + r
  PROVE  (r - c) % g = 0
<1>1. PICK x \in Int : x = r - c
  OBVIOUS
<1>2. PICK k \in Int : k = 0 - q
  OBVIOUS
<1>3. x = g * k
  BY <1>1, <1>2
<1>4. x % g = 0
  BY <1>3, MultipleMod
<1> QED BY <1>1, <1>4

LEMMA Reflects ==
  ASSUME NEW g \in Nat \ {0}, NEW h \in Int, NEW r \in Int
  PROVE  /\ ((g - r) + (g * (2 * h + 1) + r)) % (2 * g) = 0
         /\ (r - (g * (2 * h) + r)) % (2 * g) = 0
<1>1. PICK b \in Nat \ {0} : b = 2 * g
  OBVIOUS
<1>2. PICK x \in Int, k \in Int : x = (g - r) + (g * (2 * h + 1) + r) /\ k = h + 1
  OBVIOUS
<1>3. PICK y \in Int, l \in Int : y = r - (g * (2 * h) + r) /\ l = 0 - h
  OBVIOUS
<1>4. x = b * k /\ y = b * l
  BY <1>1, <1>2, <1>3
<1>5. x % b = 0 /\ y % b = 0
  BY <1>4, MultipleMod
<1> QED BY <1>1, <1>2, <1>3, <1>5

(* Where a coordinate falls is a place that the address mode shows.            *)
LEMMA FoldedShows ==
  ASSUME NEW mode \in Modes, NEW c \in Int
  PROVE  Folded(mode, c) \in 0 .. Grid /\ Folded(mode, c) \in Places(mode, c)
<1>1. Grid \in Nat \ {0}
  BY TextureAssumption
<1>2. PICK q \in Int, r \in 0 .. Grid - 1 : q = c \div Grid /\ r = c % Grid /\ c = Grid * q + r
  BY <1>1, DivMod
<1>3. CASE mode = "repeat"
  <2>1. Folded(mode, c) = r
    BY <1>2, <1>3 DEF Folded
  <2>2. \A m \in 0 .. Grid - 1 : (m - c) % Grid = 0 => m \in Places(mode, c)
    BY <1>3 DEF Places
  <2>3. (r - c) % Grid = 0
    BY <1>1, <1>2, Repeats
  <2> QED BY <1>1, <2>1, <2>2, <2>3
<1>4. CASE mode = "mirror"
  <2>1. PICK h \in Int, o \in 0 .. 1 : q = 2 * h + o /\ o = q % 2
    <3>1. 2 \in Nat \ {0}
      OBVIOUS
    <3>2. \E h \in Int, o \in 0 .. 2 - 1 : h = q \div 2 /\ o = q % 2 /\ q = 2 * h + o
      BY <3>1, DivMod
    <3> QED BY <3>2
  <2>2. \A m \in 0 .. Grid : (m - c) % (2 * Grid) = 0 \/ (m + c) % (2 * Grid) = 0 =>
          m \in Places(mode, c)
    BY <1>4 DEF Places
  <2>3. /\ o = 1 => ((Grid - r) + c) % (2 * Grid) = 0
        /\ o = 0 => (r - c) % (2 * Grid) = 0
    <3>1. r \in Int
      BY <1>1
    <3>2. o = 1 => c = Grid * (2 * h + 1) + r
      BY <1>2, <2>1
    <3>3. o = 0 => c = Grid * (2 * h) + r
      BY <1>2, <2>1
    <3>4. /\ ((Grid - r) + (Grid * (2 * h + 1) + r)) % (2 * Grid) = 0
          /\ (r - (Grid * (2 * h) + r)) % (2 * Grid) = 0
      BY <1>1, <3>1, Reflects, Zenon
    <3> QED BY <3>2, <3>3, <3>4, Zenon
  <2>4. CASE o = 1
    <3>1. Folded(mode, c) = Grid - r
      <4>1. (c \div Grid) % 2 = 1 /\ c % Grid = r
        BY <1>2, <2>1, <2>4
      <4> QED BY <1>4, <4>1 DEF Folded
    <3>2. ((Grid - r) + c) % (2 * Grid) = 0
      BY <2>3, <2>4
    <3>3. Grid - r \in 0 .. Grid
      BY <1>1
    <3> QED BY <2>2, <3>1, <3>2, <3>3
  <2>5. CASE o = 0
    <3>1. Folded(mode, c) = r
      <4>1. (c \div Grid) % 2 # 1 /\ c % Grid = r
        BY <1>2, <2>1, <2>5
      <4> QED BY <1>4, <4>1 DEF Folded
    <3>2. (r - c) % (2 * Grid) = 0
      BY <2>3, <2>5
    <3>3. r \in 0 .. Grid
      BY <1>1
    <3> QED BY <2>2, <3>1, <3>2, <3>3
  <2> QED BY <2>1, <2>4, <2>5
<1>5. CASE mode \notin {"repeat", "mirror"}
  <2>1. PICK m \in 0 .. Grid : m = IF c < 0 THEN 0 ELSE IF c <= Grid THEN c ELSE Grid
    BY <1>1
  <2>2. Folded(mode, c) = m
    <3>1. Min({c, Grid}) = IF c <= Grid THEN c ELSE Grid
      BY <1>1, LesserOfTwo
    <3>2. Max({0, Min({c, Grid})}) = m
      BY <1>1, <2>1, <3>1, GreaterOfTwo
    <3> QED BY <1>5, <3>2 DEF Folded
  <2>3. ASSUME NEW n \in 0 .. Grid
        PROVE  (m - c) * (m - c) <= (n - c) * (n - c)
    <3>1. \A x, y \in Nat : x <= y => x * x <= y * y
      <4> TAKE x, y \in Nat
      <4> HAVE x <= y
      <4>1. x * x <= y * x /\ x * y <= y * y
        BY Monotone
      <4> QED BY <4>1
    <3>2. CASE c < 0
      <4>1. m = 0 /\ 0 - c \in Nat /\ n - c \in Nat /\ 0 - c <= n - c
        BY <1>1, <2>1, <3>2
      <4> QED BY <3>1, <4>1
    <3>3. CASE c > Grid
      <4>1. m = Grid /\ c - Grid \in Nat /\ c - n \in Nat /\ c - Grid <= c - n
        BY <1>1, <2>1, <3>3
      <4>2. (c - Grid) * (c - Grid) <= (c - n) * (c - n)
        BY <3>1, <4>1
      <4> QED BY <1>1, <4>1, <4>2
    <3>4. CASE c \in 0 .. Grid
      <4>1. m = c /\ (m - c) * (m - c) = 0
        BY <1>1, <2>1, <3>4
      <4>2. (n - c) * (n - c) >= 0
        <5>1. \A x \in Int : x * x >= 0
          OBVIOUS
        <5> QED BY <1>1, <5>1
      <4> QED BY <4>1, <4>2
    <3> QED BY <1>1, <3>2, <3>3, <3>4
  <2> QED BY <1>5, <2>1, <2>2, <2>3 DEF Places
<1> QED BY <1>3, <1>4, <1>5
(* And the texel of a folded coordinate is one of the texels there.            *)
LEMMA TexelShows ==
  ASSUME NEW mode \in Modes, NEW c \in Int, NEW size \in Nat \ {0}
  PROVE  Texel(mode, c, size) \in At(mode, c, size) /\ Texel(mode, c, size) \in 0 .. size - 1
<1>1. PICK m \in 0 .. Grid : m = Folded(mode, c) /\ m \in Places(mode, c)
  BY FoldedShows
<1>2. Grid \in Nat \ {0}
  BY TextureAssumption
<1>3. PICK x \in Nat : x = m * size
  BY <1>1, <1>2
<1>4. x <= size * Grid
  BY <1>1, <1>2, <1>3, Monotone
<1>5. PICK q \in Int, r \in 0 .. Grid - 1 : q = x \div Grid /\ x = Grid * q + r
  BY <1>2, DivMod
<1>6. PICK p : p = IF q <= size - 1 THEN q ELSE size - 1
  OBVIOUS
<1>7. Texel(mode, c, size) = p
  <2>1. Texel(mode, c, size) = Min({q, size - 1})
    BY <1>1, <1>3, <1>5 DEF Texel
  <2> QED BY <1>6, <2>1, LesserOfTwo
<1>8. q >= 0
  <2>1. ASSUME q <= -1 PROVE Grid * q <= 0 - Grid
    BY <1>2, <2>1
  <2> QED BY <1>2, <1>5, <2>1
<1>9. p \in 0 .. size - 1 /\ p * Grid <= x /\ x <= (p + 1) * Grid
  <2>1. CASE q <= size - 1
    BY <1>2, <1>5, <1>6, <1>8, <2>1
  <2>2. CASE q > size - 1
    <3>1. p = size - 1 /\ p \in Nat /\ q \in Nat /\ p <= q
      BY <1>6, <1>8, <2>2
    <3>2. p * Grid <= q * Grid
      BY <1>2, <3>1, Monotone
    <3> QED BY <1>2, <1>4, <1>5, <3>1, <3>2
  <2> QED BY <2>1, <2>2
<1> QED BY <1>1, <1>3, <1>7, <1>9 DEF At

--------------------------------------------------------------------------------
(* The owners' account and the table agree.                                    *)

Drawable == {d \in Descriptors : d.width > 0 /\ d.height > 0}

IsEntry(k, x) ==
  /\ DOMAIN x = {"id", "desc", "given", "live"} /\ x.id = k
  /\ x.desc \in Drawable /\ x.live \in BOOLEAN
  /\ x.given \in Seq(Range(x.given)) /\ Len(x.given) = DataSize(x.desc)

(* Ids are given out one after the other and to nothing else.                  *)
IsAccount(m, next) ==
  /\ next \in Nat \ {0} /\ m = [k \in 1 .. next - 1 |-> m[k]]
  /\ \A k \in 1 .. next - 1 : IsEntry(k, m[k])

(* What is stored under an id is what its owner put there.                     *)
Agrees(t, m) ==
  /\ DOMAIN t = {k \in DOMAIN m : m[k].live}
  /\ \A k \in DOMAIN t : t[k] = [desc |-> m[k].desc, data |-> m[k].given]

SamplersOK == \A s \in DOMAIN samplers : samplers[s] \in Modes

TextureInv ==
  IsAccount(made, nextTexture) /\ Agrees(textures, made) /\ SamplersOK /\ AnswersExact

LEMMA Tabulated ==
  ASSUME NEW n \in Nat, NEW f, f = [k \in 1 .. n |-> f[k]]
  PROVE  f \in Seq(Range(f)) /\ Len(f) = n /\ DOMAIN f = 1 .. n
<1>1. DOMAIN f = 1 .. n
  OBVIOUS
<1>2. \A k \in 1 .. n : f[k] \in Range(f)
  BY <1>1 DEF Range
<1>3. [k \in 1 .. n |-> f[k]] \in Seq(Range(f)) /\ Len([k \in 1 .. n |-> f[k]]) = n
  BY <1>2
<1> QED BY <1>1, <1>3

LEMMA SizesAreNumbers ==
  ASSUME NEW d \in Descriptors
  PROVE  /\ d.width \in Nat /\ d.height \in Nat /\ d.depth \in Nat /\ d.layers \in Nat
         /\ d.format \in Formats /\ UnitsPerTexel(d.format) \in {1, 2, 4}
         /\ Plane(d) \in Nat /\ DataSize(d) \in Nat
<1>1. /\ d.width \in Nat /\ d.height \in Nat /\ d.depth \in Nat /\ d.layers \in Nat
      /\ d.format \in Formats
  BY TextureAssumption
<1>2. UnitsPerTexel(d.format) \in {1, 2, 4}
  BY <1>1 DEF UnitsPerTexel, Formats
<1>3. \A x, y \in Nat : x * y \in Nat
  OBVIOUS
<1>4. Plane(d) \in Nat
  BY <1>1, <1>2, <1>3 DEF Plane
<1> QED BY <1>1, <1>2, <1>3, <1>4 DEF DataSize

(* An account with one more entry, and one with an entry changed.              *)
LEMMA AccountGrows ==
  ASSUME NEW m, NEW next, IsAccount(m, next), NEW x, IsEntry(next, x)
  PROVE  /\ IsAccount(Append(m, x), next + 1)
         /\ DOMAIN Append(m, x) = DOMAIN m \cup {next}
         /\ next \notin DOMAIN m
         /\ \A k \in DOMAIN m : Append(m, x)[k] = m[k]
         /\ Append(m, x)[next] = x
<1>1. PICK n \in Nat : n = next - 1 /\ m = [k \in 1 .. n |-> m[k]]
  BY DEF IsAccount
<1>2. m \in Seq(Range(m)) /\ Len(m) = n /\ DOMAIN m = 1 .. n
  BY <1>1, Tabulated
<1>3. PICK S : S = Range(m) \cup {x}
  OBVIOUS
<1>4. m \in Seq(S) /\ x \in S
  BY <1>2, <1>3
<1>5. PICK a : a = Append(m, x)
  OBVIOUS
<1>6. /\ a \in Seq(S) /\ Len(a) = n + 1 /\ a[n + 1] = x
      /\ \A k \in 1 .. n : a[k] = m[k]
  BY <1>2, <1>4, <1>5
<1>7. a = [k \in 1 .. n + 1 |-> a[k]]
  BY <1>6
<1>8. next = n + 1 /\ n + 1 \in Nat \ {0} /\ DOMAIN a = 1 .. n + 1
  BY <1>1, <1>6 DEF IsAccount
<1>9. \A k \in 1 .. n + 1 : IsEntry(k, a[k])
  <2>1. \A k \in 1 .. n : IsEntry(k, a[k])
    BY <1>1, <1>6 DEF IsAccount
  <2>2. IsEntry(n + 1, a[n + 1])
    BY <1>6, <1>8
  <2> QED BY <2>1, <2>2
<1>10. IsAccount(a, next + 1)
  BY <1>7, <1>8, <1>9 DEF IsAccount
<1> QED BY <1>2, <1>5, <1>6, <1>8, <1>10

LEMMA AccountChanges ==
  ASSUME NEW m, NEW next, IsAccount(m, next), NEW f, f = [k \in DOMAIN m |-> f[k]],
         \A k \in DOMAIN m : IsEntry(k, f[k])
  PROVE  IsAccount(f, next) /\ DOMAIN f = DOMAIN m
  BY DEF IsAccount

(* A texture is new: its id was never another's.                               *)
LEMMA CreateKeeps ==
  ASSUME TextureInv, NEW d \in Descriptors, CreateTexture(d)
  PROVE  IsAccount(made', nextTexture') /\ Agrees(textures', made')
<1>1. PICK m, t, next : m = made /\ t = textures /\ next = nextTexture
  OBVIOUS
<1>2. IsAccount(m, next) /\ Agrees(t, m)
  BY <1>1 DEF TextureInv
<1>3. PICK data : data = [i \in 1 .. DataSize(d) |-> <<0, 0, 0, 0>>]
  OBVIOUS
<1>4. PICK x : x = [id |-> next, desc |-> d, given |-> data, live |-> TRUE]
  OBVIOUS
<1>5. /\ textures' = With(t, next, [desc |-> d, data |-> data])
      /\ made' = Append(m, x) /\ nextTexture' = next + 1
      /\ d \in Drawable
  BY <1>1, <1>3, <1>4 DEF CreateTexture, Drawable
<1>6. IsEntry(next, x)
  <2>1. data = [i \in 1 .. DataSize(d) |-> data[i]] /\ DataSize(d) \in Nat
    BY <1>3, SizesAreNumbers
  <2>2. data \in Seq(Range(data)) /\ Len(data) = DataSize(d)
    BY <2>1, Tabulated
  <2> QED BY <1>4, <1>5, <2>2 DEF IsEntry
<1>7. /\ IsAccount(made', next + 1) /\ DOMAIN made' = DOMAIN m \cup {next} /\ next \notin DOMAIN m
      /\ \A k \in DOMAIN m : made'[k] = m[k]
      /\ made'[next] = x
  BY <1>2, <1>5, <1>6, AccountGrows
<1>8. /\ DOMAIN textures' = DOMAIN t \cup {next}
      /\ textures'[next] = [desc |-> d, data |-> data]
      /\ \A k \in DOMAIN t : k # next => textures'[k] = t[k]
  BY <1>5 DEF With
<1>9. Agrees(textures', made')
  <2>1. DOMAIN textures' = {k \in DOMAIN made' : made'[k].live}
    BY <1>2, <1>4, <1>7, <1>8 DEF Agrees
  <2>2. textures'[next] = [desc |-> made'[next].desc, data |-> made'[next].given]
    BY <1>4, <1>7, <1>8
  <2>3. \A k \in DOMAIN t : textures'[k] = [desc |-> made'[k].desc, data |-> made'[k].given]
    BY <1>2, <1>7, <1>8 DEF Agrees
  <2> QED BY <1>8, <2>1, <2>2, <2>3 DEF Agrees
<1> QED BY <1>5, <1>7, <1>9

(* New data for a texture: its owner put it there.                             *)
LEMMA DataKept ==
  ASSUME TextureInv, NEW id \in DOMAIN textures, NEW data, data \in Seq(Range(data)),
         Len(data) = DataSize(textures[id].desc),
         textures' = [textures EXCEPT ![id].data = data], Given(id, data)
  PROVE  IsAccount(made', nextTexture) /\ Agrees(textures', made')
<1>1. PICK m, t, next : m = made /\ t = textures /\ next = nextTexture
  OBVIOUS
<1>2. IsAccount(m, next) /\ Agrees(t, m)
  BY <1>1 DEF TextureInv
<1>3. /\ \A k \in DOMAIN m : IsEntry(k, m[k])
      /\ \A k \in DOMAIN m : m[k].id = k
  BY <1>2 DEF IsAccount, IsEntry
<1>4. id \in DOMAIN m /\ m[id].live /\ t[id] = [desc |-> m[id].desc, data |-> m[id].given]
  BY <1>1, <1>2 DEF Agrees
<1>5. PICK x : x = [m[id] EXCEPT !.given = data]
  OBVIOUS
<1>6. /\ x.desc = m[id].desc /\ x.live /\ x.given = data
      /\ IsEntry(id, x)
  <2>1. DOMAIN m[id] = {"id", "desc", "given", "live"} /\ m[id].id = id
    BY <1>3, <1>4 DEF IsEntry
  <2>2. /\ DOMAIN x = DOMAIN m[id] /\ x.id = id /\ x.desc = m[id].desc /\ x.given = data
        /\ x.live <=> m[id].live
    BY <1>5, <2>1
  <2>3. Len(data) = DataSize(m[id].desc)
    BY <1>1, <1>4
  <2> QED BY <1>3, <1>4, <2>2, <2>3 DEF IsEntry
<1>7. made' = [k \in DOMAIN m |-> IF k = id THEN x ELSE m[k]]
  BY <1>1, <1>3, <1>4, <1>5 DEF Given
<1>8. IsAccount(made', next) /\ DOMAIN made' = DOMAIN m
  <2>1. made' = [k \in DOMAIN m |-> made'[k]] /\ \A k \in DOMAIN m : IsEntry(k, made'[k])
    BY <1>3, <1>6, <1>7
  <2> QED BY <1>2, <2>1, AccountChanges
<1>9. /\ DOMAIN textures' = DOMAIN t
      /\ textures'[id] = [desc |-> m[id].desc, data |-> data]
      /\ \A k \in DOMAIN t : k # id => textures'[k] = t[k]
  BY <1>1, <1>4
<1>10. Agrees(textures', made')
  <2>1. DOMAIN textures' = {k \in DOMAIN made' : made'[k].live}
    BY <1>2, <1>4, <1>6, <1>7, <1>9 DEF Agrees
  <2>2. \A k \in DOMAIN t : textures'[k] = [desc |-> made'[k].desc, data |-> made'[k].given]
    BY <1>2, <1>4, <1>6, <1>7, <1>9 DEF Agrees
  <2> QED BY <1>9, <2>1, <2>2 DEF Agrees
<1> QED BY <1>1, <1>8, <1>10

LEMMA DeleteKeeps ==
  ASSUME TextureInv, NEW id, DeleteTexture(id)
  PROVE  IsAccount(made', nextTexture') /\ Agrees(textures', made')
<1>1. PICK m, t, next : m = made /\ t = textures /\ next = nextTexture
  OBVIOUS
<1>2. IsAccount(m, next) /\ Agrees(t, m)
  BY <1>1 DEF TextureInv
<1>3. \A k \in DOMAIN m : IsEntry(k, m[k]) /\ m[k].id = k
  BY <1>2 DEF IsAccount, IsEntry
<1>4. id \in DOMAIN m
  BY <1>1, <1>2 DEF DeleteTexture, Agrees
<1>5. PICK x : x = [m[id] EXCEPT !.live = FALSE]
  OBVIOUS
<1>6. ~x.live /\ IsEntry(id, x)
  <2>1. DOMAIN m[id] = {"id", "desc", "given", "live"} /\ m[id].id = id
    BY <1>3, <1>4 DEF IsEntry
  <2>2. /\ DOMAIN x = DOMAIN m[id] /\ x.id = id /\ x.desc = m[id].desc
        /\ x.given = m[id].given
    BY <1>5, <2>1
  <2>3. ~x.live
    BY <1>5, <2>1, Zenon
  <2>4. x.live \in BOOLEAN
    BY <1>5, <2>1
  <2> QED BY <1>3, <1>4, <2>2, <2>3, <2>4 DEF IsEntry
<1>7. made' = [k \in DOMAIN m |-> IF k = id THEN x ELSE m[k]]
  BY <1>1, <1>3, <1>4, <1>5 DEF DeleteTexture
<1>8. IsAccount(made', next) /\ DOMAIN made' = DOMAIN m
  <2>1. made' = [k \in DOMAIN m |-> made'[k]] /\ \A k \in DOMAIN m : IsEntry(k, made'[k])
    BY <1>3, <1>6, <1>7
  <2> QED BY <1>2, <2>1, AccountChanges
<1>9. /\ DOMAIN textures' = DOMAIN t \ {id}
      /\ \A k \in DOMAIN t \ {id} : textures'[k] = t[k]
  BY <1>1 DEF DeleteTexture, Restrict
<1>10. Agrees(textures', made')
  <2>1. DOMAIN textures' = {k \in DOMAIN made' : made'[k].live}
    BY <1>2, <1>6, <1>7, <1>9 DEF Agrees
  <2>2. \A k \in DOMAIN textures' : textures'[k] = [desc |-> made'[k].desc, data |-> made'[k].given]
    BY <1>2, <1>7, <1>9 DEF Agrees
  <2> QED BY <2>1, <2>2 DEF Agrees
<1> QED BY <1>1, <1>8, <1>10 DEF DeleteTexture

--------------------------------------------------------------------------------
(* Sampling.                                                                   *)

(* Offsets are within the plane of a texture.                                  *)
LEMMA OffsetInPlane ==
  ASSUME NEW d \in Drawable, NEW mode \in Modes, NEW c \in Int \X Int
  PROVE  \E x \in At(mode, c[1], d.width), y \in At(mode, c[2], d.height) :
           /\ x \in Nat /\ y \in Nat /\ y * d.width + x \in Nat
           /\ TexelOffset(d, mode, c) = (y * d.width + x) * UnitsPerTexel(d.format)
           /\ TexelOffset(d, mode, c) \in Nat /\ TexelOffset(d, mode, c) < Plane(d)
<1>1. PICK w, h, units : w = d.width /\ h = d.height /\ units = UnitsPerTexel(d.format)
  OBVIOUS
<1>2. w \in Nat \ {0} /\ h \in Nat \ {0} /\ units \in Nat \ {0} /\ Plane(d) = w * h * units
  BY <1>1, SizesAreNumbers DEF Drawable, Plane
<1>3. PICK x \in 0 .. w - 1 : x = Texel(mode, c[1], w) /\ x \in At(mode, c[1], w)
  BY <1>2, TexelShows
<1>4. PICK y \in 0 .. h - 1 : y = Texel(mode, c[2], h) /\ y \in At(mode, c[2], h)
  BY <1>2, TexelShows
<1>5. PICK n : n = y * w + x
  OBVIOUS
<1>6. n \in Nat /\ n + 1 <= w * h
  <2>1. y * w <= (h - 1) * w
    BY <1>2, Monotone
  <2>2. y * w \in Nat /\ w * h \in Nat /\ (h - 1) * w = w * h - w
    BY <1>2
  <2> QED BY <1>2, <1>5, <2>1, <2>2
<1>7. n * units \in Nat /\ n * units < w * h * units
  <2>1. PICK p \in Nat : p = w * h
    BY <1>2
  <2>2. (n + 1) * units <= p * units
    BY <1>2, <1>6, <2>1, Monotone
  <2>3. (n + 1) * units = n * units + units /\ n * units \in Nat
    BY <1>2, <1>6
  <2> QED BY <1>2, <2>1, <2>2, <2>3
<1>8. TexelOffset(d, mode, c) = n * units
  BY <1>1, <1>3, <1>4, <1>5 DEF TexelOffset
<1> QED BY <1>1, <1>2, <1>3, <1>4, <1>5, <1>6, <1>7, <1>8

(* With a depth and layers, a plane is not more than the data.                 *)
LEMMA PlaneInData ==
  ASSUME NEW d \in Descriptors, 0 \notin {d.depth, d.layers}
  PROVE  Plane(d) <= DataSize(d)
<1>1. PICK p \in Nat, a \in Nat \ {0}, b \in Nat \ {0} : p = Plane(d) /\ a = d.depth /\ b = d.layers
  BY SizesAreNumbers
<1>2. a * b \in Nat \ {0}
  BY <1>1
<1>3. 1 * p <= (a * b) * p
  BY <1>1, <1>2, Monotone
<1>4. (a * b) * p = p * a * b
  BY <1>1
<1> QED BY <1>1, <1>3, <1>4 DEF DataSize

LEMMA ColoursOrdered ==
  ASSUME NEW format \in {"rgba8", "bgra8"}, NEW unit
  PROVE  Ordered(format, unit) = <<"ok", Colour(format, unit)>>
<1>1. CASE format = "rgba8"
  BY <1>1 DEF Ordered, Colour
<1>2. CASE format = "bgra8"
  <2>1. PICK f : f = [c \in 1..4 |-> unit[CASE c = 1 -> 3 [] c = 3 -> 1 [] OTHER -> c]]
    OBVIOUS
  <2>2. DOMAIN f = 1..4 /\ f[1] = unit[3] /\ f[2] = unit[2] /\ f[3] = unit[1] /\ f[4] = unit[4]
    BY <2>1
  <2>3. f = <<unit[3], unit[2], unit[1], unit[4]>>
    BY <2>1, <2>2
  <2> QED BY <1>2, <2>1, <2>3 DEF Ordered, Colour
<1> QED BY <1>1, <1>2

(* The build checks 32-bit products, or no plane needs it.                     *)
OffsetsFit == OffsetChecks \/ \A d \in Descriptors : Plane(d) <= OffsetUnits

LEMMA Explained ==
  ASSUME NEW value, NEW d, NEW data, NEW mode, NEW c,
         \/ value = <<"panic">> /\ Plane(d) > OffsetUnits
         \/ value = <<"outOfBounds">> /\ 0 \in {d.depth, d.layers}
         \/ value = <<"unsupported">> /\ d.format \notin {"rgba8", "bgra8"}
         \/ \E x \in At(mode, c[1], d.width), y \in At(mode, c[2], d.height) :
              value = <<"ok", Colour(d.format, data[y * d.width + x + 1])>>
  PROVE  Justified(value, d, data, mode, c)
<1>1. CASE value = <<"panic">> /\ Plane(d) > OffsetUnits
  BY <1>1 DEF Justified
<1>2. CASE value = <<"outOfBounds">> /\ 0 \in {d.depth, d.layers}
  BY <1>2 DEF Justified
<1>3. CASE value = <<"unsupported">> /\ d.format \notin {"rgba8", "bgra8"}
  BY <1>3 DEF Justified
<1>4. CASE \E x \in At(mode, c[1], d.width), y \in At(mode, c[2], d.height) :
             value = <<"ok", Colour(d.format, data[y * d.width + x + 1])>>
  <2>1. value # <<"panic">> /\ value # <<"outOfBounds">> /\ value # <<"unsupported">>
    BY <1>4
  <2> QED BY <1>4, <2>1 DEF Justified
<1> QED BY <1>1, <1>2, <1>3, <1>4

LEMMA SampledExplained ==
  ASSUME OffsetsFit, TextureInv, NEW id \in DOMAIN textures, NEW sampler \in DOMAIN samplers,
         NEW c \in Int \X Int
  PROVE  Justified(Sampled(id, sampler, c), made[id].desc, made[id].given, samplers[sampler], c)
<1>1. PICK d, given, mode :
        d = made[id].desc /\ given = made[id].given /\ mode = samplers[sampler]
  OBVIOUS
<1>2. /\ textures[id] = [desc |-> d, data |-> given]
      /\ id \in DOMAIN made /\ IsEntry(id, made[id])
  BY <1>1 DEF TextureInv, Agrees, IsAccount
<1>3. d \in Drawable /\ d \in Descriptors /\ Len(given) = DataSize(d) /\ mode \in Modes
  BY <1>1, <1>2 DEF IsEntry, Drawable, TextureInv, SamplersOK
<1>4. PICK x \in At(mode, c[1], d.width), y \in At(mode, c[2], d.height) :
        /\ x \in Nat /\ y \in Nat /\ y * d.width + x \in Nat
        /\ TexelOffset(d, mode, c) = (y * d.width + x) * UnitsPerTexel(d.format)
        /\ TexelOffset(d, mode, c) \in Nat /\ TexelOffset(d, mode, c) < Plane(d)
  BY <1>3, OffsetInPlane
<1>5. PICK n \in Nat : n = TexelOffset(d, mode, c)
  BY <1>4
<1>6. /\ n = TexelOffset(d, mode, c) /\ n < Plane(d)
      /\ n = (y * d.width + x) * UnitsPerTexel(d.format)
      /\ y * d.width + x \in Nat
  BY <1>4, <1>5, Zenon
<1>7. PICK value : value = Sampled(id, sampler, c)
  OBVIOUS
<1>8. value = IF OffsetChecks /\ n >= OffsetUnits THEN <<"panic">>
              ELSE IF n % OffsetUnits >= Len(given) THEN <<"outOfBounds">>
              ELSE Ordered(d.format, given[(n % OffsetUnits) + 1])
  BY <1>1, <1>2, <1>5, <1>7 DEF Sampled
<1>9. OffsetUnits \in Nat \ {0} /\ Plane(d) \in Nat /\ DataSize(d) \in Nat
  BY <1>3, SizesAreNumbers, TextureAssumption
<1>10. CASE OffsetChecks /\ n >= OffsetUnits
  BY <1>1, <1>6, <1>7, <1>8, <1>9, <1>10, Explained
<1>11. CASE ~(OffsetChecks /\ n >= OffsetUnits)
  <2>1. n < OffsetUnits
    BY <1>3, <1>6, <1>9, <1>11 DEF OffsetsFit
  <2>2. n % OffsetUnits = n
    <3>1. n \in 0 .. OffsetUnits - 1 /\ n = OffsetUnits * 0 + n
      BY <1>9, <2>1
    <3> QED BY <1>9, <3>1, RemainderIs
  <2>3. CASE n >= Len(given)
    <3>1. 0 \in {d.depth, d.layers}
      BY <1>3, <1>6, <1>9, <2>3, PlaneInData
    <3> QED BY <1>1, <1>7, <1>8, <1>11, <2>2, <2>3, <3>1, Explained
  <2>4. CASE ~(n >= Len(given))
    <3>1. value = Ordered(d.format, given[n + 1])
      BY <1>8, <1>11, <2>2, <2>4
    <3>2. CASE d.format \in {"rgba8", "bgra8"}
      <4>1. UnitsPerTexel(d.format) = 1
        BY <3>2 DEF UnitsPerTexel
      <4>2. n = y * d.width + x
        BY <1>6, <4>1
      <4>3. value = <<"ok", Colour(d.format, given[n + 1])>>
        BY <3>1, <3>2, ColoursOrdered
      <4>4. value = <<"ok", Colour(d.format, given[y * d.width + x + 1])>>
        BY <4>2, <4>3
      <4> QED BY <1>1, <1>7, <4>4, Explained
    <3>3. CASE d.format \notin {"rgba8", "bgra8"}
      <4>1. value = <<"unsupported">>
        BY <3>1, <3>3 DEF Ordered
      <4> QED BY <1>1, <1>7, <3>3, <4>1, Explained
    <3> QED BY <3>2, <3>3
  <2> QED BY <2>3, <2>4
<1> QED BY <1>10, <1>11

--------------------------------------------------------------------------------
(* The answers.                                                                *)

LEMMA OwnersOfId ==
  ASSUME IsAccount(made, nextTexture), Agrees(textures, made), NEW id
  PROVE  /\ {k \in DOMAIN made : made[k].id = id /\ made[k].live}
              = IF id \in DOMAIN textures THEN {id} ELSE {}
         /\ \A j, k \in DOMAIN made : made[j].id = made[k].id => j = k
<1>1. \A k \in DOMAIN made : made[k].id = k
  BY DEF IsAccount, IsEntry
<1> QED BY <1>1 DEF Agrees

LEMMA DownloadExact ==
  ASSUME TextureInv, NEW id, Download(id)
  PROVE  AnswersExact'
<1>1. UNCHANGED <<textures, made>>
  BY DEF Download, Answer
<1>2. \A j, k \in DOMAIN made : made[j].id = made[k].id => j = k
  BY OwnersOfId DEF TextureInv
<1>3. PICK owned : owned = {k \in DOMAIN made : made[k].id = id /\ made[k].live}
  OBVIOUS
<1>4. owned = IF id \in DOMAIN textures THEN {id} ELSE {}
  BY <1>3, OwnersOfId DEF TextureInv
<1>5. /\ told'.op = "download" /\ told'.id = id
      /\ told'.value = IF id \in DOMAIN textures THEN <<"ok", textures[id].data>> ELSE <<"notFound">>
  BY DEF Download, Answer
<1>6. CASE id \in DOMAIN textures
  <2>1. (CHOOSE k \in owned : TRUE) = id
    BY <1>4, <1>6
  <2>2. textures[id] = [desc |-> made[id].desc, data |-> made[id].given]
    BY <1>6 DEF TextureInv, Agrees
  <2>3. textures[id].data = made[id].given
    BY <2>2
  <2> QED BY <1>1, <1>2, <1>3, <1>4, <1>5, <1>6, <2>1, <2>3 DEF AnswersExact
<1>7. CASE id \notin DOMAIN textures
  BY <1>1, <1>2, <1>3, <1>4, <1>5, <1>7 DEF AnswersExact
<1> QED BY <1>6, <1>7

LEMMA SampleExact ==
  ASSUME OffsetsFit, TextureInv, NEW id, NEW sampler, NEW c \in Int \X Int, Sample2d(id, sampler, c)
  PROVE  AnswersExact'
<1>1. UNCHANGED <<textures, made>>
  BY DEF Sample2d, Answer
<1>2. \A j, k \in DOMAIN made : made[j].id = made[k].id => j = k
  BY OwnersOfId DEF TextureInv
<1>3. PICK owned : owned = {k \in DOMAIN made : made[k].id = id /\ made[k].live}
  OBVIOUS
<1>4. owned = IF id \in DOMAIN textures THEN {id} ELSE {}
  BY <1>3, OwnersOfId DEF TextureInv
<1>5. PICK mode : mode = IF sampler \in DOMAIN samplers THEN samplers[sampler] ELSE "none"
  OBVIOUS
<1>6. /\ told'.op = "sample" /\ told'.id = id /\ told'.c = c /\ told'.mode = mode
      /\ told'.value = Sampled(id, sampler, c)
  BY <1>5 DEF Sample2d, Answer
<1>7. CASE id \notin DOMAIN textures
  <2>1. told'.value = <<"notFound">>
    BY <1>6, <1>7 DEF Sampled
  <2> QED BY <1>1, <1>2, <1>3, <1>4, <1>6, <1>7, <2>1 DEF AnswersExact
<1>8. CASE id \in DOMAIN textures /\ sampler \notin DOMAIN samplers
  <2>1. told'.value = <<"noSampler">> /\ mode = "none"
    BY <1>5, <1>6, <1>8 DEF Sampled
  <2> QED BY <1>1, <1>2, <1>3, <1>4, <1>6, <1>8, <2>1 DEF AnswersExact
<1>9. CASE id \in DOMAIN textures /\ sampler \in DOMAIN samplers
  <2>1. PICK own, d, given : own = (CHOOSE k \in owned : TRUE) /\ d = made[id].desc /\ given = made[id].given
    OBVIOUS
  <2>2. own = id /\ owned # {}
    BY <1>4, <1>9, <2>1
  <2>3. PICK value : value = told'.value
    OBVIOUS
  <2>4. Justified(value, d, given, mode, c)
    BY <1>5, <1>6, <1>9, <2>1, <2>2, <2>3, SampledExplained
  <2>5. mode # "none"
    BY <1>5, <1>9 DEF TextureInv, SamplersOK, Modes
  <2> QED BY <1>1, <1>2, <1>3, <1>6, <2>1, <2>2, <2>3, <2>4, <2>5 DEF AnswersExact
<1> QED BY <1>7, <1>8, <1>9

(* Nobody is told anything by an operation that changes the stores.            *)
LEMMA SilenceExact ==
  ASSUME IsAccount(made', nextTexture'), Agrees(textures', made'), told' = NoAnswer
  PROVE  AnswersExact'
<1>1. \A k \in DOMAIN made' : made'[k].id = k
  BY DEF IsAccount, IsEntry
<1>2. told'.op = "none"
  BY DEF NoAnswer
<1> QED BY <1>1, <1>2 DEF AnswersExact

LEMMA TextureStart == TextureInit => TextureInv
<1> SUFFICES ASSUME TextureInit PROVE TextureInv
  OBVIOUS
<1>1. DOMAIN made = {} /\ made = [k \in 1 .. 1 - 1 |-> made[k]]
  BY DEF TextureInit
<1>2. IsAccount(made, nextTexture)
  BY <1>1 DEF TextureInit, IsAccount
<1>3. Agrees(textures, made) /\ SamplersOK
  BY <1>1 DEF TextureInit, Agrees, SamplersOK
<1>4. AnswersExact
  BY <1>1 DEF TextureInit, AnswersExact, NoAnswer
<1> QED BY <1>2, <1>3, <1>4 DEF TextureInv

LEMMA TextureStep ==
  ASSUME OffsetsFit, TextureInv, [TextureNext]_textureVars
  PROVE  TextureInv'
<1>1. ASSUME NEW d \in Descriptors, CreateTexture(d)
      PROVE  TextureInv'
  <2>1. IsAccount(made', nextTexture') /\ Agrees(textures', made')
    BY <1>1, CreateKeeps
  <2>2. told' = NoAnswer /\ UNCHANGED samplers
    BY <1>1 DEF CreateTexture, NoSamplerCall
  <2> QED BY <2>1, <2>2, SilenceExact DEF TextureInv, SamplersOK
<1>2. ASSUME NEW id, NEW data \in Uploads, UploadTexture(id, data)
      PROVE  TextureInv'
  <2>1. data \in Seq(Range(data))
    BY TextureAssumption
  <2>2. /\ id \in DOMAIN textures /\ Len(data) = DataSize(textures[id].desc)
        /\ textures' = [textures EXCEPT ![id].data = data] /\ Given(id, data)
        /\ told' = NoAnswer /\ UNCHANGED <<samplers, nextTexture>>
    BY <1>2 DEF UploadTexture, NoSamplerCall
  <2>3. IsAccount(made', nextTexture') /\ Agrees(textures', made')
    BY <2>1, <2>2, DataKept
  <2> QED BY <2>2, <2>3, SilenceExact DEF TextureInv, SamplersOK
<1>3. ASSUME NEW id, ClearTexture(id)
      PROVE  TextureInv'
  <2>1. PICK old : old = textures[id].data
    OBVIOUS
  <2>2. PICK data : data = [i \in DOMAIN old |-> Paint]
    OBVIOUS
  <2>3. /\ id \in DOMAIN textures
        /\ textures' = [textures EXCEPT ![id].data = data] /\ Given(id, data)
        /\ told' = NoAnswer /\ UNCHANGED <<samplers, nextTexture>>
    BY <1>3, <2>1, <2>2 DEF ClearTexture, NoSamplerCall
  <2>4. /\ id \in DOMAIN made /\ IsEntry(id, made[id])
        /\ textures[id] = [desc |-> made[id].desc, data |-> made[id].given]
    BY <2>3 DEF TextureInv, Agrees, IsAccount
  <2>5. old \in Seq(Range(old)) /\ Len(old) = DataSize(textures[id].desc)
    BY <2>1, <2>4 DEF IsEntry
  <2>6. PICK n \in Nat : n = Len(old) /\ DOMAIN old = 1 .. n
    BY <2>5
  <2>7. data = [i \in 1 .. n |-> data[i]]
    BY <2>2, <2>6
  <2>8. data \in Seq(Range(data)) /\ Len(data) = DataSize(textures[id].desc)
    BY <2>5, <2>6, <2>7, Tabulated
  <2>9. IsAccount(made', nextTexture') /\ Agrees(textures', made')
    BY <2>3, <2>8, DataKept
  <2> QED BY <2>3, <2>9, SilenceExact DEF TextureInv, SamplersOK
<1>4. ASSUME NEW id, DeleteTexture(id)
      PROVE  TextureInv'
  <2>1. IsAccount(made', nextTexture') /\ Agrees(textures', made')
    BY <1>4, DeleteKeeps
  <2>2. told' = NoAnswer /\ UNCHANGED samplers
    BY <1>4 DEF DeleteTexture, NoSamplerCall
  <2> QED BY <2>1, <2>2, SilenceExact DEF TextureInv, SamplersOK
<1>5. ASSUME NEW mode \in Modes, CreateSampler(mode)
      PROVE  TextureInv'
  <2>1. told' = NoAnswer /\ UNCHANGED <<textures, nextTexture, made>>
    BY <1>5 DEF CreateSampler
  <2>2. SamplersOK'
    BY <1>5 DEF CreateSampler, With, TextureInv, SamplersOK
  <2>3. IsAccount(made', nextTexture') /\ Agrees(textures', made')
    BY <2>1 DEF TextureInv
  <2> QED BY <2>1, <2>2, <2>3, SilenceExact DEF TextureInv
<1>6. ASSUME NEW id, DeleteSampler(id)
      PROVE  TextureInv'
  <2>1. told' = NoAnswer /\ UNCHANGED <<textures, nextTexture, made>>
    BY <1>6 DEF DeleteSampler
  <2>2. SamplersOK'
    BY <1>6 DEF DeleteSampler, Restrict, TextureInv, SamplersOK
  <2>3. IsAccount(made', nextTexture') /\ Agrees(textures', made')
    BY <2>1 DEF TextureInv
  <2> QED BY <2>1, <2>2, <2>3, SilenceExact DEF TextureInv
<1>7. ASSUME NEW id, Download(id)
      PROVE  TextureInv'
  <2>1. UNCHANGED <<textures, nextTexture, samplers, made>>
    BY <1>7 DEF Download, Answer
  <2>2. AnswersExact'
    BY <1>7, DownloadExact
  <2> QED BY <2>1, <2>2 DEF TextureInv, SamplersOK
<1>8. ASSUME NEW id, NEW sampler, NEW c \in Coordinates, Sample2d(id, sampler, c)
      PROVE  TextureInv'
  <2>1. UNCHANGED <<textures, nextTexture, samplers, made>>
    BY <1>8 DEF Sample2d, Answer
  <2>2. c \in Int \X Int
    BY TextureAssumption
  <2>3. AnswersExact'
    BY <1>8, <2>2, SampleExact
  <2> QED BY <2>1, <2>3 DEF TextureInv, SamplersOK
<1>9. CASE UNCHANGED textureVars
  BY <1>9 DEF textureVars, TextureInv, SamplersOK, AnswersExact
<1> QED BY <1>1, <1>2, <1>3, <1>4, <1>5, <1>6, <1>7, <1>8, <1>9 DEF TextureNext

(* Every answer about an id tells what its owner last put there, and a sample  *)
(* is a texel the address mode names (TextureManager), for textures of any     *)
(* size, any number of them and any coordinates, if the build checks 32-bit    *)
(* products or no plane of a texture exceeds them.                             *)
THEOREM AnswersAreExact == OffsetsFit /\ TextureSpec => []AnswersExact
<1> SUFFICES ASSUME OffsetsFit PROVE TextureSpec => []AnswersExact
  OBVIOUS
<1>1. TextureInit => TextureInv
  BY TextureStart
<1>2. TextureInv /\ [TextureNext]_textureVars => TextureInv'
  BY TextureStep
<1>3. TextureInv => AnswersExact
  BY DEF TextureInv
<1> QED BY <1>1, <1>2, <1>3, PTL DEF TextureSpec

--------------------------------------------------------------------------------
(* The run takes both stores at once: each of them is used as if it was alone. *)
THEOREM StoresAreApart == StoresSpec => Spec /\ TextureSpec
<1>1. StoresInit => Init /\ TextureInit
  BY DEF StoresInit
<1>2. [StoresNext]_<<vars, textureVars>> => [Next]_vars /\ [TextureNext]_textureVars
  BY DEF StoresNext
<1> QED BY <1>1, <1>2, PTL DEF StoresSpec, Spec, TextureSpec

================================================================================
