------------------------- MODULE ComputeManagerProofs -------------------------
(***************************************************************************)
(* A dispatch is all or nothing: before the commit every bound range holds  *)
(* what the dispatch started from, after it what the GPU wrote; whatever    *)
(* the descriptors, sizes and limits are.                                   *)
(***************************************************************************)
EXTENDS ComputeManager, TLAPS

-----------------------------------------------------------------------------
(* Ranges of bytes.                                                        *)

(* Overwrite keeps the length of a buffer and the type of its bytes.        *)
LEMMA OverwriteType ==
  ASSUME NEW bytes \in Seq(Value), NEW offset \in Nat, NEW data \in Seq(Value)
  PROVE  /\ Overwrite(bytes, offset, data) \in Seq(Value)
         /\ Len(Overwrite(bytes, offset, data)) = Len(bytes)
<1>1. \A i \in 1..Len(bytes) : i \in offset + 1 .. offset + Len(data)
                                 => i - offset \in 1..Len(data)
  OBVIOUS
<1>2. \A i \in 1..Len(bytes) : Overwrite(bytes, offset, data)[i] \in Value
  BY <1>1 DEF Overwrite
<1>3. Overwrite(bytes, offset, data) \in [1..Len(bytes) -> Value]
  BY <1>2 DEF Overwrite
<1> QED BY <1>3

(* A range that was overwritten reads back what was written.                *)
LEMMA OverwriteThenSlice ==
  ASSUME NEW bytes \in Seq(Value), NEW offset \in Nat, NEW data \in Seq(Value),
         offset + Len(data) <= Len(bytes)
  PROVE  Slice(Overwrite(bytes, offset, data), offset, Len(data)) = data
<1> DEFINE o == Overwrite(bytes, offset, data)
           s == Slice(o, offset, Len(data))
<1>1. o \in Seq(Value) /\ Len(o) = Len(bytes)
  BY OverwriteType
<1>2. s \in Seq(Value) /\ Len(s) = Len(data)
  BY <1>1 DEF Slice
<1>3. \A i \in 1..Len(data) : s[i] = o[i + offset]
  BY <1>1 DEF Slice
<1>4. \A i \in 1..Len(data) : o[i + offset] = data[i]
  BY DEF Overwrite
<1> QED BY <1>2, <1>3, <1>4

LEMMA SliceType ==
  ASSUME NEW bytes \in Seq(Value), NEW offset \in Nat, NEW length \in Nat,
         offset + length <= Len(bytes)
  PROVE  /\ Slice(bytes, offset, length) \in Seq(Value)
         /\ Len(Slice(bytes, offset, length)) = length
BY DEF Slice

(* Sequences are equal when their elements are.                             *)
LEMMA SameElements ==
  ASSUME NEW S, NEW s \in Seq(S), NEW t \in Seq(S), Len(s) = Len(t),
         \A i \in 1..Len(s) : s[i] = t[i]
  PROVE  s = t
OBVIOUS

LEMMA FillType ==
  ASSUME NEW length \in Nat, NEW v \in Value
  PROVE  Fill(length, v) \in Seq(Value) /\ Len(Fill(length, v)) = length
<1>1. Fill(length, v) \in [1..length -> Value]
  BY DEF Fill
<1> QED BY <1>1

-----------------------------------------------------------------------------
(* The inductive invariant: the shape of the dispatch under way, and how    *)
(* far its commit loop came.                                               *)

CallShape ==
  call.pc # "idle" =>
    /\ Len(call.views) = Len(Bound(call.id)) /\ Len(call.views) # 0
    /\ \A i \in 1..Len(call.views) : Len(call.views[i]) = Bound(call.id)[i].size
    /\ NoAliasing(Bound(call.id))
    /\ call.pc = "gpu" => call.turn = 1 /\ call.updated = <<>>
    /\ call.pc = "read" => Len(call.updated) = call.turn - 1
    /\ call.pc \in {"read", "commit"} => call.turn \in 1..Len(call.views)
    /\ call.pc \in {"commit", "signal", "done"} => Len(call.updated) = Len(call.views)
    /\ \A i \in 1..Len(call.updated) : Len(call.updated[i]) = Bound(call.id)[i].size

CommitProgress ==
  call.pc = "commit" =>
    \A i \in 1..Len(call.views) :
      Views(call.id)[i] = IF i < call.turn THEN call.updated[i] ELSE call.views[i]

ManagerInv ==
  /\ ManagerTypeOK /\ CallShape
  /\ DispatchAtomic /\ CommitProgress /\ CommitComplete

Ranges == [binding : Nat, buffer : Nat, offset : Nat, size : Nat]

(* What a pipeline binds has the type of its descriptor.                    *)
LEMMA BindingType ==
  ASSUME ManagerTypeOK, NEW id \in DOMAIN pipelines
  PROVE  /\ Bound(id) \in Seq(Ranges) /\ Len(Bound(id)) \in Nat
         /\ \A i \in 1..Len(Bound(id)) :
              /\ Bound(id)[i] \in Ranges
              /\ Bound(id)[i].buffer \in Nat /\ Bound(id)[i].offset \in Nat
              /\ Bound(id)[i].size \in Nat
<1>1. pipelines[id] \in Descriptors
  BY DEF ManagerTypeOK
<1>2. Bound(id) \in Seq(Ranges)
  BY <1>1, ManagerAssumption DEF Bound, Ranges
<1>3. Len(Bound(id)) \in Nat /\ \A i \in 1..Len(Bound(id)) : Bound(id)[i] \in Ranges
  BY <1>2
<1> QED BY <1>2, <1>3 DEF Ranges

(* The copies a dispatch starts from: one per binding, of its size.         *)
LEMMA ViewsType ==
  ASSUME ManagerTypeOK, NEW id \in DOMAIN pipelines, InStorage(pipelines[id])
  PROVE  /\ Views(id) \in Seq(Seq(Value))
         /\ Len(Views(id)) = Len(Bound(id))
         /\ \A i \in 1..Len(Bound(id)) :
              /\ Views(id)[i] = Slice(storage[Bound(id)[i].buffer],
                                      Bound(id)[i].offset, Bound(id)[i].size)
              /\ Len(Views(id)[i]) = Bound(id)[i].size
<1> DEFINE b == Bound(id)
           V(i) == Slice(storage[b[i].buffer], b[i].offset, b[i].size)
<1>1. Len(b) \in Nat
  BY BindingType
<1>2. ASSUME NEW i \in 1..Len(b)
      PROVE  V(i) \in Seq(Value) /\ Len(V(i)) = b[i].size
  <2>1. b[i].buffer \in Nat /\ b[i].offset \in Nat /\ b[i].size \in Nat
    BY BindingType
  <2>2. b[i].buffer \in DOMAIN storage /\ b[i].offset + b[i].size <= Len(storage[b[i].buffer])
    BY DEF InStorage, Bound
  <2>3. storage[b[i].buffer] \in Seq(Value)
    BY <2>2 DEF ManagerTypeOK
  <2> QED BY <2>1, <2>2, <2>3, SliceType
<1>3. Views(id) = [i \in 1..Len(b) |-> V(i)]
  BY DEF Views
<1> HIDE DEF V
<1>4. Views(id) \in [1..Len(b) -> Seq(Value)]
  BY <1>2, <1>3
<1>5. Views(id) \in Seq(Seq(Value)) /\ Len(Views(id)) = Len(b)
  BY <1>1, <1>4
<1>6. \A i \in 1..Len(b) : Views(id)[i] = V(i)
  BY <1>3
<1> QED BY <1>2, <1>5, <1>6 DEF V

-----------------------------------------------------------------------------
Calls ==
  [pc : {"idle", "gpu", "read", "commit", "signal", "done", "failed"},
   id : Nat, fence : AllFences, turn : Nat \ {0},
   views : Seq(Seq(Value)), updated : Seq(Seq(Value))]

(* A loop over the bindings moves on, or ends at the given label.           *)
LEMMA NextTurnType ==
  ASSUME NEW c \in Calls, NEW label \in {"commit", "signal"}
  PROVE  /\ NextTurn(c, label) \in Calls
         /\ NextTurn(c, label).id = c.id /\ NextTurn(c, label).fence = c.fence
         /\ NextTurn(c, label).views = c.views /\ NextTurn(c, label).updated = c.updated
         /\ c.turn < Len(c.views) =>
              NextTurn(c, label).pc = c.pc /\ NextTurn(c, label).turn = c.turn + 1
         /\ ~(c.turn < Len(c.views)) =>
              NextTurn(c, label).pc = label /\ NextTurn(c, label).turn = 1
<1>1. CASE c.turn < Len(c.views)
  <2> DEFINE t == c.turn + 1
  <2>1. NextTurn(c, label) = [c EXCEPT !.turn = t]
    BY <1>1, Zenon DEF NextTurn
  <2>2. t \in Nat \ {0}
    BY DEF Calls
  <2>3. t = c.turn + 1
    OBVIOUS
  <2> HIDE DEF t
  <2> QED BY <1>1, <2>1, <2>2, <2>3 DEF Calls
<1>2. CASE ~(c.turn < Len(c.views))
  <2> DEFINE t == 1
  <2>1. NextTurn(c, label) = [c EXCEPT !.turn = t, !.pc = label]
    BY <1>2, Zenon DEF NextTurn
  <2>2. t \in Nat \ {0} /\ t = 1
    OBVIOUS
  <2> HIDE DEF t
  <2> QED BY <1>2, <2>1, <2>2 DEF Calls
<1> QED BY <1>1, <1>2

(* What the state predicates about the call read, when nothing moves.       *)
LEMMA Frozen ==
  ASSUME pipelines' = pipelines, storage' = storage, call'.id = call.id
  PROVE  /\ Views(call.id)' = Views(call.id)
         /\ Bound(call.id)' = Bound(call.id)
         /\ InStorage(pipelines[call.id])' <=> InStorage(pipelines[call.id])
BY DEF Views, Bound, InStorage

(* The owner's calls, other than a dispatch, happen between dispatches.     *)
LEMMA OwnerKeepsInv ==
  ASSUME ManagerInv, call' = call, call.pc = "idle",
         \/ \E d \in Descriptors : CreatePipeline(d)
         \/ \E i \in 1..MaxPipelines : DeletePipeline(i)
         \/ \E n \in Sizes : CreateStorageBuffer(n)
         \/ \E h \in 1..MaxBuffers, n \in Sizes, v \in Value :
              WriteStorageBuffer(h, 0, Fill(n, v))
  PROVE  ManagerInv'
<1> USE ManagerAssumption
<1>1. CallShape' /\ DispatchAtomic' /\ CommitProgress' /\ CommitComplete'
  BY DEF CallShape, DispatchAtomic, CommitProgress, CommitComplete
<1>2. ASSUME NEW d \in Descriptors, CreatePipeline(d) PROVE ManagerTypeOK'
  BY <1>2 DEF ManagerInv, ManagerTypeOK, CreatePipeline, Insert
<1>3. ASSUME NEW i \in 1..MaxPipelines, DeletePipeline(i) PROVE ManagerTypeOK'
  BY <1>3 DEF ManagerInv, ManagerTypeOK, DeletePipeline, Remove
<1>4. ASSUME NEW n \in Sizes, CreateStorageBuffer(n) PROVE ManagerTypeOK'
  <2>1. Fill(n, 0) \in Seq(Value)
    BY FillType
  <2> QED BY <1>4, <2>1 DEF ManagerInv, ManagerTypeOK, CreateStorageBuffer, Insert
<1>5. ASSUME NEW h \in 1..MaxBuffers, NEW n \in Sizes, NEW v \in Value,
             WriteStorageBuffer(h, 0, Fill(n, v))
      PROVE  ManagerTypeOK'
  <2>1. Fill(n, v) \in Seq(Value) /\ storage[h] \in Seq(Value)
    BY <1>5, FillType DEF WriteStorageBuffer, ManagerInv, ManagerTypeOK
  <2>2. Overwrite(storage[h], 0, Fill(n, v)) \in Seq(Value)
    BY <2>1, OverwriteType
  <2> QED BY <1>5, <2>2 DEF ManagerInv, ManagerTypeOK, WriteStorageBuffer
<1> QED BY <1>1, <1>2, <1>3, <1>4, <1>5 DEF ManagerInv

(* Other threads only touch fences.                                        *)
LEMMA FencesKeepInv ==
  ASSUME ManagerInv, NEW f \in AllFences, NEW s \in {"unsignaled", "signaled"},
         fences' = [fences EXCEPT ![f] = s],
         UNCHANGED <<pipelines, storage, nextId, nextHandle, backend, call>>
  PROVE  ManagerInv'
<1>1. CallShape' /\ DispatchAtomic' /\ CommitProgress' /\ CommitComplete'
  BY Frozen DEF ManagerInv, CallShape, DispatchAtomic, CommitProgress, CommitComplete
<1>2. ManagerTypeOK'
  BY Frozen DEF ManagerInv, ManagerTypeOK
<1> QED BY <1>1, <1>2 DEF ManagerInv

(* A dispatch begins with a copy of every binding of a valid pipeline.      *)
LEMMA BeginKeepsInv ==
  ASSUME ManagerInv, NEW id \in Nat, NEW groups, NEW fence \in AllFences,
         Runnable(id, groups), call' = Started(id, fence),
         fences' \in [AllFences -> {"absent", "unsignaled", "signaled"}],
         UNCHANGED <<pipelines, storage, nextId, nextHandle, backend>>
  PROVE  ManagerInv'
<1>1. /\ id \in DOMAIN pipelines /\ InStorage(pipelines[id])
      /\ NoAliasing(Bound(id)) /\ Len(Bound(id)) \in 1..MaxBindings
  BY DEF Runnable, ValidDispatch, Bound
<1>2. /\ Views(id) \in Seq(Seq(Value)) /\ Len(Views(id)) = Len(Bound(id))
      /\ \A i \in 1..Len(Bound(id)) : Len(Views(id)[i]) = Bound(id)[i].size
  BY <1>1, ViewsType DEF ManagerInv
<1>3. Views(id)' = Views(id) /\ Bound(id)' = Bound(id)
      /\ (InStorage(pipelines[id])' <=> InStorage(pipelines[id]))
  BY DEF Views, Bound, InStorage
<1>4. /\ call'.pc = "gpu" /\ call'.id = id /\ call'.turn = 1
      /\ call'.views = Views(id) /\ call'.updated = <<>>
  BY DEF Started
<1>5. Views(call.id)' = Views(id) /\ Bound(call.id)' = Bound(id)
      /\ (InStorage(pipelines[call.id])' <=> InStorage(pipelines[id]))
  BY <1>3, <1>4 DEF Views, Bound, InStorage
<1>6. ManagerTypeOK'
  BY <1>1, <1>2, <1>5 DEF ManagerInv, ManagerTypeOK, Started
<1>7. CallShape'
  BY <1>1, <1>2, <1>4, <1>5, ManagerAssumption DEF CallShape
<1> QED BY <1>4, <1>5, <1>6, <1>7
        DEF ManagerInv, DispatchAtomic, CommitProgress, CommitComplete

(* A step that only relabels the call.                                     *)
LEMMA RelabelKeepsInv ==
  ASSUME ManagerInv, call.pc # "idle",
         NEW pc \in {"read", "failed", "done"}, call' = [call EXCEPT !.pc = pc],
         pc = "read" => call.pc = "gpu",
         pc = "failed" => call.pc \in {"gpu", "read"},
         pc = "done" => call.pc = "signal",
         backend' \in {"absent", "ready", "poisoned"},
         fences' \in [AllFences -> {"absent", "unsignaled", "signaled"}],
         UNCHANGED <<pipelines, storage, nextId, nextHandle>>
  PROVE  ManagerInv'
<1>1. call \in Calls
  BY DEF ManagerInv, ManagerTypeOK, Calls
<1>2. /\ call'.pc = pc /\ call'.id = call.id /\ call'.turn = call.turn
      /\ call'.views = call.views /\ call'.updated = call.updated
      /\ call' \in Calls
  BY <1>1 DEF Calls
<1>3. /\ Views(call.id)' = Views(call.id) /\ Bound(call.id)' = Bound(call.id)
      /\ (InStorage(pipelines[call.id])' <=> InStorage(pipelines[call.id]))
  BY <1>2, Frozen
<1>4. ManagerTypeOK'
  BY <1>2, <1>3 DEF ManagerInv, ManagerTypeOK, Calls
<1>5. CallShape'
  BY <1>1, <1>2, <1>3 DEF ManagerInv, CallShape, Calls
<1>6. DispatchAtomic' /\ CommitProgress' /\ CommitComplete'
  BY <1>2, <1>3 DEF ManagerInv, DispatchAtomic, CommitProgress, CommitComplete
<1> QED BY <1>4, <1>5, <1>6 DEF ManagerInv

(* One more binding is read back into the result; storage is not touched.   *)
LEMMA ReadbackKeepsInv ==
  ASSUME ManagerInv, NEW v \in Value, Readback(v)
  PROVE  ManagerInv'
<1> DEFINE data == Fill(Len(call.views[call.turn]), v)
           c == [call EXCEPT !.updated = Append(@, data)]
<1>1. call \in Calls /\ call.pc = "read" /\ call' = NextTurn(c, "commit")
  BY DEF Readback, ManagerInv, ManagerTypeOK, Calls
<1>2. /\ call.turn \in 1..Len(call.views) /\ Len(call.updated) = call.turn - 1
      /\ Len(call.views) = Len(Bound(call.id))
      /\ Len(call.views[call.turn]) = Bound(call.id)[call.turn].size
      /\ call.views \in Seq(Seq(Value)) /\ call.updated \in Seq(Seq(Value))
  BY <1>1 DEF ManagerInv, CallShape, Calls
<1>3. data \in Seq(Value) /\ Len(data) = Bound(call.id)[call.turn].size
  <2>1. Len(call.views[call.turn]) \in Nat
    BY <1>2
  <2> QED BY <1>2, <2>1, FillType
<1> DEFINE u == Append(call.updated, data)
<1>4. /\ u \in Seq(Seq(Value)) /\ Len(u) = call.turn
      /\ \A i \in 1..Len(u) : Len(u[i]) = Bound(call.id)[i].size
  <2>1. \A i \in 1..Len(call.updated) : Len(call.updated[i]) = Bound(call.id)[i].size
    BY <1>1 DEF ManagerInv, CallShape
  <2> HIDE DEF data
  <2> QED BY <1>2, <1>3, <2>1
<1> HIDE DEF data, u
<1>5. /\ c \in Calls /\ c.pc = "read" /\ c.id = call.id /\ c.turn = call.turn
      /\ c.views = call.views /\ c.updated = u
  <2>1. c = [call EXCEPT !.updated = u]
    BY Zenon DEF u
  <2> QED BY <1>1, <1>4, <2>1 DEF Calls
<1> HIDE DEF c
<1>6. /\ call' \in Calls /\ call'.id = call.id
      /\ call'.views = call.views /\ call'.updated = u
      /\ call.turn < Len(call.views) =>
           call'.pc = "read" /\ call'.turn = call.turn + 1
      /\ ~(call.turn < Len(call.views)) => call'.pc = "commit" /\ call'.turn = 1
  BY <1>1, <1>5, NextTurnType
<1>7. /\ Views(call.id)' = Views(call.id) /\ Bound(call.id)' = Bound(call.id)
      /\ (InStorage(pipelines[call.id])' <=> InStorage(pipelines[call.id]))
  BY <1>6, Frozen DEF Readback
<1>8. ManagerTypeOK'
  BY <1>1, <1>6, <1>7 DEF ManagerInv, ManagerTypeOK, Calls, Readback
<1>9. CallShape'
  <2>1. /\ Len(call.views) # 0 /\ NoAliasing(Bound(call.id))
        /\ \A i \in 1..Len(call.views) : Len(call.views[i]) = Bound(call.id)[i].size
    BY <1>1 DEF ManagerInv, CallShape
  <2>4. (/\ Len(call.views) = Len(Bound(call.id)) /\ Len(call.views) # 0
         /\ \A i \in 1..Len(call.views) : Len(call.views[i]) = Bound(call.id)[i].size
         /\ NoAliasing(Bound(call.id))
         /\ \A i \in 1..Len(call.updated) :
              Len(call.updated[i]) = Bound(call.id)[i].size)'
    <3>1. NoAliasing(Bound(call.id))'
      BY <1>7, <2>1 DEF NoAliasing
    <3> QED BY <1>2, <1>4, <1>6, <1>7, <2>1, <3>1
  <2>2. CASE call.turn < Len(call.views)
    <3>1. call.turn + 1 \in 1..Len(call.views) /\ Len(u) = call.turn + 1 - 1
      BY <1>2, <1>4, <2>2
    <3>2. /\ call'.pc = "read" /\ Len(call'.updated) = call'.turn - 1
          /\ call'.turn \in 1..Len(call'.views)
      <4>1. /\ call'.views = call.views /\ call'.updated = u
            /\ call'.pc = "read" /\ call'.turn = call.turn + 1
        BY <1>6, <2>2
      <4>2. call.turn \in Nat /\ Len(u) = call.turn
        BY <1>2, <1>4
      <4>3. call.turn = call.turn + 1 - 1
        BY <4>2
      <4> QED BY <3>1, <4>1, <4>2, <4>3
    <3> QED BY <2>4, <3>2 DEF CallShape
  <2>3. CASE ~(call.turn < Len(call.views))
    <3>1. 1 \in 1..Len(call.views) /\ Len(u) = Len(call.views)
      BY <1>2, <1>4, <2>3
    <3>2. /\ call'.pc = "commit" /\ call'.turn \in 1..Len(call'.views)
          /\ Len(call'.updated) = Len(call'.views)
      BY <1>6, <2>3, <3>1
    <3> QED BY <2>4, <3>2 DEF CallShape
  <2> QED BY <2>2, <2>3
<1>10. DispatchAtomic' /\ CommitProgress' /\ CommitComplete'
  <2>1. Views(call.id) = call.views
    BY <1>1 DEF ManagerInv, DispatchAtomic
  <2> QED BY <1>2, <1>6, <1>7, <2>1 DEF DispatchAtomic, CommitProgress, CommitComplete
<1> QED BY <1>8, <1>9, <1>10 DEF ManagerInv

(* What a turn of the commit loop stores: the binding of this turn gets its *)
(* data, and no other binding of the dispatch can name the same buffer.     *)
LEMMA CommitStores ==
  ASSUME ManagerInv, Commit
  PROVE  /\ call.turn \in 1..Len(call.views)
         /\ DOMAIN storage' = DOMAIN storage
         /\ \A h \in DOMAIN storage :
              storage'[h] \in Seq(Value) /\ Len(storage'[h]) = Len(storage[h])
         /\ InStorage(pipelines[call.id])'
         /\ Views(call.id)' \in Seq(Seq(Value))
         /\ Len(Views(call.id)') = Len(call.views)
         /\ \A i \in 1..Len(call.views) :
              Views(call.id)'[i] = IF i = call.turn THEN call.updated[i]
                                                   ELSE Views(call.id)[i]
<1> DEFINE t == call.turn
           b == Bound(call.id)
           data == call.updated[t]
           new == Overwrite(storage[b[t].buffer], b[t].offset, data)
<1>1. /\ ManagerTypeOK /\ CallShape /\ call \in Calls /\ call.pc = "commit"
      /\ call.id \in DOMAIN pipelines /\ InStorage(pipelines[call.id])
      /\ pipelines' = pipelines /\ nextId' = nextId /\ nextHandle' = nextHandle
      /\ backend' = backend /\ fences' = fences
      /\ call' = NextTurn(call, "signal")
      /\ storage' = [storage EXCEPT ![b[t].buffer] = new]
  BY DEF ManagerInv, ManagerTypeOK, Commit, Calls
<1>2. /\ t \in 1..Len(b) /\ Len(b) \in Nat
      /\ Len(call.views) = Len(b) /\ Len(call.updated) = Len(b)
      /\ data \in Seq(Value) /\ Len(data) = b[t].size
      /\ NoAliasing(b)
  BY <1>1, BindingType DEF CallShape, Calls
<1>3. \A i \in 1..Len(b) :
        /\ b[i].buffer \in DOMAIN storage
        /\ b[i].offset \in Nat /\ b[i].size \in Nat
        /\ b[i].offset + b[i].size <= Len(storage[b[i].buffer])
  BY <1>1, BindingType DEF InStorage, Bound
<1>4. \A h \in DOMAIN storage : storage[h] \in Seq(Value)
  BY <1>1 DEF ManagerTypeOK
<1>5. /\ new \in Seq(Value) /\ Len(new) = Len(storage[b[t].buffer])
      /\ Slice(new, b[t].offset, b[t].size) = data
  <2>1. storage[b[t].buffer] \in Seq(Value) /\ b[t].offset \in Nat
    BY <1>2, <1>3, <1>4
  <2>2. b[t].offset + Len(data) <= Len(storage[b[t].buffer])
    BY <1>2, <1>3
  <2> QED BY <1>2, <2>1, <2>2, OverwriteType, OverwriteThenSlice
<1> HIDE DEF new, data
<1>6. /\ DOMAIN storage' = DOMAIN storage
      /\ \A h \in DOMAIN storage :
           storage'[h] \in Seq(Value) /\ Len(storage'[h]) = Len(storage[h])
  BY <1>1, <1>4, <1>5
<1>7. call'.id = call.id
  BY <1>1, NextTurnType
<1>8. Bound(call.id)' = b /\ call.id' \in DOMAIN pipelines'
  BY <1>1, <1>7 DEF Bound
<1>9. InStorage(pipelines[call.id])'
  BY <1>1, <1>6, <1>7, <1>3 DEF InStorage, Bound
<1>10. \A i \in 1..Len(b) :
         Slice(storage'[b[i].buffer], b[i].offset, b[i].size) =
           IF i = t THEN data
           ELSE Slice(storage[b[i].buffer], b[i].offset, b[i].size)
  <2>1. TAKE i \in 1..Len(b)
  <2>2. CASE i = t
    BY <1>1, <1>2, <1>3, <1>5, <2>2
  <2>3. CASE i # t
    <3>1. b[i].buffer # b[t].buffer
      BY <1>2, <2>3 DEF NoAliasing
    <3> QED BY <1>1, <2>3, <3>1
  <2> QED BY <2>2, <2>3
<1>11. Views(call.id)' = [i \in 1..Len(b) |->
                           Slice(storage'[b[i].buffer], b[i].offset, b[i].size)]
  BY <1>8 DEF Views
<1>12. \A i \in 1..Len(b) :
         Views(call.id)[i] = Slice(storage[b[i].buffer], b[i].offset, b[i].size)
  BY <1>1, ViewsType
<1>13. \A i \in 1..Len(b) :
         Views(call.id)'[i] = IF i = t THEN data ELSE Views(call.id)[i]
  BY <1>10, <1>11, <1>12
<1>14. Views(call.id)' \in [1..Len(b) -> Seq(Value)]
  <2>1. Views(call.id) \in Seq(Seq(Value)) /\ Len(Views(call.id)) = Len(b)
    BY <1>1, ViewsType
  <2>2. \A i \in 1..Len(b) : Views(call.id)[i] \in Seq(Value)
    BY <1>2, <2>1
  <2>3. \A i \in 1..Len(b) : Views(call.id)'[i] \in Seq(Value)
    BY <1>2, <1>13, <2>2
  <2>4. Views(call.id)' = [i \in 1..Len(b) |-> Views(call.id)'[i]]
    BY <1>11
  <2> QED BY <2>3, <2>4
<1>15. ASSUME NEW W \in [1..Len(b) -> Seq(Value)]
       PROVE  W \in Seq(Seq(Value)) /\ Len(W) = Len(b)
  BY <1>2
<1>16. Views(call.id)' \in Seq(Seq(Value)) /\ Len(Views(call.id)') = Len(call.views)
  BY <1>2, <1>14, <1>15
<1> QED BY <1>2, <1>6, <1>9, <1>13, <1>16 DEF data

LEMMA CommitKeepsInv ==
  ASSUME ManagerInv, Commit
  PROVE  ManagerInv'
<1>1. /\ ManagerTypeOK /\ CallShape /\ CommitProgress
      /\ call \in Calls /\ call.pc = "commit" /\ call.id \in DOMAIN pipelines
      /\ call' = NextTurn(call, "signal") /\ pipelines' = pipelines
      /\ UNCHANGED <<nextId, nextHandle, backend, fences>>
  BY DEF ManagerInv, ManagerTypeOK, Commit, Calls
<1>2. /\ call' \in Calls /\ call'.id = call.id
      /\ call'.views = call.views /\ call'.updated = call.updated
      /\ call.turn < Len(call.views) =>
           call'.pc = "commit" /\ call'.turn = call.turn + 1
      /\ ~(call.turn < Len(call.views)) => call'.pc = "signal" /\ call'.turn = 1
  BY <1>1, NextTurnType
<1>3. Bound(call.id)' = Bound(call.id)
  BY <1>1, <1>2 DEF Bound
<1>4. ManagerTypeOK'
  BY <1>1, <1>2, CommitStores DEF ManagerTypeOK, Calls
<1>5. CallShape'
  <2>1. call.turn \in 1..Len(call.views) /\ Len(call.views) \in Nat
    BY <1>1, CommitStores DEF Calls
  <2>2. call.turn < Len(call.views) => call.turn + 1 \in 1..Len(call.views)
    BY <2>1
  <2> QED BY <1>1, <1>2, <1>3, <2>1, <2>2 DEF CallShape
<1>6. /\ call.turn \in 1..Len(call.views) /\ Len(call.views) \in Nat
      /\ \A i \in 1..Len(call.views) :
           Views(call.id)'[i] = IF i <= call.turn THEN call.updated[i]
                                                 ELSE call.views[i]
  <2>1. /\ call.turn \in 1..Len(call.views) /\ Len(call.views) \in Nat
        /\ \A i \in 1..Len(call.views) :
             Views(call.id)'[i] = IF i = call.turn THEN call.updated[i]
                                                  ELSE Views(call.id)[i]
    BY <1>1, CommitStores DEF Calls
  <2>2. \A i \in 1..Len(call.views) :
          Views(call.id)[i] = IF i < call.turn THEN call.updated[i] ELSE call.views[i]
    BY <1>1 DEF CommitProgress
  <2> QED BY <2>1, <2>2
<1>7. CASE call.turn < Len(call.views)
  <2>1. CommitProgress'
    BY <1>2, <1>6, <1>7 DEF CommitProgress
  <2> QED BY <1>2, <1>4, <1>5, <1>7, <2>1
          DEF ManagerInv, DispatchAtomic, CommitComplete
<1>8. CASE ~(call.turn < Len(call.views))
  <2>1. \A i \in 1..Len(call.views) : Views(call.id)'[i] = call.updated[i]
    BY <1>6, <1>8
  <2>2. Len(call.updated) = Len(call.views) /\ call.updated \in Seq(Seq(Value))
    BY <1>1 DEF CallShape, Calls
  <2>3. /\ Views(call.id)' \in Seq(Seq(Value))
        /\ Len(Views(call.id)') = Len(call.views)
    BY CommitStores
  <2>4. Views(call.id)' = call.updated
    BY <2>1, <2>2, <2>3, SameElements
  <2>5. CommitComplete'
    BY <1>2, <2>4 DEF CommitComplete
  <2> QED BY <1>2, <1>4, <1>5, <1>8, <2>5
          DEF ManagerInv, DispatchAtomic, CommitProgress
<1> QED BY <1>7, <1>8

-----------------------------------------------------------------------------
LEMMA InitInv == ManagerInit => ManagerInv
<1> SUFFICES ASSUME ManagerInit PROVE ManagerInv
  OBVIOUS
<1>1. call = Idle /\ call.pc = "idle"
  BY DEF ManagerInit, Idle
<1>2. ManagerTypeOK
  BY <1>1 DEF ManagerInit, ManagerTypeOK, Idle, AllFences
<1> QED BY <1>1, <1>2
        DEF ManagerInv, CallShape, DispatchAtomic, CommitProgress, CommitComplete

LEMMA ReturnKeepsInv ==
  ASSUME ManagerInv, ReturnDispatch
  PROVE  ManagerInv'
<1>1. call' = Idle /\ call'.pc = "idle"
  BY DEF ReturnDispatch, Idle
<1>2. ManagerTypeOK'
  BY <1>1 DEF ManagerInv, ManagerTypeOK, ReturnDispatch, Idle, AllFences
<1> QED BY <1>1, <1>2
        DEF ManagerInv, CallShape, DispatchAtomic, CommitProgress, CommitComplete

(* Every step of a dispatch under way keeps the invariant ...               *)
LEMMA DispatchStepKeepsInv ==
  ASSUME ManagerInv, DispatchStep
  PROVE  ManagerInv'
<1> USE DEF ManagerInv, ManagerTypeOK
<1>1. CASE BackendFails
  BY <1>1, RelabelKeepsInv DEF BackendFails
<1>2. CASE BackendCompletes
  BY <1>2, RelabelKeepsInv DEF BackendCompletes
<1>3. CASE \E v \in Value : Readback(v)
  BY <1>3, ReadbackKeepsInv
<1>4. CASE ReadbackFails
  BY <1>4, RelabelKeepsInv DEF ReadbackFails
<1>5. CASE Commit
  BY <1>5, CommitKeepsInv
<1>6. CASE SignalFence
  <2>1. call.fence \in AllFences
    OBVIOUS
  <2> QED BY <1>6, <2>1, RelabelKeepsInv DEF SignalFence
<1> QED BY <1>1, <1>2, <1>3, <1>4, <1>5, <1>6 DEF DispatchStep

LEMMA ExecutorBeginKeepsInv ==
  ASSUME ManagerInv, NEW id \in Nat, NEW groups, BeginExecutorDispatch(id, groups)
  PROVE  ManagerInv'
<1>1. ExecutorFence \in AllFences
  BY DEF AllFences
<1>2. fences' \in [AllFences -> {"absent", "unsignaled", "signaled"}]
  BY DEF BeginExecutorDispatch, ManagerInv, ManagerTypeOK
<1> QED BY <1>1, <1>2, BeginKeepsInv DEF BeginExecutorDispatch

(* ... and so does whatever the owner calls.                               *)
LEMMA HostStepKeepsInv ==
  ASSUME ManagerInv, HostStep
  PROVE  ManagerInv'
<1>1. CASE \E d \in Descriptors : CreatePipeline(d)
  BY <1>1, OwnerKeepsInv DEF CreatePipeline
<1>2. CASE \E i \in 1..MaxPipelines : DeletePipeline(i)
  BY <1>2, OwnerKeepsInv DEF DeletePipeline
<1>3. CASE \E n \in Sizes : CreateStorageBuffer(n)
  BY <1>3, OwnerKeepsInv DEF CreateStorageBuffer
<1>4. CASE \E h \in 1..MaxBuffers, n \in Sizes, v \in Value :
             WriteStorageBuffer(h, 0, Fill(n, v))
  <2>1. call' = call /\ call.pc = "idle"
    BY <1>4 DEF WriteStorageBuffer
  <2> QED BY <1>4, <2>1, OwnerKeepsInv
<1>5. ASSUME NEW i \in 1..MaxPipelines, NEW g \in Groups, NEW f \in Fences,
             BeginDispatch(i, g, f)
      PROVE  ManagerInv'
  <2>1. i \in Nat /\ f \in AllFences
    BY ManagerAssumption DEF AllFences
  <2>2. fences' \in [AllFences -> {"absent", "unsignaled", "signaled"}]
    BY <1>5 DEF BeginDispatch, ManagerInv, ManagerTypeOK
  <2> QED BY <1>5, <2>1, <2>2, BeginKeepsInv DEF BeginDispatch
<1>6. ASSUME NEW i \in 1..MaxPipelines, NEW g \in Groups, BeginExecutorDispatch(i, g)
      PROVE  ManagerInv'
  BY <1>6, ExecutorBeginKeepsInv, ManagerAssumption
<1> QED BY <1>1, <1>2, <1>3, <1>4, <1>5, <1>6 DEF HostStep

LEMMA StutterKeepsInv ==
  ASSUME ManagerInv, UNCHANGED managerVars
  PROVE  ManagerInv'
<1>1. CallShape' /\ DispatchAtomic' /\ CommitProgress' /\ CommitComplete'
  BY Frozen DEF ManagerInv, CallShape, DispatchAtomic, CommitProgress, CommitComplete,
                managerVars
<1>2. ManagerTypeOK'
  BY Frozen DEF ManagerInv, ManagerTypeOK, managerVars
<1> QED BY <1>1, <1>2 DEF ManagerInv

LEMMA NextKeepsInv ==
  ASSUME ManagerInv, [ManagerNext]_managerVars
  PROVE  ManagerInv'
<1>1. CASE HostStep
  BY <1>1, HostStepKeepsInv
<1>2. CASE DispatchStep
  BY <1>2, DispatchStepKeepsInv
<1>3. CASE ReturnDispatch
  BY <1>3, ReturnKeepsInv
<1>4. ASSUME NEW f \in Fences, CreateFence(f) \/ SetFence(f) \/ ResetFence(f)
      PROVE  ManagerInv'
  <2>1. f \in AllFences
    BY DEF AllFences
  <2>2. /\ \/ fences' = [fences EXCEPT ![f] = "unsignaled"]
           \/ fences' = [fences EXCEPT ![f] = "signaled"]
        /\ UNCHANGED <<pipelines, storage, nextId, nextHandle, backend, call>>
    BY <1>4 DEF CreateFence, SetFence, ResetFence
  <2> QED BY <2>1, <2>2, FencesKeepInv
<1>5. CASE UNCHANGED managerVars
  BY <1>5, StutterKeepsInv
<1> QED BY <1>1, <1>2, <1>3, <1>4, <1>5 DEF ManagerNext

(* The inductive invariant holds in every state of the manager.             *)
THEOREM Invariance == ManagerSpec => []ManagerInv
<1>1. ManagerInit => ManagerInv
  BY InitInv
<1>2. ManagerInv /\ [ManagerNext]_managerVars => ManagerInv'
  BY NextKeepsInv
<1> QED BY <1>1, <1>2, PTL DEF ManagerSpec

(* Types, and a dispatch under way keeps its pipeline and its buffers.      *)
THEOREM ManagerTypeCorrect == ManagerSpec => []ManagerTypeOK
<1>1. ManagerInv => ManagerTypeOK
  BY DEF ManagerInv
<1> QED BY <1>1, Invariance, PTL

(* Nothing is stored before every binding was read back, and nothing at all *)
(* by a dispatch that fails.                                               *)
THEOREM DispatchIsAtomic == ManagerSpec => []DispatchAtomic
<1>1. ManagerInv => DispatchAtomic
  BY DEF ManagerInv
<1> QED BY <1>1, Invariance, PTL

(* When the fence is signaled every bound range holds the GPU's data.       *)
THEOREM CommitIsComplete == ManagerSpec => []CommitComplete
<1>1. ManagerInv => CommitComplete
  BY DEF ManagerInv
<1> QED BY <1>1, Invariance, PTL

(* A dispatch signals its own fence only, and only after its commit.        *)
THEOREM FenceSignalsCommit == ManagerSpec => FenceAfterCommit
<1>1. ASSUME ManagerInv, [ManagerNext]_managerVars,
             NEW f \in AllFences, fences[f] # "signaled", fences'[f] = "signaled",
             call' # call
      PROVE  f = call.fence /\ Views(call.id) = call.updated
  <2>1. fences \in [AllFences -> {"absent", "unsignaled", "signaled"}]
    BY <1>1 DEF ManagerInv, ManagerTypeOK
  <2>2. SignalFence
    <3>1. fences' # fences
      BY <1>1
    <3>2. ASSUME NEW g \in AllFences, fences' = [fences EXCEPT ![g] = "unsignaled"]
          PROVE  FALSE
      BY <1>1, <2>1, <3>2
    <3> QED BY <1>1, <3>1, <3>2
            DEF ManagerNext, HostStep, DispatchStep, CreatePipeline, DeletePipeline,
                CreateStorageBuffer, WriteStorageBuffer, BeginDispatch,
                BeginExecutorDispatch, BackendFails, BackendCompletes, Readback,
                ReadbackFails, Commit, ReturnDispatch, CreateFence, SetFence,
                ResetFence, managerVars, AllFences
  <2>3. f = call.fence
    BY <1>1, <2>1, <2>2 DEF SignalFence
  <2> QED BY <1>1, <2>2, <2>3 DEF SignalFence, ManagerInv, CommitComplete
<1>2. ManagerInv /\ [ManagerNext]_managerVars =>
        [\A f \in AllFences :
           fences[f] # "signaled" /\ fences'[f] = "signaled" /\ call' # call =>
             f = call.fence /\ Views(call.id) = call.updated]_managerVars
  BY <1>1
<1> QED BY <1>2, Invariance, PTL DEF ManagerSpec, FenceAfterCommit

(* A dispatch changes no byte outside the ranges it binds.                  *)
THEOREM DispatchIsConfined == ManagerSpec => DispatchConfined
<1> DEFINE Confined ==
      call.pc # "idle" =>
        \A h \in DOMAIN storage : \A i \in 1..Len(storage[h]) :
          storage'[h][i] = storage[h][i] \/ IsBound(h, i)
<1>1. ASSUME ManagerInv, Commit, NEW h \in DOMAIN storage, NEW i \in 1..Len(storage[h])
      PROVE  storage'[h][i] = storage[h][i] \/ IsBound(h, i)
  <2> DEFINE b == Bound(call.id)[call.turn]
             data == call.updated[call.turn]
  <2>1. /\ call \in Calls /\ CallShape /\ call.pc = "commit" /\ ManagerTypeOK
        /\ storage' = [storage EXCEPT ![b.buffer] = Overwrite(@, b.offset, data)]
    BY <1>1 DEF ManagerInv, ManagerTypeOK, Calls, Commit
  <2>2. /\ call.turn \in 1..Len(Bound(call.id)) /\ Len(data) = b.size
        /\ b.offset \in Nat /\ b.size \in Nat
    BY <2>1, BindingType DEF CallShape, ManagerTypeOK
  <2>3. CASE h = b.buffer /\ i \in b.offset + 1 .. b.offset + b.size
    BY <2>2, <2>3 DEF IsBound
  <2>4. CASE h = b.buffer /\ i \notin b.offset + 1 .. b.offset + b.size
    <3>1. storage'[h] = Overwrite(storage[h], b.offset, data)
      BY <2>1, <2>4
    <3> QED BY <2>2, <2>4, <3>1 DEF Overwrite
  <2>5. CASE h # b.buffer
    BY <2>1, <2>5
  <2> QED BY <2>3, <2>4, <2>5
<1>2. ASSUME ManagerInv, [ManagerNext]_managerVars PROVE Confined
  <2>1. CASE Commit
    BY <1>1, <1>2, <2>1
  <2>2. CASE ~Commit
    BY <1>2, <2>2
       DEF ManagerNext, HostStep, DispatchStep, CreatePipeline, DeletePipeline,
           CreateStorageBuffer, WriteStorageBuffer, BeginDispatch,
           BeginExecutorDispatch, BackendFails, BackendCompletes, Readback,
           ReadbackFails, SignalFence, ReturnDispatch, CreateFence, SetFence,
           ResetFence, managerVars
  <2> QED BY <2>1, <2>2
<1>3. ManagerInv /\ [ManagerNext]_managerVars => [Confined]_managerVars
  BY <1>2
<1> QED BY <1>3, Invariance, PTL DEF ManagerSpec, DispatchConfined
=============================================================================
