------------------------------- MODULE SpirvProfile -------------------------------
(* inspect_spirv of vulkan_compute.rs: one pass over the instructions of a     *)
(* shader module collects what the backend must know of it, refusing what it   *)
(* does not understand; the checks after the pass relate what was collected.   *)
(* The words of the accepted module go to the driver, the reflected bindings   *)
(* and workgroup size to the checks that protect it.                           *)
(*                                                                             *)
(* An instruction is a record: its operation, the ids it names, and "plain",   *)
(* which says that its literal operands and length are the ones the profile    *)
(* knows.  Header, byte length and name bounds are checked before the pass.    *)
EXTENDS Integers, Sequences, FiniteSets, Functions

CONSTANTS
  Modules   \* instruction sequences that are offered for inspection

(* A LocalSize has three words; every other operand is compared only.           *)
ASSUME ModulesAssumption ==
  \A m \in Modules :
    /\ m \in Seq({m[k] : k \in DOMAIN m})
    /\ \A k \in DOMAIN m : m[k].op = "executionMode" => m[k].size \in Nat \X Nat \X Nat

VARIABLES
  module, at,  \* the module and the next instruction
  seen,        \* what the pass collected
  outcome      \* "none", "scanning", "accepted" or "refused"

vars == <<module, at, seen, outcome>>

--------------------------------------------------------------------------------
(* Maps of the pass: BTreeMap from id to what was declared for it.             *)

None == <<>>
With(map, id, value) ==
  [i \in DOMAIN map \cup {id} |-> IF i = id THEN value ELSE map[i]]

Nothing ==
  [model |-> FALSE, capability |-> FALSE, entry |-> {}, local |-> {}, builtin |-> {},
   bindings |-> None, sets |-> None, pointers |-> None, structures |-> {}, blocks |-> {},
   variables |-> <<>>, constants |-> None, composites |-> None]

(* Instructions at which the pass stops.                                       *)
Refused(i, s) ==
  \/ i.op \in {"truncated", "unsupported"}
  \/ i.op = "memoryModel"   /\ (~i.plain \/ s.model)
  \/ i.op = "entryPoint"    /\ (~i.plain \/ s.entry # {})
  \/ i.op = "executionMode" /\ (~i.plain \/ s.local # {})
  \/ i.op = "capability"    /\ (~i.plain \/ s.capability)
  \/ i.op = "numericType"   /\ ~i.plain
  \/ i.op = "variable"      /\ i.storage = "unsupported"
  \/ i.op = "workgroupSize" /\ s.builtin # {}
  \/ i.op = "binding"       /\ (~i.plain \/ i.target \in DOMAIN s.bindings)
  \/ i.op = "set"           /\ (~i.plain \/ i.target \in DOMAIN s.sets)

(* What an accepted instruction adds.  Inputs, privates and function locals,   *)
(* and operations the profile does not look at, add nothing.                   *)
Collected(i, s) ==
  CASE i.op = "memoryModel"   -> [s EXCEPT !.model = TRUE]
    [] i.op = "capability"    -> [s EXCEPT !.capability = TRUE]
    [] i.op = "entryPoint"    -> [s EXCEPT !.entry = {i.id}]
    [] i.op = "executionMode" -> [s EXCEPT !.local = {<<i.target, i.size>>}]
    [] i.op = "struct"        -> [s EXCEPT !.structures = @ \cup {i.id}]
    [] i.op = "pointer"       -> [s EXCEPT !.pointers = With(@, i.id, <<i.storage, i.pointee>>)]
    [] i.op = "constant"      -> [s EXCEPT !.constants = With(@, i.id, i.value)]
    [] i.op = "composite"     -> [s EXCEPT !.composites = With(@, i.id, i.parts)]
    [] i.op = "block"         -> [s EXCEPT !.blocks = @ \cup {i.target}]
    [] i.op = "workgroupSize" -> [s EXCEPT !.builtin = {i.target}]
    [] i.op = "binding"       -> [s EXCEPT !.bindings = With(@, i.target, i.value)]
    [] i.op = "set"           -> [s EXCEPT !.sets = With(@, i.target, i.value)]
    [] i.op = "variable" /\ i.storage = "buffer" ->
         [s EXCEPT !.variables = Append(@, <<i.type, i.id>>)]
    [] OTHER -> s

--------------------------------------------------------------------------------
(* The checks after the pass.                                                  *)

LocalSize(s) == (CHOOSE l \in s.local : TRUE)[2]

Complete(s) ==
  /\ s.model /\ s.capability
  /\ \E id \in s.entry : \E l \in s.local : l[1] = id /\ 0 \notin Range(l[2])

(* Faulty variant: the builtin is compared where its parts are known only.     *)
WorkgroupAgreesIfKnown(s) ==
  \A id \in s.builtin \cap DOMAIN s.composites : \A d \in 1..3 :
    s.composites[id][d] \in DOMAIN s.constants =>
      s.constants[s.composites[id][d]] = LocalSize(s)[d]

(* A WorkgroupSize builtin is a literal vector that repeats the LocalSize.     *)
WorkgroupAgrees(s) ==
  \A id \in s.builtin :
    /\ id \in DOMAIN s.composites
    /\ \A d \in 1..3 :
         /\ s.composites[id][d] \in DOMAIN s.constants
         /\ s.constants[s.composites[id][d]] = LocalSize(s)[d]

(* One storage variable: a Block struct behind a storage pointer, in set 0.    *)
Describable(type, id, s) ==
  /\ type \in DOMAIN s.pointers
  /\ LET p == s.pointers[type]
     IN p[1] = "buffer" /\ p[2] \in s.structures \cap s.blocks
  /\ id \in DOMAIN s.bindings
  /\ id \in DOMAIN s.sets /\ s.sets[id] = 0

Found(s) == {s.bindings[v[2]] : v \in Range(s.variables)}

(* Faulty variant: decorations that no variable explains are not counted.      *)
ReflectableVariables(s) ==
  /\ \A v \in Range(s.variables) : Describable(v[1], v[2], s)
  /\ Cardinality(Found(s)) = Len(s.variables)
  /\ Found(s) # {}

(* Every variable, with a binding of its own; nothing else is decorated.       *)
Reflectable(s) ==
  /\ \A v \in Range(s.variables) : Describable(v[1], v[2], s)
  /\ Cardinality(Found(s)) = Len(s.variables)
  /\ Found(s) # {}
  /\ Cardinality(Found(s)) = Cardinality(DOMAIN s.bindings)
  /\ Cardinality(Found(s)) = Cardinality(DOMAIN s.sets)

--------------------------------------------------------------------------------
Init == module = <<>> /\ at = 1 /\ seen = Nothing /\ outcome = "none"

Inspect(m) ==
  /\ outcome = "none"
  /\ module' = m /\ at' = 1 /\ seen' = Nothing /\ outcome' = "scanning"

Scan ==
  /\ outcome = "scanning" /\ at <= Len(module) /\ ~Refused(module[at], seen)
  /\ seen' = Collected(module[at], seen) /\ at' = at + 1
  /\ UNCHANGED <<module, outcome>>

(* Faulty variant: decorations are expected behind the variable they describe. *)
RefuseEarlyDecoration ==
  /\ outcome = "scanning" /\ at <= Len(module)
  /\ \/ Refused(module[at], seen)
     \/ /\ module[at].op \in {"binding", "set"}
        /\ module[at].target \notin {v[2] : v \in Range(seen.variables)}
  /\ outcome' = "refused"
  /\ UNCHANGED <<module, at, seen>>

RefuseInstruction ==
  /\ outcome = "scanning" /\ at <= Len(module) /\ Refused(module[at], seen)
  /\ outcome' = "refused"
  /\ UNCHANGED <<module, at, seen>>

Conclude ==
  /\ outcome = "scanning" /\ at > Len(module)
  /\ outcome' = IF Complete(seen) /\ WorkgroupAgrees(seen) /\ Reflectable(seen)
                THEN "accepted" ELSE "refused"
  /\ UNCHANGED <<module, at, seen>>

Return ==
  /\ outcome \in {"accepted", "refused"}
  /\ module' = <<>> /\ at' = 1 /\ seen' = Nothing /\ outcome' = "none"

Next ==
  \/ outcome = "none" /\ \E m \in Modules : Inspect(m)
  \/ Scan \/ RefuseInstruction \/ Conclude \/ Return

Spec == Init /\ [][Next]_vars

--------------------------------------------------------------------------------
(* What the module says, whatever the order of its instructions.               *)

Places(op) == {k \in DOMAIN module : module[k].op = op}
Instructions(op) == {module[k] : k \in Places(op)}
Once(op) == Cardinality(Places(op)) = 1

Buffers == {i \in Instructions("variable") : i.storage = "buffer"}
Decorated(op, id) == {i.value : i \in {j \in Instructions(op) : j.target = id}}

(* Each id is declared once, as in every module that is valid SPIR-V.          *)
SingleAssignment ==
  \A op \in {"struct", "pointer", "constant", "composite", "variable"} :
    \A j, k \in DOMAIN module :
      module[j].op = op /\ module[k].op = op /\ module[j].id = module[k].id => j = k

(* The size a driver takes for a workgroup: the builtin, else the LocalSize.   *)
RunSizes ==
  LET literal(id) == {c.value : c \in {d \in Instructions("constant") : d.id = id}}
      builtin == {c \in Instructions("composite") :
                    \E b \in Instructions("workgroupSize") : b.target = c.id}
  IN IF Instructions("workgroupSize") = {}
     THEN {i.size : i \in Instructions("executionMode")}
     ELSE {<<x, y, z>> : x \in UNION {literal(c.parts[1]) : c \in builtin},
                         y \in UNION {literal(c.parts[2]) : c \in builtin},
                         z \in UNION {literal(c.parts[3]) : c \in builtin}}

(* A module with all of the profile and nothing that is refused by itself.     *)
Fits(i) ==
  /\ i.op \notin {"truncated", "unsupported"}
  /\ i.op \in {"memoryModel", "entryPoint", "executionMode", "capability",
               "numericType", "binding", "set"} => i.plain
  /\ i.op = "variable" => i.storage # "unsupported"

Storage(b) ==
  \E p \in Instructions("pointer") :
    /\ p.id = b.type /\ p.storage = "buffer"
    /\ \E s \in Instructions("struct") : s.id = p.pointee
    /\ \E d \in Instructions("block") : d.target = p.pointee

WholeProfile ==
  /\ \A k \in DOMAIN module : Fits(module[k])
  /\ \A op \in {"memoryModel", "entryPoint", "executionMode", "capability"} : Once(op)
  /\ \A e \in Instructions("entryPoint"), m \in Instructions("executionMode") :
       e.id = m.target /\ 0 \notin Range(m.size)
  /\ Instructions("workgroupSize") = {}
  /\ Buffers # {} /\ \A b \in Buffers : Storage(b)
  /\ \A b \in Buffers : Decorated("set", b.id) = {0}
  /\ \A b \in Buffers : Cardinality(Decorated("binding", b.id)) = 1
  /\ \A b, c \in Buffers :
       Decorated("binding", b.id) = Decorated("binding", c.id) => b = c
  /\ \A op \in {"binding", "set"} : Cardinality(Places(op)) = Cardinality(Buffers)

(* Properties.                                                                 *)

(* The workgroup size the device limits are checked with is the one the GPU    *)
(* will run with, whether or not the module overrides it with a builtin.       *)
LimitsSeeTheRealSize ==
  outcome = "accepted" /\ SingleAssignment => RunSizes = {LocalSize(seen)}

(* The reflected bindings are exactly those of the module's storage buffers:   *)
(* each buffer has one, in set 0, no two share one, and no other id has any.   *)
BindingsExact ==
  outcome = "accepted" =>
    /\ \A b \in Buffers : \E n \in Found(seen) :
         Decorated("binding", b.id) = {n} /\ Decorated("set", b.id) = {0}
    /\ \A b, c \in Buffers :
         Decorated("binding", b.id) = Decorated("binding", c.id) => b.id = c.id
    /\ \A i \in Instructions("binding") \cup Instructions("set") :
         \E b \in Buffers : b.id = i.target
    /\ Found(seen) = {i.value : i \in Instructions("binding")}

(* Instructions may come in any order: a module that has all of the profile    *)
(* and nothing that is refused by itself is accepted.                          *)
ProfileAccepted == outcome = "refused" /\ SingleAssignment => ~WholeProfile

================================================================================
