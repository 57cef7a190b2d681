---------------------------- MODULE PreflightProofs ----------------------------
(* Proofs for the decisions of vulkan_compute.rs before a submission: the      *)
(* device that is opened is the named one and can run what the limits accept,  *)
(* the shader that is accepted is the one the limits were checked for, and the *)
(* validator answers for this shader and leaves nothing behind.                *)
EXTENDS Preflight, SpirvValidator, FiniteSetTheorems, WellFoundedInduction, TLAPS

--------------------------------------------------------------------------------
(* Which device.                                                               *)

(* The devices are those the loader showed, and the reports cover a prefix.    *)
Shown ==
  /\ devices \in Seq({devices[k] : k \in DOMAIN devices})
  /\ \A k \in DOMAIN devices : IsDevice(devices[k])

Reported ==
  /\ reports \in Seq(BOOLEAN) /\ Len(reports) <= Len(devices)
  /\ \A k \in 1..Len(reports) :
       ~Malformed(devices[k]) /\ (~reports[k] => ~Rejected(devices[k]))
  /\ pc = "idle" => reports = <<>>
  /\ pc \in {"select", "create", "open"} => Len(reports) = Len(devices)

(* From its selection on, the chosen device is the only match and has no       *)
(* reason against it.                                                          *)
ChosenIsTheMatch ==
  pc \in {"create", "open"} =>
    Matching = {chosen} /\ chosen \in DOMAIN devices /\ ~reports[chosen]

(* The last answer about memory is that of host_memory_type for this device.   *)
AskedThisDevice ==
  memory # NoMemory =>
    /\ pc = "open" /\ memory.size \in Nat \ {0}
    /\ memory.type = HostMemoryType(Device, memory.bits, memory.size)

SelectionInv == Shown /\ Reported /\ ChosenIsTheMatch /\ AskedThisDevice

(* Whatever leaves the session alone keeps what is said of it.                 *)
LEMMA SessionStays ==
  ASSUME SelectionInv, UNCHANGED session
  PROVE  (Shown /\ Reported /\ ChosenIsTheMatch)'
BY DEF SelectionInv, Shown, Reported, ChosenIsTheMatch, Matching, session

LEMMA SelectionStarts == SelectionInit => SelectionInv
<1> SUFFICES ASSUME SelectionInit PROVE SelectionInv
  OBVIOUS
<1>1. devices = <<>> /\ reports = <<>> /\ pc = "idle" /\ memory = NoMemory
  BY DEF SelectionInit
<1>2. Shown
  BY <1>1 DEF Shown
<1>3. Reported
  BY <1>1 DEF Reported
<1> QED BY <1>1, <1>2, <1>3 DEF SelectionInv, ChosenIsTheMatch, AskedThisDevice

LEMMA SelectionGoesOn ==
  ASSUME SelectionInv, SelectionNext
  PROVE  SelectionInv'
<1>1. ASSUME NEW list \in DeviceLists, NEW c \in Configs, pc = "idle", Open(list, c)
      PROVE  SelectionInv'
  <2>1. devices' = list /\ reports' = <<>> /\ memory' = memory /\ pc' \in {"probing", "refused"}
    BY <1>1 DEF Open, SelectionInv, Reported
  <2>2. Shown'
    BY <2>1, SelectionAssumption DEF Shown
  <2>3. Reported'
    <3>1. Len(list) \in Nat
      BY SelectionAssumption
    <3> QED BY <2>1, <3>1 DEF Reported
  <2>4. memory = NoMemory
    BY <1>1 DEF SelectionInv, AskedThisDevice
  <2> QED BY <2>1, <2>2, <2>3, <2>4 DEF SelectionInv, ChosenIsTheMatch, AskedThisDevice
<1>2. ASSUME NEW why, Refuse(why), pc # "idle", pc # "open"
      PROVE  SelectionInv'
  <2>1. pc' = "refused" /\ UNCHANGED <<devices, reports, memory>> /\ memory = NoMemory
    BY <1>2 DEF Refuse, SelectionInv, AskedThisDevice
  <2> QED BY <2>1 DEF SelectionInv, Shown, Reported, ChosenIsTheMatch, AskedThisDevice
<1>3. CASE Probe
  <2>1. PICK d : d = devices[Len(reports) + 1]
    OBVIOUS
  <2>2. PICK r \in BOOLEAN : r = Rejected(d)
    BY DEF Rejected
  <2>3. reports' = Append(reports, r) /\ UNCHANGED <<pc, devices, memory>> /\ ~Malformed(d)
    BY <1>3, <2>1, <2>2 DEF Probe
  <2>4. pc = "probing" /\ Len(reports) < Len(devices) /\ memory = NoMemory
    BY <1>3 DEF Probe, SelectionInv, AskedThisDevice
  <2>5. PICK n, m : n = Len(reports) /\ m = Len(devices) /\ n \in Nat /\ m \in Nat /\ n < m
    BY <2>4 DEF SelectionInv, Shown, Reported
  <2>6. /\ reports' \in Seq(BOOLEAN) /\ Len(reports') = n + 1
        /\ reports'[n + 1] = r /\ \A k \in 1..n : reports'[k] = reports[k]
    BY <2>3, <2>5 DEF SelectionInv, Reported
  <2>7. \A k \in 1..(n + 1) : k \in 1..n \/ k = n + 1
    BY <2>5
  <2>8. \A k \in 1..(n + 1) :
          ~Malformed(devices[k]) /\ (~reports'[k] => ~Rejected(devices[k]))
    <3>1. \A k \in 1..n : ~Malformed(devices[k]) /\ (~reports[k] => ~Rejected(devices[k]))
      BY <2>5 DEF SelectionInv, Reported
    <3>2. ~r => ~Rejected(d)
      BY <2>2
    <3> QED BY <2>1, <2>3, <2>5, <2>6, <2>7, <3>1, <3>2
  <2>9. Reported'
    BY <2>3, <2>4, <2>5, <2>6, <2>8 DEF Reported
  <2>10. Shown'
    BY <2>3 DEF SelectionInv, Shown
  <2> QED BY <2>3, <2>4, <2>9, <2>10 DEF SelectionInv, ChosenIsTheMatch, AskedThisDevice
<1>4. CASE Probed
  <2>1. /\ pc' = "select" /\ UNCHANGED <<devices, reports, memory>> /\ memory = NoMemory
        /\ Len(reports) = Len(devices)
    BY <1>4 DEF Probed, SelectionInv, AskedThisDevice
  <2> QED BY <2>1 DEF SelectionInv, Shown, Reported, ChosenIsTheMatch, AskedThisDevice
<1>5. CASE Select
  <2>1. PICK k \in DOMAIN devices : Matching = {k} /\ ~reports[k] /\ chosen' = k
    BY <1>5 DEF Select
  <2>2. /\ pc = "select" /\ pc' = "create" /\ UNCHANGED <<devices, config, reports, memory>>
        /\ memory = NoMemory
    BY <1>5 DEF Select, SelectionInv, AskedThisDevice
  <2>3. Shown' /\ Reported'
    BY <2>2 DEF SelectionInv, Shown, Reported
  <2>4. ChosenIsTheMatch'
    BY <2>1, <2>2 DEF ChosenIsTheMatch, Matching
  <2> QED BY <2>2, <2>3, <2>4 DEF SelectionInv, AskedThisDevice
<1>6. CASE CreateDevice
  <2>1. /\ pc = "create" /\ pc' = "open" /\ memory = NoMemory
        /\ UNCHANGED <<devices, config, reports, chosen, memory>>
    BY <1>6 DEF CreateDevice, SelectionInv, AskedThisDevice
  <2> QED BY <2>1
        DEF SelectionInv, Shown, Reported, ChosenIsTheMatch, Matching, AskedThisDevice
<1>7. ASSUME NEW r, ValidateLimits(r)
      PROVE  SelectionInv'
  <2>1. UNCHANGED session /\ memory' = memory
    BY <1>7 DEF ValidateLimits
  <2>2. AskedThisDevice'
    BY <2>1 DEF SelectionInv, AskedThisDevice, Device, session
  <2> QED BY <2>1, <2>2, SessionStays DEF SelectionInv
<1>8. ASSUME NEW bits, NEW size \in Nat \ {0}, ChooseMemory(bits, size)
      PROVE  SelectionInv'
  <2>1. /\ UNCHANGED session /\ pc = "open"
        /\ memory' = [bits |-> bits, size |-> size, type |-> HostMemoryType(Device, bits, size)]
    BY <1>8 DEF ChooseMemory
  <2>2. AskedThisDevice'
    BY <2>1 DEF AskedThisDevice, Device, session
  <2> QED BY <2>1, <2>2, SessionStays DEF SelectionInv
<1>9. CASE Answered
  <2>1. UNCHANGED session /\ memory' = NoMemory
    BY <1>9 DEF Answered
  <2> QED BY <2>1, SessionStays DEF SelectionInv, AskedThisDevice
<1>10. CASE Close
  <2>1. devices' = <<>> /\ reports' = <<>> /\ pc' = "idle" /\ memory' = memory /\ memory = NoMemory
    BY <1>10 DEF Close
  <2>2. Shown'
    BY <2>1 DEF Shown
  <2>3. Reported'
    BY <2>1 DEF Reported
  <2> QED BY <2>1, <2>2, <2>3 DEF SelectionInv, ChosenIsTheMatch, AskedThisDevice
<1>11. CASE LoaderFails \/ ProbeFails \/ SelectNone \/ CreateFails
  BY <1>2, <1>11 DEF LoaderFails, ProbeFails, SelectNone, CreateFails
<1>12. ASSUME NEW bits \in MemoryBits, NEW r \in Dispatches, NEW b \in DOMAIN r.sizes,
              ChooseMemory(bits, r.sizes[b])
       PROVE  SelectionInv'
  BY <1>8, <1>12, SelectionAssumption
<1> QED BY <1>1, <1>3, <1>4, <1>5, <1>6, <1>7, <1>9, <1>10, <1>11, <1>12 DEF SelectionNext

LEMMA Least ==
  ASSUME NEW s \in SUBSET Nat, s # {}
  PROVE  \E m \in s : \A n \in s : m <= n
<1>1. PICK m \in s : \A n \in s : <<n, m>> \notin OpToRel(<, Nat)
  BY NatLessThanWellFounded, WFMin
<1>2. \A n \in s : ~(n < m) /\ n \in Nat
  BY <1>1 DEF OpToRel
<1>3. \A n \in s : m <= n
  BY <1>2
<1> QED BY <1>3

(* host_memory_type finds a best type whenever some type is usable.            *)
LEMMA BestTypeExists ==
  ASSUME NEW d, NEW bits, NEW size, Usable(d, bits, size) # {},
         d.types \in Seq({d.types[t] : t \in DOMAIN d.types})
  PROVE  \E t \in Usable(d, bits, size) : \A u \in Usable(d, bits, size) :
           Rank(d, t) > Rank(d, u) \/ (Rank(d, t) = Rank(d, u) /\ t <= u)
<1>1. PICK U : U = Usable(d, bits, size) /\ U # {} /\ U \subseteq Nat
  <2>1. PICK n \in Nat : DOMAIN d.types = 1..n
    OBVIOUS
  <2>2. Usable(d, bits, size) \subseteq 1..n
    BY <2>1 DEF Usable
  <2> QED BY <2>1, <2>2
<1>2. \A t : Rank(d, t) \in 0..3
  BY DEF Rank
<1>3. PICK S : S = {3 - Rank(d, t) : t \in U}
  OBVIOUS
<1>4. PICK best \in U : \A u \in U : Rank(d, best) >= Rank(d, u)
  <2>1. \A t \in U : 3 - Rank(d, t) \in Nat
    BY <1>2
  <2>2. S \in SUBSET Nat /\ S # {}
    BY <1>1, <1>3, <2>1
  <2>3. PICK least \in S : \A n \in S : least <= n
    BY <2>2, Least
  <2>4. PICK best \in U : least = 3 - Rank(d, best)
    BY <1>3, <2>3
  <2>5. \A u \in U : 3 - Rank(d, best) <= 3 - Rank(d, u)
    BY <1>3, <2>3, <2>4
  <2> QED BY <1>2, <2>4, <2>5
<1>5. PICK T : T = {t \in U : Rank(d, t) = Rank(d, best)}
  OBVIOUS
<1>6. PICK first \in T : \A t \in T : first <= t
  BY <1>1, <1>5, Least
<1>7. first \in U /\ Rank(d, first) = Rank(d, best)
  BY <1>5, <1>6
<1>8. ASSUME NEW u \in U
      PROVE  Rank(d, first) > Rank(d, u) \/ (Rank(d, first) = Rank(d, u) /\ first <= u)
  <2>1. Rank(d, first) \in Int /\ Rank(d, u) \in Int /\ Rank(d, first) >= Rank(d, u)
    BY <1>2, <1>4, <1>7
  <2>2. Rank(d, first) = Rank(d, u) => first <= u
    BY <1>5, <1>6, <1>7
  <2> QED BY <2>1, <2>2
<1> QED BY <1>1, <1>7, <1>8

(* Its answer is such a type, and 0 only where there is none.                  *)
LEMMA HostMemoryTypeIsBest ==
  ASSUME NEW d, NEW bits, NEW size \in Nat \ {0},
         d.types \in Seq({d.types[t] : t \in DOMAIN d.types})
  PROVE  LET t == HostMemoryType(d, bits, size)
         IN IF Usable(d, bits, size) = {} THEN t = 0
            ELSE /\ t # 0 /\ t \in Usable(d, bits, size)
                 /\ \A u \in Usable(d, bits, size) : Rank(d, t) >= Rank(d, u)
<1>1. CASE Usable(d, bits, size) = {}
  BY <1>1 DEF HostMemoryType
<1>2. CASE Usable(d, bits, size) # {}
  <2>1. PICK t : t = HostMemoryType(d, bits, size)
    OBVIOUS
  <2>2. /\ t \in Usable(d, bits, size)
        /\ \A u \in Usable(d, bits, size) :
             Rank(d, t) > Rank(d, u) \/ (Rank(d, t) = Rank(d, u) /\ t <= u)
    BY <1>2, <2>1, BestTypeExists DEF HostMemoryType
  <2>3. t # 0
    <3>1. PICK n \in Nat : DOMAIN d.types = 1..n
      OBVIOUS
    <3> QED BY <2>2, <3>1 DEF Usable
  <2>4. \A u : Rank(d, u) \in Int
    BY DEF Rank
  <2>5. \A u \in Usable(d, bits, size) : Rank(d, t) >= Rank(d, u)
    BY <2>2, <2>4
  <2> QED BY <1>2, <2>1, <2>2, <2>3, <2>5
<1> QED BY <1>1, <1>2

THEOREM SelectionInvariance == PreflightSpec => []SelectionInv
<1>1. PreflightInit => SelectionInv
  BY SelectionStarts DEF PreflightInit
<1>2. SelectionInv /\ [PreflightNext]_<<vars, selectionVars>> => SelectionInv'
  <2>1. SelectionInv /\ SelectionNext => SelectionInv'
    BY SelectionGoesOn
  <2>2. ASSUME SelectionInv, UNCHANGED selectionVars PROVE SelectionInv'
    <3>1. UNCHANGED session /\ memory' = memory
      BY <2>2 DEF selectionVars, session
    <3>2. AskedThisDevice'
      BY <2>2, <3>1 DEF SelectionInv, AskedThisDevice, Device, session
    <3> QED BY <2>2, <3>1, <3>2, SessionStays DEF SelectionInv
  <2>3. [PreflightNext]_<<vars, selectionVars>> => SelectionNext \/ UNCHANGED selectionVars
    BY DEF PreflightNext
  <2> QED BY <2>1, <2>2, <2>3
<1> QED BY <1>1, <1>2, PTL DEF PreflightSpec

(* new_selected: the device that is opened is the one named, of real hardware  *)
(* with robust access, and no other device of the loader answers to the name.  *)
THEOREM TheNamedIsOpened == PreflightSpec => []OpensOnlyTheNamed
<1>1. SelectionInv => OpensOnlyTheNamed
  <2> SUFFICES ASSUME SelectionInv, pc = "open" PROVE OpensOnlyTheNamed
    BY DEF OpensOnlyTheNamed
  <2>1. Matching = {chosen} /\ chosen \in DOMAIN devices /\ ~reports[chosen]
    BY DEF SelectionInv, ChosenIsTheMatch
  <2>2. ~Rejected(Device)
    <3>1. chosen \in 1..Len(reports)
      BY <2>1 DEF SelectionInv, Shown, Reported
    <3> QED BY <2>1, <3>1 DEF SelectionInv, Reported, Device
  <2>3. Device.kind \in {"integrated", "discrete"} /\ Device.robust /\ Device.version11
    BY <2>2 DEF Rejected
  <2>4. Matches(Device, config)
    BY <2>1 DEF Matching, Device
  <2>5. Device.ids = config.ids /\ config.uuid \in {"any", Device.uuid}
    BY <2>3, <2>4 DEF Matches, Uuid
  <2>6. ASSUME NEW k \in DOMAIN devices, devices[k].ids = config.ids,
               config.uuid \in {"any", Uuid(devices[k])}
        PROVE  k = chosen
    <3>1. Matches(devices[k], config)
      BY <2>6 DEF Matches
    <3> QED BY <2>1, <3>1 DEF Matching
  <2> QED BY <2>3, <2>5, <2>6 DEF OpensOnlyTheNamed
<1> QED BY <1>1, SelectionInvariance, PTL

(* An open device has no reason against it, and its heaps exist.               *)
LEMMA OpenDeviceIsGood ==
  ASSUME SelectionInv, pc = "open"
  PROVE  IsDevice(Device) /\ ~Malformed(Device) /\ ~Rejected(Device)
<1>1. chosen \in DOMAIN devices /\ ~reports[chosen]
  BY DEF SelectionInv, ChosenIsTheMatch
<1>2. chosen \in 1..Len(reports)
  BY <1>1 DEF SelectionInv, Shown, Reported
<1> QED BY <1>1, <1>2 DEF SelectionInv, Shown, Reported, Device

(* baseline_rejections against validate_limits and host_memory_type: what no   *)
(* reason speaks against can run one invocation on one storage word.           *)
THEOREM BaselineIsEnough == PreflightSpec => []BaselineSuffices
<1>1. SelectionInv => BaselineSuffices
  <2> SUFFICES ASSUME SelectionInv, pc = "open"
               PROVE  CanRunOneWord(Device) /\ ComputeFamilies(Device) # {}
    BY DEF BaselineSuffices
  <2>1. PICK d : d = Device /\ IsDevice(d) /\ ~Malformed(d) /\ ~Rejected(d)
    BY OpenDeviceIsGood
  <2>2. ComputeFamilies(d) # {} /\ ~BadLimits(d.limits)
    BY <2>1 DEF Rejected
  <2>3. WithinLimits(OneWord, d.limits)
    <3>1. PICK l : l = d.limits
      OBVIOUS
    <3>2. /\ \A k \in 1..3 : /\ l.groupCount[k] \in Nat /\ l.groupCount[k] # 0
                             /\ l.groupSize[k] \in Nat /\ l.groupSize[k] # 0
          /\ l.invocations \in Nat \ {0}
      BY <2>1, <2>2, <3>1 DEF IsDevice, BadLimits
    <3>3. l.range \in Nat /\ ~(l.range < Word)
      BY <2>1, <2>2, <3>1 DEF IsDevice, BadLimits
    <3>4. \A m \in {l.perStage, l.perSet, l.resources, l.sets, l.allocations} : m \in Nat /\ m # 0
      BY <2>1, <2>2, <3>1 DEF IsDevice, BadLimits
    <3>5. \A k \in 1..3 : OneWord.groups[k] = 1 /\ OneWord.workgroup[k] = 1
      BY DEF OneWord
    <3>6. OneWord.workgroup[1] * OneWord.workgroup[2] * OneWord.workgroup[3] <= l.invocations
      BY <3>2, <3>5
    <3>7. Len(OneWord.sizes) = 1 /\ DOMAIN OneWord.sizes = {1} /\ OneWord.sizes[1] = Word
      BY DEF OneWord
    <3>8. \A m \in {l.perStage, l.perSet, l.resources, l.allocations} : Len(OneWord.sizes) <= m
      BY <3>4, <3>7
    <3>9. \A b \in DOMAIN OneWord.sizes : OneWord.sizes[b] <= l.range
      BY <3>3, <3>7 DEF Word
    <3>10. \A k \in 1..3 : OneWord.groups[k] <= l.groupCount[k] /\ OneWord.workgroup[k] <= l.groupSize[k]
      BY <3>2, <3>5
    <3> QED BY <3>1, <3>4, <3>6, <3>8, <3>9, <3>10 DEF WithinLimits
  <2>4. HostMemoryType(d, DOMAIN d.types, Word) # 0
    <3>1. PICK t \in DOMAIN d.types : HostMemory(d.types[t].flags) /\ d.heaps[d.types[t].heap] >= Word
      BY <2>1 DEF Rejected
    <3>2. d.types[t].heap \in DOMAIN d.heaps /\ d.heaps[d.types[t].heap] \in Nat
      BY <2>1, <3>1 DEF Malformed, IsDevice
    <3>3. t \in Usable(d, DOMAIN d.types, Word)
      BY <3>1, <3>2 DEF Usable, Word
    <3>4. Word \in Nat \ {0}
      BY DEF Word
    <3>5. d.types \in Seq({d.types[u] : u \in DOMAIN d.types})
      BY <2>1 DEF IsDevice
    <3>6. PICK bits : bits = DOMAIN d.types
      OBVIOUS
    <3>7. Usable(d, bits, Word) # {}
      BY <3>3, <3>6
    <3> QED BY <3>4, <3>5, <3>6, <3>7, HostMemoryTypeIsBest
  <2> QED BY <2>1, <2>2, <2>3, <2>4 DEF CanRunOneWord
<1> QED BY <1>1, SelectionInvariance, PTL

(* host_memory_type: mappable, allowed, large enough, and coherent whenever    *)
(* such memory is coherent anywhere.                                           *)
THEOREM MemoryIsSuitable == PreflightSpec => []MemorySuits
<1>1. SelectionInv => MemorySuits
  <2> SUFFICES ASSUME SelectionInv, memory # NoMemory PROVE MemorySuits
    BY DEF MemorySuits
  <2>1. PICK d, bits, size, t :
          d = Device /\ bits = memory.bits /\ size = memory.size /\ t = memory.type
    OBVIOUS
  <2>2. /\ pc = "open" /\ size \in Nat \ {0} /\ t = HostMemoryType(d, bits, size)
        /\ IsDevice(d) /\ ~Malformed(d)
    BY <2>1, OpenDeviceIsGood DEF SelectionInv, AskedThisDevice
  <2> DEFINE suits(u) ==
        /\ u \in bits /\ "visible" \in d.types[u].flags
        /\ ~\E f \in {"deviceCoherent", "protected", "lazy"} : f \in d.types[u].flags
        /\ size <= d.heaps[d.types[u].heap]
  <2>3. \A u \in DOMAIN d.types : suits(u) <=> u \in Usable(d, bits, size)
    <3> SUFFICES ASSUME NEW u \in DOMAIN d.types
                 PROVE  suits(u) <=> u \in Usable(d, bits, size)
      OBVIOUS
    <3>1. d.types[u].heap \in DOMAIN d.heaps
      BY <2>2 DEF Malformed
    <3>2. HostMemory(d.types[u].flags) <=>
            /\ "visible" \in d.types[u].flags
            /\ ~\E f \in {"deviceCoherent", "protected", "lazy"} : f \in d.types[u].flags
      <4>1. PICK flags : flags = d.types[u].flags
        OBVIOUS
      <4>2. flags \cap {"deviceCoherent", "protected", "lazy"} = {}
              <=> ~\E f \in {"deviceCoherent", "protected", "lazy"} : f \in flags
        OBVIOUS
      <4> QED BY <4>1, <4>2 DEF HostMemory
    <3> QED BY <3>1, <3>2 DEF Usable
  <2>4. Usable(d, bits, size) \subseteq DOMAIN d.types
    BY DEF Usable
  <2>5. IF Usable(d, bits, size) = {} THEN t = 0
        ELSE /\ t # 0 /\ t \in Usable(d, bits, size)
             /\ \A u \in Usable(d, bits, size) : Rank(d, t) >= Rank(d, u)
    BY <2>2, HostMemoryTypeIsBest DEF IsDevice
  <2>6. ASSUME NEW u \in DOMAIN d.types, Rank(d, t) >= Rank(d, u),
               "coherent" \in d.types[u].flags
        PROVE  "coherent" \in d.types[t].flags
    BY <2>6 DEF Rank
  <2>7. IF t = 0 THEN ~\E u \in DOMAIN d.types : suits(u)
        ELSE /\ suits(t)
             /\ \A u \in DOMAIN d.types :
                  suits(u) /\ "coherent" \in d.types[u].flags => "coherent" \in d.types[t].flags
    <3> HIDE DEF suits
    <3> QED BY <2>3, <2>4, <2>5, <2>6
  <2> QED BY <2>1, <2>7 DEF MemorySuits
<1> QED BY <1>1, SelectionInvariance, PTL

--------------------------------------------------------------------------------
(* Which shader: what the pass knows of a module m when instruction n is next. *)

Upto(m, n, op) == {k \in DOMAIN m : k < n /\ m[k].op = op}
BuffersUpto(m, n) == {k \in Upto(m, n, "variable") : m[k].storage = "buffer"}

SeenFields ==
  {"model", "capability", "entry", "local", "builtin", "bindings", "sets", "pointers",
   "structures", "blocks", "variables", "constants", "composites"}

IsSeen(s) == s = [f \in SeenFields |-> s[f]]

(* SingleAssignment of an instruction sequence.                                *)
Single(m) ==
  \A op \in {"struct", "pointer", "constant", "composite", "variable"} :
    \A j, k \in DOMAIN m : m[j].op = op /\ m[k].op = op /\ m[j].id = m[k].id => j = k

(* The mandatory instructions were met, those that may come once only once.    *)
KnowsOnce(m, n, s) ==
  /\ s.model => Upto(m, n, "memoryModel") # {}
  /\ Upto(m, n, "memoryModel") # {} => s.model
  /\ s.capability => Upto(m, n, "capability") # {}
  /\ Upto(m, n, "capability") # {} => s.capability
  /\ s.entry = {m[k].id : k \in Upto(m, n, "entryPoint")}
  /\ s.local = {<<m[k].target, m[k].size>> : k \in Upto(m, n, "executionMode")}
  /\ \A j, k \in Upto(m, n, "executionMode") : j = k
  /\ s.builtin = {m[k].target : k \in Upto(m, n, "workgroupSize")}
  /\ \A j, k \in Upto(m, n, "workgroupSize") : j = k

(* Every id is decorated at most once, with the value that was read.           *)
Decorates(map, m, n, op) ==
  /\ DOMAIN map = {m[k].target : k \in Upto(m, n, op)}
  /\ \A k \in Upto(m, n, op) : map[m[k].target] = m[k].value
  /\ \A j, k \in Upto(m, n, op) : m[j].target = m[k].target => j = k

KnowsSets(m, n, s) ==
  /\ s.structures = {m[k].id : k \in Upto(m, n, "struct")}
  /\ s.blocks = {m[k].target : k \in Upto(m, n, "block")}

(* The last declaration of an id counts: its only one, where ids are single.   *)
KnowsIds(m, n, s) ==
  /\ DOMAIN s.constants = {m[k].id : k \in Upto(m, n, "constant")}
  /\ DOMAIN s.composites = {m[k].id : k \in Upto(m, n, "composite")}
  /\ DOMAIN s.pointers = {m[k].id : k \in Upto(m, n, "pointer")}
  /\ Single(m) =>
       /\ \A k \in Upto(m, n, "constant") : s.constants[m[k].id] = m[k].value
       /\ \A k \in Upto(m, n, "composite") : s.composites[m[k].id] = m[k].parts
       /\ \A k \in Upto(m, n, "pointer") :
            s.pointers[m[k].id] = <<m[k].storage, m[k].pointee>>

KnowsVariables(m, n, s) ==
  /\ s.variables \in Seq(Range(s.variables))
  /\ Range(s.variables) = {<<m[k].type, m[k].id>> : k \in BuffersUpto(m, n)}
  /\ Len(s.variables) = Cardinality(BuffersUpto(m, n))

Knows(m, n, s) ==
  /\ IsSeen(s)
  /\ KnowsOnce(m, n, s) /\ KnowsSets(m, n, s) /\ KnowsIds(m, n, s)
  /\ Decorates(s.bindings, m, n, "binding") /\ Decorates(s.sets, m, n, "set")
  /\ KnowsVariables(m, n, s)

IsModule(m) ==
  /\ m \in Seq({m[k] : k \in DOMAIN m})
  /\ \A k \in DOMAIN m : m[k].op = "executionMode" => m[k].size \in Nat \X Nat \X Nat

(* What the verdict rests on.                                                  *)
Concluded(s) == Complete(s) /\ WorkgroupAgrees(s) /\ Reflectable(s)

ProfileInv ==
  /\ IsModule(module) /\ at \in 1..(Len(module) + 1)
  /\ Knows(module, at, seen)
  /\ outcome = "accepted" => at = Len(module) + 1 /\ Concluded(seen)
  /\ outcome = "refused" =>
       \/ at \in DOMAIN module /\ Refused(module[at], seen)
       \/ at = Len(module) + 1 /\ ~Concluded(seen)

--------------------------------------------------------------------------------
(* One instruction adds what it says and nothing else.                         *)
Adds(i, s, c) ==
  /\ IsSeen(c)
  /\ c.model = IF i.op = "memoryModel" THEN TRUE ELSE s.model
  /\ c.capability = IF i.op = "capability" THEN TRUE ELSE s.capability
  /\ c.entry = IF i.op = "entryPoint" THEN {i.id} ELSE s.entry
  /\ c.local = IF i.op = "executionMode" THEN {<<i.target, i.size>>} ELSE s.local
  /\ c.structures = IF i.op = "struct" THEN s.structures \cup {i.id} ELSE s.structures
  /\ c.pointers = IF i.op = "pointer" THEN With(s.pointers, i.id, <<i.storage, i.pointee>>)
                  ELSE s.pointers
  /\ c.constants = IF i.op = "constant" THEN With(s.constants, i.id, i.value)
                   ELSE s.constants
  /\ c.composites = IF i.op = "composite" THEN With(s.composites, i.id, i.parts)
                    ELSE s.composites
  /\ c.blocks = IF i.op = "block" THEN s.blocks \cup {i.target} ELSE s.blocks
  /\ c.builtin = IF i.op = "workgroupSize" THEN {i.target} ELSE s.builtin
  /\ c.bindings = IF i.op = "binding" THEN With(s.bindings, i.target, i.value)
                  ELSE s.bindings
  /\ c.sets = IF i.op = "set" THEN With(s.sets, i.target, i.value) ELSE s.sets
  /\ c.variables = IF i.op = "variable" /\ i.storage = "buffer"
                   THEN Append(s.variables, <<i.type, i.id>>) ELSE s.variables

LEMMA CollectedIs ==
  ASSUME NEW i, NEW s, IsSeen(s)
  PROVE  Adds(i, s, Collected(i, s))
<1>1. CASE i.op = "memoryModel"
  BY <1>1 DEF Adds, Collected, IsSeen, SeenFields
<1>2. CASE i.op = "capability"
  BY <1>2 DEF Adds, Collected, IsSeen, SeenFields
<1>3. CASE i.op = "entryPoint"
  BY <1>3 DEF Adds, Collected, IsSeen, SeenFields
<1>4. CASE i.op = "executionMode"
  BY <1>4 DEF Adds, Collected, IsSeen, SeenFields
<1>5. CASE i.op = "struct"
  BY <1>5 DEF Adds, Collected, IsSeen, SeenFields
<1>6. CASE i.op = "pointer"
  BY <1>6 DEF Adds, Collected, IsSeen, SeenFields
<1>7. CASE i.op = "constant"
  BY <1>7 DEF Adds, Collected, IsSeen, SeenFields
<1>8. CASE i.op = "composite"
  BY <1>8 DEF Adds, Collected, IsSeen, SeenFields
<1>9. CASE i.op = "block"
  BY <1>9 DEF Adds, Collected, IsSeen, SeenFields
<1>10. CASE i.op = "workgroupSize"
  BY <1>10 DEF Adds, Collected, IsSeen, SeenFields
<1>11. CASE i.op = "binding"
  BY <1>11 DEF Adds, Collected, IsSeen, SeenFields
<1>12. CASE i.op = "set"
  BY <1>12 DEF Adds, Collected, IsSeen, SeenFields
<1>13. CASE i.op = "variable" /\ i.storage = "buffer"
  BY <1>13 DEF Adds, Collected, IsSeen, SeenFields
<1>14. CASE /\ i.op \notin {"memoryModel", "capability", "entryPoint", "executionMode", "struct",
                            "pointer", "constant", "composite", "block", "workgroupSize",
                            "binding", "set"}
            /\ ~(i.op = "variable" /\ i.storage = "buffer")
  BY <1>14 DEF Adds, Collected
<1> QED BY <1>1, <1>2, <1>3, <1>4, <1>5, <1>6, <1>7, <1>8, <1>9, <1>10, <1>11, <1>12, <1>13, <1>14

LEMMA UptoGrows ==
  ASSUME NEW m, IsModule(m), NEW n \in DOMAIN m
  PROVE  /\ \A op : n \notin Upto(m, n, op)
         /\ \A op : m[n].op = op => Upto(m, n + 1, op) = Upto(m, n, op) \cup {n}
         /\ \A op : m[n].op # op => Upto(m, n + 1, op) = Upto(m, n, op)
<1>1. PICK len \in Nat : DOMAIN m = 1..len
  BY DEF IsModule
<1>2. n \in Nat /\ \A k \in DOMAIN m : k \in Nat /\ (k < n + 1 <=> k < n \/ k = n)
  BY <1>1
<1>3. ~(n < n)
  BY <1>2
<1> QED BY <1>2, <1>3 DEF Upto

LEMMA OnceGrows ==
  ASSUME NEW m, IsModule(m), NEW n \in DOMAIN m, NEW s, IsSeen(s), KnowsOnce(m, n, s),
         ~Refused(m[n], s), NEW c, c = Collected(m[n], s)
  PROVE  KnowsOnce(m, n + 1, c)
<1>1. PICK i : i = m[n] /\ Adds(i, s, c)
  BY CollectedIs
<1>2. /\ c.model = IF i.op = "memoryModel" THEN TRUE ELSE s.model
      /\ c.capability = IF i.op = "capability" THEN TRUE ELSE s.capability
      /\ c.entry = IF i.op = "entryPoint" THEN {i.id} ELSE s.entry
      /\ c.local = IF i.op = "executionMode" THEN {<<i.target, i.size>>} ELSE s.local
      /\ c.builtin = IF i.op = "workgroupSize" THEN {i.target} ELSE s.builtin
  BY <1>1 DEF Adds
<1>3. /\ i.op = "entryPoint" => s.entry = {}
      /\ i.op = "executionMode" => s.local = {}
      /\ i.op = "workgroupSize" => s.builtin = {}
  BY <1>1 DEF Refused
<1>4. /\ c.model => Upto(m, n + 1, "memoryModel") # {}
      /\ Upto(m, n + 1, "memoryModel") # {} => c.model
  BY <1>1, <1>2, UptoGrows DEF KnowsOnce
<1>5. /\ c.capability => Upto(m, n + 1, "capability") # {}
      /\ Upto(m, n + 1, "capability") # {} => c.capability
  BY <1>1, <1>2, UptoGrows DEF KnowsOnce
<1>6. c.entry = {m[k].id : k \in Upto(m, n + 1, "entryPoint")}
  <2>1. CASE i.op = "entryPoint"
    <3>1. Upto(m, n, "entryPoint") = {}
      BY <1>3, <2>1 DEF KnowsOnce
    <3>2. Upto(m, n + 1, "entryPoint") = {n}
      BY <1>1, <2>1, <3>1, UptoGrows
    <3> QED BY <1>1, <1>2, <2>1, <3>2
  <2>2. CASE i.op # "entryPoint"
    BY <1>1, <1>2, <2>2, UptoGrows DEF KnowsOnce
  <2> QED BY <2>1, <2>2
<1>7. /\ c.local = {<<m[k].target, m[k].size>> : k \in Upto(m, n + 1, "executionMode")}
      /\ \A j, k \in Upto(m, n + 1, "executionMode") : j = k
  <2>1. CASE i.op = "executionMode"
    <3>1. Upto(m, n, "executionMode") = {}
      BY <1>3, <2>1 DEF KnowsOnce
    <3>2. Upto(m, n + 1, "executionMode") = {n}
      BY <1>1, <2>1, <3>1, UptoGrows
    <3> QED BY <1>1, <1>2, <2>1, <3>2
  <2>2. CASE i.op # "executionMode"
    BY <1>1, <1>2, <2>2, UptoGrows DEF KnowsOnce
  <2> QED BY <2>1, <2>2
<1>8. /\ c.builtin = {m[k].target : k \in Upto(m, n + 1, "workgroupSize")}
      /\ \A j, k \in Upto(m, n + 1, "workgroupSize") : j = k
  <2>1. CASE i.op = "workgroupSize"
    <3>1. Upto(m, n, "workgroupSize") = {}
      BY <1>3, <2>1 DEF KnowsOnce
    <3>2. Upto(m, n + 1, "workgroupSize") = {n}
      BY <1>1, <2>1, <3>1, UptoGrows
    <3> QED BY <1>1, <1>2, <2>1, <3>2
  <2>2. CASE i.op # "workgroupSize"
    BY <1>1, <1>2, <2>2, UptoGrows DEF KnowsOnce
  <2> QED BY <2>1, <2>2
<1> QED BY <1>4, <1>5, <1>6, <1>7, <1>8 DEF KnowsOnce

LEMMA DecorationsGrow ==
  ASSUME NEW m, IsModule(m), NEW n \in DOMAIN m, NEW map, NEW op, Decorates(map, m, n, op),
         NEW new, m[n].op = op => m[n].target \notin DOMAIN map,
         new = IF m[n].op = op THEN With(map, m[n].target, m[n].value) ELSE map
  PROVE  Decorates(new, m, n + 1, op)
<1>1. CASE m[n].op # op
  BY <1>1, UptoGrows DEF Decorates
<1>2. CASE m[n].op = op
  <2>1. PICK U, i : U = Upto(m, n, op) /\ i = m[n]
    OBVIOUS
  <2>2. Upto(m, n + 1, op) = U \cup {n} /\ n \notin U
    BY <1>2, <2>1, UptoGrows
  <2>3. /\ DOMAIN map = {m[k].target : k \in U}
        /\ \A k \in U : map[m[k].target] = m[k].value
        /\ \A j, k \in U : m[j].target = m[k].target => j = k
    BY <2>1 DEF Decorates
  <2>4. \A k \in U : m[k].target \in DOMAIN map /\ m[k].target # i.target
    BY <1>2, <2>1, <2>3
  <2>0. new = With(map, i.target, i.value)
    BY <1>2, <2>1
  <2>5. /\ DOMAIN new = DOMAIN map \cup {i.target} /\ new[i.target] = i.value
        /\ \A t \in DOMAIN map : t # i.target => new[t] = map[t]
    BY <2>0 DEF With
  <2>6. DOMAIN new = {m[k].target : k \in U \cup {n}}
    BY <2>1, <2>3, <2>5
  <2>7. \A k \in U \cup {n} : new[m[k].target] = m[k].value
    BY <2>1, <2>3, <2>4, <2>5
  <2>8. \A j, k \in U \cup {n} : m[j].target = m[k].target => j = k
    BY <2>1, <2>3, <2>4
  <2> QED BY <2>2, <2>6, <2>7, <2>8 DEF Decorates
<1> QED BY <1>1, <1>2

LEMMA SetsGrow ==
  ASSUME NEW m, IsModule(m), NEW n \in DOMAIN m, NEW s, IsSeen(s), KnowsSets(m, n, s),
         NEW c, c = Collected(m[n], s)
  PROVE  KnowsSets(m, n + 1, c)
<1>1. PICK i : i = m[n] /\ Adds(i, s, c)
  BY CollectedIs
<1>2. /\ c.structures = IF i.op = "struct" THEN s.structures \cup {i.id} ELSE s.structures
      /\ c.blocks = IF i.op = "block" THEN s.blocks \cup {i.target} ELSE s.blocks
  BY <1>1 DEF Adds
<1>3. c.structures = {m[k].id : k \in Upto(m, n + 1, "struct")}
  <2>1. PICK U : U = Upto(m, n, "struct") /\ s.structures = {m[k].id : k \in U}
    BY DEF KnowsSets
  <2>2. CASE i.op = "struct"
    <3>1. Upto(m, n + 1, "struct") = U \cup {n}
      BY <1>1, <2>1, <2>2, UptoGrows
    <3>2. {m[k].id : k \in U \cup {n}} = {m[k].id : k \in U} \cup {i.id}
      BY <1>1
    <3> QED BY <1>2, <2>1, <2>2, <3>1, <3>2
  <2>3. CASE i.op # "struct"
    BY <1>1, <1>2, <2>1, <2>3, UptoGrows
  <2> QED BY <2>2, <2>3
<1>4. c.blocks = {m[k].target : k \in Upto(m, n + 1, "block")}
  <2>1. PICK U : U = Upto(m, n, "block") /\ s.blocks = {m[k].target : k \in U}
    BY DEF KnowsSets
  <2>2. CASE i.op = "block"
    <3>1. Upto(m, n + 1, "block") = U \cup {n}
      BY <1>1, <2>1, <2>2, UptoGrows
    <3>2. {m[k].target : k \in U \cup {n}} = {m[k].target : k \in U} \cup {i.target}
      BY <1>1
    <3> QED BY <1>2, <2>1, <2>2, <3>1, <3>2
  <2>3. CASE i.op # "block"
    BY <1>1, <1>2, <2>1, <2>3, UptoGrows
  <2> QED BY <2>2, <2>3
<1> QED BY <1>3, <1>4 DEF KnowsSets

(* An id that is declared once keeps the value of its declaration.             *)
LEMMA IdsGrow ==
  ASSUME NEW m, IsModule(m), NEW n \in DOMAIN m, NEW s, IsSeen(s), KnowsIds(m, n, s),
         NEW c, c = Collected(m[n], s)
  PROVE  KnowsIds(m, n + 1, c)
<1>1. PICK i : i = m[n] /\ Adds(i, s, c)
  BY CollectedIs
<1>2. /\ c.pointers = IF i.op = "pointer" THEN With(s.pointers, i.id, <<i.storage, i.pointee>>)
                      ELSE s.pointers
      /\ c.constants = IF i.op = "constant" THEN With(s.constants, i.id, i.value) ELSE s.constants
      /\ c.composites = IF i.op = "composite" THEN With(s.composites, i.id, i.parts)
                        ELSE s.composites
  BY <1>1 DEF Adds
<1>3. ASSUME NEW op \in {"struct", "pointer", "constant", "composite", "variable"},
             i.op = op, Single(m), NEW k \in Upto(m, n, op)
      PROVE  m[k].id # i.id
  <2>1. n \notin Upto(m, n, op)
    BY UptoGrows
  <2> QED BY <1>1, <1>3, <2>1 DEF Single, Upto
<1>4. /\ DOMAIN c.constants = {m[k].id : k \in Upto(m, n + 1, "constant")}
      /\ Single(m) => \A k \in Upto(m, n + 1, "constant") : c.constants[m[k].id] = m[k].value
  <2>1. CASE i.op = "constant"
    <3>1. PICK U : U = Upto(m, n, "constant") /\ Upto(m, n + 1, "constant") = U \cup {n}
      BY <1>1, <2>1, UptoGrows
    <3>0. c.constants = With(s.constants, i.id, i.value)
      BY <1>2, <2>1
    <3>2. /\ DOMAIN c.constants = DOMAIN s.constants \cup {i.id} /\ c.constants[i.id] = i.value
          /\ \A t \in DOMAIN s.constants : t # i.id => c.constants[t] = s.constants[t]
      BY <3>0 DEF With
    <3>3. /\ DOMAIN s.constants = {m[k].id : k \in U}
          /\ Single(m) => \A k \in U : s.constants[m[k].id] = m[k].value
      BY <3>1 DEF KnowsIds
    <3>4. Single(m) => \A k \in U : m[k].id # i.id
      BY <1>3, <2>1, <3>1
    <3>5. DOMAIN c.constants = {m[k].id : k \in U \cup {n}}
      BY <1>1, <3>2, <3>3
    <3>6. ASSUME Single(m), NEW k \in U \cup {n} PROVE c.constants[m[k].id] = m[k].value
      BY <1>1, <3>2, <3>3, <3>4, <3>6
    <3> QED BY <3>1, <3>5, <3>6
  <2>2. CASE i.op # "constant"
    BY <1>1, <1>2, <2>2, UptoGrows DEF KnowsIds
  <2> QED BY <2>1, <2>2
<1>5. /\ DOMAIN c.composites = {m[k].id : k \in Upto(m, n + 1, "composite")}
      /\ Single(m) => \A k \in Upto(m, n + 1, "composite") : c.composites[m[k].id] = m[k].parts
  <2>1. CASE i.op = "composite"
    <3>1. PICK U : U = Upto(m, n, "composite") /\ Upto(m, n + 1, "composite") = U \cup {n}
      BY <1>1, <2>1, UptoGrows
    <3>0. c.composites = With(s.composites, i.id, i.parts)
      BY <1>2, <2>1
    <3>2. /\ DOMAIN c.composites = DOMAIN s.composites \cup {i.id} /\ c.composites[i.id] = i.parts
          /\ \A t \in DOMAIN s.composites : t # i.id => c.composites[t] = s.composites[t]
      BY <3>0 DEF With
    <3>3. /\ DOMAIN s.composites = {m[k].id : k \in U}
          /\ Single(m) => \A k \in U : s.composites[m[k].id] = m[k].parts
      BY <3>1 DEF KnowsIds
    <3>4. Single(m) => \A k \in U : m[k].id # i.id
      BY <1>3, <2>1, <3>1
    <3>5. DOMAIN c.composites = {m[k].id : k \in U \cup {n}}
      BY <1>1, <3>2, <3>3
    <3>6. ASSUME Single(m), NEW k \in U \cup {n} PROVE c.composites[m[k].id] = m[k].parts
      BY <1>1, <3>2, <3>3, <3>4, <3>6
    <3> QED BY <3>1, <3>5, <3>6
  <2>2. CASE i.op # "composite"
    BY <1>1, <1>2, <2>2, UptoGrows DEF KnowsIds
  <2> QED BY <2>1, <2>2
<1>6. /\ DOMAIN c.pointers = {m[k].id : k \in Upto(m, n + 1, "pointer")}
      /\ Single(m) => \A k \in Upto(m, n + 1, "pointer") :
                        c.pointers[m[k].id] = <<m[k].storage, m[k].pointee>>
  <2>1. CASE i.op = "pointer"
    <3>1. PICK U : U = Upto(m, n, "pointer") /\ Upto(m, n + 1, "pointer") = U \cup {n}
      BY <1>1, <2>1, UptoGrows
    <3>0. c.pointers = With(s.pointers, i.id, <<i.storage, i.pointee>>)
      BY <1>2, <2>1
    <3>2. /\ DOMAIN c.pointers = DOMAIN s.pointers \cup {i.id}
          /\ c.pointers[i.id] = <<i.storage, i.pointee>>
          /\ \A t \in DOMAIN s.pointers : t # i.id => c.pointers[t] = s.pointers[t]
      BY <3>0 DEF With
    <3>3. /\ DOMAIN s.pointers = {m[k].id : k \in U}
          /\ Single(m) => \A k \in U : s.pointers[m[k].id] = <<m[k].storage, m[k].pointee>>
      BY <3>1 DEF KnowsIds
    <3>4. Single(m) => \A k \in U : m[k].id # i.id
      BY <1>3, <2>1, <3>1
    <3>5. DOMAIN c.pointers = {m[k].id : k \in U \cup {n}}
      BY <1>1, <3>2, <3>3
    <3>6. ASSUME Single(m), NEW k \in U \cup {n}
          PROVE  c.pointers[m[k].id] = <<m[k].storage, m[k].pointee>>
      BY <1>1, <3>2, <3>3, <3>4, <3>6
    <3> QED BY <3>1, <3>5, <3>6
  <2>2. CASE i.op # "pointer"
    BY <1>1, <1>2, <2>2, UptoGrows DEF KnowsIds
  <2> QED BY <2>1, <2>2
<1> QED BY <1>4, <1>5, <1>6 DEF KnowsIds

LEMMA FiniteUpto ==
  ASSUME NEW m, IsModule(m), NEW n, NEW op
  PROVE  IsFiniteSet(Upto(m, n, op)) /\ IsFiniteSet(BuffersUpto(m, n))
<1>1. PICK len \in Nat : DOMAIN m = 1..len
  BY DEF IsModule
<1>2. IsFiniteSet(DOMAIN m)
  BY <1>1, FS_Interval
<1>3. \A o : Upto(m, n, o) \in SUBSET DOMAIN m
  BY DEF Upto
<1>4. BuffersUpto(m, n) \in SUBSET DOMAIN m
  BY <1>3 DEF BuffersUpto
<1> QED BY <1>2, <1>3, <1>4, FS_Subset

LEMMA VariablesGrow ==
  ASSUME NEW m, IsModule(m), NEW n \in DOMAIN m, NEW s, IsSeen(s), KnowsVariables(m, n, s),
         NEW c, c = Collected(m[n], s)
  PROVE  KnowsVariables(m, n + 1, c)
<1>1. PICK i, B : i = m[n] /\ Adds(i, s, c) /\ B = BuffersUpto(m, n)
  BY CollectedIs
<1>2. c.variables = IF i.op = "variable" /\ i.storage = "buffer"
                    THEN Append(s.variables, <<i.type, i.id>>) ELSE s.variables
  BY <1>1 DEF Adds
<1>3. CASE i.op = "variable" /\ i.storage = "buffer"
  <2>1. BuffersUpto(m, n + 1) = B \cup {n} /\ n \notin B
    BY <1>1, <1>3, UptoGrows DEF BuffersUpto
  <2>2. PICK v, x, R : v = s.variables /\ x = <<i.type, i.id>> /\ R = Range(v)
    OBVIOUS
  <2>3. v \in Seq(R) /\ R = {<<m[k].type, m[k].id>> : k \in B} /\ Len(v) = Cardinality(B)
    BY <1>1, <2>2 DEF KnowsVariables
  <2>4. c.variables = Append(v, x)
    BY <1>2, <1>3, <2>2
  <2>5. Range(Append(v, x)) = R \cup {x}
    <3>1. PICK l \in Nat : l = Len(v) /\ DOMAIN v = 1..l
      BY <2>3
    <3>2. /\ DOMAIN Append(v, x) = 1..(l + 1) /\ Append(v, x)[l + 1] = x
          /\ \A k \in 1..l : Append(v, x)[k] = v[k]
      BY <2>3, <3>1
    <3>3. 1..(l + 1) = (1..l) \cup {l + 1}
      BY <3>1
    <3>4. R = {v[k] : k \in 1..l}
      BY <2>2, <3>1 DEF Range
    <3>5. Range(Append(v, x)) = {Append(v, x)[k] : k \in (1..l) \cup {l + 1}}
      BY <3>2, <3>3 DEF Range
    <3> QED BY <3>2, <3>4, <3>5
  <2>6. R \cup {x} = {<<m[k].type, m[k].id>> : k \in B \cup {n}}
    BY <1>1, <2>2, <2>3
  <2>7. Append(v, x) \in Seq(R \cup {x}) /\ Len(Append(v, x)) = Len(v) + 1
    BY <2>3
  <2>8. Cardinality(B \cup {n}) = Cardinality(B) + 1
    <3>1. IsFiniteSet(B)
      BY <1>1, FiniteUpto
    <3> QED BY <2>1, <3>1, FS_AddElement
  <2> QED BY <2>1, <2>3, <2>4, <2>5, <2>6, <2>7, <2>8 DEF KnowsVariables
<1>4. CASE ~(i.op = "variable" /\ i.storage = "buffer")
  <2>1. BuffersUpto(m, n + 1) = B
    BY <1>1, <1>4, UptoGrows DEF BuffersUpto
  <2> QED BY <1>1, <1>2, <1>4, <2>1 DEF KnowsVariables
<1> QED BY <1>3, <1>4

(* What was known, and the instruction that was accepted: what is known now.   *)
LEMMA KnowledgeGrows ==
  ASSUME NEW m, IsModule(m), NEW n \in DOMAIN m, NEW s, Knows(m, n, s), ~Refused(m[n], s)
  PROVE  Knows(m, n + 1, Collected(m[n], s))
<1>1. PICK i, c : i = m[n] /\ c = Collected(m[n], s) /\ Adds(i, s, c)
  BY CollectedIs DEF Knows
<1>2. IsSeen(c)
  BY <1>1 DEF Adds
<1>3. KnowsOnce(m, n + 1, c) /\ KnowsSets(m, n + 1, c) /\ KnowsIds(m, n + 1, c)
  BY <1>1, OnceGrows, SetsGrow, IdsGrow DEF Knows
<1>4. KnowsVariables(m, n + 1, c)
  BY <1>1, VariablesGrow DEF Knows
<1>5. Decorates(c.bindings, m, n + 1, "binding")
  <2>1. i.op = "binding" => i.target \notin DOMAIN s.bindings
    BY <1>1 DEF Refused
  <2>2. c.bindings = IF i.op = "binding" THEN With(s.bindings, i.target, i.value) ELSE s.bindings
    BY <1>1 DEF Adds
  <2> QED BY <1>1, <2>1, <2>2, DecorationsGrow DEF Knows
<1>6. Decorates(c.sets, m, n + 1, "set")
  <2>1. i.op = "set" => i.target \notin DOMAIN s.sets
    BY <1>1 DEF Refused
  <2>2. c.sets = IF i.op = "set" THEN With(s.sets, i.target, i.value) ELSE s.sets
    BY <1>1 DEF Adds
  <2> QED BY <1>1, <2>1, <2>2, DecorationsGrow DEF Knows
<1> QED BY <1>1, <1>2, <1>3, <1>4, <1>5, <1>6 DEF Knows

LEMMA NothingIsKnown ==
  ASSUME NEW m, IsModule(m)
  PROVE  Knows(m, 1, Nothing)
<1>1. \A op : Upto(m, 1, op) = {}
  <2>1. \A k \in DOMAIN m : ~(k < 1)
    BY DEF IsModule
  <2> QED BY <2>1 DEF Upto
<1>2. BuffersUpto(m, 1) = {}
  BY <1>1 DEF BuffersUpto
<1>3. IsSeen(Nothing)
  BY DEF IsSeen, Nothing, SeenFields
<1>4. DOMAIN None = {}
  BY DEF None
<1>5. KnowsOnce(m, 1, Nothing)
  BY <1>1 DEF KnowsOnce, Nothing
<1>6. KnowsSets(m, 1, Nothing)
  BY <1>1 DEF KnowsSets, Nothing
<1>7. KnowsIds(m, 1, Nothing)
  BY <1>1, <1>4 DEF KnowsIds, Nothing
<1>8. Decorates(Nothing.bindings, m, 1, "binding") /\ Decorates(Nothing.sets, m, 1, "set")
  BY <1>1, <1>4 DEF Decorates, Nothing
<1>9. KnowsVariables(m, 1, Nothing)
  <2>1. Range(<<>>) = {} /\ Len(<<>>) = 0 /\ Nothing.variables = <<>>
    BY DEF Range, Nothing
  <2>2. Cardinality({}) = 0
    BY FS_EmptySet
  <2>3. <<>> \in Seq({})
    OBVIOUS
  <2>4. {<<m[k].type, m[k].id>> : k \in {}} = {}
    OBVIOUS
  <2> QED BY <1>2, <2>1, <2>2, <2>3, <2>4 DEF KnowsVariables
<1> QED BY <1>3, <1>5, <1>6, <1>7, <1>8, <1>9 DEF Knows

LEMMA ProfileGoesOn ==
  ASSUME ProfileInv, Next
  PROVE  ProfileInv'
<1>1. ASSUME NEW m, IsModule(m), module' = m, at' = 1, seen' = Nothing,
             outcome' \in {"none", "scanning"}
      PROVE  ProfileInv'
  <2>1. Knows(m, 1, Nothing)
    BY <1>1, NothingIsKnown
  <2>2. 1 \in 1..(Len(m) + 1)
    BY <1>1 DEF IsModule
  <2> QED BY <1>1, <2>1, <2>2 DEF ProfileInv
<1>2. ASSUME NEW m \in Modules, Inspect(m)
      PROVE  ProfileInv'
  BY <1>1, <1>2, ModulesAssumption DEF Inspect, IsModule
<1>3. CASE Return
  <2>1. IsModule(<<>>)
    BY DEF IsModule
  <2> QED BY <1>1, <1>3, <2>1 DEF Return
<1>4. CASE Scan
  <2>1. PICK m, n, s : m = module /\ n = at /\ s = seen
    OBVIOUS
  <2>2. /\ IsModule(m) /\ n \in DOMAIN m /\ Knows(m, n, s) /\ ~Refused(m[n], s)
        /\ n + 1 \in 1..(Len(m) + 1)
    BY <1>4, <2>1 DEF Scan, ProfileInv, IsModule
  <2>3. /\ module' = m /\ at' = n + 1 /\ seen' = Collected(m[n], s)
        /\ outcome' = "scanning"
    BY <1>4, <2>1 DEF Scan
  <2>4. Knows(m, n + 1, Collected(m[n], s))
    BY <2>2, KnowledgeGrows
  <2> QED BY <2>2, <2>3, <2>4 DEF ProfileInv
<1>5. CASE RefuseInstruction
  <2>1. at \in DOMAIN module
    BY <1>5 DEF RefuseInstruction, ProfileInv, IsModule
  <2> QED BY <1>5, <2>1 DEF RefuseInstruction, ProfileInv
<1>6. CASE Conclude
  <2>1. at = Len(module) + 1
    BY <1>6 DEF Conclude, ProfileInv, IsModule
  <2>2. IF Concluded(seen) THEN outcome' = "accepted" ELSE outcome' = "refused"
    BY <1>6 DEF Conclude, Concluded
  <2> QED BY <1>6, <2>1, <2>2 DEF Conclude, ProfileInv
<1> QED BY <1>2, <1>3, <1>4, <1>5, <1>6 DEF Next

THEOREM ProfileInvariance == PreflightSpec => []ProfileInv
<1>1. PreflightInit => ProfileInv
  <2> SUFFICES ASSUME PreflightInit PROVE ProfileInv
    OBVIOUS
  <2>1. module = <<>> /\ at = 1 /\ seen = Nothing /\ outcome = "none"
    BY DEF PreflightInit, Init
  <2>2. IsModule(<<>>)
    BY DEF IsModule
  <2>3. Knows(<<>>, 1, Nothing)
    BY <2>2, NothingIsKnown
  <2> QED BY <2>1, <2>2, <2>3 DEF ProfileInv
<1>2. ProfileInv /\ [PreflightNext]_<<vars, selectionVars>> => ProfileInv'
  <2>1. ProfileInv /\ Next => ProfileInv'
    BY ProfileGoesOn
  <2>2. ProfileInv /\ UNCHANGED vars => ProfileInv'
    BY DEF ProfileInv, vars
  <2> QED BY <2>1, <2>2 DEF PreflightNext
<1> QED BY <1>1, <1>2, PTL DEF PreflightSpec

(* At the verdict the pass has seen every instruction.                         *)
LEMMA AllSeen ==
  ASSUME NEW m, IsModule(m), NEW op
  PROVE  /\ Upto(m, Len(m) + 1, op) = {k \in DOMAIN m : m[k].op = op}
         /\ \A k \in DOMAIN m : k < Len(m) + 1
BY DEF Upto, IsModule

LEMMA InstructionsAre ==
  ASSUME IsModule(module), at = Len(module) + 1, NEW op
  PROVE  Instructions(op) = {module[k] : k \in Upto(module, at, op)}
BY AllSeen DEF Instructions, Places

(* inspect_spirv against validate_limits: an accepted module runs with the     *)
(* workgroup size that the limits of the device are checked with.              *)
THEOREM TheRealSizeIsChecked == PreflightSpec => []LimitsSeeTheRealSize
<1>1. ProfileInv => LimitsSeeTheRealSize
  <2> SUFFICES ASSUME ProfileInv, outcome = "accepted", SingleAssignment
               PROVE  RunSizes = {LocalSize(seen)}
    BY DEF LimitsSeeTheRealSize
  <2>1. PICK m, n, s : m = module /\ n = at /\ s = seen
    OBVIOUS
  <2>2. /\ IsModule(m) /\ n = Len(m) + 1 /\ Single(m)
        /\ KnowsOnce(m, n, s) /\ KnowsIds(m, n, s) /\ Complete(s) /\ WorkgroupAgrees(s)
    BY <2>1 DEF ProfileInv, Knows, Concluded, SingleAssignment, Single
  <2>3. \A op : Instructions(op) = {m[k] : k \in Upto(m, n, op)}
    BY <2>1, <2>2, InstructionsAre
  <2>4. PICK e : Upto(m, n, "executionMode") = {e} /\ e \in DOMAIN m
    <3>1. Upto(m, n, "executionMode") # {}
      BY <2>2 DEF Complete, KnowsOnce
    <3> QED BY <2>2, <3>1 DEF KnowsOnce, Upto
  <2>5. PICK size : size = m[e].size /\ s.local = {<<m[e].target, size>>} /\ LocalSize(s) = size
    <3>1. s.local = {<<m[e].target, m[e].size>>}
      BY <2>2, <2>4 DEF KnowsOnce
    <3>2. (CHOOSE l \in s.local : TRUE) = <<m[e].target, m[e].size>>
      BY <3>1
    <3> QED BY <3>1, <3>2 DEF LocalSize
  <2>6. size \in Nat \X Nat \X Nat
    BY <2>2, <2>4, <2>5 DEF IsModule, Upto
  <2>7. CASE Upto(m, n, "workgroupSize") = {}
    <3>1. Instructions("workgroupSize") = {} /\ Instructions("executionMode") = {m[e]}
      BY <2>3, <2>4, <2>7
    <3>2. RunSizes = {size}
      BY <2>5, <3>1 DEF RunSizes
    <3> QED BY <2>1, <2>5, <3>2
  <2>8. CASE Upto(m, n, "workgroupSize") # {}
    <3>0. \A j, k \in Upto(m, n, "workgroupSize") : j = k
      BY <2>2 DEF KnowsOnce
    <3>1. PICK w : Upto(m, n, "workgroupSize") = {w}
      BY <2>8, <3>0
    <3>2. PICK id : id = m[w].target /\ s.builtin = {id}
      BY <2>2, <3>1 DEF KnowsOnce
    <3>3. /\ id \in DOMAIN s.composites
          /\ \A d \in 1..3 : /\ s.composites[id][d] \in DOMAIN s.constants
                             /\ s.constants[s.composites[id][d]] = size[d]
      BY <2>2, <2>5, <3>2 DEF WorkgroupAgrees
    <3>4. PICK c \in Upto(m, n, "composite") : m[c].id = id
      BY <2>2, <3>3 DEF KnowsIds
    <3>5. s.composites[id] = m[c].parts
      BY <2>2, <3>4 DEF KnowsIds
    <3>6. \A j \in Upto(m, n, "composite") : m[j].id = id => j = c
      BY <2>2, <3>4 DEF Upto, Single
    <3> DEFINE literal(x) == {f.value : f \in {g \in Instructions("constant") : g.id = x}}
               builtin == {f \in Instructions("composite") :
                             \E b \in Instructions("workgroupSize") : b.target = f.id}
    <3>7. builtin = {m[c]}
      <4>1. Instructions("workgroupSize") = {m[w]}
        BY <2>3, <3>1
      <4> QED BY <2>3, <3>2, <3>4, <3>6, <4>1
    <3>8. \A d \in 1..3 : literal(m[c].parts[d]) = {size[d]}
      <4> SUFFICES ASSUME NEW d \in 1..3 PROVE literal(m[c].parts[d]) = {size[d]}
        OBVIOUS
      <4>1. PICK x : x = m[c].parts[d] /\ x \in DOMAIN s.constants /\ s.constants[x] = size[d]
        BY <3>3, <3>5
      <4>2. PICK U : /\ U = Upto(m, n, "constant") /\ DOMAIN s.constants = {m[k].id : k \in U}
                     /\ \A k \in U : s.constants[m[k].id] = m[k].value
                     /\ Instructions("constant") = {m[k] : k \in U}
        BY <2>2, <2>3 DEF KnowsIds
      <4>3. PICK k \in U : m[k].id = x
        BY <4>1, <4>2
      <4>4. \A f \in {g \in Instructions("constant") : g.id = x} : f.value = size[d]
        BY <4>1, <4>2
      <4>5. m[k] \in {g \in Instructions("constant") : g.id = x}
        BY <4>2, <4>3
      <4>6. literal(x) = {size[d]}
        BY <4>4, <4>5
      <4> HIDE DEF literal
      <4> QED BY <4>1, <4>6
    <3> DEFINE sizes(d) == UNION {literal(f.parts[d]) : f \in builtin}
    <3>9. RunSizes = {<<x, y, z>> : x \in sizes(1), y \in sizes(2), z \in sizes(3)}
      <4>1. Instructions("workgroupSize") # {}
        BY <2>3, <3>1
      <4> QED BY <4>1 DEF RunSizes
    <3> HIDE DEF literal, builtin
    <3>10. \A d \in 1..3 : sizes(d) = {size[d]}
      <4> SUFFICES ASSUME NEW d \in 1..3 PROVE sizes(d) = {size[d]}
        OBVIOUS
      <4>1. {literal(f.parts[d]) : f \in builtin} = {literal(m[c].parts[d])}
        BY <3>7
      <4> QED BY <3>8, <4>1
    <3> HIDE DEF sizes
    <3>11. RunSizes = {<<size[1], size[2], size[3]>>}
      <4>1. sizes(1) = {size[1]} /\ sizes(2) = {size[2]} /\ sizes(3) = {size[3]}
        BY <3>10
      <4>2. PICK x, y, z : x = size[1] /\ y = size[2] /\ z = size[3]
        OBVIOUS
      <4>3. {<<p, q, r>> : p \in {x}, q \in {y}, r \in {z}} = {<<x, y, z>>}
        OBVIOUS
      <4> QED BY <3>9, <4>1, <4>2, <4>3
    <3>12. size = <<size[1], size[2], size[3]>>
      BY <2>6
    <3> QED BY <2>1, <2>5, <3>11, <3>12
  <2> QED BY <2>7, <2>8
<1> QED BY <1>1, ProfileInvariance, PTL

--------------------------------------------------------------------------------
(* Counting: a map has as many values as arguments only if it is one to one.   *)
LEMMA ImageSize ==
  ASSUME NEW f, IsFiniteSet(DOMAIN f), f = [x \in DOMAIN f |-> f[x]]
  PROVE  /\ IsFiniteSet(Range(f)) /\ Cardinality(Range(f)) \in Nat
         /\ Cardinality(DOMAIN f) \in Nat
         /\ Cardinality(Range(f)) <= Cardinality(DOMAIN f)
         /\ Cardinality(Range(f)) = Cardinality(DOMAIN f)
              <=> \A x, y \in DOMAIN f : f[x] = f[y] => x = y
<1>1. PICK S, T : S = DOMAIN f /\ T = Range(f)
  OBVIOUS
<1>2. f \in [S -> T] /\ \A y \in T : \E x \in S : f[x] = y
  BY <1>1 DEF Range
<1>3. f \in Surjection(S, T)
  BY <1>2 DEF Surjection
<1>4. f \in Injection(S, T) <=> \A x, y \in S : f[x] = f[y] => x = y
  BY <1>2 DEF Injection, IsInjective
<1>5. /\ IsFiniteSet(T) /\ Cardinality(T) <= Cardinality(S)
      /\ Cardinality(T) = Cardinality(S) <=> f \in Injection(S, T)
  BY <1>1, <1>3, FS_Surjection
<1>6. Cardinality(T) \in Nat /\ Cardinality(S) \in Nat
  BY <1>1, <1>5, FS_CardinalityType
<1> QED BY <1>1, <1>4, <1>5, <1>6

(* The ids of the storage variables.                                           *)
Ids(s) == {v[2] : v \in Range(s.variables)}

(* Equal counts leave no decoration unexplained and no binding shared.         *)
LEMMA CountsAreExact ==
  ASSUME NEW s, Reflectable(s), s.variables \in Seq(Range(s.variables)),
         IsFiniteSet(DOMAIN s.bindings), IsFiniteSet(DOMAIN s.sets)
  PROVE  /\ Ids(s) = DOMAIN s.bindings /\ Ids(s) = DOMAIN s.sets
         /\ \A v, w \in Range(s.variables) : s.bindings[v[2]] = s.bindings[w[2]] => v = w
<1>1. PICK var, b, F, I :
        var = s.variables /\ b = s.bindings /\ F = Found(s) /\ I = Ids(s)
  OBVIOUS
<1>2. PICK len \in Nat : len = Len(var) /\ DOMAIN var = 1..len
  BY <1>1
<1>3. F = {b[v[2]] : v \in Range(var)} /\ I = {v[2] : v \in Range(var)}
  BY <1>1 DEF Found, Ids
<1>4. Range(var) = {var[j] : j \in 1..len}
  BY <1>2 DEF Range
<1>5. /\ Cardinality(F) = len /\ Cardinality(F) = Cardinality(DOMAIN b)
      /\ Cardinality(F) = Cardinality(DOMAIN s.sets)
  BY <1>1, <1>2 DEF Reflectable
<1>6. I \subseteq DOMAIN b /\ I \subseteq DOMAIN s.sets
  BY <1>1, <1>3 DEF Reflectable, Describable
<1>7. IsFiniteSet(I) /\ Cardinality(I) <= Cardinality(DOMAIN b)
  BY <1>1, <1>6, FS_Subset
<1>8. Cardinality(F) <= Cardinality(I) /\ Cardinality(I) \in Nat
  <2>1. PICK h : h = [i \in I |-> b[i]]
    OBVIOUS
  <2>2. DOMAIN h = I /\ h = [i \in DOMAIN h |-> h[i]]
    BY <2>1
  <2>3. Range(h) = {b[i] : i \in I}
    BY <2>1 DEF Range
  <2>4. Range(h) = F
    BY <1>3, <2>3
  <2> QED BY <1>7, <2>2, <2>4, ImageSize
<1>9. Cardinality(I) = Cardinality(DOMAIN b) /\ Cardinality(I) = Cardinality(DOMAIN s.sets)
  BY <1>5, <1>7, <1>8
<1>10. I = DOMAIN b
  BY <1>1, <1>6, <1>9, FS_Subset
<1>11. I = DOMAIN s.sets
  <2>1. PICK D : D = DOMAIN s.sets /\ IsFiniteSet(D) /\ I \in SUBSET D
    BY <1>6
  <2> QED BY <1>9, <2>1, FS_Subset
<1>12. ASSUME NEW v \in Range(var), NEW w \in Range(var), b[v[2]] = b[w[2]]
       PROVE  v = w
  <2>1. PICK g : g = [j \in 1..len |-> b[var[j][2]]]
    OBVIOUS
  <2>2. DOMAIN g = 1..len /\ g = [j \in DOMAIN g |-> g[j]]
    BY <2>1
  <2>3. Range(g) = {b[var[j][2]] : j \in 1..len}
    BY <2>1 DEF Range
  <2>4. Range(g) = F
    BY <1>3, <1>4, <2>3
  <2>5. IsFiniteSet(1..len) /\ Cardinality(1..len) = len
    BY FS_Interval
  <2>6. \A j, k \in 1..len : g[j] = g[k] => j = k
    BY <1>5, <2>2, <2>4, <2>5, ImageSize
  <2>7. PICK j, k \in 1..len : v = var[j] /\ w = var[k]
    BY <1>4, <1>12
  <2>8. g[j] = b[v[2]] /\ g[k] = b[w[2]]
    BY <2>1, <2>7
  <2> QED BY <1>12, <2>6, <2>7, <2>8
<1> QED BY <1>1, <1>10, <1>11, <1>12

LEMMA FiniteDecorations ==
  ASSUME NEW m, IsModule(m), NEW map, NEW n, NEW op, Decorates(map, m, n, op)
  PROVE  /\ IsFiniteSet(DOMAIN map)
         /\ Cardinality(DOMAIN map) = Cardinality(Upto(m, n, op))
<1>1. PICK U, g : U = Upto(m, n, op) /\ g = [k \in U |-> m[k].target]
  OBVIOUS
<1>2. IsFiniteSet(DOMAIN g) /\ DOMAIN g = U /\ g = [k \in DOMAIN g |-> g[k]]
  BY <1>1, FiniteUpto
<1>3. Range(g) = DOMAIN map
  BY <1>1 DEF Range, Decorates
<1>4. \A j, k \in DOMAIN g : g[j] = g[k] => j = k
  BY <1>1 DEF Decorates
<1> QED BY <1>1, <1>2, <1>3, <1>4, ImageSize

(* What an id is decorated with is what the pass keeps for it.                 *)
LEMMA DecoratedIs ==
  ASSUME IsModule(module), at = Len(module) + 1, NEW op, NEW map,
         Decorates(map, module, at, op)
  PROVE  /\ \A id \in DOMAIN map : Decorated(op, id) = {map[id]}
         /\ \A id : Decorated(op, id) # {} => id \in DOMAIN map
<1>1. PICK m, U : m = module /\ U = Upto(module, at, op) /\ Instructions(op) = {m[k] : k \in U}
  BY InstructionsAre
<1>2. /\ DOMAIN map = {m[k].target : k \in U}
      /\ \A k \in U : map[m[k].target] = m[k].value
  BY <1>1 DEF Decorates
<1>3. ASSUME NEW id \in DOMAIN map PROVE Decorated(op, id) = {map[id]}
  <2>1. PICK J : J = {j \in Instructions(op) : j.target = id}
    OBVIOUS
  <2>2. \A j \in J : j.value = map[id]
    BY <1>1, <1>2, <2>1
  <2>3. J # {}
    BY <1>1, <1>2, <2>1
  <2>4. {i.value : i \in J} = {map[id]}
    BY <2>2, <2>3
  <2> QED BY <2>1, <2>4 DEF Decorated
<1>4. ASSUME NEW id, Decorated(op, id) # {} PROVE id \in DOMAIN map
  <2>1. \E j \in Instructions(op) : j.target = id
    BY <1>4 DEF Decorated
  <2> QED BY <1>1, <1>2, <2>1
<1> QED BY <1>3, <1>4

(* inspect_spirv: the bindings handed to the checks are those of the storage   *)
(* buffers, one each, in set 0, and no decoration of another id is left.       *)
THEOREM ReflectionIsExact == PreflightSpec => []BindingsExact
<1>1. ProfileInv => BindingsExact
  <2> SUFFICES ASSUME ProfileInv, outcome = "accepted" PROVE BindingsExact
    BY DEF BindingsExact
  <2>1. PICK m, n, s : m = module /\ n = at /\ s = seen
    OBVIOUS
  <2>2. /\ IsModule(m) /\ n = Len(m) + 1 /\ Reflectable(s)
        /\ Decorates(s.bindings, m, n, "binding") /\ Decorates(s.sets, m, n, "set")
        /\ KnowsVariables(m, n, s)
    BY <2>1 DEF ProfileInv, Knows, Concluded
  <2>3. \A op : Instructions(op) = {m[k] : k \in Upto(m, n, op)}
    BY <2>1, <2>2, InstructionsAre
  <2>4. PICK R : R = Range(s.variables) /\ R = {<<m[k].type, m[k].id>> : k \in BuffersUpto(m, n)}
    BY <2>2 DEF KnowsVariables
  <2>5. Buffers = {m[k] : k \in BuffersUpto(m, n)}
    BY <2>3 DEF Buffers, BuffersUpto
  <2>6. /\ Ids(s) = DOMAIN s.bindings /\ Ids(s) = DOMAIN s.sets
        /\ \A v, w \in R : s.bindings[v[2]] = s.bindings[w[2]] => v = w
    <3>1. IsFiniteSet(DOMAIN s.bindings) /\ IsFiniteSet(DOMAIN s.sets)
      BY <2>2, FiniteDecorations
    <3>2. s.variables \in Seq(Range(s.variables))
      BY <2>2 DEF KnowsVariables
    <3> QED BY <2>2, <2>4, <3>1, <3>2, CountsAreExact
  <2>7. Ids(s) = {b.id : b \in Buffers}
    <3>1. Ids(s) = {v[2] : v \in R}
      BY <2>4 DEF Ids
    <3>2. {v[2] : v \in R} = {m[k].id : k \in BuffersUpto(m, n)}
      <4>1. \A v \in R : \E k \in BuffersUpto(m, n) : v[2] = m[k].id
        BY <2>4
      <4>2. ASSUME NEW k \in BuffersUpto(m, n) PROVE \E v \in R : v[2] = m[k].id
        <5>1. PICK v : v = <<m[k].type, m[k].id>>
          OBVIOUS
        <5> QED BY <2>4, <5>1
      <4> QED BY <4>1, <4>2
    <3> QED BY <2>5, <3>1, <3>2
  <2>8. Found(s) = {s.bindings[id] : id \in Ids(s)}
    BY DEF Found, Ids
  <2>9. \A id \in Ids(s) : /\ Decorated("binding", id) = {s.bindings[id]}
                           /\ Decorated("set", id) = {s.sets[id]}
    <3>1. /\ IsModule(module) /\ at = Len(module) + 1
          /\ Decorates(s.bindings, module, at, "binding") /\ Decorates(s.sets, module, at, "set")
      BY <2>1, <2>2
    <3>2. \A id \in DOMAIN s.bindings : Decorated("binding", id) = {s.bindings[id]}
      BY <3>1, DecoratedIs
    <3>3. \A id \in DOMAIN s.sets : Decorated("set", id) = {s.sets[id]}
      BY <3>1, DecoratedIs
    <3> QED BY <2>6, <3>2, <3>3
  <2>10. \A id \in Ids(s) : s.sets[id] = 0
    BY <2>2 DEF Reflectable, Describable, Ids
  <2>11. ASSUME NEW b \in Buffers
         PROVE  \E k \in Found(s) : /\ Decorated("binding", b.id) = {k}
                                    /\ Decorated("set", b.id) = {0}
    <3>1. b.id \in Ids(s)
      BY <2>7
    <3>2. s.bindings[b.id] \in Found(s)
      BY <2>8, <3>1
    <3> QED BY <2>9, <2>10, <3>1, <3>2
  <2>12. ASSUME NEW b \in Buffers, NEW c \in Buffers,
                Decorated("binding", b.id) = Decorated("binding", c.id)
         PROVE  b.id = c.id
    <3>1. s.bindings[b.id] = s.bindings[c.id]
      BY <2>7, <2>9, <2>12
    <3>2. <<b.type, b.id>> \in R /\ <<c.type, c.id>> \in R
      BY <2>4, <2>5
    <3>3. <<b.type, b.id>> = <<c.type, c.id>>
      BY <2>6, <3>1, <3>2
    <3> QED BY <3>3
  <2>13. ASSUME NEW i \in Instructions("binding") \cup Instructions("set")
         PROVE  \E b \in Buffers : b.id = i.target
    <3>1. CASE i \in Instructions("binding")
      <4>1. PICK k \in Upto(m, n, "binding") : i = m[k]
        BY <2>3, <3>1
      <4>2. m[k].target \in DOMAIN s.bindings
        BY <2>2 DEF Decorates
      <4> QED BY <2>6, <2>7, <4>1, <4>2
    <3>2. CASE i \in Instructions("set")
      <4>1. PICK k \in Upto(m, n, "set") : i = m[k]
        BY <2>3, <3>2
      <4>2. m[k].target \in DOMAIN s.sets
        BY <2>2 DEF Decorates
      <4> QED BY <2>6, <2>7, <4>1, <4>2
    <3> QED BY <2>13, <3>1, <3>2
  <2>14. Found(s) = {i.value : i \in Instructions("binding")}
    <3>1. PICK U, b, I : U = Upto(m, n, "binding") /\ b = s.bindings /\ I = Ids(s)
      OBVIOUS
    <3>2. I = {m[k].target : k \in U} /\ \A k \in U : b[m[k].target] = m[k].value
      BY <2>2, <2>6, <3>1 DEF Decorates
    <3>3. Found(s) = {b[id] : id \in I}
      BY <2>8, <3>1
    <3>4. {b[id] : id \in I} = {m[k].value : k \in U}
      BY <3>2
    <3>5. {i.value : i \in Instructions("binding")} = {m[k].value : k \in U}
      BY <2>3, <3>1
    <3> QED BY <3>3, <3>4, <3>5
  <2> QED BY <2>1, <2>11, <2>12, <2>13, <2>14 DEF BindingsExact
<1> QED BY <1>1, ProfileInvariance, PTL

--------------------------------------------------------------------------------
(* Every id is a buffer's alone: as many buffers as variables, and as ids.     *)
LEMMA BuffersCounted ==
  ASSUME IsModule(module), Single(module)
  PROVE  /\ IsFiniteSet(Buffers)
         /\ Cardinality(Buffers) = Cardinality(BuffersUpto(module, Len(module) + 1))
         /\ Cardinality({b.id : b \in Buffers}) = Cardinality(Buffers)
         /\ \A b, c \in Buffers : b.id = c.id => b = c
<1>1. PICK m, B : m = module /\ B = BuffersUpto(module, Len(module) + 1)
  OBVIOUS
<1>2. B = {k \in Places("variable") : m[k].storage = "buffer"}
  BY <1>1, AllSeen DEF BuffersUpto, Places
<1>3. Buffers = {m[k] : k \in B}
  BY <1>1, <1>2 DEF Buffers, Instructions, Places
<1>4. \A j, k \in B : m[j].id = m[k].id => j = k
  BY <1>1, <1>2 DEF Single, Places
<1>5. PICK g : g = [k \in B |-> m[k]]
  OBVIOUS
<1>6. DOMAIN g = B /\ g = [k \in DOMAIN g |-> g[k]] /\ IsFiniteSet(DOMAIN g)
  BY <1>1, <1>5, FiniteUpto
<1>7. Range(g) = Buffers
  BY <1>3, <1>5 DEF Range
<1>8. \A j, k \in DOMAIN g : g[j] = g[k] => j = k
  BY <1>4, <1>5
<1>9. IsFiniteSet(Buffers) /\ Cardinality(Buffers) = Cardinality(B)
  BY <1>6, <1>7, <1>8, ImageSize
<1>10. \A b, c \in Buffers : b.id = c.id => b = c
  BY <1>3, <1>4
<1>11. PICK h : h = [b \in Buffers |-> b.id]
  OBVIOUS
<1>12. DOMAIN h = Buffers /\ h = [b \in DOMAIN h |-> h[b]]
  BY <1>11
<1>13. Range(h) = {b.id : b \in Buffers}
  BY <1>11 DEF Range
<1>14. \A b, c \in DOMAIN h : h[b] = h[c] => b = c
  BY <1>10, <1>11
<1>15. Cardinality({b.id : b \in Buffers}) = Cardinality(Buffers)
  BY <1>9, <1>12, <1>13, <1>14, ImageSize
<1> QED BY <1>1, <1>9, <1>10, <1>15

LEMMA FinitePlaces ==
  ASSUME IsModule(module), NEW op
  PROVE  IsFiniteSet(Places(op))
<1>1. Places(op) = Upto(module, Len(module) + 1, op)
  BY AllSeen DEF Places
<1> QED BY <1>1, FiniteUpto

(* As many decorations as buffers, and one for each: none is given twice.      *)
LEMMA DecoratedOnce ==
  ASSUME IsModule(module), Single(module), NEW op,
         Cardinality(Places(op)) = Cardinality(Buffers),
         \A b \in Buffers : Decorated(op, b.id) # {}
  PROVE  \A j, k \in Places(op) : module[j].target = module[k].target => j = k
<1>1. PICK m, P, I : m = module /\ P = Places(op) /\ I = {b.id : b \in Buffers}
  OBVIOUS
<1>2. PICK g : g = [k \in P |-> m[k].target]
  OBVIOUS
<1>3. IsFiniteSet(P)
  BY <1>1, FinitePlaces
<1>4. DOMAIN g = P /\ g = [k \in DOMAIN g |-> g[k]]
  BY <1>2
<1>5. I \subseteq Range(g)
  <2> SUFFICES ASSUME NEW b \in Buffers PROVE b.id \in Range(g)
    BY <1>1
  <2>1. PICK i \in Instructions(op) : i.target = b.id
    BY DEF Decorated
  <2>2. PICK k \in P : i = m[k]
    BY <1>1, <2>1 DEF Instructions, Places
  <2> QED BY <1>2, <2>1, <2>2 DEF Range
<1>6. /\ IsFiniteSet(Range(g)) /\ Cardinality(Range(g)) \in Nat /\ Cardinality(P) \in Nat
      /\ Cardinality(Range(g)) <= Cardinality(P)
      /\ Cardinality(Range(g)) = Cardinality(P) => \A x, y \in P : g[x] = g[y] => x = y
  BY <1>3, <1>4, ImageSize
<1>7. Cardinality(I) <= Cardinality(Range(g))
  BY <1>5, <1>6, FS_Subset
<1>8. Cardinality(I) = Cardinality(P)
  BY <1>1, BuffersCounted
<1>9. Cardinality(Range(g)) = Cardinality(P)
  BY <1>6, <1>7, <1>8
<1> QED BY <1>1, <1>2, <1>6, <1>9

LEMMA OnceIsOne ==
  ASSUME IsModule(module), NEW op, Once(op)
  PROVE  \E k \in DOMAIN module : Places(op) = {k}
<1>1. IsFiniteSet(Places(op))
  BY FinitePlaces
<1>2. Cardinality(Places(op)) = 1
  BY DEF Once, Places
<1>3. \E k : Places(op) = {k}
  BY <1>1, <1>2, FS_Singleton
<1> QED BY <1>3 DEF Places

LEMMA DecorationsAreThere ==
  ASSUME WholeProfile, NEW b \in Buffers
  PROVE  Decorated("set", b.id) # {} /\ Decorated("binding", b.id) # {}
<1>1. Decorated("set", b.id) = {0} /\ Cardinality(Decorated("binding", b.id)) = 1
  BY DEF WholeProfile
<1>2. Cardinality({}) = 0
  BY FS_EmptySet
<1> QED BY <1>1, <1>2

LEMMA NothingIsRefused ==
  ASSUME ProfileInv, SingleAssignment, WholeProfile, at \in DOMAIN module
  PROVE  ~Refused(module[at], seen)
<1>1. PICK m, n, s, i : m = module /\ n = at /\ s = seen /\ i = m[n]
  OBVIOUS
<1>2. /\ IsModule(m) /\ Single(m) /\ n \in DOMAIN m /\ KnowsOnce(m, n, s)
      /\ Decorates(s.bindings, m, n, "binding") /\ Decorates(s.sets, m, n, "set")
  BY <1>1 DEF ProfileInv, Knows, Single, SingleAssignment
<1>3. \A op : Upto(m, n, op) \subseteq Places(op) /\ n \notin Upto(m, n, op)
  BY <1>1, <1>2, UptoGrows DEF Upto, Places
<1>4. n \in Places(i.op)
  BY <1>1, <1>2 DEF Places
<1>5. \A op \in {"memoryModel", "entryPoint", "executionMode", "capability"} :
        i.op = op => Upto(m, n, op) = {}
  <2> SUFFICES ASSUME NEW op \in {"memoryModel", "entryPoint", "executionMode", "capability"},
                      i.op = op
               PROVE  Upto(m, n, op) = {}
    OBVIOUS
  <2>1. Once(op)
    BY DEF WholeProfile
  <2>2. \E k : Places(op) = {k}
    BY <1>1, <1>2, <2>1, OnceIsOne
  <2> QED BY <1>3, <1>4, <2>2
<1>6. /\ i.op = "memoryModel" => ~s.model
      /\ i.op = "capability" => ~s.capability
  BY <1>2, <1>5 DEF KnowsOnce
<1>7. /\ i.op = "entryPoint" => s.entry = {}
      /\ i.op = "executionMode" => s.local = {}
  BY <1>2, <1>5 DEF KnowsOnce
<1>8. i.op # "workgroupSize"
  <2>1. Places("workgroupSize") = {}
    BY DEF WholeProfile, Instructions, Places
  <2> QED BY <1>4, <2>1
<1>9. ASSUME NEW op \in {"binding", "set"}
      PROVE  \A j, k \in Places(op) : m[j].target = m[k].target => j = k
  <2>1. \A b \in Buffers : Decorated("set", b.id) # {} /\ Decorated("binding", b.id) # {}
    BY DecorationsAreThere
  <2>2. Cardinality(Places(op)) = Cardinality(Buffers)
    BY DEF WholeProfile
  <2>3. \A b \in Buffers : Decorated(op, b.id) # {}
    BY <1>9, <2>1
  <2> QED BY <1>1, <1>2, <2>2, <2>3, DecoratedOnce
<1>10. /\ i.op = "binding" => i.target \notin DOMAIN s.bindings
       /\ i.op = "set" => i.target \notin DOMAIN s.sets
  BY <1>1, <1>2, <1>3, <1>4, <1>9 DEF Decorates
<1>11. Fits(i)
  BY <1>1, <1>2 DEF WholeProfile
<1> QED BY <1>1, <1>6, <1>7, <1>8, <1>10, <1>11 DEF Refused, Fits

LEMMA AllIsConcluded ==
  ASSUME ProfileInv, SingleAssignment, WholeProfile, at = Len(module) + 1
  PROVE  Concluded(seen)
<1>1. PICK m, n, s : m = module /\ n = at /\ s = seen
  OBVIOUS
<1>2. /\ IsModule(m) /\ n = Len(m) + 1 /\ Single(m)
      /\ KnowsOnce(m, n, s) /\ KnowsSets(m, n, s) /\ KnowsIds(m, n, s) /\ KnowsVariables(m, n, s)
      /\ Decorates(s.bindings, m, n, "binding") /\ Decorates(s.sets, m, n, "set")
  BY <1>1 DEF ProfileInv, Knows, Single, SingleAssignment
<1>3. \A op : Upto(m, n, op) = Places(op) /\ Instructions(op) = {m[k] : k \in Upto(m, n, op)}
  BY <1>1, <1>2, AllSeen, InstructionsAre DEF Places
<1>4. Complete(s)
  <2>1. \A op \in {"memoryModel", "entryPoint", "executionMode", "capability"} :
          \E k \in DOMAIN m : Upto(m, n, op) = {k}
    BY <1>1, <1>2, <1>3, OnceIsOne DEF WholeProfile
  <2>2. s.model /\ s.capability
    BY <1>2, <2>1 DEF KnowsOnce
  <2>3. PICK e, l \in DOMAIN m : Upto(m, n, "entryPoint") = {e} /\ Upto(m, n, "executionMode") = {l}
    BY <2>1
  <2>4. s.entry = {m[e].id} /\ s.local = {<<m[l].target, m[l].size>>}
    BY <1>2, <2>3 DEF KnowsOnce
  <2>5. m[e].id = m[l].target /\ 0 \notin Range(m[l].size)
    BY <1>3, <2>3 DEF WholeProfile
  <2> QED BY <2>2, <2>4, <2>5 DEF Complete
<1>5. WorkgroupAgrees(s)
  <2>0. Instructions("workgroupSize") = {}
    BY DEF WholeProfile
  <2>1. Upto(m, n, "workgroupSize") = {}
    <3>1. PICK W : W = Upto(m, n, "workgroupSize") /\ {m[k] : k \in W} = {}
      BY <1>3, <2>0
    <3> QED BY <3>1
  <2>2. s.builtin = {}
    BY <1>2, <2>1 DEF KnowsOnce
  <2> QED BY <2>2 DEF WorkgroupAgrees
<1>6. PICK B, R : /\ B = BuffersUpto(m, n) /\ R = Range(s.variables)
                  /\ R = {<<m[k].type, m[k].id>> : k \in B} /\ Len(s.variables) = Cardinality(B)
  BY <1>2 DEF KnowsVariables
<1>7. Buffers = {m[k] : k \in B}
  BY <1>3, <1>6 DEF Buffers, BuffersUpto
<1>8. \A b \in Buffers : /\ b.id \in DOMAIN s.bindings /\ Decorated("binding", b.id) = {s.bindings[b.id]}
                         /\ b.id \in DOMAIN s.sets /\ s.sets[b.id] = 0
  <2> SUFFICES ASSUME NEW b \in Buffers
               PROVE  /\ b.id \in DOMAIN s.bindings /\ Decorated("binding", b.id) = {s.bindings[b.id]}
                      /\ b.id \in DOMAIN s.sets /\ s.sets[b.id] = 0
    OBVIOUS
  <2>1. Decorated("set", b.id) # {} /\ Decorated("binding", b.id) # {}
    BY DecorationsAreThere
  <2>2. /\ IsModule(module) /\ Decorates(s.bindings, module, at, "binding")
        /\ Decorates(s.sets, module, at, "set")
    BY <1>1, <1>2
  <2>3. b.id \in DOMAIN s.bindings /\ Decorated("binding", b.id) = {s.bindings[b.id]}
    BY <2>1, <2>2, DecoratedIs
  <2>4. b.id \in DOMAIN s.sets /\ Decorated("set", b.id) = {s.sets[b.id]}
    BY <2>1, <2>2, DecoratedIs
  <2>5. Decorated("set", b.id) = {0}
    BY DEF WholeProfile
  <2> QED BY <2>3, <2>4, <2>5
<1>9. \A b \in Buffers :
        /\ b.type \in DOMAIN s.pointers /\ s.pointers[b.type][1] = "buffer"
        /\ s.pointers[b.type][2] \in s.structures \cap s.blocks
  <2> SUFFICES ASSUME NEW b \in Buffers
               PROVE  /\ b.type \in DOMAIN s.pointers /\ s.pointers[b.type][1] = "buffer"
                      /\ s.pointers[b.type][2] \in s.structures \cap s.blocks
    OBVIOUS
  <2>1. Storage(b)
    BY DEF WholeProfile
  <2>2. PICK k \in Upto(m, n, "pointer") : /\ m[k].id = b.type /\ m[k].storage = "buffer"
                                          /\ \E x \in Instructions("struct") : x.id = m[k].pointee
                                          /\ \E d \in Instructions("block") : d.target = m[k].pointee
    BY <1>3, <2>1 DEF Storage
  <2>3. b.type \in DOMAIN s.pointers /\ s.pointers[b.type] = <<m[k].storage, m[k].pointee>>
    BY <1>2, <2>2 DEF KnowsIds
  <2>4. m[k].pointee \in s.structures
    BY <1>2, <1>3, <2>2 DEF KnowsSets
  <2>5. m[k].pointee \in s.blocks
    BY <1>2, <1>3, <2>2 DEF KnowsSets
  <2> QED BY <2>2, <2>3, <2>4, <2>5
<1>10. \A v \in R : Describable(v[1], v[2], s)
  <2> SUFFICES ASSUME NEW v \in R PROVE Describable(v[1], v[2], s)
    OBVIOUS
  <2>1. PICK b \in Buffers : v = <<b.type, b.id>>
    BY <1>6, <1>7
  <2>2. v[1] = b.type /\ v[2] = b.id
    BY <2>1
  <2> QED BY <1>8, <1>9, <2>2 DEF Describable
<1>11. Found(s) = {s.bindings[b.id] : b \in Buffers}
  <2>1. \A v \in R : \E b \in Buffers : v[2] = b.id
    BY <1>6, <1>7
  <2>2. \A b \in Buffers : \E v \in R : v[2] = b.id
    <3> SUFFICES ASSUME NEW b \in Buffers PROVE \E v \in R : v[2] = b.id
      OBVIOUS
    <3>1. <<b.type, b.id>> \in R
      BY <1>6, <1>7
    <3> QED BY <3>1
  <2> QED BY <1>6, <2>1, <2>2 DEF Found
<1>12. Cardinality(Buffers) = Cardinality(B) /\ IsFiniteSet(Buffers)
  BY <1>1, <1>2, <1>6, BuffersCounted
<1>13. Cardinality(Found(s)) = Cardinality(Buffers)
  <2>1. PICK g : g = [b \in Buffers |-> s.bindings[b.id]]
    OBVIOUS
  <2>2. DOMAIN g = Buffers /\ g = [b \in DOMAIN g |-> g[b]]
    BY <2>1
  <2>3. Range(g) = Found(s)
    BY <1>11, <2>1 DEF Range
  <2>4. ASSUME NEW b \in Buffers, NEW c \in Buffers, g[b] = g[c]
        PROVE  b = c
    <3>1. Decorated("binding", b.id) = Decorated("binding", c.id)
      BY <1>8, <2>1, <2>4
    <3> QED BY <3>1 DEF WholeProfile
  <2> QED BY <1>12, <2>2, <2>3, <2>4, ImageSize
<1>14. /\ Cardinality(DOMAIN s.bindings) = Cardinality(Buffers)
       /\ Cardinality(DOMAIN s.sets) = Cardinality(Buffers)
  <2>1. /\ Cardinality(Places("binding")) = Cardinality(Buffers)
        /\ Cardinality(Places("set")) = Cardinality(Buffers)
    BY DEF WholeProfile
  <2>2. Cardinality(DOMAIN s.bindings) = Cardinality(Upto(m, n, "binding"))
    BY <1>2, FiniteDecorations
  <2>3. Cardinality(DOMAIN s.sets) = Cardinality(Upto(m, n, "set"))
    BY <1>2, FiniteDecorations
  <2> QED BY <1>3, <2>1, <2>2, <2>3
<1>15. Found(s) # {}
  <2>1. PICK b \in Buffers : TRUE
    BY DEF WholeProfile
  <2>2. s.bindings[b.id] \in Found(s)
    BY <1>11
  <2> QED BY <2>2
<1>16. Reflectable(s)
  BY <1>6, <1>10, <1>12, <1>13, <1>14, <1>15 DEF Reflectable
<1> QED BY <1>1, <1>4, <1>5, <1>16 DEF Concluded

(* inspect_spirv: whatever the order of its instructions, a module that has    *)
(* all of the profile is not refused.                                          *)
THEOREM TheProfileIsAccepted == PreflightSpec => []ProfileAccepted
<1>1. ProfileInv => ProfileAccepted
  <2> SUFFICES ASSUME ProfileInv, outcome = "refused", SingleAssignment, WholeProfile
               PROVE  FALSE
    BY DEF ProfileAccepted
  <2>1. CASE at \in DOMAIN module /\ Refused(module[at], seen)
    BY <2>1, NothingIsRefused
  <2>2. CASE at = Len(module) + 1 /\ ~Concluded(seen)
    BY <2>2, AllIsConcluded
  <2> QED BY <2>1, <2>2 DEF ProfileInv
<1> QED BY <1>1, ProfileInvariance, PTL

--------------------------------------------------------------------------------
(* The validator, for any number of threads, modules, process ids, calls and   *)
(* crashes: its files and children are those of the calls under way, and       *)
(* nothing but spirv-val's verdict accepts a module.                           *)

(* The parts of TypeOK.                                                     *)
ProcessOK == run \in 0..MaxCrashes /\ pid \in Pids /\ next \in 1 .. MaxCalls + 1
FilesOK == \A p \in DOMAIN files : /\ files[p].owner \in 0..run
                                   /\ files[p].bytes \in Binaries \union {"empty"}
ThreadsOK ==
  /\ caller \in [Callers -> Calls]
  /\ child \in [Callers -> {"none", "running", "accepted", "rejected", "killed"}]
PathsApart ==
  \A c \in InCall : /\ caller[c].module \in Binaries
                    /\ caller[c].path[2] < next
                    /\ \A d \in InCall \ {c} : caller[d].path # caller[c].path

(* Calls whose TemporaryModule exists.                                      *)
Holders == {c \in Callers : caller[c].pc \in {"write", "spawn", "poll", "reap"}}

(* A path is made of this process's id and of a number already used.        *)
PathsFresh ==
  \A c \in InCall : caller[c].path = <<pid, caller[c].path[2]>> /\ caller[c].path[2] \in 1..(next - 1)

(* A holder's file is its own, and complete from spawn on.                  *)
HoldersOwn ==
  \A c \in Holders :
    /\ caller[c].path \in DOMAIN files
    /\ files[caller[c].path].owner = run
    /\ caller[c].pc # "write" => files[caller[c].path].bytes = caller[c].module

(* Files of this process belong to holders.                                 *)
FilesHeld ==
  \A p \in DOMAIN files : files[p].owner = run => \E c \in Holders : caller[c].path = p

(* Children exist between spawn and reap, and tell the truth.               *)
ChildrenMatch ==
  \A c \in Callers :
    /\ caller[c].pc \notin {"poll", "reap"} => child[c] = "none"
    /\ caller[c].pc = "poll" => child[c] \in {"running", "accepted", "rejected"}
    /\ caller[c].pc = "reap" => child[c] = "killed"
    /\ child[c] = "accepted" => caller[c].module \in Valid

(* A call under way has no answer yet.                                      *)
NoAnswerYet == \A c \in InCall : caller[c].answer = "none"

ValidatorInv ==
  /\ TypeOK /\ PathsFresh /\ HoldersOwn /\ FilesHeld /\ ChildrenMatch /\ NoAnswerYet
  /\ NothingLeftBehind

--------------------------------------------------------------------------------
LEMMA TypeParts == TypeOK <=> ProcessOK /\ FilesOK /\ ThreadsOK /\ PathsApart
BY DEF TypeOK, ProcessOK, FilesOK, ThreadsOK, PathsApart

LEMMA RestingTyped == \A a \in {"none", "ok", "error"} : Resting(a) \in Calls
BY DEF Resting, Calls

LEMMA InitEstablishes == ValidatorInit => ValidatorInv
<1> SUFFICES ASSUME ValidatorInit PROVE ValidatorInv
  OBVIOUS
<1>1. InCall = {} /\ Holders = {} /\ DOMAIN files = {}
  BY DEF ValidatorInit, InCall, Holders, At, Resting
<1>2. caller \in [Callers -> Calls]
  BY RestingTyped DEF ValidatorInit
<1>3. TypeOK
  <2>1. ProcessOK
    BY ValidatorAssumption DEF ValidatorInit, ProcessOK
  <2>2. FilesOK /\ ThreadsOK /\ PathsApart
    BY <1>1, <1>2 DEF ValidatorInit, FilesOK, ThreadsOK, PathsApart
  <2> QED BY <2>1, <2>2, TypeParts
<1> QED BY <1>1, <1>3 DEF ValidatorInit, ValidatorInv, PathsFresh, HoldersOwn, FilesHeld,
                          ChildrenMatch, NoAnswerYet, NothingLeftBehind, Resting

(* The files that remain when a call returns.                               *)
LEMMA ReturnKeeps ==
  ASSUME ValidatorInv, NEW c \in Holders, NEW a \in {"ok", "error"}, Finish(c, a),
         child' = [child EXCEPT ![c] = "none"], UNCHANGED <<process, next>>
  PROVE  ValidatorInv'
<1>1. caller \in [Callers -> Calls] /\ c \in Callers /\ Resting(a) \in Calls
  BY DEF ValidatorInv, TypeOK, Calls, Resting, Holders
<1>2. /\ InCall' = InCall \ {c} /\ Holders' = Holders \ {c} /\ Holders \subseteq InCall
      /\ InCall \subseteq Callers
      /\ \A d \in Callers \ {c} : caller'[d] = caller[d] /\ child'[d] = child[d]
  BY <1>1 DEF Finish, Resting, InCall, Holders, At, ValidatorInv, TypeOK
<1>3. /\ DOMAIN files' = DOMAIN files \ {caller[c].path}
      /\ \A p \in DOMAIN files' : files'[p] = files[p]
  BY DEF Finish, Without
<1>4. \A d \in Holders \ {c} : caller[d].path # caller[c].path
  BY <1>2 DEF ValidatorInv, TypeOK
<1>5. TypeOK'
  <2>1. /\ run' = run /\ pid' = pid /\ next' = next
        /\ caller' \in [Callers -> Calls]
        /\ child' \in [Callers -> {"none", "running", "accepted", "rejected", "killed"}]
    BY <1>1 DEF ValidatorInv, TypeOK, process, Finish
  <2>2. ProcessOK' /\ ThreadsOK'
    BY <2>1, TypeParts DEF ValidatorInv, ProcessOK, ThreadsOK
  <2>3. FilesOK' /\ PathsApart'
    BY <1>2, <1>3, <2>1, TypeParts DEF ValidatorInv, FilesOK, PathsApart
  <2> QED BY <2>2, <2>3 DEF TypeOK, ProcessOK, FilesOK, ThreadsOK, PathsApart
<1>6. PathsFresh' /\ NoAnswerYet'
  BY <1>2 DEF ValidatorInv, PathsFresh, NoAnswerYet, process
<1>7. HoldersOwn' /\ FilesHeld'
  BY <1>2, <1>3, <1>4 DEF ValidatorInv, HoldersOwn, FilesHeld, process
<1>8. ChildrenMatch'
  BY <1>1, <1>2 DEF ValidatorInv, TypeOK, ChildrenMatch, Finish, Resting
<1>9. NothingLeftBehind'
  BY <1>1, <1>2, <1>7, <1>8 DEF NothingLeftBehind, FilesHeld, ChildrenMatch, InCall, At
<1> QED BY <1>5, <1>6, <1>7, <1>8, <1>9 DEF ValidatorInv

(* A holder moves on; its file stays as it is.                              *)
LEMMA HolderMoves ==
  ASSUME ValidatorInv, NEW c \in Holders, NEW q \in Calls,
         caller' = [caller EXCEPT ![c] = q], q.pc \in {"spawn", "poll", "reap"},
         q.path = caller[c].path, q.module = caller[c].module, q.answer = caller[c].answer,
         caller[c].pc # "write", UNCHANGED <<process, next, files>>,
         child' \in [Callers -> {"none", "running", "accepted", "rejected", "killed"}],
         ChildrenMatch'
  PROVE  ValidatorInv'
<1>1. caller \in [Callers -> Calls] /\ c \in Callers
  BY DEF ValidatorInv, TypeOK, Holders
<1>2. /\ InCall' = InCall /\ Holders' = Holders /\ c \in InCall
      /\ InCall \subseteq Callers
      /\ \A d \in Callers : caller'[d].path = caller[d].path
                           /\ caller'[d].module = caller[d].module
                           /\ caller'[d].answer = caller[d].answer
      /\ \A d \in Callers \ {c} : caller'[d] = caller[d]
  BY <1>1 DEF InCall, Holders, At
<1>3. TypeOK'
  <2>1. run' = run /\ pid' = pid /\ next' = next /\ files' = files
        /\ caller' \in [Callers -> Calls]
    BY <1>1 DEF process
  <2>2. ProcessOK' /\ ThreadsOK'
    BY <2>1, TypeParts DEF ValidatorInv, ProcessOK, ThreadsOK
  <2>3. FilesOK' /\ PathsApart'
    BY <1>2, <2>1, TypeParts DEF ValidatorInv, FilesOK, PathsApart
  <2> QED BY <2>2, <2>3 DEF TypeOK, ProcessOK, FilesOK, ThreadsOK, PathsApart
<1>4. PathsFresh' /\ NoAnswerYet'
  BY <1>2 DEF ValidatorInv, PathsFresh, NoAnswerYet, process
<1>5. HoldersOwn' /\ FilesHeld'
  BY <1>1, <1>2 DEF ValidatorInv, HoldersOwn, FilesHeld, process, Holders
<1>6. NothingLeftBehind'
  BY <1>1, <1>2, <1>5 DEF NothingLeftBehind, FilesHeld, ChildrenMatch, InCall, Holders, At
<1> QED BY <1>3, <1>4, <1>5, <1>6 DEF ValidatorInv

LEMMA CallKeeps ==
  ASSUME ValidatorInv, NEW c \in Callers, NEW m \in Binaries, Call(c, m)
  PROVE  ValidatorInv'
<1> DEFINE q == [Resting("none") EXCEPT !.pc = "open", !.module = m, !.path = <<pid, next>>]
<1>1. caller \in [Callers -> Calls] /\ q \in Calls /\ next \in 1..MaxCalls
  <2>1. /\ caller \in [Callers -> Calls] /\ pid \in Pids /\ next \in 1..(MaxCalls + 1)
        /\ next <= MaxCalls /\ MaxCalls \in Nat
    BY ValidatorAssumption DEF ValidatorInv, TypeOK, Call
  <2>2. next \in 1..MaxCalls /\ next \in Nat
    BY <2>1
  <2>3. <<pid, next>> \in (Pids \union {0}) \X Nat
    BY <2>1, <2>2
  <2>4. Resting("none") \in Calls
    BY RestingTyped
  <2> QED BY <2>1, <2>2, <2>3, <2>4 DEF Calls
<1>2. /\ caller' = [caller EXCEPT ![c] = q] /\ next' = next + 1 /\ run' = run /\ pid' = pid
      /\ files' = files /\ child' = child /\ caller[c].pc = "idle"
  BY DEF Call, process, At
<1>3. /\ q.pc = "open" /\ q.module = m /\ q.path = <<pid, next>> /\ q.path[2] = next
      /\ q.answer = "none"
  BY DEF Resting
<1> HIDE DEF q
<1>4. /\ InCall' = InCall \union {c} /\ Holders' = Holders /\ c \notin InCall
      /\ Holders \subseteq InCall /\ InCall \subseteq Callers
      /\ \A d \in Callers \ {c} : caller'[d] = caller[d]
      /\ caller'[c] = q
  BY <1>1, <1>2, <1>3 DEF InCall, Holders, At
<1>5. \A d \in InCall : caller[d].path # q.path
  BY <1>1, <1>3, <1>4 DEF ValidatorInv, PathsFresh
<1>6. TypeOK'
  <2>1. ProcessOK' /\ ThreadsOK'
    BY <1>1, <1>2, TypeParts, ValidatorAssumption DEF ValidatorInv, ProcessOK, ThreadsOK
  <2>2. FilesOK'
    BY <1>2, TypeParts DEF ValidatorInv, FilesOK
  <2>3. PathsApart'
    <3>1. \A d \in InCall : caller[d].path[2] \in Nat /\ caller[d].path[2] < next + 1
      BY <1>1, <1>4, TypeParts DEF ValidatorInv, PathsApart, Calls
    <3>2. next < next + 1 /\ next' = next + 1
      BY <1>1, <1>2
    <3> QED BY <1>3, <1>4, <1>5, <3>1, <3>2, TypeParts DEF ValidatorInv, PathsApart
  <2> QED BY <2>1, <2>2, <2>3 DEF TypeOK, ProcessOK, FilesOK, ThreadsOK, PathsApart
<1>7. PathsFresh' /\ NoAnswerYet'
  BY <1>1, <1>2, <1>3, <1>4 DEF ValidatorInv, PathsFresh, NoAnswerYet
<1>8. HoldersOwn' /\ FilesHeld'
  BY <1>2, <1>4 DEF ValidatorInv, HoldersOwn, FilesHeld
<1>9. ChildrenMatch'
  BY <1>1, <1>2, <1>3 DEF ValidatorInv, ChildrenMatch
<1>10. NothingLeftBehind'
  BY <1>2, <1>4 DEF ValidatorInv, NothingLeftBehind
<1> QED BY <1>6, <1>7, <1>8, <1>9, <1>10 DEF ValidatorInv

LEMMA OpenKeeps ==
  ASSUME ValidatorInv, NEW c \in Callers, OpenFile(c)
  PROVE  ValidatorInv'
<1>1. /\ caller \in [Callers -> Calls] /\ caller[c].pc = "open" /\ Resting("error") \in Calls
      /\ run' = run /\ pid' = pid /\ next' = next /\ child' = child
  BY RestingTyped DEF ValidatorInv, TypeOK, OpenFile, At, process
<1>2. Holders \subseteq InCall /\ InCall \subseteq Callers /\ c \in InCall \ Holders
  BY <1>1 DEF InCall, Holders, At
<1>3. CASE caller' = [caller EXCEPT ![c] = Resting("error")] /\ UNCHANGED files
  <2>1. /\ InCall' = InCall \ {c} /\ Holders' = Holders
        /\ \A d \in Callers \ {c} : caller'[d] = caller[d]
        /\ caller'[c].pc = "idle"
    BY <1>1, <1>3 DEF InCall, Holders, At, Resting
  <2>2. TypeOK'
    <3>1. ProcessOK' /\ ThreadsOK' /\ FilesOK'
      BY <1>1, <1>3, TypeParts DEF ValidatorInv, ProcessOK, ThreadsOK, FilesOK
    <3>2. PathsApart'
      BY <1>1, <1>2, <2>1, TypeParts DEF ValidatorInv, PathsApart
    <3> QED BY <3>1, <3>2 DEF TypeOK, ProcessOK, FilesOK, ThreadsOK, PathsApart
  <2>3. PathsFresh' /\ NoAnswerYet' /\ HoldersOwn' /\ FilesHeld'
    BY <1>1, <1>2, <1>3, <2>1
       DEF ValidatorInv, PathsFresh, NoAnswerYet, HoldersOwn, FilesHeld
  <2>4. ChildrenMatch'
    BY <1>1, <1>3, <2>1 DEF ValidatorInv, ChildrenMatch
  <2>5. NothingLeftBehind'
    BY <1>1, <1>2, <1>3, <2>1, <2>3, <2>4
       DEF NothingLeftBehind, FilesHeld, ChildrenMatch, InCall, At
  <2> QED BY <2>2, <2>3, <2>4, <2>5 DEF ValidatorInv
<1>4. CASE /\ caller[c].path \notin DOMAIN files
           /\ files' = Put(caller[c].path, "empty") /\ Goto(c, "write")
  <2> DEFINE q == [caller[c] EXCEPT !.pc = "write"]
  <2>1. /\ q \in Calls /\ q.pc = "write" /\ q.path = caller[c].path
        /\ q.module = caller[c].module /\ q.answer = caller[c].answer
        /\ caller' = [caller EXCEPT ![c] = q]
    BY <1>1, <1>4 DEF Calls, Goto
  <2> HIDE DEF q
  <2>2. /\ InCall' = InCall /\ Holders' = Holders \union {c}
        /\ \A d \in Callers \ {c} : caller'[d] = caller[d]
        /\ caller'[c] = q
    BY <1>1, <1>2, <2>1 DEF InCall, Holders, At
  <2>3. /\ DOMAIN files' = DOMAIN files \union {caller[c].path}
        /\ \A p \in DOMAIN files : files'[p] = files[p]
        /\ files'[caller[c].path] = [owner |-> run, bytes |-> "empty"]
    BY <1>4 DEF Put
  <2>4. TypeOK'
    <3>1. ProcessOK' /\ ThreadsOK'
      BY <1>1, <2>1, TypeParts DEF ValidatorInv, ProcessOK, ThreadsOK
    <3>2. run \in Nat
      BY TypeParts DEF ValidatorInv, ProcessOK
    <3>3. FilesOK'
      BY <1>1, <2>3, <3>2, TypeParts DEF ValidatorInv, FilesOK
    <3>4. PathsApart'
      BY <1>1, <1>2, <2>1, <2>2, TypeParts DEF ValidatorInv, PathsApart
    <3> QED BY <3>1, <3>3, <3>4 DEF TypeOK, ProcessOK, FilesOK, ThreadsOK, PathsApart
  <2>5. PathsFresh' /\ NoAnswerYet'
    BY <1>1, <1>2, <2>1, <2>2 DEF ValidatorInv, PathsFresh, NoAnswerYet
  <2>6. HoldersOwn' /\ FilesHeld'
    BY <1>1, <1>2, <2>1, <2>2, <2>3 DEF ValidatorInv, HoldersOwn, FilesHeld
  <2>7. ChildrenMatch'
    BY <1>1, <2>1, <2>2 DEF ValidatorInv, ChildrenMatch
  <2>8. NothingLeftBehind'
    BY <1>1, <1>2, <2>2, <2>6, <2>7
       DEF ValidatorInv, NothingLeftBehind, FilesHeld, ChildrenMatch
  <2> QED BY <2>4, <2>5, <2>6, <2>7, <2>8 DEF ValidatorInv
<1> QED BY <1>3, <1>4 DEF OpenFile

LEMMA WriteKeeps ==
  ASSUME ValidatorInv, NEW c \in Callers, Write(c)
  PROVE  ValidatorInv'
<1>1. /\ caller \in [Callers -> Calls] /\ caller[c].pc = "write" /\ child[c] = "none"
      /\ child \in [Callers -> {"none", "running", "accepted", "rejected", "killed"}]
      /\ run' = run /\ pid' = pid /\ next' = next /\ child' = child
  BY DEF ValidatorInv, TypeOK, ChildrenMatch, Write, At, process
<1>2. c \in Holders /\ c \in InCall /\ Holders \subseteq InCall /\ InCall \subseteq Callers
  BY <1>1 DEF InCall, Holders, At
<1>3. CASE Finish(c, "error")
  <2>1. child' = [child EXCEPT ![c] = "none"]
    BY <1>1
  <2> QED BY <1>1, <1>2, <1>3, <2>1, ReturnKeeps DEF process
<1>4. CASE files' = Put(caller[c].path, caller[c].module) /\ Goto(c, "spawn")
  <2> DEFINE q == [caller[c] EXCEPT !.pc = "spawn"]
  <2>1. /\ q \in Calls /\ q.pc = "spawn" /\ q.path = caller[c].path
        /\ q.module = caller[c].module /\ q.answer = caller[c].answer
        /\ caller' = [caller EXCEPT ![c] = q]
    BY <1>1, <1>4 DEF Calls, Goto
  <2> HIDE DEF q
  <2>2. /\ InCall' = InCall /\ Holders' = Holders
        /\ \A d \in Callers \ {c} : caller'[d] = caller[d]
        /\ caller'[c] = q
    BY <1>1, <1>2, <2>1 DEF InCall, Holders, At
  <2>3. caller[c].path \in DOMAIN files /\ caller[c].module \in Binaries
    BY <1>2, TypeParts DEF ValidatorInv, HoldersOwn, PathsApart
  <2>4. /\ DOMAIN files' = DOMAIN files
        /\ \A p \in DOMAIN files \ {caller[c].path} : files'[p] = files[p]
        /\ files'[caller[c].path] = [owner |-> run, bytes |-> caller[c].module]
    BY <1>4, <2>3 DEF Put
  <2>5. TypeOK'
    <3>1. ProcessOK' /\ ThreadsOK'
      BY <1>1, <2>1, TypeParts DEF ValidatorInv, ProcessOK, ThreadsOK
    <3>2. run \in Nat
      BY TypeParts DEF ValidatorInv, ProcessOK
    <3>3. FilesOK'
      BY <1>1, <2>3, <2>4, <3>2, TypeParts DEF ValidatorInv, FilesOK
    <3>4. PathsApart'
      BY <1>1, <1>2, <2>1, <2>2, TypeParts DEF ValidatorInv, PathsApart
    <3> QED BY <3>1, <3>3, <3>4 DEF TypeOK, ProcessOK, FilesOK, ThreadsOK, PathsApart
  <2>6. PathsFresh' /\ NoAnswerYet'
    BY <1>1, <1>2, <2>1, <2>2 DEF ValidatorInv, PathsFresh, NoAnswerYet
  <2>7. \A d \in Holders \ {c} : caller[d].path # caller[c].path
    BY <1>2, TypeParts DEF ValidatorInv, PathsApart
  <2>8. HoldersOwn' /\ FilesHeld'
    BY <1>1, <1>2, <2>1, <2>2, <2>4, <2>7 DEF ValidatorInv, HoldersOwn, FilesHeld
  <2>9. ChildrenMatch'
    BY <1>1, <2>1, <2>2 DEF ValidatorInv, ChildrenMatch
  <2>10. NothingLeftBehind'
    BY <1>1, <1>2, <2>2, <2>8, <2>9
       DEF ValidatorInv, NothingLeftBehind, FilesHeld, ChildrenMatch
  <2> QED BY <2>5, <2>6, <2>8, <2>9, <2>10 DEF ValidatorInv
<1> QED BY <1>3, <1>4 DEF Write

(* Spawning, killing and the passage of the deadline.                       *)
LEMMA ChildStepsKeep ==
  ASSUME ValidatorInv, NEW c \in Callers, Spawn(c) \/ Kill(c) \/ WaitError(c) \/ Deadline(c)
  PROVE  ValidatorInv'
<1>0. /\ caller \in [Callers -> Calls] /\ ChildrenMatch
      /\ child \in [Callers -> {"none", "running", "accepted", "rejected", "killed"}]
  BY DEF ValidatorInv, TypeOK
<1>1. CASE Spawn(c) /\ Finish(c, "error") /\ UNCHANGED child
  <2>1. caller[c].pc = "spawn" /\ child' = [child EXCEPT ![c] = "none"]
    BY <1>0, <1>1 DEF Spawn, At, ChildrenMatch
  <2> QED BY <1>1, <2>1, ReturnKeeps DEF Spawn, Holders
<1>2. CASE Spawn(c) /\ child' = [child EXCEPT ![c] = "running"] /\ Goto(c, "poll") /\ UNCHANGED files
  <2> DEFINE q == [caller[c] EXCEPT !.pc = "poll"]
  <2>1. /\ q \in Calls /\ q.pc = "poll" /\ q.path = caller[c].path
        /\ q.module = caller[c].module /\ q.answer = caller[c].answer
        /\ caller' = [caller EXCEPT ![c] = q] /\ caller[c].pc = "spawn"
    BY <1>0, <1>2 DEF Calls, Goto, Spawn, At
  <2> HIDE DEF q
  <2>2. ChildrenMatch'
    BY <1>0, <1>2, <2>1 DEF ChildrenMatch
  <2> QED BY <1>0, <1>2, <2>1, <2>2, HolderMoves DEF Spawn, Holders
<1>3. CASE Kill(c) \/ WaitError(c)
  <2> DEFINE q == [caller[c] EXCEPT !.pc = "reap"]
  <2>1. /\ q \in Calls /\ q.pc = "reap" /\ q.path = caller[c].path
        /\ q.module = caller[c].module /\ q.answer = caller[c].answer
        /\ caller' = [caller EXCEPT ![c] = q] /\ caller[c].pc = "poll"
        /\ child' = [child EXCEPT ![c] = "killed"]
    BY <1>0, <1>3 DEF Calls, Goto, Kill, WaitError, KillChild, At
  <2> HIDE DEF q
  <2>2. ChildrenMatch'
    BY <1>0, <2>1 DEF ChildrenMatch
  <2> QED BY <1>0, <1>3, <2>1, <2>2, HolderMoves DEF Kill, WaitError, KillChild, Holders
<1>4. CASE Deadline(c)
  <2> DEFINE q == [caller[c] EXCEPT !.late = TRUE]
  <2>1. /\ q \in Calls /\ q.pc = "poll" /\ q.path = caller[c].path
        /\ q.module = caller[c].module /\ q.answer = caller[c].answer
        /\ caller' = [caller EXCEPT ![c] = q] /\ caller[c].pc = "poll" /\ child' = child
    BY <1>0, <1>4 DEF Calls, Deadline, At
  <2> HIDE DEF q
  <2>2. ChildrenMatch'
    BY <1>0, <2>1 DEF ChildrenMatch
  <2> QED BY <1>0, <1>4, <2>1, <2>2, HolderMoves DEF Deadline, Holders
<1> QED BY <1>1, <1>2, <1>3, <1>4 DEF Spawn

(* spirv-val reads the caller's own complete file.                          *)
LEMMA ChildExitsKeeps ==
  ASSUME ValidatorInv, NEW c \in Callers, ChildExits(c)
  PROVE  ValidatorInv'
<1>1. /\ caller[c].pc = "poll" /\ c \in Holders
      /\ caller \in [Callers -> Calls]
      /\ child \in [Callers -> {"none", "running", "accepted", "rejected", "killed"}]
  BY DEF ValidatorInv, TypeOK, ChildrenMatch, ChildExits, Holders, Calls
<1>2. files[caller[c].path].bytes = caller[c].module
  BY <1>1 DEF ValidatorInv, HoldersOwn
<1>3. /\ child' = [child EXCEPT ![c] = IF caller[c].module \in Valid
                                        THEN "accepted" ELSE "rejected"]
      /\ caller' = caller /\ files' = files /\ run' = run /\ pid' = pid /\ next' = next
  BY <1>2 DEF ChildExits, process
<1>4. ChildrenMatch'
  BY <1>1, <1>3 DEF ValidatorInv, ChildrenMatch
<1>5. InCall' = InCall /\ Holders' = Holders /\ c \in InCall
  BY <1>1, <1>3 DEF InCall, Holders, At
<1>6. TypeOK'
  BY <1>1, <1>3, <1>5 DEF ValidatorInv, TypeOK
<1>7. PathsFresh' /\ HoldersOwn' /\ FilesHeld' /\ NoAnswerYet'
  BY <1>3, <1>5 DEF ValidatorInv, PathsFresh, HoldersOwn, FilesHeld, NoAnswerYet
<1>8. NothingLeftBehind'
  BY <1>1, <1>3, <1>5 DEF ValidatorInv, NothingLeftBehind
<1> QED BY <1>4, <1>6, <1>7, <1>8 DEF ValidatorInv

(* The successor starts with the files of its predecessors and no calls.    *)
LEMMA CrashKeeps ==
  ASSUME ValidatorInv, NEW p \in Pids, Crash(p)
  PROVE  ValidatorInv'
<1>1. InCall' = {} /\ Holders' = {}
  BY DEF Crash, InCall, Holders, At, Resting
<1>2. caller' \in [Callers -> Calls] /\ files' = files
  BY RestingTyped DEF Crash
<1>3. ProcessOK' /\ run \in Nat /\ run' = run + 1
  BY ValidatorAssumption, TypeParts DEF Crash, ProcessOK, ValidatorInv
<1>4. FilesOK' /\ \A f \in DOMAIN files : files[f].owner # run'
  BY <1>2, <1>3, TypeParts DEF FilesOK, ValidatorInv
<1>5. TypeOK'
  BY <1>1, <1>2, <1>3, <1>4 DEF TypeOK, ProcessOK, FilesOK, Crash
<1>6. ChildrenMatch'
  BY DEF Crash, ChildrenMatch, Resting
<1> QED BY <1>1, <1>2, <1>4, <1>5, <1>6
        DEF ValidatorInv, PathsFresh, HoldersOwn, FilesHeld, NoAnswerYet, NothingLeftBehind,
            ChildrenMatch, Crash, Resting

--------------------------------------------------------------------------------
LEMMA NextKeeps ==
  ASSUME ValidatorInv, [ValidatorNext]_validatorVars
  PROVE  ValidatorInv'
<1>1. CASE UNCHANGED validatorVars
  BY <1>1 DEF validatorVars, ValidatorInv, TypeOK, InCall, Holders, At, PathsFresh, HoldersOwn, FilesHeld,
              ChildrenMatch, NoAnswerYet, NothingLeftBehind
<1>2. ASSUME NEW c \in Callers, PollExited(c) \/ Reap(c)
      PROVE  ValidatorInv'
  <2>1. c \in Holders
    BY <1>2 DEF PollExited, Reap, At, Holders
  <2> QED BY <1>2, <2>1, ReturnKeeps DEF PollExited, Reap
<1> QED BY <1>1, <1>2, CallKeeps, OpenKeeps, WriteKeeps, ChildStepsKeep, ChildExitsKeeps,
           CrashKeeps DEF ValidatorNext, Step

LEMMA InvHolds == ValidatorSpec => []ValidatorInv
BY InitEstablishes, NextKeeps, PTL DEF ValidatorSpec

(* Types; no two calls under way share a path.                              *)
THEOREM ValidatorTypeCorrect == ValidatorSpec => []TypeOK
BY InvHolds, PTL DEF ValidatorInv

(* A finished call leaves no child and no file.                             *)
THEOREM CallsCleanUp == ValidatorSpec => []NothingLeftBehind
BY InvHolds, PTL DEF ValidatorInv

(* Acceptance is spirv-val's verdict on this very module.                   *)
THEOREM AcceptanceIsSound == ValidatorSpec => AcceptedIsValid
<1>1. ValidatorInv /\ [ValidatorNext]_validatorVars =>
        [\A c \in Callers :
           ~At(c, "idle") /\ caller'[c].answer = "ok" => caller[c].module \in Valid]_validatorVars
  <2> SUFFICES ASSUME ValidatorInv, ValidatorNext, NEW c \in Callers, ~At(c, "idle"),
                      caller'[c].answer = "ok"
               PROVE  caller[c].module \in Valid
    OBVIOUS
  <2>0. caller \in [Callers -> Calls] /\ caller[c].answer = "none"
    BY DEF ValidatorInv, TypeOK, NoAnswerYet, InCall
  <2>1. PollExited(c) /\ child[c] = "accepted"
    <3>1. ASSUME NEW d \in Callers, NEW m \in Binaries, Call(d, m)
          PROVE  FALSE
      BY <2>0, <3>1 DEF Call, Resting, Calls, At
    <3>2. ASSUME NEW d \in Callers, Step(d), d # c \/ ~PollExited(c)
          PROVE  FALSE
      BY <2>0, <3>2 DEF Step, OpenFile, Write, Spawn, PollExited, Kill, KillChild, Reap, Finish,
                        Goto, Resting, Calls
    <3>3. ASSUME NEW d \in Callers, ChildExits(d) \/ Deadline(d) \/ WaitError(d)
          PROVE  FALSE
      BY <2>0, <3>3 DEF ChildExits, Deadline, WaitError, KillChild, Goto, Calls
    <3>4. \A p \in Pids : ~Crash(p)
      BY DEF Crash, Resting
    <3>5. PollExited(c)
      BY <3>1, <3>2, <3>3, <3>4 DEF ValidatorNext
    <3> QED BY <2>0, <3>5 DEF PollExited, Finish, Resting
  <2> QED BY <2>1 DEF ValidatorInv, ChildrenMatch
<1> QED BY <1>1, InvHolds, PTL DEF ValidatorSpec, AcceptedIsValid

(* What an earlier process left is neither removed nor overwritten.         *)
THEOREM OldFilesStay == ValidatorSpec => OnlyOwnFiles
<1>1. ValidatorInv /\ [ValidatorNext]_validatorVars =>
        [\A p \in DOMAIN files :
           files[p].owner # run => p \in DOMAIN files' /\ files'[p] = files[p]]_validatorVars
  <2> SUFFICES ASSUME ValidatorInv, ValidatorNext, NEW p \in DOMAIN files, files[p].owner # run
               PROVE  p \in DOMAIN files' /\ files'[p] = files[p]
    OBVIOUS
  <2>0. \A c \in Callers : caller[c].pc \in {"write", "spawn", "poll", "reap"}
                            => p # caller[c].path
    BY DEF ValidatorInv, HoldersOwn, Holders
  <2>1. ASSUME NEW c \in Callers, Step(c)
        PROVE  p \in DOMAIN files' /\ files'[p] = files[p]
    BY <2>0, <2>1 DEF Step, OpenFile, Write, Spawn, PollExited, Kill, KillChild, Reap, Finish, At,
                      Without, Put
  <2> QED BY <2>1 DEF ValidatorNext, Call, ChildExits, Deadline, WaitError, KillChild, Crash
<1> QED BY <1>1, InvHolds, PTL DEF ValidatorSpec, OnlyOwnFiles

================================================================================
