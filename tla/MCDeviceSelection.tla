----------------------------- MODULE MCDeviceSelection -----------------------------
(* Up to three devices: good ones that share ids or UUIDs, and ones that lack  *)
(* one thing each.                                                             *)
EXTENDS DeviceSelection, SequencesExt

Limits == [groupCount |-> <<2, 1, 1>>, groupSize |-> <<2, 2, 1>>, invocations |-> 2, range |-> 8,
           perStage |-> 2, perSet |-> 1, resources |-> 2, sets |-> 1, allocations |-> 2,
           atomPowerOfTwo |-> TRUE]

Type(flags, heap) == [flags |-> flags \cup {"visible"}, heap |-> heap]

Good == [ids |-> 1, uuid |-> "u1", kind |-> "discrete", version11 |-> TRUE, robust |-> TRUE,
         families |-> <<[count |-> 0, compute |-> TRUE], [count |-> 1, compute |-> FALSE],
                        [count |-> 2, compute |-> TRUE]>>,
         heaps |-> <<4, 8>>,
         types |-> <<[flags |-> {}, heap |-> 2], Type({"cached"}, 2), Type({"coherent"}, 1),
                     Type({"coherent", "deviceCoherent"}, 2), Type({"coherent", "cached"}, 1)>>,
         limits |-> Limits]

Poor ==
  {[Good EXCEPT !.kind = "cpu"], [Good EXCEPT !.version11 = FALSE], [Good EXCEPT !.robust = FALSE],
   [Good EXCEPT !.families = SubSeq(@, 1, 2)], [Good EXCEPT !.heaps = <<3, 3>>],
   [Good EXCEPT !.types = <<@[1], @[4]>>], [Good EXCEPT !.types[2].heap = 3],
   [Good EXCEPT !.limits.sets = 0], [Good EXCEPT !.limits.range = 3],
   [Good EXCEPT !.limits.perSet = 0], [Good EXCEPT !.limits.invocations = 0],
   [Good EXCEPT !.limits.groupSize[2] = 0], [Good EXCEPT !.limits.groupCount[3] = 0],
   [Good EXCEPT !.limits.allocations = 0], [Good EXCEPT !.limits.atomPowerOfTwo = FALSE]}

Fine ==
  {Good, [Good EXCEPT !.uuid = "u2"], [Good EXCEPT !.ids = 2], [Good EXCEPT !.kind = "integrated"],
   [Good EXCEPT !.heaps = <<4, 4>>], [Good EXCEPT !.types = <<@[2], @[2]>>]}

MCDeviceLists ==
  SeqOf(Fine \cup Poor, 2) \cup {<<Good, d, e>> : d, e \in {Good, [Good EXCEPT !.uuid = "u2"]}}

MCConfigs ==
  [ids : {1, 2}, uuid : {"any", "u1", "u2"}, sane : {TRUE}]
    \cup {[ids |-> 0, uuid |-> "any", sane |-> TRUE], [ids |-> 1, uuid |-> "any", sane |-> FALSE]}

MCDispatches ==
  [groups : {<<1, 1, 1>>, <<2, 2, 1>>}, workgroup : {<<1, 1, 1>>, <<2, 2, 1>>},
   sizes : {<<4>>, <<8>>, <<4, 12>>}]

MCMemoryBits == {{}, {1, 2}, {2, 3}, {3, 5}, {2, 4}, 1..5}

================================================================================
