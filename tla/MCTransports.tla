------------------------------ MODULE MCTransports ------------------------------
(* The two byte formats a guest or a peer may send, and the reports on guest  *)
(* Metal.  They share no state, so each is taken with the others at rest.     *)
(*                                                                            *)
(* sGPU: lists of up to three commands of every kind, one more than the limit, *)
(* each between two bytes that do not belong to it: as encoded, with another  *)
(* count in the header, or with another tag in the first record.  Metal:      *)
(* requests whose numbers lie on both sides of every check, their frames, and *)
(* frames that differ from one of each kind in one byte or in their length.   *)
EXTENDS SgpuWire, MetalTransport, MetalTrack

--------------------------------------------------------------------------------
(* The sGPU lists.                                                            *)

Number(width, high, low) == [i \in 1..width |-> CASE i = 1 -> high [] i = width -> low [] OTHER -> 0]

Samples ==
  {[tag |-> t, fields |-> [i \in DOMAIN Widths[t] |-> Number(Widths[t][i], t, i)]]
     : t \in DOMAIN Widths}

MCLists ==
  SeqOf(Samples, 2) \cup {[i \in 1..3 |-> c] : c \in Samples}

Recounted(bytes) ==
  {ReplaceAt(bytes, 1, n) : n \in 0..3} \cup {ReplaceAt(bytes, 3, 1), ReplaceAt(bytes, 4, 1)}

Retagged(bytes) == {ReplaceAt(bytes, 5, t) : t \in 0..5}

MCSnapshots ==
  {<<4>> \o bytes \o <<3>> :
     bytes \in UNION {LET b == EncodeList(list)
                     IN {b} \cup Recounted(b) \cup IF list = <<>> THEN {} ELSE Retagged(b)
                       : list \in MCLists}}

(* Lengths around every whole payload, at the right place and beside it, and  *)
(* windows that leave the snapshot or the range of a u64.                     *)
MCWindows ==
  LET lengths == {Len(EncodeList(list)) : list \in MCLists}
  IN {<<1, n + d>> : n \in lengths, d \in {-1, 0, 1}}
       \cup {<<o, n>> : o \in {0, 2}, n \in lengths}
       \cup {<<1, 0>>, <<MaxU64, 1>>, <<MaxU64, 0>>, <<1, MaxU64>>, <<MaxU64 - 4, 6>>}

--------------------------------------------------------------------------------
(* The Metal frames.                                                          *)

Ends == {LastByte - 2, LastByte - 1, LastByte}

MCShapes ==
  [kind : {"create"}, size : {0, 1, 4, 6, LastByte}, alignment : 0..4, flags : {0, 1}]
    \cup [kind : {"destroy"}, handle : {0, 1, LastByte}]
    \cup [kind : {"copy"}, src : 0..2, dst : 0..2, srcOffset : (0..3) \cup Ends,
          dstOffset : (0..3) \cup Ends, size : 0..2]
    \cup [kind : {"copy"}, src : {1}, dst : {1, 2}, srcOffset : {0}, dstOffset : {0, 1},
          size : {LastByte}]

Typical ==
  {[kind |-> "create", size |-> 4, alignment |-> 2, flags |-> 0],
   [kind |-> "destroy", handle |-> 1],
   [kind |-> "copy", src |-> 1, dst |-> 2, srcOffset |-> 0, dstOffset |-> 3, size |-> 2]}

OneByteOff(bytes) ==
  {ReplaceAt(bytes, i, (bytes[i] + d) % Base) : i \in DOMAIN bytes, d \in 1 .. Base - 1}

OtherLength(bytes) ==
  {SubSeq(bytes, 1, n) : n \in 0 .. Len(bytes) - 1} \cup {Append(bytes, 0)}

QueueFrames ==
  {EncodeHeader([magic |-> Magic, version |-> Version, opcode |-> o, length |-> n, flags |-> 0])
     : o \in {0, 16, 17}, n \in {0, 1}}

MCFrames ==
  {EncodeShape(s) : s \in MCShapes} \cup QueueFrames
    \cup UNION {OneByteOff(EncodeShape(s)) \cup OtherLength(EncodeShape(s)) : s \in Typical}

--------------------------------------------------------------------------------
TransportsInit == Init /\ TransportInit /\ TrackInit

TransportsNext ==
  \/ stage = "idle" /\ receipt = NoReceipt /\ probe = Resting /\ Next
       /\ UNCHANGED <<transportVars, trackVars>>
  \/ pc = "idle" /\ receipt = NoReceipt /\ probe = Resting /\ TransportNext
       /\ UNCHANGED <<vars, trackVars>>
  \/ pc = "idle" /\ stage = "idle" /\ TrackNext /\ UNCHANGED <<vars, transportVars>>

TransportsSpec == TransportsInit /\ [][TransportsNext]_<<vars, transportVars, trackVars>>

================================================================================
