----------------------------- MODULE MetalTransport -----------------------------
(* metal_transport.rs: the frames of the host-guest transport.  ingest parses *)
(* a frame into the shape of a buffer request and then refuses to execute it. *)
(*                                                                            *)
(* A frame is a sequence of bytes, a byte a number below Base (256 in the     *)
(* code), so a small Base leaves the layout of every frame as it is and makes *)
(* 64-bit arithmetic checkable.                                               *)
EXTENDS Integers, SequencesExt

CONSTANTS
  Base,        \* values of a byte
  Magic,       \* METAL_TRANSPORT_MAGIC
  MaxPayload,  \* METAL_TRANSPORT_MAX_PAYLOAD
  Frames,      \* frames that may arrive
  Shapes       \* shapes that a peer may encode

HeaderBytes == 16
Version     == 1

(* Numbers of two, of four and of eight bytes are below these.                *)
U16 == Base * Base
U32 == U16 * U16
U64 == U32 * U32
LastByte == U64 - 1

(* Shapes are what the types of the code can hold.                            *)
ASSUME TransportAssumption ==
  /\ Base \in Nat /\ Base > 4   \* opcode 0x11 fits into two bytes
  /\ Magic \in 0 .. U32 - 1 /\ MaxPayload \in 40 .. U32 - 1
  /\ Frames \subseteq Seq(0 .. Base - 1)
  /\ \A s \in Shapes :
       \/ s \in [kind : {"create"}, size : 0 .. LastByte, alignment : 0 .. U32 - 1, flags : 0 .. U32 - 1]
       \/ s \in [kind : {"destroy"}, handle : 0 .. LastByte]
       \/ s \in [kind : {"copy"}, src : 0 .. LastByte, dst : 0 .. LastByte,
                 srcOffset : 0 .. LastByte, dstOffset : 0 .. LastByte, size : 0 .. LastByte]

VARIABLES
  acceptance,  \* "unmet", or "met": metal_verified or all D10 flags
  frame,       \* argument of ingest
  stage,       \* idle, parse, header, body, execute, done
  shape,       \* what parse_frame returned
  answer       \* reason of the rejection

transportVars == <<acceptance, frame, stage, shape, answer>>

--------------------------------------------------------------------------------
(* Little-endian integers and the layout of frames.                           *)

Bytes16(n) == <<n % Base, n \div Base>>
Bytes32(n) == Bytes16(n % U16) \o Bytes16(n \div U16)
Bytes64(n) == Bytes32(n % U32) \o Bytes32(n \div U32)

(* The number that starts after so many bytes.                                *)
Word16(bytes, skipped) == bytes[skipped + 1] + Base * bytes[skipped + 2]
Word32(bytes, skipped) == Word16(bytes, skipped) + U16 * Word16(bytes, skipped + 2)
Word64(bytes, skipped) == Word32(bytes, skipped) + U32 * Word32(bytes, skipped + 4)

Opcode      == [create |-> 1, destroy |-> 2, copy |-> 3]
QueueClass  == {16, 17}   \* QueueSubmit, FenceSignal
PayloadSize == [create |-> 16, destroy |-> 8, copy |-> 40]
NoShape     == [kind |-> "none"]

Header(bytes) ==
  [magic |-> Word32(bytes, 0), version |-> Word16(bytes, 4), opcode |-> Word16(bytes, 6),
   length |-> Word32(bytes, 8), flags |-> Word32(bytes, 12)]

EncodeHeader(h) ==
  Bytes32(h.magic) \o Bytes16(h.version) \o Bytes16(h.opcode)
    \o Bytes32(h.length) \o Bytes32(h.flags)

EncodeBody(s) ==
  CASE s.kind = "create"  -> Bytes64(s.size) \o Bytes32(s.alignment) \o Bytes32(s.flags)
    [] s.kind = "destroy" -> Bytes64(s.handle)
    [] s.kind = "copy"    -> Bytes64(s.src) \o Bytes64(s.dst) \o Bytes64(s.srcOffset)
                               \o Bytes64(s.dstOffset) \o Bytes64(s.size)

EncodeShape(s) ==
  EncodeHeader([magic |-> Magic, version |-> Version, opcode |-> Opcode[s.kind],
                length |-> Len(EncodeBody(s)), flags |-> 0]) \o EncodeBody(s)

DecodeBody(kind, body) ==
  CASE kind = "create"  -> [kind |-> kind, size |-> Word64(body, 0),
                            alignment |-> Word32(body, 8), flags |-> Word32(body, 12)]
    [] kind = "destroy" -> [kind |-> kind, handle |-> Word64(body, 0)]
    [] kind = "copy"    -> [kind |-> kind, src |-> Word64(body, 0), dst |-> Word64(body, 8),
                            srcOffset |-> Word64(body, 16), dstOffset |-> Word64(body, 24),
                            size |-> Word64(body, 32)]

--------------------------------------------------------------------------------
(* The checks of a step in the order of its early returns: the first that     *)
(* fails gives the reason.                                                    *)
Failing(checks) == {i \in DOMAIN checks : checks[i][2]}
FirstFailing(checks) == checks[CHOOSE i \in Failing(checks) : \A j \in Failing(checks) : i <= j][1]

Received == Header(frame)
Kind     == CHOOSE k \in DOMAIN Opcode : Opcode[k] = Received.opcode

(* parse_frame up to the payload.                                             *)
HeaderChecks ==
  LET h == Received
      known == h.opcode \in {Opcode[k] : k \in DOMAIN Opcode}
  IN << <<"magic",    h.magic # Magic>>,
        <<"version",  h.version # Version>>,
        <<"tooLarge", h.length > MaxPayload>>,
        <<"frameLength", Len(frame) # HeaderBytes + h.length>>,
        <<"opcode",   ~known /\ h.opcode \notin QueueClass>>,
        <<"queue",    h.opcode \in QueueClass>>,
        <<"payloadLength", known /\ h.length # PayloadSize[Kind]>>,
        <<"flags",    h.flags # 0>> >>

(* u32::is_power_of_two: every divisor but one is even.                       *)
IsPowerOfTwo(n) == n > 0 /\ \A d \in 2..n : n % d = 0 => d % 2 = 0

(* Faulty variant: the destination may begin inside the source.               *)
OverlapFromBelow(s) ==
  s.srcOffset < s.dstOffset + s.size /\ s.dstOffset <= s.srcOffset

Overlap(s) ==
  s.srcOffset < s.dstOffset + s.size /\ s.dstOffset < s.srcOffset + s.size

(* validate of each shape.                                                    *)
BodyChecks(s) ==
  CASE s.kind = "create"  ->
         << <<"zeroSize",  s.size = 0>>,
            <<"alignment", s.alignment # 0 /\ ~IsPowerOfTwo(s.alignment)>>,
            <<"unaligned", s.alignment # 0 /\ s.size % s.alignment # 0>>,
            <<"flags",     s.flags # 0>> >>
    [] s.kind = "destroy" -> << <<"handle", s.handle = 0>> >>
    [] s.kind = "copy"    ->
         << <<"zeroSize", s.size = 0>>,
            <<"handle",   s.src = 0 \/ s.dst = 0>>,
            <<"overflow", s.srcOffset + s.size > LastByte \/ s.dstOffset + s.size > LastByte>>,
            <<"overlap",  s.src = s.dst /\ Overlap(s)>> >>

--------------------------------------------------------------------------------
TransportInit ==
  /\ acceptance \in {"unmet", "met"}
  /\ frame = <<>> /\ stage = "idle" /\ shape = NoShape /\ answer = "none"

Ingest(bytes) ==
  /\ frame' = bytes /\ stage' = "parse" /\ answer' = "none" /\ shape' = NoShape
  /\ UNCHANGED acceptance

RejectFrame(reason) ==
  /\ answer' = reason /\ stage' = "done"
  /\ UNCHANGED <<acceptance, frame, shape>>

(* A transport whose acceptance is met is not this transport.                 *)
NotOurs == stage = "parse" /\ acceptance = "met" /\ RejectFrame("acceptance")

TooShort ==
  stage = "parse" /\ acceptance = "unmet" /\ Len(frame) < HeaderBytes /\ RejectFrame("tooShort")

DecodeHeader ==
  /\ stage = "parse" /\ acceptance = "unmet" /\ Len(frame) >= HeaderBytes
  /\ stage' = "header"
  /\ UNCHANGED <<acceptance, frame, shape, answer>>

BadHeader ==
  stage = "header" /\ Failing(HeaderChecks) # {} /\ RejectFrame(FirstFailing(HeaderChecks))

GoodHeader ==
  /\ stage = "header" /\ Failing(HeaderChecks) = {}
  /\ stage' = "body"
  /\ UNCHANGED <<acceptance, frame, shape, answer>>

Body == DecodeBody(Kind, SubSeq(frame, HeaderBytes + 1, Len(frame)))

BadBody ==
  stage = "body" /\ Failing(BodyChecks(Body)) # {} /\ RejectFrame(FirstFailing(BodyChecks(Body)))

Parsed ==
  /\ stage = "body" /\ Failing(BodyChecks(Body)) = {}
  /\ shape' = Body /\ stage' = "execute"
  /\ UNCHANGED <<acceptance, frame, answer>>

(* execute_shape has no device to run on.                                     *)
ExecuteShape == stage = "execute" /\ RejectFrame("notExecutable")

Answered ==
  /\ stage = "done" /\ stage' = "idle"
  /\ frame' = <<>> /\ shape' = NoShape /\ answer' = "none"
  /\ UNCHANGED acceptance

TransportNext ==
  \/ stage = "idle" /\ \E bytes \in Frames : Ingest(bytes)
  \/ NotOurs \/ TooShort \/ DecodeHeader \/ BadHeader \/ GoodHeader
  \/ BadBody \/ Parsed \/ ExecuteShape \/ Answered

TransportSpec == TransportInit /\ [][TransportNext]_transportVars

--------------------------------------------------------------------------------
(* Properties.                                                                *)

(* What a request means when its numbers are taken as they are: the address   *)
(* after the last byte that it names still fits 64 bits (a range that ends at *)
(* 2^64 is refused), and a copy within one buffer reads none of the bytes     *)
(* that it writes.                                                            *)
Meaningful(s) ==
  CASE s.kind = "create"  ->
         /\ s.size > 0 /\ s.flags = 0
         /\ s.alignment # 0 => /\ IsPowerOfTwo(s.alignment)
                               /\ s.size % s.alignment = 0
    [] s.kind = "destroy" -> s.handle # 0
    [] s.kind = "copy"    ->
         LET Touched(offset) == offset .. offset + s.size - 1
         IN /\ s.size > 0 /\ s.src # 0 /\ s.dst # 0
            /\ s.srcOffset + s.size <= LastByte /\ s.dstOffset + s.size <= LastByte
            /\ s.src = s.dst => \A b \in Touched(s.srcOffset) : b \notin Touched(s.dstOffset)

Requests == {EncodeShape(s) : s \in {x \in Shapes : Meaningful(x)}}

(* A frame is parsed exactly if it is the encoding of a meaningful request,   *)
(* and then into this request: no second frame means the same, and no byte is *)
(* left unread.                                                               *)
ParsesExactly ==
  stage = "done" /\ acceptance = "unmet" =>
    IF shape = NoShape THEN frame \notin Requests
    ELSE frame = EncodeShape(shape) /\ Meaningful(shape)

================================================================================
