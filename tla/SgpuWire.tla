-------------------------------- MODULE SgpuWire --------------------------------
(* sgpu_command.rs: the list payload a guest sends.  A list is its command    *)
(* count (u32, little endian) followed by records, each a tag and the fields  *)
(* of its kind.  decode_window slices a snapshot and hands the slice to       *)
(* SgpuCommandList::decode, which reads it record by record.                  *)
(*                                                                            *)
(* A number is the sequence of its bytes, most significant first; numbers     *)
(* that are compared (count, offset, length) are integers.                    *)
EXTENDS Integers, SequencesExt

CONSTANTS
  Lists,        \* command lists a guest encodes
  Snapshots,    \* byte sequences a guest may leave in shared memory
  Windows,      \* <<offset, length>> it may name
  MaxCommands,  \* SGPU_MAX_COMMANDS
  MaxU64        \* u64::MAX

(* Bytes of the fields of each kind: copy, clear, dispatch, present.          *)
Widths == << <<8, 8, 8>>, <<4, 4, 4, 4>>, <<4, 4, 4, 4, 4, 4, 4>>, <<8>> >>
(* The record lengths the list decoder goes by.                               *)
RecordLength == <<25, 17, 29, 9>>
MaxRecord  == 29
MinRecord  == 9
HeaderSize == 4
MaxBytes   == HeaderSize + MaxCommands * MaxRecord

Octet == 0..255
Commands ==
  {cmd \in [tag : DOMAIN Widths, fields : Seq(Seq(Octet))] :
     /\ Len(cmd.fields) = Len(Widths[cmd.tag])
     /\ \A i \in DOMAIN cmd.fields : Len(cmd.fields[i]) = Widths[cmd.tag][i]}

(* Without its lowest byte.                                                   *)
Shifted(n) == n \div 256

(* The count is a u32, and no slice is longer than a usize can say.           *)
ASSUME WireAssumption ==
  /\ MaxCommands \in Nat /\ Shifted(Shifted(Shifted(MaxCommands))) < 256
  /\ MaxU64 \in Nat /\ MaxU64 >= MaxBytes
  /\ Windows \subseteq (0..MaxU64) \X (0..MaxU64)
  /\ Snapshots \subseteq Seq(Octet) /\ \A bytes \in Snapshots : Len(bytes) <= MaxU64
  /\ Lists \subseteq Seq(Commands)

VARIABLES
  snapshot, window,  \* arguments of the call
  pc,                \* idle, window, header, records, done
  payload,           \* the slice that decode works on
  count, cursor,     \* SgpuCommandList::decode; cursor counts from 0
  cmds,              \* commands decoded so far
  result             \* "ok", "malformed", "limit" or "range"

vars == <<snapshot, window, pc, payload, count, cursor, cmds, result>>

--------------------------------------------------------------------------------
(* The encoder: u64::to_le_bytes, SgpuCommand::encode, SgpuCommandList::encode. *)

LittleEndian(number) == Reverse(number)

EncodeCommand(cmd) ==
  <<cmd.tag>> \o FlattenSeq([i \in DOMAIN cmd.fields |-> LittleEndian(cmd.fields[i])])

CountBytes(n) ==
  <<n % 256, Shifted(n) % 256, Shifted(Shifted(n)) % 256, Shifted(Shifted(Shifted(n))) % 256>>

EncodeList(list) ==
  CountBytes(Len(list)) \o FlattenSeq([i \in DOMAIN list |-> EncodeCommand(list[i])])

--------------------------------------------------------------------------------
(* SgpuCommand::decode of one record.  Its fields are equally wide.           *)

Fields(tag, record) ==
  [i \in DOMAIN Widths[tag] |->
     LET width == Widths[tag][i]
     IN LittleEndian(SubSeq(record, 2 + (i - 1) * width, 1 + i * width))]

DecodeCommand(record) == [tag |-> record[1], fields |-> Fields(record[1], record)]

--------------------------------------------------------------------------------
Init ==
  /\ pc = "idle" /\ snapshot = <<>> /\ window = <<0, 0>>
  /\ payload = <<>> /\ count = 0 /\ cursor = 0 /\ cmds = <<>> /\ result = "ok"

DecodeWindow(bytes, range) ==
  /\ snapshot' = bytes /\ window' = range
  /\ pc' = "window"
  /\ UNCHANGED <<payload, count, cursor, cmds, result>>

(* The caller has seen the answer; the call leaves nothing behind.            *)
Return ==
  /\ pc = "done" /\ pc' = "idle"
  /\ snapshot' = <<>> /\ window' = <<0, 0>> /\ payload' = <<>>
  /\ count' = 0 /\ cursor' = 0 /\ cmds' = <<>> /\ result' = "ok"

Refuse(error) ==
  /\ pc' = "done" /\ result' = error /\ cmds' = <<>>
  /\ UNCHANGED <<snapshot, window, payload, count, cursor>>

Offset == window[1]
Length == window[2]

WindowTooLong ==
  pc = "window" /\ Length > MaxBytes /\ Refuse("limit")

(* checked_add overflows, or the snapshot has no such range.                  *)
WindowOutside ==
  /\ pc = "window" /\ Length <= MaxBytes
  /\ Offset + Length > MaxU64 \/ Offset + Length > Len(snapshot)
  /\ Refuse("range")

Slice ==
  /\ pc = "window" /\ Length <= MaxBytes
  /\ Offset + Length <= MaxU64 /\ Offset + Length <= Len(snapshot)
  /\ payload' = SubSeq(snapshot, Offset + 1, Offset + Length)
  /\ pc' = "header"
  /\ UNCHANGED <<snapshot, window, count, cursor, cmds, result>>

PayloadCount == payload[1] + 256 * (payload[2] + 256 * (payload[3] + 256 * payload[4]))

NoHeader ==
  pc = "header" /\ Len(payload) < HeaderSize /\ Refuse("malformed")

TooMany ==
  /\ pc = "header" /\ Len(payload) >= HeaderSize
  /\ PayloadCount > MaxCommands
  /\ Refuse("limit")

(* The payload cannot hold so many records of the shortest kind.              *)
Unbacked(n) == n > (Len(payload) - HeaderSize) \div MinRecord

CountUnbacked ==
  /\ pc = "header" /\ Len(payload) >= HeaderSize
  /\ PayloadCount <= MaxCommands /\ Unbacked(PayloadCount)
  /\ Refuse("malformed")

(* The count is accepted: room for all commands is reserved at once.          *)
Reserve ==
  /\ pc = "header" /\ Len(payload) >= HeaderSize
  /\ PayloadCount <= MaxCommands /\ ~Unbacked(PayloadCount)
  /\ count' = PayloadCount /\ cursor' = HeaderSize /\ pc' = "records"
  /\ UNCHANGED <<snapshot, window, payload, cmds, result>>

(* The tag under the cursor is there and known, and so is its whole record.   *)
TagAt(i) == payload[i + 1]
WholeRecord ==
  /\ cursor < Len(payload) /\ TagAt(cursor) \in DOMAIN Widths
  /\ cursor + RecordLength[TagAt(cursor)] <= Len(payload)

Record ==
  /\ pc = "records" /\ Len(cmds) < count /\ WholeRecord
  /\ LET end == cursor + RecordLength[TagAt(cursor)]
     IN /\ cmds' = Append(cmds, DecodeCommand(SubSeq(payload, cursor + 1, end)))
        /\ cursor' = end
  /\ UNCHANGED <<snapshot, window, pc, payload, count, result>>

BadRecord ==
  pc = "records" /\ Len(cmds) < count /\ ~WholeRecord /\ Refuse("malformed")

TrailingBytes ==
  pc = "records" /\ Len(cmds) = count /\ cursor # Len(payload) /\ Refuse("malformed")

(* Faulty variant: bytes after the last record are ignored.                   *)
AcceptPrefix ==
  /\ pc = "records" /\ Len(cmds) = count
  /\ pc' = "done" /\ result' = "ok"
  /\ UNCHANGED <<snapshot, window, payload, count, cursor, cmds>>

Accept ==
  /\ pc = "records" /\ Len(cmds) = count /\ cursor = Len(payload)
  /\ pc' = "done" /\ result' = "ok"
  /\ UNCHANGED <<snapshot, window, payload, count, cursor, cmds>>

Next ==
  \/ pc = "idle" /\ \E bytes \in Snapshots, range \in Windows : DecodeWindow(bytes, range)
  \/ WindowTooLong \/ WindowOutside \/ Slice
  \/ NoHeader \/ TooMany \/ CountUnbacked \/ Reserve
  \/ Record \/ BadRecord \/ TrailingBytes \/ Accept \/ Return

Spec == Init /\ [][Next]_vars

--------------------------------------------------------------------------------
(* Properties.                                                                *)

Named == SubSeq(snapshot, Offset + 1, Offset + Length)

Encodings == {<<list, EncodeList(list)>> : list \in Lists}

(* Decoding inverts encoding.  An accepted list encodes to exactly the bytes  *)
(* the window names: nothing is left over, nothing is read beyond it, and no  *)
(* second payload means the same list.  And what the encoder makes of a list  *)
(* within the limit is decoded to that list when the window names it.         *)
DecodesExactly ==
  pc = "done" =>
    /\ result = "ok" => Offset + Length <= Len(snapshot) /\ EncodeList(cmds) = Named
    /\ \A e \in Encodings :
         /\ Len(e[1]) <= MaxCommands
         /\ Offset + Length <= Len(snapshot) /\ Named = e[2]
         => result = "ok" /\ cmds = e[1]

================================================================================
