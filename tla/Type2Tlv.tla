------------------------------ MODULE Type2Tlv ------------------------------
(***************************************************************************)
(* NFC Forum Type 2 TLV blocks (nfc_type2/tlv.py) and the NDEF wrapper of  *)
(* nfc_type2/builder.py, as operators on sequences of bytes.  Offsets are  *)
(* counted from 0, as in the code; a Python exception is the value         *)
(* Malformed, a Python None is the empty sequence.                         *)
(***************************************************************************)
EXTENDS Integers, Sequences

Byte       == 0..255
NullType   == 0      \* 0x00
NdefType   == 3      \* 0x03
Terminator == 254    \* 0xFE
LongLength == 255    \* 0xFF announces a two-byte length

At(data, offset)      == data[offset + 1]
Slice(data, from, to) == SubSeq(data, from + 1, to)   \* data[from:to]
Zeros(n)              == [i \in 1..n |-> 0]

(***************************************************************************)
(* The header of the TLV at cursor c: where its value starts, how long the *)
(* value is, and whether header and value lie inside the data.             *)
(***************************************************************************)
IsLong(data, c)     == At(data, c + 1) = LongLength
ValueStart(data, c) == IF IsLong(data, c) THEN c + 4 ELSE c + 2
ValueLength(data, c) ==
  IF IsLong(data, c) THEN 256 * At(data, c + 2) + At(data, c + 3)
                     ELSE At(data, c + 1)
WellFramedShort(data, c) ==    \* mutant: a value may not reach the end
  /\ c + 2 <= Len(data)
  /\ IsLong(data, c) => c + 4 <= Len(data)
  /\ ValueStart(data, c) + ValueLength(data, c) < Len(data)
WellFramed(data, c) ==
  /\ c + 2 <= Len(data)
  /\ IsLong(data, c) => c + 4 <= Len(data)
  /\ ValueStart(data, c) + ValueLength(data, c) <= Len(data)

Record(type, offset, start, end) ==
  [type |-> type, offset |-> offset, start |-> start, end |-> end]
Malformed == [ok |-> FALSE, records |-> {}]

(* The TLV at cursor c; padding and the terminator have a type only.       *)
TlvAt(data, c) ==
  LET type == At(data, c)
      start == ValueStart(data, c)
  IN  IF type \in {NullType, Terminator} THEN Record(type, c, c + 1, c + 1)
      ELSE Record(type, c, start, start + ValueLength(data, c))
Framed(data, c) == At(data, c) \in {NullType, Terminator} \/ WellFramed(data, c)

(* The TLVs from cursor c on, where From has those from each later cursor. *)
ParseAt(data, From, c) ==
  LET record == TlvAt(data, c)
      rest == From[record.end]
  IN  IF c = Len(data) THEN [ok |-> TRUE, records |-> {}]
      ELSE IF ~ Framed(data, c) THEN Malformed
      ELSE IF record.type = Terminator THEN [ok |-> TRUE, records |-> {record}]
      ELSE IF rest.ok THEN [ok |-> TRUE, records |-> {record} \cup rest.records]
      ELSE Malformed

(* parse_type2_tlvs: the TLVs up to the first terminator, as a set: in the *)
(* list they have the order of their offsets.                              *)
Parse(data) ==
  LET From[c \in 0..Len(data)] == ParseAt(data, From, c)
  IN  From[0]

NdefRecords(data) == {r \in Parse(data).records : r.type = NdefType}

(* extract_ndef_tlv: <<payload>> of the first NDEF TLV, or <<>>.           *)
NdefMessage(data) ==
  LET found == NdefRecords(data)
      first == CHOOSE r \in found : \A q \in found : r.offset <= q.offset
  IN  IF found = {} THEN <<>> ELSE <<Slice(data, first.start, first.end)>>

(* Mutant: only the length byte is cleared.                                *)
ClearLength(data) ==
  [ok |-> Parse(data).ok, had |-> NdefRecords(data) # {},
   data |-> [i \in 1..Len(data) |->
     IF \E r \in NdefRecords(data) : r.offset = i - 2 THEN 0 ELSE data[i]]]

(***************************************************************************)
(* clear_ndef_tlv_area: every NDEF TLV keeps its type and offset, its      *)
(* length byte and all it occupied after that become zero, nothing moves.  *)
(***************************************************************************)
ClearNdef(data) ==
  LET Cleared(offset) == \E r \in NdefRecords(data) : r.offset < offset /\ offset < r.end
  IN  [ok   |-> Parse(data).ok,
       had  |-> NdefRecords(data) # {},
       data |-> [i \in 1..Len(data) |-> IF Cleared(i - 1) THEN 0 ELSE data[i]]]

(***************************************************************************)
(* What its docstring promises of an area that parses: the cleared area    *)
(* parses, holds no NDEF payload and no byte of one, and every TLV that is *)
(* not NDEF is byte for byte where it was.                                 *)
(***************************************************************************)
Others(records) == {r \in records : r.type \notin {NullType, NdefType}}
ClearsOnlyNdef(data) ==
  LET cleared == ClearNdef(data).data
  IN  /\ Parse(cleared).ok
      /\ Others(Parse(cleared).records) = Others(Parse(data).records)
      /\ \A r \in NdefRecords(cleared) : r.start = r.end
      /\ \A r \in NdefRecords(data) : \A i \in (r.offset + 2)..r.end : cleared[i] = 0
      /\ \A r \in Others(Parse(data).records) :
           \A i \in (r.offset + 1)..r.end : i \in 1..Len(data) /\ cleared[i] = data[i]

WrapShort(ndef) ==      \* mutant: 255 still gets the short form
  LET length == IF Len(ndef) <= LongLength
                THEN <<Len(ndef)>>
                ELSE <<LongLength, Len(ndef) \div 256, Len(ndef) % 256>>
  IN  <<NdefType>> \o length \o ndef \o <<Terminator>>

(* _wrap_tlv, without its capacity check: type, length, message, FE.       *)
WrapTlv(ndef) ==
  LET length == IF Len(ndef) < LongLength
                THEN <<Len(ndef)>>
                ELSE <<LongLength, Len(ndef) \div 256, Len(ndef) % 256>>
  IN  <<NdefType>> \o length \o ndef \o <<Terminator>>

(* What the builder wraps the reader finds, whatever zeros follow.         *)
ReadsBack(ndef, pad) == NdefMessage(WrapTlv(ndef) \o Zeros(pad)) = <<ndef>>
=============================================================================
