---------------------------- MODULE Type2Content ----------------------------
(***************************************************************************)
(* What can stand on a Type 2 tag, and what reading it again finds.  Any   *)
(* bytes, added one at a time, are given to the TLV operators; messages of *)
(* any length are wrapped and read back; and fields are edited, and the    *)
(* message that is built of them is read back.                             *)
(***************************************************************************)
EXTENDS Type2Editor

CONSTANTS Alphabet,       \* bytes the strings are made of
          MaxLength,      \* bound: length of the longest string
          PayloadLengths  \* payload lengths that are wrapped

ASSUME ContentConstants == /\ Alphabet \subseteq Byte
                           /\ PayloadLengths \subseteq 0..(256 * 256 - 1)

VARIABLES bytes, size
content == <<bytes, size, fields>>

ContentInit == bytes = <<>> /\ size = 0 /\ EditorInit
Untouched == fields = FirstFields
Grow == /\ size = 0 /\ Untouched
        /\ Len(bytes) < MaxLength
        /\ \E b \in Alphabet : bytes' = Append(bytes, b)
        /\ UNCHANGED <<size, fields>>
Wrap == /\ bytes = <<>> /\ size = 0 /\ Untouched
        /\ size' \in PayloadLengths
        /\ UNCHANGED <<bytes, fields>>
Edit == /\ bytes = <<>> /\ size = 0
        /\ EditorNext
        /\ UNCHANGED <<bytes, size>>
ContentNext == Grow \/ Wrap \/ Edit
ContentSpec == ContentInit /\ [][ContentNext]_content
-----------------------------------------------------------------------------
(* What parse_type2_tlvs says of the bytes, with a definition of its own   *)
(* of where a TLV may end: TLVs start at 0, each is followed by the next   *)
(* or by the end of the bytes, and only a terminator by neither.           *)
EndsAfter(c) ==       \* offsets at which a record that starts at c may end
  LET byte(k) == bytes[c + k]
      rest == Len(bytes) - c
  IN  CASE byte(1) = 0   -> {c + 1}
        [] byte(1) = 254 -> {}
        [] byte(1) \notin {0, 254} /\ rest >= 2 /\ byte(2) # 255 ->
             {c + 2 + byte(2)}
        [] byte(1) \notin {0, 254} /\ rest >= 4 /\ byte(2) = 255 ->
             {c + 4 + 256 * byte(3) + byte(4)}
        [] OTHER -> {Len(bytes) + 1}
Tiles(offsets) ==
  /\ 0 \in offsets \cup {Len(bytes)}
  /\ \A c \in offsets : EndsAfter(c) \subseteq offsets \cup {Len(bytes)}
  /\ \A c \in offsets \ {0} : \E d \in offsets : c \in EndsAfter(d)

(* parse_type2_tlvs accepts exactly the bytes that can be tiled, and its   *)
(* records start exactly at the tiles.                                     *)
ParseIsTheTiling ==
  LET tilings == {S \in SUBSET (0..(Len(bytes) - 1)) : Tiles(S)}
      parsed == {r.offset : r \in Parse(bytes).records}
  IN  IF Parse(bytes).ok THEN tilings = {parsed} ELSE tilings = {}

(* Clearing an area in place keeps what clear_ndef_tlv_area promises.      *)
ClearKeepsOthers == Parse(bytes).ok => ClearsOnlyNdef(bytes)

(* What the builder wraps the reader finds, at every length, with the      *)
(* short and the long form of the length and any zero padding.             *)
WrapReadsBack ==
  LET message == [i \in 1..size |-> i % 256]
  IN  \A pad \in {0, 1, 3} : ReadsBack(message, pad)
=============================================================================
