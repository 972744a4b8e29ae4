---------------------------- MODULE NdefMessage ----------------------------
(***************************************************************************)
(* NDEF messages of text and URI records: the encoder of the editor        *)
(* (nfc_type2/builder.py), the parser of the reader (nfc_type2/records.py) *)
(* and what it shows of a record (nfc_type2/models.py), as operators on    *)
(* sequences.  A character is one element of a sequence and one byte; what *)
(* a URI starts with, in small or other letters, is one byte above 127.    *)
(***************************************************************************)
EXTENDS Type2Tlv

Break == 10                                 \* "\n"
Space == 32
Http  == 128                                \* "http://"
Https == 129                                \* "https://"
Www   == 130                                \* "www."
OtherCase(c) == c + 64                      \* written with capital letters
Lower(c)     == IF c >= 192 THEN c - 64 ELSE c

TextType == 84   \* "T"
UriType  == 85   \* "U"

(* URI_PREFIXES without tel: and mailto:, which the editor refuses.        *)
UriPrefix == [code \in 0..4 |-> CASE code = 0 -> <<>>
                                  [] code = 1 -> <<Http, Www>>
                                  [] code = 2 -> <<Https, Www>>
                                  [] code = 3 -> <<Http>>
                                  [] code = 4 -> <<Https>>]
StartsWith(url, prefix) ==
  Len(prefix) <= Len(url) /\ \A i \in DOMAIN prefix : Lower(url[i]) = prefix[i]

(* _compress_uri: the longest prefix that fits.                            *)
Compress(url) ==
  CHOOSE code \in {c \in 0..4 : StartsWith(url, UriPrefix[c])} :
    \A other \in {c \in 0..4 : StartsWith(url, UriPrefix[c])} :
      Len(UriPrefix[other]) <= Len(UriPrefix[code])
UriPayload(url) ==
  <<Compress(url)>> \o SubSeq(url, Len(UriPrefix[Compress(url)]) + 1, Len(url))
TextPayload(language, text) == <<Len(language)>> \o language \o text

(* The header: message begin, message end, chunked, short, identifier, TNF.*)
Begins(header) == header \div 128 = 1
Ends(header)   == (header \div 64) % 2 = 1
Chunked(header) == (header \div 32) % 2 = 1
Short(header)  == (header \div 16) % 2 = 1
HasId(header)  == (header \div 8) % 2 = 1
Tnf(header)    == header % 8

EncodeShort(header, type, payload) ==     \* mutant: 256 still gets the short form
  IF Len(payload) <= 256
  THEN <<header + 16, 1, Len(payload) % 256, type>> \o payload
  ELSE <<header, 1, 0, 0, Len(payload) \div 256, Len(payload) % 256, type>> \o payload
(* _encode_record, with a type of one byte and a payload below 64 KiB.     *)
Encode(header, type, payload) ==
  IF Len(payload) <= 255
  THEN <<header + 16, 1, Len(payload), type>> \o payload
  ELSE <<header, 1, 0, 0, Len(payload) \div 256, Len(payload) % 256, type>> \o payload

(* Records in order; the first begins the message, the last ends it.       *)
Coded(records, n) ==
  Encode(1 + (IF n = 1 THEN 128 ELSE 0) + (IF n = Len(records) THEN 64 ELSE 0),
         records[n].type, records[n].payload)
EncodeMessage(records) ==
  LET Part[n \in 0..Len(records)] ==
        IF n = 0 THEN <<>> ELSE Part[n - 1] \o Coded(records, n)
  IN  Part[Len(records)]
-----------------------------------------------------------------------------
(* parse_ndef_message: the record whose header is at offset c.             *)
IdAt(data, c)   == c + 2 + IF Short(At(data, c)) THEN 1 ELSE 4
BodyAt(data, c) == IdAt(data, c) + IF HasId(At(data, c)) THEN 1 ELSE 0
PayloadLength(data, c) ==
  IF Short(At(data, c)) THEN At(data, c + 2)
  ELSE 256 * (256 * (256 * At(data, c + 2) + At(data, c + 3)) + At(data, c + 4)) + At(data, c + 5)
PayloadAt(data, c) ==
  BodyAt(data, c) + At(data, c + 1) + IF HasId(At(data, c)) THEN At(data, IdAt(data, c)) ELSE 0
NextAt(data, c) == PayloadAt(data, c) + PayloadLength(data, c)
Readable(data, c) ==
  /\ ~ Chunked(At(data, c))
  /\ BodyAt(data, c) <= Len(data)
  /\ NextAt(data, c) <= Len(data)
RecordAt(data, c) ==
  [header |-> At(data, c),
   type |-> Slice(data, BodyAt(data, c), BodyAt(data, c) + At(data, c + 1)),
   payload |-> Slice(data, PayloadAt(data, c), NextAt(data, c))]

(* The records from offset c on, where From has those from each later one. *)
Unreadable == [ok |-> FALSE, records |-> <<>>]
MessageAt(data, From, c) ==
  LET record == RecordAt(data, c)
      next == NextAt(data, c)
      rest == From[next]
  IN  IF c = Len(data) THEN [ok |-> TRUE, records |-> <<>>]
      ELSE IF ~ Readable(data, c) THEN Unreadable
      ELSE IF Ends(record.header) THEN [ok |-> next = Len(data), records |-> <<record>>]
      ELSE [ok |-> rest.ok, records |-> <<record>> \o rest.records]
ParseMessage(data) ==
  LET From[c \in 0..Len(data)] == MessageAt(data, From, c)
      records == From[0].records
  IN  [ok |-> /\ From[0].ok /\ records # <<>>
              /\ Begins(records[1].header) /\ Ends(records[Len(records)].header),
       records |-> records]

(* decoded_value, as <<value>>, or <<>> for None.                          *)
Decoded(record) ==
  LET payload == record.payload
      start == 1 + (payload[1] % 64)
  IN  CASE Tnf(record.header) = 1 /\ record.type = <<UriType>> /\ payload # <<>>
             /\ payload[1] \in DOMAIN UriPrefix ->
             <<UriPrefix[payload[1]] \o Tail(payload)>>
        [] Tnf(record.header) = 1 /\ record.type = <<TextType>> /\ payload # <<>>
             /\ start <= Len(payload) ->
             <<Slice(payload, start, Len(payload))>>
        [] OTHER -> <<>>
=============================================================================
