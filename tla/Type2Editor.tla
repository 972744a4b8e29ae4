---------------------------- MODULE Type2Editor ----------------------------
(***************************************************************************)
(* The editor for the content of a Type 2 tag (ui/type2_editor.py): its    *)
(* list of fields, what a restart leaves of it (ui/option_state.py), and   *)
(* the message that is built of it (nfc_type2/builder.py).                 *)
(***************************************************************************)
EXTENDS NdefMessage

CONSTANTS Layout,     \* the builtin fields, in their first order
          Label,      \* builtin -> the name the window shows for it
          FirstValue, \* builtin -> its first value
          FirstName,  \* the name of a new field
          Names, Texts, Urls,     \* what the user may type
          Language,
          TagCapacity, \* bytes of the NDEF area
          MaxFields   \* bound

KindOf(id) == IF id = "url" THEN "uri" ELSE "text"
Kinds == {"text", "uri"}
Builtin(id, value, write) ==
  [id |-> id, name |-> Label[id], kind |-> KindOf(id), value |-> value,
   write |-> write /\ KindOf(id) # "uri"]
Custom(name, kind, value, write) ==
  [id |-> "custom", name |-> name, kind |-> kind, value |-> value,
   write |-> write /\ kind # "uri"]

ASSUME EditorConstants ==
  /\ Layout \in Seq(STRING)
  /\ \A i \in DOMAIN Layout : /\ Layout[i] # "custom"
                            /\ Label[Layout[i]] \in Seq(Byte)
                            /\ FirstValue[Layout[i]] \in Seq(Byte)
  /\ FirstName \in Seq(Byte)
  /\ \A text \in Names \cup Texts \cup Urls : text \in Seq(Byte)
  /\ Language \in Seq(Byte) /\ Len(Language) < 64       \* _language_bytes
  /\ TagCapacity \in Nat /\ TagCapacity < 256 * 256

VARIABLE fields

FirstFields ==
  [i \in DOMAIN Layout |->
     Builtin(Layout[i], FirstValue[Layout[i]], Layout[i] = "purchase")]
EditorInit == fields = FirstFields

(* _add_custom_field refuses a second URI.                                 *)
AddField(kind) ==
  /\ Len(fields) < MaxFields
  /\ kind = "uri" => \A i \in DOMAIN fields : fields[i].kind # "uri"
  /\ fields' = Append(fields, Custom(FirstName, kind, <<>>, TRUE))
RemoveField(i) ==
  fields' = SubSeq(fields, 1, i - 1) \o SubSeq(fields, i + 1, Len(fields))
MoveDown(i) ==     \* and up, seen from the other field
  /\ i < Len(fields)
  /\ fields' = [fields EXCEPT ![i] = fields[i + 1], ![i + 1] = fields[i]]

(* The entries and the box of a row.                                       *)
TypeValue(i) ==
  \E value \in IF fields[i].kind = "uri" THEN Urls ELSE Texts :
    fields' = [fields EXCEPT ![i].value = value]
TypeName(i) ==
  /\ fields[i].id = "custom"
  /\ \E name \in Names : fields' = [fields EXCEPT ![i].name = name]
TickWrite(i) ==
  /\ fields[i].kind = "text"
  /\ fields' = [fields EXCEPT ![i].write = ~ @]
-----------------------------------------------------------------------------
White(c) == c \in {Break, Space}
Strip(text) ==
  LET solid == {i \in DOMAIN text : ~ White(text[i])}
      first == CHOOSE i \in solid : \A j \in 1..(i - 1) : White(text[j])
      last  == CHOOSE i \in solid : \A j \in (i + 1)..Len(text) : White(text[j])
  IN  IF solid = {} THEN <<>> ELSE SubSeq(text, first, last)

(* _serialize_type2_fields and _load_type2_fields.                         *)
Serialized(list) ==
  [i \in DOMAIN list |->
     [list[i] EXCEPT !.name = IF list[i].id = "custom" THEN @ ELSE <<>>]]
Named(item) == item.id # "custom" \/ Strip(item.name) # <<>>
LoadedUnticked(item) ==      \* mutant: the box of a builtin is not restored
  IF item.id # "custom" THEN Builtin(item.id, item.value, FALSE)
  ELSE Custom(Strip(item.name), item.kind, item.value, item.write)
Loaded(item) ==
  IF item.id # "custom" THEN Builtin(item.id, item.value, item.write)
  ELSE Custom(Strip(item.name), item.kind, item.value, item.write)
Load(data) ==
  LET Upto[n \in 0..Len(data)] ==
        IF n = 0 THEN <<>>
        ELSE IF Named(data[n]) THEN Append(Upto[n - 1], Loaded(data[n]))
        ELSE Upto[n - 1]
  IN  Upto[Len(data)]
Restart == fields' = Load(Serialized(fields))

EditorNext == \/ \E kind \in Kinds : AddField(kind)
              \/ \E i \in DOMAIN fields : \/ RemoveField(i) \/ MoveDown(i)
                                          \/ TypeValue(i) \/ TypeName(i) \/ TickWrite(i)
              \/ Restart
-----------------------------------------------------------------------------
(* build_type2_ndef.  Values are looked up by name for the check of their  *)
(* characters: of fields with one name, only the last is seen.             *)
Normalized(list) ==
  [i \in DOMAIN list |->
     [list[i] EXCEPT !.name = Strip(@), !.value = Strip(@)]]
SeenByCheck(list) ==
  {i \in DOMAIN list : \A j \in i + 1 .. Len(list) : list[j].name # list[i].name}
Clean(text)  == \A i \in DOMAIN text : text[i] >= 32
ValidUrl(url) == Len(url) > 1 /\ Lower(url[1]) \in {Http, Https}
Accepted(list) ==      \* of normalized fields
  /\ list # <<>>
  /\ \A i \in DOMAIN list : /\ list[i].name # <<>> /\ list[i].value # <<>>
                            /\ Len(list[i].name) <= 80
  /\ \A i \in SeenByCheck(list) : Clean(list[i].name) /\ Clean(list[i].value)
  /\ \A i, j \in DOMAIN list : list[i].kind = "uri" /\ list[j].kind = "uri" => i = j
  /\ \A i \in DOMAIN list : list[i].kind = "uri" => ValidUrl(list[i].value)

Line(field) ==
  IF field.kind = "text" /\ field.write
  THEN field.name \o <<Space>> \o field.value ELSE field.value

(* flush_text: text fields in a row make one record, a URI one of its own. *)
Put(records, field) ==
  LET n == Len(records)
  IN  IF field.kind = "uri"
      THEN Append(records, [type |-> UriType, payload |-> UriPayload(field.value)])
      ELSE IF n > 0 /\ records[n].type = TextType
      THEN [records EXCEPT ![n].payload = @ \o <<Break>> \o Line(field)]
      ELSE Append(records, [type |-> TextType,
                            payload |-> TextPayload(Language, Line(field))])
Records(list) ==
  LET Upto[n \in 0..Len(list)] ==
        IF n = 0 THEN <<>> ELSE Put(Upto[n - 1], list[n])
  IN  Upto[Len(list)]

(* <<the TLV for the tag>>, or <<>> where the code raises ValueError.      *)
Build(list) ==
  LET normalized == Normalized(list)
      tlv == WrapTlv(EncodeMessage(Records(normalized)))
  IN  IF Accepted(normalized) /\ Len(tlv) <= TagCapacity THEN <<tlv>> ELSE <<>>
-----------------------------------------------------------------------------
(* "Build an NDEF message that preserves the exact GUI field order"        *)
(* (nfc_type2/builder.py:55): of whatever is written the reader shows the  *)
(* trimmed text of each field, in the order of the editor and each on a    *)
(* line of its own; only what a URL starts with comes back in small        *)
(* letters.                                                                *)
ShownUrl(url) ==
  [i \in DOMAIN url |-> IF i = 1 \/ (i = 2 /\ Lower(url[2]) = Www) THEN Lower(url[i]) ELSE url[i]]
JoinLines(texts) ==
  LET Upto[n \in 0..Len(texts)] ==
        IF n = 0 THEN <<>> ELSE Upto[n - 1] \o <<Break>> \o texts[n]
  IN  Upto[Len(texts)]
EditorReadsBack ==
  LET built  == Build(fields)
      list   == Normalized(fields)
      found  == NdefMessage(built[1])
      parsed == ParseMessage(found[1])
      shown  == [i \in DOMAIN parsed.records |-> Decoded(parsed.records[i])]
      lines  == [i \in DOMAIN list |->
                   IF list[i].kind = "uri" THEN ShownUrl(list[i].value) ELSE Line(list[i])]
  IN  built # <<>> =>
        /\ found # <<>> /\ parsed.ok
        /\ \A i \in DOMAIN shown : shown[i] # <<>>
        /\ JoinLines([i \in DOMAIN shown |-> shown[i][1]]) = JoinLines(lines)

(* A restart, which drops fields without a name and trims the names of the *)
(* others, does not change the message of the tag.                         *)
RestartKeepsMessage ==
  LET built == Build(fields)
  IN  built # <<>> => Build(Load(Serialized(fields))) = built
=============================================================================
