----------------------------- MODULE MCType2Tlv -----------------------------
(***************************************************************************)
(* A small alphabet of the bytes the parser tells apart; lengths around    *)
(* the short/long boundary; and an editor with two of its builtin fields,  *)
(* whose texts take a record just below, to and beyond 255 bytes.          *)
(***************************************************************************)
EXTENDS Type2Content

Letter == 97
Long(n) == [i \in 1..n |-> Letter]
MCLayout == <<"url", "purchase">>
MCLabel == [url |-> <<85>>, purchase |-> <<66>>]
MCFirstValue == [url |-> <<Https>>, purchase |-> <<Space, Letter>>]
MCFirstName == <<70, 70>>
MCNames == {<<71, Space>>}
MCTexts == {<<Letter, Break, Letter>>, Long(250)}
MCUrls == {<<OtherCase(Https), Www, Letter>>, <<Http, Letter>>}
MCLanguage == <<101, 110>>
=============================================================================
