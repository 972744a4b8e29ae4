------------------------------ MODULE Type2Tag ------------------------------
(***************************************************************************)
(* An NFC Type 2 tag as the workflows see it through the Proxmark3: pages  *)
(* of four bytes, the memory profile (type2.py), the binary dump and what  *)
(* parsing it demands (nfc_type2/dump.py), the check of protected pages    *)
(* and the splitting of page writes into batches (workflows/common.py).    *)
(* Pages 0..2 of a tag are its UID and static lock; no command of the      *)
(* workflows addresses them and a dump names them by the tag's identity.   *)
(***************************************************************************)
EXTENDS Type2Tlv, FiniteSets

CONSTANTS Tags,       \* the tags that may be put on the antenna
          NdefLast,   \* last page of the NDEF area (Type2Profile.ndef_last_page)
          UserLast,   \* last user page (Type2Profile.user_last_page)
          MaxPage,    \* last page of the dump: locks and configuration follow
                      \* the user pages (Type2Profile.max_page)
          BatchSize,  \* PM3_PIPE_PAGE_BATCH: pages per PM3 command line
          NoDump      \* stands for Python's None where a dump may be

NdefFirst == 4        \* Type2Profile.ndef_first_page of every profile
CcPage    == 3        \* the capability container

Page     == CcPage..MaxPage
NdefPage == NdefFirst..NdefLast
UserPage == NdefFirst..UserLast
PageData == [1..4 -> Byte]
Image    == [Page -> PageData]
Dump     == [uid : Tags, page : Image]

ASSUME Geometry ==
  /\ NdefLast \in Nat /\ UserLast \in Nat /\ MaxPage \in Nat
  /\ NdefFirst <= NdefLast /\ NdefLast <= UserLast /\ UserLast < MaxPage
  /\ BatchSize \in Nat \ {0}
  /\ NoDump \notin Dump

ZeroPage == [b \in 1..4 |-> 0]
Capacity == 4 * (NdefLast - NdefFirst + 1)     \* ndef_capacity, in bytes

(* The bytes of the given pages, in order: dump.pages[first*4:(last+1)*4]. *)
Bytes(image, first, last) ==
  [i \in 1..(4 * (last - first + 1)) |->
     image[first + (i - 1) \div 4][((i - 1) % 4) + 1]]
NdefArea(image) == Bytes(image, NdefFirst, NdefLast)

(* _bytes_to_pages: what page p holds once data, padded with zeros, starts *)
(* at the first NDEF page; and the pages that data alone, padded to a      *)
(* whole page, extends over.                                               *)
PageOf(data, p) ==
  [b \in 1..4 |-> LET i == 4 * (p - NdefFirst) + b
                  IN  IF i <= Len(data) THEN data[i] ELSE 0]
PagesOfArea(data) == UserPage      \* mutant: plans the whole user area
PagesCovered(data) == {p \in NdefPage : 4 * (p - NdefFirst) < Len(data)}

(* parse_mfu_dump also parses the TLVs of the area that the capability     *)
(* container declares, and raises when they are malformed.                 *)
DeclaredBytes(image) ==
  IF image[CcPage][1] \in {225, 241} THEN 8 * image[CcPage][3] ELSE 0
DumpParses(image) ==
  LET all == Bytes(image, NdefFirst, MaxPage)
      declared == DeclaredBytes(image)
  IN  Parse(SubSeq(all, 1, IF declared < Len(all) THEN declared ELSE Len(all))).ok

PagesUnchanged(before, after, affectedLast) ==    \* mutant: forgets the UID
  \A p \in Page \ (NdefFirst..affectedLast) : after.page[p] = before.page[p]

(* _type2_protected_unchanged.                                             *)
ProtectedUnchanged(before, after, affectedLast) ==
  /\ after.uid = before.uid
  /\ \A p \in Page \ (NdefFirst..affectedLast) : after.page[p] = before.page[p]

(* The next batch of _write_pages: the lowest pages still to be written.   *)
NextBatch(pages) ==
  {p \in pages : Cardinality({q \in pages : q < p}) < BatchSize}

(* The tag memories after the given pages of one tag took the new data.    *)
Stored(memory, tag, pages, data) ==
  [memory EXCEPT ![tag] =
     [p \in Page |-> IF p \in pages THEN data[p] ELSE memory[tag][p]]]

=============================================================================
