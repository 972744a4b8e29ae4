------------------------ MODULE Type2OperationProofs ------------------------
(***************************************************************************)
(* Lemmas and theorems the write and the erase share: what parsing,        *)
(* clearing and wrapping TLVs do to any bytes (Type2Tlv), that the records *)
(* the editor encodes are those the reader finds (NdefMessage), what this  *)
(* says of the fields of the editor and of a restart (Type2Editor,         *)
(* Type2Content), then lemmas about tags, page writes and reports.         *)
(*                                                                         *)
(* Parse, EncodeMessage, ParseMessage, Records, Load and JoinLines are     *)
(* recursive functions of a cursor or a count.  That such a function       *)
(* exists and satisfies its equation, and what follows for every cursor,   *)
(* is shown by descent, from the end of the data down to cursor 0, or by   *)
(* ascent from count 0.                                                    *)
(***************************************************************************)
EXTENDS Type2Operation, Type2Content, WellFoundedInduction, SequenceTheorems, TLAPS

(* Of numbers there is a least one, wherever there is one.                 *)
LEMMA Least ==
  ASSUME NEW T, T \subseteq Nat, T # {}
  PROVE  \E x \in T : \A y \in T : x <= y
<1>1. IsWellFoundedOn(OpToRel(<, Nat), Nat)
  BY NatLessThanWellFounded
<1>2. \A x, y \in Nat : x < y => <<x, y>> \in OpToRel(<, Nat)
  BY DEF OpToRel
<1>3. PICK R : IsWellFoundedOn(R, Nat) /\ \A x, y \in Nat : x < y => <<x, y>> \in R
  BY <1>1, <1>2, Zenon
<1>4. IsWellFoundedOn(R, Nat)
  BY <1>3
<1>5. PICK x \in T : \A y \in T : ~ (<<y, x>> \in R)
  BY <1>4, WFMin, Zenon
<1>6. \A y \in T : ~ (y < x)
  BY <1>3, <1>5
<1>7. x \in Nat /\ \A y \in T : y \in Nat
  OBVIOUS
<1> QED
  BY <1>6, <1>7

(* Descent: what holds at the top and passes down to 0 holds at 0.         *)
LEMMA Descent ==
  ASSUME NEW N \in Nat, NEW S, N \in S,
         \A n \in 1..N : n \in S => n - 1 \in S
  PROVE  0 \in S
<1> DEFINE T == S \cap (0..N)
<1>1. T \subseteq Nat /\ T # {}
  OBVIOUS
<1>2. PICK x \in T : \A y \in T : x <= y
  <2> HIDE DEF T
  <2> QED
    BY <1>1, Least
<1>3. \A y \in T : ~ (y < x)
  BY <1>1, <1>2
<1>4. ~ (x \in 1..N)
  <2>1. ASSUME x \in 1..N PROVE FALSE
    <3>1. x - 1 \in T
      BY <2>1
    <3> QED
      BY <1>3, <2>1, <3>1
  <2> QED
    BY <2>1
<1> QED
  BY <1>2, <1>4

(* Ascent: what holds at 0 and passes up to N holds at N.                  *)
LEMMA Ascent ==
  ASSUME NEW N \in Nat, NEW S, 0 \in S,
         \A n \in 1..N : n - 1 \in S => n \in S
  PROVE  N \in S
<1> DEFINE T == {k \in 0..N : N - k \in S}
<1>1. N \in T
  OBVIOUS
<1>2. ASSUME NEW k \in 1..N, k \in T PROVE k - 1 \in T
  <2>1. N - k + 1 \in 1..N /\ N - k + 1 - 1 = N - k /\ N - k + 1 = N - (k - 1)
    OBVIOUS
  <2> QED
    BY <1>2, <2>1
<1>3. 0 \in T
  <2> HIDE DEF T
  <2> QED
    BY <1>1, <1>2, Descent
<1> QED
  BY <1>3
-----------------------------------------------------------------------------
(* c is a, m long, followed by b, n long.                                  *)
IsJoin(S, c, a, m, b, n) ==
  /\ c \in Seq(S) /\ Len(c) = m + n
  /\ \A i \in 1..m : c[i] = a[i]
  /\ \A i \in 1..n : c[m + i] = b[i]

LEMMA Joined ==
  ASSUME NEW S
  PROVE  \A a, b \in Seq(S) : IsJoin(S, a \o b, a, Len(a), b, Len(b))
<1> SUFFICES ASSUME NEW a \in Seq(S), NEW b \in Seq(S)
             PROVE  IsJoin(S, a \o b, a, Len(a), b, Len(b))
  OBVIOUS
<1> DEFINE c == a \o b
           m == Len(a)
           n == Len(b)
<1>1. c \in Seq(S) /\ Len(c) = m + n
  BY ConcatProperties
<1>2. \A i \in 1..(m + n) : c[i] = IF i <= m THEN a[i] ELSE b[i - m]
  BY ConcatProperties
<1>3. m \in Nat /\ n \in Nat
  OBVIOUS
<1> HIDE DEF c, m, n
<1>4. ASSUME NEW i \in 1..m PROVE c[i] = a[i]
  <2>1. i \in 1..(m + n) /\ i <= m
    BY <1>3
  <2> QED
    BY <1>2, <2>1
<1>5. ASSUME NEW i \in 1..n PROVE c[m + i] = b[i]
  <2> DEFINE j == m + i
  <2>1. j \in 1..(m + n) /\ ~ (j <= m) /\ j - m = i
    BY <1>3
  <2> HIDE DEF j
  <2>2. c[j] = b[i]
    BY <1>2, <2>1
  <2> QED
    BY <2>2 DEF j
<1>6. IsJoin(S, c, a, m, b, n)
  BY <1>1, <1>4, <1>5 DEF IsJoin
<1> QED
  BY <1>6 DEF c, m, n

(* data holds the sequence s from offset c on.                             *)
HoldsAt(data, c, s) ==
  /\ c + Len(s) <= Len(data)
  /\ \A i \in 1..Len(s) : data[c + i] = s[i]

LEMMA SliceIs ==
  ASSUME NEW S, NEW data \in Seq(S), NEW from \in Nat, NEW s \in Seq(S),
         HoldsAt(data, from, s)
  PROVE  Slice(data, from, from + Len(s)) = s
<1> DEFINE n == Len(s)
           lo == from + 1
           hi == from + n
           t == SubSeq(data, lo, hi)
<1>1. n \in Nat /\ lo \in Int /\ hi \in Int /\ hi - lo + 1 = n
  OBVIOUS
<1>2. from + n <= Len(data) /\ \A i \in 1..n : data[from + i] = s[i]
  BY DEF HoldsAt
<1>3. \A i \in lo..hi : data[i] \in S
  <2> HIDE DEF n
  <2>1. \A i \in lo..hi : i \in 1..Len(data)
    BY <1>1, <1>2
  <2> QED
    BY <2>1
<1> HIDE DEF lo, hi
<1>4. t \in Seq(S)
  BY <1>1, <1>3, SubSeqProperties
<1>5. Len(t) = IF lo <= hi THEN hi - lo + 1 ELSE 0
  BY <1>1, <1>3, SubSeqProperties
<1>6. \A i \in 1..(hi - lo + 1) : t[i] = data[lo + i - 1]
  BY <1>1, <1>3, SubSeqProperties
<1> HIDE DEF n
<1>7. ASSUME NEW i \in 1..n PROVE t[i] = s[i]
  <2>1. t[i] = data[lo + i - 1] /\ lo + i - 1 = from + i
    BY <1>1, <1>6 DEF lo
  <2> QED
    BY <1>2, <2>1
<1> HIDE DEF t
<1>8. Len(t) = n
  BY <1>1, <1>5
<1>9. Len(s) = n
  BY DEF n
<1>10. t = s
  BY <1>4, <1>7, <1>8, <1>9, SeqEqual
<1> QED
  BY <1>10 DEF Slice, t, lo, hi, n
-----------------------------------------------------------------------------
(* A TLV that lies inside the data ends behind its start and inside the    *)
(* data.                                                                   *)
LEMMA TlvShape ==
  ASSUME NEW data \in Seq(Byte), NEW c \in 0..(Len(data) - 1), Framed(data, c)
  PROVE  LET r == TlvAt(data, c)
         IN  /\ r = Record(r.type, c, r.start, r.end)
             /\ r.type = data[c + 1] /\ r.offset = c
             /\ r.start \in Nat /\ r.end \in Nat
             /\ c < r.start /\ r.start <= r.end /\ r.end <= Len(data)
<1> DEFINE n == Len(data)
<1>1. n \in Nat /\ c \in Nat /\ c + 1 <= n /\ DOMAIN data = 1..n
  OBVIOUS
<1>2. \A i \in 1..n : data[i] \in 0..255
  <2>1. \A i \in 1..n : data[i] \in Byte
    OBVIOUS
  <2> QED
    BY <2>1 DEF Byte
<1>3. CASE At(data, c) \in {NullType, Terminator}
  <2>1. TlvAt(data, c) = Record(data[c + 1], c, c + 1, c + 1)
    BY <1>3 DEF TlvAt, At
  <2> QED
    BY <1>1, <2>1 DEF Record
<1>4. CASE At(data, c) \notin {NullType, Terminator}
  <2> DEFINE s == ValueStart(data, c)
             l == ValueLength(data, c)
  <2>1. TlvAt(data, c) = Record(data[c + 1], c, s, s + l)
    BY <1>4 DEF TlvAt, At
  <2>2. c + 2 <= n /\ (IsLong(data, c) => c + 4 <= n) /\ s + l <= n
    BY <1>4 DEF Framed, WellFramed
  <2>3. s \in Nat /\ l \in Nat /\ c < s
    <3>1. CASE IsLong(data, c)
      <4>0. data[c + 3] \in 0..255 /\ data[c + 4] \in 0..255
        BY <1>1, <1>2, <2>2, <3>1
      <4>1. PICK a \in 0..255, b \in 0..255 : data[c + 3] = a /\ data[c + 4] = b
        BY <4>0
      <4>2. s = c + 4 /\ l = 256 * a + b
        BY <1>1, <3>1, <4>1 DEF ValueStart, ValueLength, At
      <4> HIDE DEF s, l
      <4> QED
        BY <1>1, <4>1, <4>2
    <3>2. CASE ~ IsLong(data, c)
      <4>0. data[c + 2] \in 0..255
        BY <1>1, <1>2, <2>2
      <4>1. PICK a \in 0..255 : data[c + 2] = a
        BY <4>0
      <4>2. s = c + 2 /\ l = a
        BY <1>1, <3>2, <4>1 DEF ValueStart, ValueLength, At
      <4> HIDE DEF s, l
      <4> QED
        BY <1>1, <4>1, <4>2
    <3> QED
      BY <3>1, <3>2
  <2> HIDE DEF s, l
  <2> QED
    BY <1>1, <2>1, <2>2, <2>3 DEF Record
<1> QED
  BY <1>3, <1>4

(* The TLVs from a cursor on depend only on those from later cursors.      *)
LEMMA ParseAtLater ==
  ASSUME NEW data \in Seq(Byte), NEW c \in 0..Len(data), NEW f, NEW g,
         \A d \in (c + 1)..Len(data) : f[d] = g[d]
  PROVE  ParseAt(data, f, c) = ParseAt(data, g, c)
<1>1. CASE c = Len(data)
  BY <1>1 DEF ParseAt
<1>2. CASE c # Len(data) /\ ~ Framed(data, c)
  BY <1>2 DEF ParseAt
<1>3. CASE c # Len(data) /\ Framed(data, c)
  <2>1. c \in 0..(Len(data) - 1)
    BY <1>3
  <2>2. TlvAt(data, c).end \in (c + 1)..Len(data)
    BY <1>3, <2>1, TlvShape
  <2>3. f[TlvAt(data, c).end] = g[TlvAt(data, c).end]
    BY <2>2
  <2> QED
    BY <1>3, <2>3 DEF ParseAt
<1> QED
  BY <1>1, <1>2, <1>3

(* The equations of the parse have a solution, found from the end.         *)
LEMMA ParseSolvable ==
  ASSUME NEW data \in Seq(Byte)
  PROVE  \E f : f = [c \in 0..Len(data) |-> ParseAt(data, f, c)]
<1> DEFINE n == Len(data)
           S == {m \in 0..n : \E f : \A c \in m..n : f[c] = ParseAt(data, f, c)}
<1>1. n \in Nat
  OBVIOUS
<1>2. n \in S
  <2> DEFINE f == [c \in {n} |-> [ok |-> TRUE, records |-> {}]]
  <2>1. f[n] = [ok |-> TRUE, records |-> {}]
    OBVIOUS
  <2> HIDE DEF f
  <2>2. \A c \in n..n : f[c] = ParseAt(data, f, c)
    BY <1>1, <2>1 DEF ParseAt
  <2>3. n \in 0..n
    BY <1>1
  <2> QED
    BY <2>2, <2>3
<1>3. ASSUME NEW m \in 1..n, m \in S PROVE m - 1 \in S
  <2>1. PICK f : \A c \in m..n : f[c] = ParseAt(data, f, c)
    BY <1>3
  <2> DEFINE g == [c \in 0..n |-> IF c = m - 1 THEN ParseAt(data, f, m - 1) ELSE f[c]]
  <2>2. \A c \in m..n : g[c] = f[c]
    BY <1>1
  <2>3. g[m - 1] = ParseAt(data, f, m - 1)
    BY <1>1
  <2> HIDE DEF g
  <2>4. ASSUME NEW c \in (m - 1)..n PROVE g[c] = ParseAt(data, g, c)
    <3>1. c \in 0..n /\ \A d \in (c + 1)..n : f[d] = g[d]
      BY <1>1, <2>2
    <3>2. ParseAt(data, f, c) = ParseAt(data, g, c)
      BY <3>1, ParseAtLater
    <3> QED
      BY <1>1, <2>1, <2>2, <2>3, <3>2
  <2> QED
    BY <1>1, <2>4
<1>4. 0 \in S
  <2> HIDE DEF S, n
  <2> QED
    BY <1>1, <1>2, <1>3, Descent
<1>5. PICK f : \A c \in 0..n : f[c] = ParseAt(data, f, c)
  BY <1>4
<1> DEFINE g == [c \in 0..n |-> f[c]]
<1>6. \A c \in 0..n : g[c] = f[c]
  OBVIOUS
<1> HIDE DEF g
<1>7. ASSUME NEW c \in 0..n PROVE ParseAt(data, f, c) = ParseAt(data, g, c)
  <2>1. \A d \in (c + 1)..n : f[d] = g[d]
    BY <1>1, <1>6
  <2> QED
    BY <2>1, ParseAtLater
<1>8. g = [c \in 0..n |-> ParseAt(data, g, c)]
  <2>1. g = [c \in 0..n |-> f[c]]
    BY DEF g
  <2> QED
    BY <1>5, <1>7, <2>1
<1> QED
  BY <1>8

(* What the parse is: the solution at cursor 0.                            *)
LEMMA ParseUnfolds ==
  ASSUME NEW data \in Seq(Byte)
  PROVE  \E f : /\ Parse(data) = f[0]
                /\ \A c \in 0..Len(data) : f[c] = ParseAt(data, f, c)
<1> DEFINE F == CHOOSE f : f = [c \in 0..Len(data) |-> ParseAt(data, f, c)]
<1>1. F = [c \in 0..Len(data) |-> ParseAt(data, F, c)]
  BY ParseSolvable, Zenon
<1>2. Parse(data) = F[0]
  BY DEF Parse
<1> HIDE DEF F
<1>3. \A c \in 0..Len(data) : F[c] = ParseAt(data, F, c)
  BY <1>1
<1> QED
  BY <1>2, <1>3
-----------------------------------------------------------------------------
(***************************************************************************)
(* TLVs tile the data from a cursor on: each is what stands at its offset, *)
(* no two overlap, one starts at the cursor and one wherever another ends, *)
(* but for the terminator and the end of the data, and only there.         *)
(***************************************************************************)
Tiling(data, from, R) ==
  /\ \A r \in R : /\ from <= r.offset /\ r.offset \in 0..(Len(data) - 1)
                  /\ Framed(data, r.offset) /\ r = TlvAt(data, r.offset)
  /\ \A r, q \in R : r = q \/ r.end <= q.offset \/ q.end <= r.offset
  /\ \A r \in R : \/ r.type = Terminator \/ r.end = Len(data)
                  \/ \E q \in R : q.offset = r.end
  /\ from = Len(data) \/ \E r \in R : r.offset = from
  /\ \A r \in R : \/ r.offset = from
                  \/ \E q \in R : q.type # Terminator /\ q.end = r.offset
  /\ \A r, q \in R : r.type = Terminator => q.offset <= r.offset

LEMMA TilingGrows ==
  ASSUME NEW data \in Seq(Byte), NEW c \in 0..(Len(data) - 1), Framed(data, c),
         TlvAt(data, c).type # Terminator,
         NEW R, Tiling(data, TlvAt(data, c).end, R)
  PROVE  Tiling(data, c, {TlvAt(data, c)} \cup R)
<1> DEFINE t == TlvAt(data, c)
           n == Len(data)
<1>1. /\ t.offset = c /\ t.start \in Nat /\ t.end \in Nat
      /\ c < t.end /\ t.end <= n /\ n \in Nat /\ c \in Nat
  BY TlvShape
<1>2. \A r \in R : /\ t.end <= r.offset /\ r.offset \in 0..(n - 1)
                   /\ Framed(data, r.offset) /\ r = TlvAt(data, r.offset)
  BY DEF Tiling
<1>3. \A r, q \in R : r = q \/ r.end <= q.offset \/ q.end <= r.offset
  BY DEF Tiling
<1>4. \A r \in R : r.type = Terminator \/ r.end = n \/ \E q \in R : q.offset = r.end
  BY DEF Tiling
<1>5. t.end = n \/ \E r \in R : r.offset = t.end
  BY DEF Tiling
<1>6. \A r \in R : r.offset = t.end \/ \E q \in R : q.type # Terminator /\ q.end = r.offset
  BY DEF Tiling
<1>7. Framed(data, t.offset) /\ t = TlvAt(data, t.offset) /\ t.type # Terminator
  BY <1>1
<1>8. \A r, q \in R : r.type = Terminator => q.offset <= r.offset
  BY DEF Tiling
<1> HIDE DEF t, n
<1> DEFINE Q == {t} \cup R
<1>9. \A r \in Q : /\ c <= r.offset /\ r.offset \in 0..(n - 1)
                   /\ Framed(data, r.offset) /\ r = TlvAt(data, r.offset)
  <2>1. c <= t.offset /\ t.offset \in 0..(n - 1)
    BY <1>1
  <2>2. \A r \in R : c <= r.offset
    BY <1>1, <1>2
  <2> QED
    BY <1>2, <1>7, <2>1, <2>2
<1>10. \A r, q \in Q : r = q \/ r.end <= q.offset \/ q.end <= r.offset
  BY <1>2, <1>3
<1>11. \A r \in Q : r.type = Terminator \/ r.end = n \/ \E q \in Q : q.offset = r.end
  BY <1>4, <1>5
<1>12. c = n \/ \E r \in Q : r.offset = c
  BY <1>1
<1>13. \A r \in Q : r.offset = c \/ \E q \in Q : q.type # Terminator /\ q.end = r.offset
  BY <1>1, <1>6, <1>7
<1>14. \A r, q \in Q : r.type = Terminator => q.offset <= r.offset
  BY <1>1, <1>2, <1>7, <1>8
<1> QED
  BY <1>9, <1>10, <1>11, <1>12, <1>13, <1>14 DEF Tiling, t, n

(* The records of an accepted parse tile the data.                         *)
LEMMA ParseTiles ==
  ASSUME NEW data \in Seq(Byte)
  PROVE  /\ Parse(data).ok \in BOOLEAN
         /\ Parse(data).ok => Tiling(data, 0, Parse(data).records)
<1> DEFINE n == Len(data)
<1>1. PICK f : Parse(data) = f[0] /\ \A c \in 0..n : f[c] = ParseAt(data, f, c)
  BY ParseUnfolds
<1> DEFINE Holds(c) == f[c].ok \in BOOLEAN /\ (f[c].ok => Tiling(data, c, f[c].records))
           S == {m \in 0..n : \A c \in m..n : Holds(c)}
<1>2. n \in Nat
  OBVIOUS
<1>3. n \in S
  <2>1. f[n] = [ok |-> TRUE, records |-> {}]
    <3>1. n \in 0..n
      BY <1>2
    <3>2. f[n] = ParseAt(data, f, n)
      BY <1>1, <3>1
    <3> QED
      BY <3>2 DEF ParseAt
  <2>2. Holds(n)
    BY <2>1 DEF Tiling
  <2> HIDE DEF Holds
  <2> QED
    BY <1>2, <2>2
<1>4. ASSUME NEW m \in 1..n, m \in S PROVE m - 1 \in S
  <2> DEFINE c == m - 1
             t == TlvAt(data, c)
  <2>1. c \in 0..(n - 1) /\ c \in 0..n /\ c # n
    BY <1>2
  <2>2. f[c] = ParseAt(data, f, c)
    BY <1>1, <2>1
  <2>3. Holds(c)
    <3>1. CASE ~ Framed(data, c)
      <4>1. f[c].ok = FALSE
        BY <2>1, <2>2, <3>1 DEF ParseAt, Malformed
      <4> QED
        BY <4>1
    <3>2. CASE Framed(data, c) /\ t.type = Terminator
      <4>1. f[c] = [ok |-> TRUE, records |-> {t}]
        BY <2>1, <2>2, <3>2 DEF ParseAt
      <4>2. t.offset = c
        BY <2>1, <3>2, TlvShape
      <4>3. Tiling(data, c, {t})
        BY <1>2, <2>1, <3>2, <4>2 DEF Tiling
      <4> QED
        BY <4>1, <4>3
    <3>3. CASE Framed(data, c) /\ t.type # Terminator
      <4>1. t.end \in m..n
        BY <1>2, <2>1, <3>3, TlvShape
      <4>2. Holds(t.end)
        BY <1>4, <4>1
      <4>3. f[c] = IF f[t.end].ok THEN [ok |-> TRUE, records |-> {t} \cup f[t.end].records] ELSE Malformed
        BY <2>1, <2>2, <3>3 DEF ParseAt
      <4>4. CASE f[t.end].ok
        <5>1. Tiling(data, c, {t} \cup f[t.end].records)
          BY <2>1, <3>3, <4>2, <4>4, TilingGrows
        <5>2. f[c] = [ok |-> TRUE, records |-> {t} \cup f[t.end].records]
          BY <4>3, <4>4
        <5> HIDE DEF t
        <5> QED
          BY <5>1, <5>2
      <4>5. CASE ~ f[t.end].ok
        BY <4>3, <4>5 DEF Malformed
      <4> QED
        BY <4>4, <4>5
    <3> QED
      BY <3>1, <3>2, <3>3
  <2> HIDE DEF Holds
  <2>4. \A d \in (m - 1)..n : d = m - 1 \/ d \in m..n
    BY <1>2
  <2> QED
    BY <1>2, <1>4, <2>1, <2>3, <2>4
<1>5. 0 \in S
  <2> HIDE DEF S, n
  <2> QED
    BY <1>2, <1>3, <1>4, Descent
<1>6. Holds(0)
  <2> HIDE DEF Holds
  <2> QED
    BY <1>2, <1>5
<1> QED
  BY <1>1, <1>6

LEMMA TileShape ==
  ASSUME NEW data \in Seq(Byte), NEW from, NEW R, Tiling(data, from, R), NEW r \in R
  PROVE  /\ r.offset \in 0..(Len(data) - 1) /\ r.start \in Nat /\ r.end \in Nat
         /\ r.offset < r.start /\ r.start <= r.end /\ r.end <= Len(data)
         /\ r.type = data[r.offset + 1]
         /\ r = TlvAt(data, r.offset) /\ Framed(data, r.offset)
         /\ r = Record(r.type, r.offset, r.start, r.end)
<1>1. r.offset \in 0..(Len(data) - 1) /\ Framed(data, r.offset) /\ r = TlvAt(data, r.offset)
  BY DEF Tiling
<1> DEFINE t == TlvAt(data, r.offset)
<1>2. /\ t = Record(t.type, r.offset, t.start, t.end)
      /\ t.type = data[r.offset + 1]
      /\ t.start \in Nat /\ t.end \in Nat
      /\ r.offset < t.start /\ t.start <= t.end /\ t.end <= Len(data)
  BY <1>1, TlvShape
<1> HIDE DEF t
<1>3. r = t
  BY <1>1 DEF t
<1> QED
  BY <1>1, <1>2, <1>3
-----------------------------------------------------------------------------
(* A tiling from a cursor is the TLV there and a tiling from its end on,   *)
(* or, at a terminator, that TLV alone.                                    *)
LEMMA TilingSplits ==
  ASSUME NEW data \in Seq(Byte), NEW c \in 0..(Len(data) - 1), NEW R, Tiling(data, c, R)
  PROVE  LET t == TlvAt(data, c)
             rest == {r \in R : t.end <= r.offset}
         IN  /\ Framed(data, c) /\ t \in R
             /\ t.type = Terminator => R = {t}
             /\ t.type # Terminator => R = {t} \cup rest /\ Tiling(data, t.end, rest)
<1> DEFINE t == TlvAt(data, c)
           n == Len(data)
           rest == {r \in R : t.end <= r.offset}
<1>1. n \in Nat /\ c \in Nat /\ c # n
  OBVIOUS
<1>2. \A r \in R : /\ c <= r.offset /\ r.offset \in 0..(n - 1)
                   /\ Framed(data, r.offset) /\ r = TlvAt(data, r.offset)
  BY DEF Tiling
<1>3. \A r, q \in R : r = q \/ r.end <= q.offset \/ q.end <= r.offset
  BY DEF Tiling
<1>4. \A r \in R : r.type = Terminator \/ r.end = n \/ \E q \in R : q.offset = r.end
  BY DEF Tiling
<1>5. \A r \in R : r.offset = c \/ \E q \in R : q.type # Terminator /\ q.end = r.offset
  BY DEF Tiling
<1>6. \A r, q \in R : r.type = Terminator => q.offset <= r.offset
  BY DEF Tiling
<1>7. Framed(data, c) /\ t \in R /\ t.offset = c
  <2>1. PICK r \in R : r.offset = c
    BY <1>1 DEF Tiling
  <2>2. r = t /\ Framed(data, c)
    BY <1>2, <2>1
  <2> QED
    BY <2>1, <2>2
<1>8. \A r \in R : r.end \in Nat /\ r.offset < r.end
  <2>1. ASSUME NEW r \in R PROVE r.end \in Nat /\ r.offset < r.end
    BY TileShape
  <2> QED
    BY <2>1
<1>9. t.end \in Nat /\ c < t.end
  BY <1>7, <1>8
<1> HIDE DEF t, n
<1>10. ASSUME NEW r \in R PROVE r = t \/ r \in rest
  BY <1>1, <1>2, <1>3, <1>7, <1>8
<1>11. ASSUME t.type = Terminator PROVE R = {t}
  <2>1. ASSUME NEW r \in R PROVE r = t
    <3>1. r.offset <= c /\ c <= r.offset /\ r.offset \in Nat
      BY <1>2, <1>6, <1>7, <1>11
    <3>2. r.offset = c
      BY <1>1, <3>1
    <3> QED
      BY <1>2, <3>2 DEF t
  <2> QED
    BY <1>7, <2>1
<1>12. ASSUME t.type # Terminator PROVE R = {t} \cup rest /\ Tiling(data, t.end, rest)
  <2>1. R = {t} \cup rest
    BY <1>7, <1>10
  <2>2. \A r \in rest : /\ t.end <= r.offset /\ r.offset \in 0..(n - 1)
                        /\ Framed(data, r.offset) /\ r = TlvAt(data, r.offset)
    BY <1>2
  <2>3. \A r, q \in rest : r = q \/ r.end <= q.offset \/ q.end <= r.offset
    BY <1>3
  <2>4. ASSUME NEW r \in rest
        PROVE  r.type = Terminator \/ r.end = n \/ \E q \in rest : q.offset = r.end
    <3>1. r \in R /\ t.end <= r.offset /\ r.offset \in Nat
      BY <1>2
    <3>2. ASSUME NEW q \in R, q.offset = r.end PROVE q \in rest
      BY <1>8, <1>9, <3>1, <3>2
    <3> QED
      BY <1>4, <3>1, <3>2
  <2>5. t.end = n \/ \E r \in rest : r.offset = t.end
    <3>1. ASSUME NEW q \in R, q.offset = t.end PROVE q \in rest
      BY <1>9, <3>1
    <3> QED
      BY <1>4, <1>7, <1>12, <3>1
  <2>6. ASSUME NEW r \in rest
        PROVE  r.offset = t.end \/ \E q \in rest : q.type # Terminator /\ q.end = r.offset
    <3>1. r \in R /\ t.end <= r.offset /\ r.offset \in Nat
      BY <1>2
    <3>2. r.offset # c
      BY <1>1, <1>9, <3>1
    <3>3. PICK q \in R : q.type # Terminator /\ q.end = r.offset
      BY <1>5, <3>1, <3>2
    <3> QED
      BY <1>10, <3>3
  <2>7. \A r, q \in rest : r.type = Terminator => q.offset <= r.offset
    BY <1>6
  <2>8. Tiling(data, t.end, rest)
    <3> HIDE DEF rest
    <3> QED
      BY <2>2, <2>3, <2>4, <2>5, <2>6, <2>7 DEF Tiling, n
  <2> QED
    BY <2>1, <2>8
<1> QED
  BY <1>7, <1>11, <1>12 DEF t

(***************************************************************************)
(* parse_type2_tlvs accepts exactly the data that TLVs tile, and returns   *)
(* the tiling: there is no second reading of an area that parses, and no   *)
(* reading at all of one that is refused.                                  *)
(***************************************************************************)
THEOREM ParseIsTheOnlyTiling ==
  ASSUME NEW data \in Seq(Byte), NEW R
  PROVE  Tiling(data, 0, R) <=> Parse(data).ok /\ R = Parse(data).records
<1> DEFINE n == Len(data)
<1>1. n \in Nat
  OBVIOUS
<1>2. PICK f : Parse(data) = f[0] /\ \A c \in 0..n : f[c] = ParseAt(data, f, c)
  BY ParseUnfolds
<1> DEFINE Holds(c) == \A Q : Tiling(data, c, Q) => f[c].ok /\ f[c].records = Q
           S == {m \in 0..n : \A c \in m..n : Holds(c)}
<1>3. n \in S
  <2>1. ASSUME NEW Q, Tiling(data, n, Q) PROVE f[n].ok /\ f[n].records = Q
    <3>1. \A r \in Q : n <= r.offset /\ r.offset \in 0..(n - 1)
      BY <2>1 DEF Tiling
    <3>2. Q = {}
      <4> HIDE DEF n
      <4> QED
        BY <1>1, <3>1
    <3>3. f[n] = ParseAt(data, f, n)
      BY <1>1, <1>2
    <3> QED
      BY <3>2, <3>3 DEF ParseAt
  <2>2. Holds(n)
    BY <2>1
  <2> HIDE DEF Holds
  <2> QED
    BY <1>1, <2>2
<1>4. ASSUME NEW m \in 1..n, m \in S PROVE m - 1 \in S
  <2> DEFINE c == m - 1
             t == TlvAt(data, c)
  <2>1. c \in 0..(n - 1) /\ c \in 0..n /\ c # n
    BY <1>1
  <2>2. ASSUME NEW Q, Tiling(data, c, Q) PROVE f[c].ok /\ f[c].records = Q
    <3> DEFINE rest == {r \in Q : t.end <= r.offset}
    <3>1. /\ Framed(data, c) /\ t \in Q
          /\ t.type = Terminator => Q = {t}
          /\ t.type # Terminator => Q = {t} \cup rest /\ Tiling(data, t.end, rest)
      BY <2>1, <2>2, TilingSplits
    <3>2. t.end \in m..n
      <4>1. t.end \in Nat /\ c < t.end /\ t.end <= Len(data)
        BY <2>1, <3>1, TlvShape
      <4> HIDE DEF t
      <4> QED
        BY <1>1, <2>1, <4>1
    <3>3. f[c] = IF t.type = Terminator THEN [ok |-> TRUE, records |-> {t}]
                 ELSE IF f[t.end].ok THEN [ok |-> TRUE, records |-> {t} \cup f[t.end].records]
                 ELSE Malformed
      BY <1>2, <2>1, <3>1 DEF ParseAt
    <3>4. Holds(t.end)
      BY <1>4, <3>2
    <3> HIDE DEF t, rest
    <3>5. CASE t.type = Terminator
      BY <3>1, <3>3, <3>5
    <3>6. CASE t.type # Terminator
      <4>1. f[t.end].ok /\ f[t.end].records = rest
        BY <3>1, <3>4, <3>6
      <4> QED
        BY <3>1, <3>3, <3>6, <4>1
    <3> QED
      BY <3>5, <3>6
  <2>3. Holds(c)
    BY <2>2
  <2> HIDE DEF Holds
  <2>4. \A d \in (m - 1)..n : d = m - 1 \/ d \in m..n
    BY <1>1
  <2> QED
    BY <1>1, <1>4, <2>1, <2>3, <2>4
<1>5. 0 \in S
  <2> HIDE DEF S, n
  <2> QED
    BY <1>1, <1>3, <1>4, Descent
<1>6. Holds(0)
  <2> HIDE DEF Holds
  <2> QED
    BY <1>1, <1>5
<1>7. Tiling(data, 0, R) => Parse(data).ok /\ R = Parse(data).records
  BY <1>2, <1>6
<1>8. Parse(data).ok => Tiling(data, 0, Parse(data).records)
  BY ParseTiles
<1> QED
  BY <1>7, <1>8
-----------------------------------------------------------------------------
(* A TLV whose bytes are the same elsewhere is the same TLV there.         *)
LEMMA TlvSame ==
  ASSUME NEW a \in Seq(Byte), NEW b \in Seq(Byte), Len(a) = Len(b),
         NEW c \in 0..(Len(a) - 1), Framed(a, c),
         \A i \in (c + 1)..TlvAt(a, c).end : b[i] = a[i]
  PROVE  Framed(b, c) /\ TlvAt(b, c) = TlvAt(a, c)
<1> DEFINE e == TlvAt(a, c).end
<1>1. e \in Nat /\ c < e /\ e <= Len(a) /\ c \in Nat /\ Len(a) \in Nat
  BY TlvShape
<1>2. b[c + 1] = a[c + 1]
  BY <1>1
<1>3. CASE At(a, c) \in {NullType, Terminator}
  BY <1>2, <1>3 DEF Framed, TlvAt, At
<1>4. CASE At(a, c) \notin {NullType, Terminator}
  <2>1. WellFramed(a, c)
    BY <1>4 DEF Framed
  <2>2. TlvAt(a, c) = Record(At(a, c), c, ValueStart(a, c), ValueStart(a, c) + ValueLength(a, c))
    BY <1>4 DEF TlvAt
  <2>3. ValueStart(a, c) \in Nat /\ ValueStart(a, c) <= e
    BY <2>2, TlvShape DEF Record
  <2> HIDE DEF e
  <2>4. IsLong(b, c) = IsLong(a, c)
    <3>1. c + 2 <= e
      BY <1>1, <2>3 DEF ValueStart
    <3>2. b[c + 2] = a[c + 2]
      BY <1>1, <3>1 DEF e
    <3> QED
      BY <1>1, <3>2 DEF IsLong, At
  <2>5. ValueStart(b, c) = ValueStart(a, c) /\ ValueLength(b, c) = ValueLength(a, c)
    <3>1. CASE IsLong(a, c)
      <4>1. c + 4 <= e
        BY <1>1, <2>3, <3>1 DEF ValueStart
      <4>2. b[c + 3] = a[c + 3] /\ b[c + 4] = a[c + 4]
        BY <1>1, <4>1 DEF e
      <4>3. c + 2 + 1 = c + 3 /\ c + 3 + 1 = c + 4
        BY <1>1
      <4> QED
        BY <2>4, <3>1, <4>2, <4>3 DEF ValueStart, ValueLength, At
    <3>2. CASE ~ IsLong(a, c)
      <4>1. c + 2 <= e
        BY <1>1, <2>3, <3>2 DEF ValueStart
      <4>2. b[c + 2] = a[c + 2] /\ c + 1 + 1 = c + 2
        BY <1>1, <4>1 DEF e
      <4> QED
        BY <2>4, <3>2, <4>2 DEF ValueStart, ValueLength, At
    <3> QED
      BY <3>1, <3>2
  <2>6. At(b, c) = At(a, c)
    BY <1>2 DEF At
  <2> QED
    BY <1>4, <2>1, <2>2, <2>4, <2>5, <2>6 DEF Framed, WellFramed, TlvAt
<1> QED
  BY <1>3, <1>4
-----------------------------------------------------------------------------
(* Clearing keeps the number of bytes, and makes bytes of bytes.           *)
LEMMA ClearedBytes ==
  ASSUME NEW area \in Seq(Byte)
  PROVE  /\ ClearNdef(area).data \in Seq(Byte) /\ Len(ClearNdef(area).data) = Len(area)
         /\ \A i \in 1..Len(area) :
              ClearNdef(area).data[i] =
                IF \E r \in NdefRecords(area) : r.offset < i - 1 /\ i - 1 < r.end THEN 0 ELSE area[i]
<1> DEFINE hit(i) == \E r \in NdefRecords(area) : r.offset < i - 1 /\ i - 1 < r.end
<1>1. ClearNdef(area).data = [i \in 1..Len(area) |-> IF hit(i) THEN 0 ELSE area[i]]
  <2>1. ClearNdef(area) = [ok |-> Parse(area).ok, had |-> NdefRecords(area) # {},
                           data |-> [i \in 1..Len(area) |-> IF hit(i) THEN 0 ELSE area[i]]]
    BY Zenon DEF ClearNdef
  <2> HIDE DEF hit
  <2> QED
    BY <2>1
<1>2. \A i \in 1..Len(area) : ClearNdef(area).data[i] = IF hit(i) THEN 0 ELSE area[i]
  BY <1>1
<1> HIDE DEF hit
<1>3. \A i \in 1..Len(area) : (IF hit(i) THEN 0 ELSE area[i]) \in Byte
  <2>1. 0 \in Byte
    BY DEF Byte
  <2>2. \A i \in 1..Len(area) : area[i] \in Byte
    OBVIOUS
  <2> QED
    BY <2>1, <2>2
<1>4. ClearNdef(area).data \in Seq(Byte) /\ Len(ClearNdef(area).data) = Len(area)
  BY <1>1, <1>3
<1> QED
  BY <1>2, <1>4 DEF hit

(* What the clearing does to the bytes of each TLV of the area.            *)
LEMMA ClearedTiles ==
  ASSUME NEW data \in Seq(Byte), Parse(data).ok, NEW r \in Parse(data).records
  PROVE  LET cleared == ClearNdef(data).data
         IN  /\ cleared[r.offset + 1] = data[r.offset + 1]
             /\ r.type = NdefType => \A i \in (r.offset + 2)..r.end : cleared[i] = 0
             /\ r.type # NdefType => \A i \in (r.offset + 1)..r.end : cleared[i] = data[i]
<1> DEFINE R == Parse(data).records
           n == Len(data)
           cleared == ClearNdef(data).data
<1>1. Tiling(data, 0, R)
  BY ParseTiles
<1>2. \A q \in R : /\ q.offset \in 0..(n - 1) /\ q.end \in Nat /\ q.start \in Nat
                   /\ q.offset < q.end /\ q.end <= n
  BY <1>1, TileShape
<1>3. \A q, p \in R : q = p \/ q.end <= p.offset \/ p.end <= q.offset
  BY <1>1 DEF Tiling
<1>4. \A i \in 1..n : cleared[i] = IF \E q \in R : q.type = NdefType /\ q.offset < i - 1 /\ i - 1 < q.end
                                   THEN 0 ELSE data[i]
  BY ClearedBytes DEF NdefRecords
<1>5. n \in Nat /\ r \in R
  OBVIOUS
<1> HIDE DEF R, n, cleared
<1>6. cleared[r.offset + 1] = data[r.offset + 1]
  <2>1. PICK i \in 1..n : i = r.offset + 1 /\ i - 1 = r.offset
    BY <1>2, <1>5
  <2>2. ~ \E q \in R : q.type = NdefType /\ q.offset < r.offset /\ r.offset < q.end
    BY <1>2, <1>3, <1>5
  <2> QED
    BY <1>4, <2>1, <2>2
<1>7. ASSUME r.type = NdefType, NEW i \in (r.offset + 2)..r.end
      PROVE  cleared[i] = 0
  <2>1. i \in 1..n /\ r.offset < i - 1 /\ i - 1 < r.end
    BY <1>2, <1>5
  <2> QED
    BY <1>4, <1>5, <1>7, <2>1
<1>8. ASSUME r.type # NdefType, NEW i \in (r.offset + 1)..r.end
      PROVE  cleared[i] = data[i]
  <2>1. i \in 1..n /\ r.offset <= i - 1 /\ i - 1 < r.end
    BY <1>2, <1>5
  <2>2. ASSUME NEW q \in R, q.type = NdefType, q.offset < i - 1, i - 1 < q.end
        PROVE  FALSE
    <3>1. q # r
      BY <1>8, <2>2
    <3> QED
      BY <1>2, <1>3, <1>5, <2>1, <2>2, <3>1
  <2> QED
    BY <1>4, <2>1, <2>2
<1> QED
  BY <1>6, <1>7, <1>8 DEF cleared

(* Where the parse of the cleared area comes by: where the TLVs began, and *)
(* the padding that the NDEF TLVs have become.                             *)
Padding(data, c) == \E r \in NdefRecords(data) : r.offset + 2 <= c /\ c < r.end
Visited(data, c) == \/ c = Len(data) \/ Padding(data, c)
                    \/ \E r \in Parse(data).records : r.offset = c
From(records, c) == {r \in records : c <= r.offset}

LEMMA VisitedOn ==
  ASSUME NEW data \in Seq(Byte), Parse(data).ok, NEW r \in Parse(data).records,
         r.type # Terminator
  PROVE  Visited(data, r.end)
BY ParseTiles DEF Tiling, Visited

(* The step of the descent through the cleared area: the parse goes on     *)
(* from each cursor it comes by with what the area held there, or with     *)
(* padding, and to a cursor it comes by.                                   *)
LEMMA ClearedTlv ==
  ASSUME NEW data \in Seq(Byte), Parse(data).ok,
         NEW c \in 0..(Len(data) - 1), Visited(data, c)
  PROVE  LET cleared == ClearNdef(data).data
             t == TlvAt(cleared, c)
             R == Others(Parse(data).records)
         IN  /\ Framed(cleared, c)
             /\ t.type = NdefType => t.start = t.end
             /\ t.type # Terminator => /\ Visited(data, t.end)
                                       /\ From(R, c) = Others({t}) \cup From(R, t.end)
             /\ t.type = Terminator => From(R, c) = Others({t})
<1> DEFINE cleared == ClearNdef(data).data
           t == TlvAt(cleared, c)
           R == Parse(data).records
           n == Len(data)
<1>1. n \in Nat /\ c \in Nat /\ c < n /\ cleared \in Seq(Byte) /\ Len(cleared) = n
  BY ClearedBytes
<1>2. Tiling(data, 0, R)
  BY ParseTiles
<1>3. \A q \in R : /\ q.offset \in 0..(n - 1) /\ q.end \in Nat /\ q.start \in Nat
                   /\ q.offset < q.end /\ q.start <= q.end /\ q.end <= n
                   /\ q.type = data[q.offset + 1]
  BY <1>2, TileShape
<1>4. \A q, p \in R : q = p \/ q.end <= p.offset \/ p.end <= q.offset
  BY <1>2 DEF Tiling
<1>5. \A q \in R : q.type # Terminator => Visited(data, q.end)
  BY VisitedOn
<1>6. c # n
  BY <1>1
<1> SUFFICES /\ Framed(cleared, c)
             /\ t.type = NdefType => t.start = t.end
             /\ t.type # Terminator => /\ Visited(data, t.end)
                                       /\ From(Others(R), c) = Others({t}) \cup From(Others(R), t.end)
             /\ t.type = Terminator => From(Others(R), c) = Others({t})
  OBVIOUS
  (* In the padding, or at its start, the next TLV of the area is not yet. *)
<1>7. ASSUME NEW r \in R, r.type = NdefType, NEW d \in Nat, r.offset <= c, c < d, d <= r.end
      PROVE  From(Others(R), c) = From(Others(R), d)
  <2>1. ASSUME NEW q \in Others(R), c <= q.offset PROVE d <= q.offset
    <3>1. q \in R /\ q # r
      BY <1>7, <2>1 DEF Others
    <3>2. r.end <= q.offset \/ q.end <= r.offset
      BY <1>4, <1>7, <3>1
    <3> HIDE DEF R, n
    <3> QED
      BY <1>1, <1>3, <1>7, <2>1, <3>1, <3>2
  <2>2. ASSUME NEW q \in Others(R), d <= q.offset PROVE c <= q.offset
    <3>1. q \in R
      BY DEF Others
    <3> HIDE DEF R, n
    <3> QED
      BY <1>1, <1>3, <1>7, <2>2, <3>1
  <2> QED
    BY <2>1, <2>2 DEF From
<1>8. ASSUME NEW r \in R, r.type = NdefType, NEW d \in Nat, r.offset + 2 <= d, d <= r.end
      PROVE  Visited(data, d)
  <2>1. CASE d = r.end
    BY <1>5, <1>8, <2>1 DEF NdefType, Terminator
  <2>2. CASE d < r.end
    BY <1>8, <2>2 DEF Visited, Padding, NdefRecords
  <2> QED
    BY <1>3, <1>8, <2>1, <2>2
<1>9. CASE Padding(data, c)
  <2>1. PICK r \in R : r.type = NdefType /\ r.offset + 2 <= c /\ c < r.end
    BY <1>9 DEF Padding, NdefRecords
  <2>2. cleared[c + 1] = 0
    <3>1. \A i \in (r.offset + 2)..r.end : cleared[i] = 0
      BY <2>1, ClearedTiles
    <3> HIDE DEF R, n, cleared
    <3>2. c + 1 \in (r.offset + 2)..r.end
      BY <1>1, <1>3, <2>1
    <3> QED
      BY <3>1, <3>2
  <2>3. Framed(cleared, c) /\ t = Record(0, c, c + 1, c + 1)
    BY <2>2 DEF Framed, TlvAt, At, NullType
  <2>4. t.type = 0 /\ t.end = c + 1
    BY <2>3 DEF Record
  <2>5. Others({t}) = {}
    BY <2>4 DEF Others, NullType
  <2> HIDE DEF t, R, n, cleared
  <2>6. c + 1 \in Nat /\ r.offset <= c /\ c < c + 1 /\ c + 1 <= r.end /\ r.offset + 2 <= c + 1
    BY <1>1, <1>3, <2>1
  <2>7. Visited(data, c + 1) /\ From(Others(R), c) = From(Others(R), c + 1)
    BY <1>7, <1>8, <2>1, <2>6
  <2>8. Visited(data, t.end) /\ From(Others(R), c) = From(Others(R), t.end)
    BY <2>4, <2>7
  <2>9. From(Others(R), c) = Others({t}) \cup From(Others(R), t.end)
    BY <2>5, <2>8
  <2>10. t.type # NdefType /\ t.type # Terminator
    BY <2>4 DEF NdefType, Terminator
  <2> QED
    BY <2>3, <2>8, <2>9, <2>10
<1>10. CASE \E r \in R : r.offset = c
  <2>1. PICK r \in R : r.offset = c
    BY <1>10
  <2>2. CASE r.type = NdefType
    <3>1. cleared[c + 1] = 3 /\ cleared[c + 2] = 0 /\ c + 2 <= r.end
      <4>1. r = TlvAt(data, c) /\ Framed(data, c)
        BY <1>2, <2>1 DEF Tiling
      <4>2. r.start = ValueStart(data, c)
        BY <2>2, <4>1 DEF TlvAt, Record, NdefType, NullType, Terminator
      <4>3. c + 2 <= r.start
        BY <1>1, <4>2 DEF ValueStart
      <4>4. cleared[c + 1] = r.type /\ \A i \in (c + 2)..r.end : cleared[i] = 0
        BY <1>3, <2>1, <2>2, ClearedTiles
      <4> HIDE DEF R, n, cleared
      <4>5. c + 2 <= r.end
        BY <1>1, <1>3, <2>1, <4>3
      <4>6. c + 2 \in (c + 2)..r.end
        BY <1>1, <1>3, <2>1, <4>5
      <4> QED
        BY <2>2, <4>4, <4>5, <4>6 DEF NdefType
    <3>2. r.end <= n /\ r.end \in Nat
      BY <1>3
    <3>3. Framed(cleared, c) /\ t = Record(3, c, c + 2, c + 2)
      <4>1. ~ IsLong(cleared, c) /\ ValueLength(cleared, c) = 0 /\ ValueStart(cleared, c) = c + 2
        <5>1. c + 1 + 1 = c + 2
          BY <1>1
        <5> QED
          BY <3>1, <5>1 DEF IsLong, ValueLength, ValueStart, At, LongLength
      <4>2. At(cleared, c) = 3
        BY <3>1 DEF At
      <4>3. c + 2 <= Len(cleared) /\ c + 2 + 0 = c + 2
        BY <1>1, <3>1, <3>2
      <4> QED
        BY <4>1, <4>2, <4>3 DEF Framed, WellFramed, TlvAt, NullType, Terminator
    <3>4. t.type = 3 /\ t.start = c + 2 /\ t.end = c + 2
      BY <3>3 DEF Record
    <3>5. Others({t}) = {}
      BY <3>4 DEF Others, NdefType
    <3> HIDE DEF t, R, n, cleared
    <3>6. c + 2 \in Nat /\ c < c + 2 /\ r.offset <= c /\ r.offset + 2 <= c + 2
      BY <1>1, <2>1
    <3>7. Visited(data, c + 2) /\ From(Others(R), c) = From(Others(R), c + 2)
      BY <1>7, <1>8, <2>2, <3>1, <3>6
    <3>8. Visited(data, t.end) /\ From(Others(R), c) = From(Others(R), t.end)
      BY <3>4, <3>7
    <3>9. From(Others(R), c) = Others({t}) \cup From(Others(R), t.end)
      BY <3>5, <3>8
    <3>10. t.start = t.end /\ t.type # Terminator
      BY <3>4 DEF Terminator
    <3> QED
      BY <3>3, <3>8, <3>9, <3>10
  <2>3. CASE r.type # NdefType
    <3>1. r = TlvAt(data, c) /\ Framed(data, c)
      BY <1>2, <2>1 DEF Tiling
    <3>2. \A i \in (c + 1)..r.end : cleared[i] = data[i]
      BY <2>1, <2>3, ClearedTiles
    <3>3. Framed(cleared, c) /\ t = r
      BY <1>1, <3>1, <3>2, TlvSame
    <3>4. ASSUME NEW q \in R, c <= q.offset, q # r PROVE r.end <= q.offset
      <4>1. r.end <= q.offset \/ q.end <= r.offset
        BY <1>4, <3>4
      <4> HIDE DEF R, n
      <4> QED
        BY <1>1, <1>3, <2>1, <3>4, <4>1
    <3>5. r.type = Terminator => \A q \in R : c <= q.offset => q = r
      <4>1. r.type = Terminator => \A q \in R : q.offset <= r.offset
        BY <1>2 DEF Tiling
      <4> HIDE DEF R, n
      <4> QED
        BY <1>1, <1>3, <2>1, <3>4, <4>1
    <3>6. \A q \in R : r.end <= q.offset => c <= q.offset /\ q # r
      <4> HIDE DEF R, n
      <4> QED
        BY <1>1, <1>3, <2>1
    <3> HIDE DEF t, R, n, cleared
    <3>7. r.type = Terminator => From(Others(R), c) = Others({r})
      BY <1>1, <2>1, <3>5 DEF From, Others
    <3>8. From(Others(R), c) = Others({r}) \cup From(Others(R), r.end)
      BY <1>1, <2>1, <3>4, <3>6 DEF From, Others
    <3>9. r.type # Terminator => Visited(data, r.end)
      BY <1>5
    <3> QED
      BY <2>3, <3>3, <3>7, <3>8, <3>9
  <2> QED
    BY <2>2, <2>3
<1> QED
  BY <1>6, <1>9, <1>10 DEF Visited

(* What clear_ndef_tlv_area promises it keeps, for every area that parses. *)
THEOREM ClearingKeepsOthers ==
  ASSUME NEW data \in Seq(Byte), Parse(data).ok
  PROVE  ClearsOnlyNdef(data)
<1> DEFINE cleared == ClearNdef(data).data
           n == Len(data)
           R == Others(Parse(data).records)
<1>1. n \in Nat /\ cleared \in Seq(Byte) /\ Len(cleared) = n
  BY ClearedBytes
<1>2. \A r \in Parse(data).records : /\ r.offset \in 0..(n - 1) /\ r.end \in Nat /\ r.end <= n
  BY ParseTiles, TileShape
<1>3. PICK f : Parse(cleared) = f[0] /\ \A c \in 0..n : f[c] = ParseAt(cleared, f, c)
  BY <1>1, ParseUnfolds
<1> DEFINE Holds(c) == Visited(data, c) =>
                         /\ f[c].ok
                         /\ Others(f[c].records) = From(R, c)
                         /\ \A r \in f[c].records : r.type = NdefType => r.start = r.end
           S == {m \in 0..n : \A c \in m..n : Holds(c)}
<1>4. n \in S
  <2>1. f[n] = [ok |-> TRUE, records |-> {}]
    <3>1. n \in 0..n
      BY <1>1
    <3>2. f[n] = ParseAt(cleared, f, n)
      BY <1>3, <3>1
    <3> QED
      BY <1>1, <3>2 DEF ParseAt
  <2>2. From(R, n) = {}
    <3> HIDE DEF n
    <3>1. \A r \in Parse(data).records : ~ (n <= r.offset)
      BY <1>1, <1>2
    <3> QED
      BY <3>1 DEF From, Others
  <2>3. Others(f[n].records) = {}
    BY <2>1 DEF Others
  <2>4. Holds(n)
    BY <2>1, <2>2, <2>3
  <2> HIDE DEF Holds
  <2> QED
    BY <1>1, <2>4
<1>5. ASSUME NEW m \in 1..n, m \in S PROVE m - 1 \in S
  <2> DEFINE c == m - 1
             t == TlvAt(cleared, c)
  <2>1. c \in 0..(n - 1) /\ c \in 0..n /\ c # n
    BY <1>1
  <2>2. f[c] = ParseAt(cleared, f, c)
    BY <1>3, <2>1
  <2>3. ASSUME Visited(data, c)
        PROVE  /\ f[c].ok
               /\ Others(f[c].records) = From(R, c)
               /\ \A r \in f[c].records : r.type = NdefType => r.start = r.end
    <3>1. /\ Framed(cleared, c)
          /\ t.type = NdefType => t.start = t.end
          /\ t.type # Terminator => Visited(data, t.end) /\ From(R, c) = Others({t}) \cup From(R, t.end)
          /\ t.type = Terminator => From(R, c) = Others({t})
      BY <2>1, <2>3, ClearedTlv
    <3>2. t.end \in m..n
      <4>1. /\ t.end \in Nat /\ c < t.end /\ t.end <= Len(cleared)
        BY <1>1, <2>1, <3>1, TlvShape
      <4> HIDE DEF t, cleared
      <4> QED
        BY <1>1, <2>1, <4>1
    <3>3. f[c] = IF t.type = Terminator THEN [ok |-> TRUE, records |-> {t}]
                 ELSE IF f[t.end].ok THEN [ok |-> TRUE, records |-> {t} \cup f[t.end].records]
                 ELSE Malformed
      BY <1>1, <2>1, <2>2, <3>1 DEF ParseAt
    <3>4. Holds(t.end)
      BY <1>5, <3>2
    <3> HIDE DEF t, R, cleared
    <3>5. CASE t.type = Terminator
      <4>1. f[c].ok /\ f[c].records = {t}
        BY <3>3, <3>5
      <4> QED
        BY <3>1, <3>5, <4>1
    <3>6. CASE t.type # Terminator
      <4>1. /\ f[t.end].ok
            /\ Others(f[t.end].records) = From(R, t.end)
            /\ \A r \in f[t.end].records : r.type = NdefType => r.start = r.end
        BY <3>1, <3>4, <3>6
      <4>2. f[c].ok /\ f[c].records = {t} \cup f[t.end].records
        BY <3>3, <3>6, <4>1
      <4>3. Others({t} \cup f[t.end].records) = Others({t}) \cup Others(f[t.end].records)
        BY DEF Others
      <4> QED
        BY <3>1, <3>6, <4>1, <4>2, <4>3
    <3> QED
      BY <3>5, <3>6
  <2>4. Holds(c)
    BY <2>3
  <2> HIDE DEF Holds
  <2>5. \A d \in (m - 1)..n : d = m - 1 \/ d \in m..n
    BY <1>1
  <2> QED
    BY <1>1, <1>5, <2>1, <2>4, <2>5
<1>6. 0 \in S
  <2> HIDE DEF S, n
  <2> QED
    BY <1>1, <1>4, <1>5, Descent
<1>7. Holds(0)
  <2> HIDE DEF Holds
  <2> QED
    BY <1>1, <1>6
<1>8. Visited(data, 0)
  BY ParseTiles DEF Tiling, Visited
<1>9. From(R, 0) = R
  <2>1. \A r \in Parse(data).records : 0 <= r.offset
    BY <1>2
  <2> QED
    BY <2>1 DEF From, Others
<1>10. /\ Parse(cleared).ok /\ Others(Parse(cleared).records) = R
       /\ \A r \in NdefRecords(cleared) : r.start = r.end
  BY <1>3, <1>7, <1>8, <1>9 DEF NdefRecords
<1>11. \A r \in NdefRecords(data) : \A i \in (r.offset + 2)..r.end : cleared[i] = 0
  BY ClearedTiles DEF NdefRecords
<1>12. ASSUME NEW r \in R, NEW i \in (r.offset + 1)..r.end
       PROVE  i \in 1..n /\ cleared[i] = data[i]
  <2>1. r \in Parse(data).records /\ r.type # NdefType
    BY DEF Others
  <2>2. cleared[i] = data[i]
    BY <2>1, ClearedTiles
  <2> HIDE DEF R, n
  <2> QED
    BY <1>1, <1>2, <2>1, <2>2
<1> QED
  BY <1>10, <1>11, <1>12 DEF ClearsOnlyNdef


(* The first NDEF TLV is the one that is read.                             *)
LEMMA FirstIsRead ==
  ASSUME NEW data, \A r \in NdefRecords(data) : r.offset \in Nat
  PROVE  \/ NdefRecords(data) = {} /\ NdefMessage(data) = <<>>
         \/ \E r \in NdefRecords(data) : NdefMessage(data) = <<Slice(data, r.start, r.end)>>
<1> DEFINE found == NdefRecords(data)
           first == CHOOSE r \in found : \A q \in found : r.offset <= q.offset
<1>1. NdefMessage(data) = IF found = {} THEN <<>> ELSE <<Slice(data, first.start, first.end)>>
  BY DEF NdefMessage
<1>2. CASE found = {}
  BY <1>1, <1>2
<1>3. CASE found # {}
  <2> DEFINE T == {r.offset : r \in found}
  <2>1. T \subseteq Nat /\ T # {}
    BY <1>3
  <2>2. PICK x \in T : \A y \in T : x <= y
    <3> HIDE DEF T
    <3> QED
      BY <2>1, Least
  <2>3. \E r \in found : \A q \in found : r.offset <= q.offset
    BY <2>2
  <2>4. first \in found
    <3> HIDE DEF found
    <3> QED
      BY <2>3, Zenon
  <2> HIDE DEF first
  <2> QED
    BY <1>1, <1>3, <2>4
<1> QED
  BY <1>2, <1>3

(* Of an area without an NDEF payload the reader finds nothing, or an      *)
(* empty message.                                                          *)
LEMMA NothingToRead ==
  ASSUME NEW data \in Seq(Byte), Parse(data).ok,
         \A r \in NdefRecords(data) : r.start = r.end
  PROVE  NdefMessage(data) \in {<<>>, <<(<<>>)>>}
<1>1. \A r \in NdefRecords(data) : r.offset \in Nat /\ r.start \in Nat
  <2>1. ASSUME NEW r \in Parse(data).records PROVE r.offset \in Nat /\ r.start \in Nat
    BY ParseTiles, TileShape
  <2> QED
    BY <2>1 DEF NdefRecords
<1>2. ASSUME NEW r \in NdefRecords(data) PROVE Slice(data, r.start, r.end) = <<>>
  <2>1. r.end = r.start /\ r.start \in Int /\ r.start + 1 \in Int /\ r.start < r.start + 1
    BY <1>1
  <2> QED
    BY <2>1, SubSeqEmpty DEF Slice
<1> QED
  BY <1>1, <1>2, FirstIsRead
-----------------------------------------------------------------------------
LEMMA Single ==
  ASSUME NEW x \in Byte
  PROVE  <<x>> \in Seq(Byte) /\ Len(<<x>>) = 1 /\ <<x>>[1] = x
OBVIOUS

(* The bytes of a wrapped message: a header of two or four bytes, the      *)
(* message, the terminator and the zeros that follow.                      *)
LengthBytes(n) ==
  IF n < LongLength THEN <<n>> ELSE <<LongLength, n \div 256, n % 256>>
HeaderOf(n) == <<NdefType>> \o LengthBytes(n)
HeaderLength(n) == IF n < LongLength THEN 2 ELSE 4
IsHeader(head, n) ==
  /\ head[1] = NdefType
  /\ n < LongLength => head[2] = n
  /\ ~ (n < LongLength) => head[2] = LongLength /\ head[3] = n \div 256 /\ head[4] = n % 256

LEMMA HeaderShape ==
  ASSUME NEW n \in Nat, n < 256 * 256
  PROVE  /\ HeaderOf(n) \in Seq(Byte) /\ Len(HeaderOf(n)) = HeaderLength(n)
         /\ IsHeader(HeaderOf(n), n)
<1> DEFINE head == HeaderOf(n)
           one == <<NdefType>>
           l == LengthBytes(n)
<1>1. one \in Seq(Byte) /\ Len(one) = 1 /\ one[1] = NdefType
  <2>1. NdefType \in Byte
    BY DEF Byte, NdefType
  <2> QED
    BY <2>1, Single, Zenon
<1>2. /\ l \in Seq(Byte) /\ Len(l) \in Nat
      /\ n < LongLength => Len(l) = 1 /\ l[1] = n
      /\ ~ (n < LongLength) => Len(l) = 3 /\ l[1] = LongLength /\ l[2] = n \div 256 /\ l[3] = n % 256
  <2>1. CASE n < LongLength
    <3>1. n \in Byte
      BY <2>1 DEF Byte, LongLength
    <3>2. l = <<n>>
      BY <2>1 DEF LengthBytes
    <3>3. <<n>> \in Seq(Byte) /\ Len(<<n>>) = 1 /\ <<n>>[1] = n
      BY <3>1, Single, Zenon
    <3> QED
      BY <2>1, <3>2, <3>3
  <2>2. CASE ~ (n < LongLength)
    <3> DEFINE q == n \div 256
               p == n % 256
    <3>1. q \in Byte /\ p \in Byte /\ LongLength \in Byte
      BY DEF Byte, LongLength
    <3>2. l = <<LongLength, q, p>>
      BY <2>2 DEF LengthBytes
    <3> HIDE DEF p, q
    <3>3. /\ <<LongLength, q, p>> \in Seq(Byte) /\ Len(<<LongLength, q, p>>) = 3
          /\ <<LongLength, q, p>>[1] = LongLength /\ <<LongLength, q, p>>[2] = q
          /\ <<LongLength, q, p>>[3] = p
      BY <3>1
    <3>4. /\ l \in Seq(Byte) /\ Len(l) = 3
          /\ l[1] = LongLength /\ l[2] = q /\ l[3] = p
      BY <3>2, <3>3
    <3> QED
      BY <2>2, <3>4 DEF p, q
  <2> QED
    BY <2>1, <2>2
<1>3. IsJoin(Byte, head, one, Len(one), l, Len(l))
  BY <1>1, <1>2, Joined, Zenon DEF HeaderOf
<1> HIDE DEF head, one, l
<1>4. head \in Seq(Byte) /\ Len(head) = HeaderLength(n)
  BY <1>1, <1>2, <1>3 DEF IsJoin, HeaderLength
<1>5. head[1] = NdefType
  BY <1>1, <1>3 DEF IsJoin
<1>6. \A i \in 1..Len(l) : head[1 + i] = l[i]
  BY <1>1, <1>3 DEF IsJoin
<1>7. CASE n < LongLength
  <2>1. head[2] = n
    BY <1>2, <1>6, <1>7
  <2> QED
    BY <1>4, <1>5, <1>7, <2>1 DEF IsHeader, head
<1>8. CASE ~ (n < LongLength)
  <2>1. head[2] = LongLength /\ head[3] = n \div 256 /\ head[4] = n % 256
    <3>1. Len(l) = 3 /\ l[1] = LongLength /\ l[2] = n \div 256 /\ l[3] = n % 256
      BY <1>2, <1>8
    <3>2. 1 \in 1..Len(l) /\ 2 \in 1..Len(l) /\ 3 \in 1..Len(l)
      BY <3>1
    <3>3. head[1 + 1] = l[1] /\ head[1 + 2] = l[2] /\ head[1 + 3] = l[3]
      BY <1>6, <3>2
    <3> QED
      BY <3>1, <3>3
  <2> QED
    BY <1>4, <1>5, <1>8, <2>1 DEF IsHeader, head
<1> QED
  BY <1>7, <1>8

Wrapped(ndef, pad) == WrapTlv(ndef) \o Zeros(pad)
IsWrapped(data, ndef, n, h, pad) ==
  /\ data \in Seq(Byte) /\ Len(data) = h + n + 1 + pad
  /\ IsHeader(data, n)
  /\ \A i \in 1..n : data[h + i] = ndef[i]
  /\ data[h + n + 1] = Terminator

LEMMA WrapShape ==
  ASSUME NEW ndef \in Seq(Byte), Len(ndef) < 256 * 256, NEW pad \in Nat
  PROVE  IsWrapped(Wrapped(ndef, pad), ndef, Len(ndef), HeaderLength(Len(ndef)), pad)
<1> DEFINE n == Len(ndef)
           h == HeaderLength(n)
<1>1. n \in Nat /\ h \in Nat /\ n < 256 * 256 /\ Len(ndef) = n /\ h = HeaderLength(n)
  BY DEF HeaderLength
<1> HIDE DEF n, h
<1> DEFINE head == HeaderOf(n)
           body == head \o ndef
           last == <<Terminator>>
           tlv == body \o last
           zeros == Zeros(pad)
           data == Wrapped(ndef, pad)
<1>2. head \in Seq(Byte) /\ Len(head) = h /\ IsHeader(head, n)
  BY <1>1, HeaderShape, Zenon
<1>3. last \in Seq(Byte) /\ Len(last) = 1 /\ last[1] = Terminator
  <2>1. Terminator \in Byte
    BY DEF Byte, Terminator
  <2> QED
    BY <2>1, Single, Zenon
<1>4. zeros \in Seq(Byte) /\ Len(zeros) = pad
  <2>1. 0 \in Byte
    BY DEF Byte
  <2> QED
    BY <2>1 DEF Zeros
<1>5. data = tlv \o zeros
  BY DEF Wrapped, WrapTlv, HeaderOf, LengthBytes, n
<1> HIDE DEF head, last, zeros, data
<1>6. IsJoin(Byte, body, head, Len(head), ndef, Len(ndef))
  BY <1>1, <1>2, Joined, Zenon
<1> HIDE DEF body
<1>7. body \in Seq(Byte) /\ Len(body) = h + n
  BY <1>1, <1>2, <1>6 DEF IsJoin
<1>8. IsJoin(Byte, tlv, body, Len(body), last, Len(last))
  BY <1>1, <1>3, <1>7, Joined, Zenon
<1> HIDE DEF tlv
<1>9. tlv \in Seq(Byte) /\ Len(tlv) = h + n + 1
  BY <1>1, <1>3, <1>7, <1>8 DEF IsJoin
<1>10. IsJoin(Byte, tlv \o zeros, tlv, Len(tlv), zeros, Len(zeros))
  BY <1>1, <1>4, <1>9, Joined, Zenon
<1>11. /\ IsJoin(Byte, body, head, h, ndef, n) /\ IsJoin(Byte, tlv, body, h + n, last, 1)
       /\ IsJoin(Byte, data, tlv, h + n + 1, zeros, pad)
  BY <1>1, <1>2, <1>3, <1>4, <1>5, <1>6, <1>7, <1>8, <1>9, <1>10, Zenon
<1> HIDE DEF body, tlv
<1>12. /\ data \in Seq(Byte) /\ Len(data) = h + n + 1 + pad
       /\ \A i \in 1..(h + n + 1) : data[i] = tlv[i]
  BY <1>1, <1>11 DEF IsJoin
<1>13. (\A i \in 1..(h + n) : tlv[i] = body[i]) /\ \A i \in 1..1 : tlv[h + n + i] = last[i]
  BY <1>1, <1>11 DEF IsJoin
<1>14. (\A i \in 1..h : body[i] = head[i]) /\ \A i \in 1..n : body[h + i] = ndef[i]
  BY <1>1, <1>11 DEF IsJoin
<1>15. ASSUME NEW i \in 1..h PROVE data[i] = head[i]
  <2>1. i \in 1..(h + n) /\ i \in 1..(h + n + 1)
    BY <1>1
  <2> QED
    BY <1>1, <1>12, <1>13, <1>14, <2>1
<1>16. ASSUME NEW i \in 1..n PROVE data[h + i] = ndef[i]
  <2>1. h + i \in 1..(h + n) /\ h + i \in 1..(h + n + 1)
    BY <1>1
  <2> QED
    BY <1>1, <1>12, <1>13, <1>14, <2>1
<1>17. data[h + n + 1] = Terminator
  <2>1. h + n + 1 \in 1..(h + n + 1) /\ 1 \in 1..1
    BY <1>1
  <2> QED
    BY <1>1, <1>3, <1>12, <1>13, <2>1
<1>18. IsHeader(data, n)
  <2>1. 1 \in 1..h /\ 2 \in 1..h /\ (~ (n < LongLength) => 3 \in 1..h /\ 4 \in 1..h)
    BY <1>1 DEF HeaderLength
  <2> QED
    BY <1>1, <1>2, <1>15, <2>1 DEF IsHeader
<1> QED
  BY <1>1, <1>12, <1>18, <1>16, <1>17 DEF data, IsWrapped, h, n

(* The TLVs of a wrapped message: the message, and the terminator.         *)
LEMMA WrappedTlvs ==
  ASSUME NEW ndef, NEW n \in Nat, NEW pad \in Nat, NEW h \in Nat, HeaderLength(n) = h,
         NEW data, IsWrapped(data, ndef, n, h, pad)
  PROVE  /\ TlvAt(data, 0) = Record(NdefType, 0, h, h + n) /\ Framed(data, 0)
         /\ TlvAt(data, h + n) = Record(Terminator, h + n, h + n + 1, h + n + 1)
         /\ Framed(data, h + n)
<1>1. /\ data \in Seq(Byte) /\ Len(data) = h + n + 1 + pad /\ IsHeader(data, n)
      /\ data[h + n + 1] = Terminator
  BY DEF IsWrapped
<1>2. (n < LongLength /\ h = 2) \/ (~ (n < LongLength) /\ h = 4)
  BY DEF HeaderLength
<1>3. At(data, 0) = NdefType
  BY <1>1 DEF At, IsHeader
<1>4. /\ n < LongLength => At(data, 0 + 1) = n
      /\ ~ (n < LongLength) => /\ At(data, 0 + 1) = LongLength
                               /\ At(data, 0 + 2) = n \div 256 /\ At(data, 0 + 3) = n % 256
  BY <1>1 DEF At, IsHeader
<1>5. ValueStart(data, 0) = h /\ ValueLength(data, 0) = n /\ (IsLong(data, 0) => h = 4)
  <2>1. CASE n < LongLength
    <3>1. ~ IsLong(data, 0)
      BY <1>4, <2>1 DEF IsLong, LongLength
    <3> QED
      BY <1>2, <1>4, <2>1, <3>1 DEF ValueStart, ValueLength
  <2>2. CASE ~ (n < LongLength)
    <3>1. IsLong(data, 0)
      BY <1>4, <2>2 DEF IsLong
    <3>2. 256 * (n \div 256) + (n % 256) = n
      OBVIOUS
    <3>3. ValueLength(data, 0) = n
      BY <1>4, <2>2, <3>1, <3>2 DEF ValueLength
    <3> QED
      BY <1>2, <2>2, <3>1, <3>3 DEF ValueStart
  <2> QED
    BY <2>1, <2>2
<1>6. TlvAt(data, 0) = Record(NdefType, 0, h, h + n)
  BY <1>3, <1>5 DEF TlvAt, NdefType, NullType, Terminator
<1>7. Framed(data, 0)
  <2>1. 0 + 2 <= Len(data) /\ (h = 4 => 0 + 4 <= Len(data)) /\ h + n <= Len(data)
    BY <1>1, <1>2
  <2> QED
    BY <1>5, <2>1 DEF Framed, WellFramed
<1>8. At(data, h + n) = Terminator
  BY <1>1 DEF At
<1> QED
  BY <1>6, <1>7, <1>8 DEF TlvAt, Framed

(***************************************************************************)
(* What the builder wraps (builder.py) the reader finds (tlv.py), for every *)
(* message a two-byte length can name and however many zeros follow it: the *)
(* two length forms agree at their boundary.                               *)
(***************************************************************************)
THEOREM WrappedReadsBack ==
  ASSUME NEW ndef \in Seq(Byte), Len(ndef) < 256 * 256, NEW pad \in Nat
  PROVE  ReadsBack(ndef, pad)
<1> DEFINE n == Len(ndef)
           data == Wrapped(ndef, pad)
           h == HeaderLength(n)
           t == Record(NdefType, 0, h, h + n)
           e == Record(Terminator, h + n, h + n + 1, h + n + 1)
<1>1. /\ n \in Nat /\ h \in {2, 4} /\ h \in Nat /\ HeaderLength(n) = h
      /\ Len(ndef) = n /\ n < 256 * 256
  BY DEF HeaderLength
<1> HIDE DEF n, h
<1>2. IsWrapped(data, ndef, n, h, pad)
  BY WrapShape DEF n, h
<1> HIDE DEF data
<1>3. /\ data \in Seq(Byte) /\ Len(data) = h + n + 1 + pad
      /\ \A i \in 1..n : data[h + i] = ndef[i]
  BY <1>2 DEF IsWrapped
<1>4. /\ TlvAt(data, 0) = t /\ Framed(data, 0)
      /\ TlvAt(data, h + n) = e /\ Framed(data, h + n)
  BY <1>1, <1>2, WrappedTlvs
<1>5. n = Len(ndef) /\ \A i \in 1..n : data[h + i] = ndef[i]
  BY <1>1, <1>3
<1>6. PICK f : Parse(data) = f[0] /\ \A c \in 0..Len(data) : f[c] = ParseAt(data, f, c)
  BY <1>3, ParseUnfolds, Zenon
<1>7. 0 \in 0..Len(data) /\ 0 # Len(data) /\ h + n \in 0..Len(data) /\ h + n # Len(data)
  BY <1>1, <1>3
<1>8. f[h + n] = [ok |-> TRUE, records |-> {e}]
  <2>1. f[h + n] = ParseAt(data, f, h + n)
    BY <1>6, <1>7
  <2>2. e.type = Terminator
    BY DEF Record
  <2> HIDE DEF e
  <2> QED
    BY <1>4, <1>7, <2>1, <2>2 DEF ParseAt
<1>9. Parse(data) = [ok |-> TRUE, records |-> {t} \cup {e}]
  <2>1. f[0] = ParseAt(data, f, 0)
    BY <1>6, <1>7
  <2>2. t.end = h + n /\ t.type # Terminator
    BY DEF Record, NdefType, Terminator
  <2> HIDE DEF t, e
  <2> DEFINE rest == f[h + n]
  <2>3. rest.ok /\ rest.records = {e}
    BY <1>8
  <2>4. f[0] = IF rest.ok THEN [ok |-> TRUE, records |-> {t} \cup rest.records] ELSE Malformed
    BY <1>4, <1>7, <2>1, <2>2 DEF ParseAt
  <2> HIDE DEF rest
  <2> QED
    BY <1>6, <2>3, <2>4
<1>10. NdefRecords(data) = {t}
  <2>1. e.type # NdefType /\ t.type = NdefType
    BY DEF Record, NdefType, Terminator
  <2> HIDE DEF t, e
  <2> QED
    BY <1>9, <2>1 DEF NdefRecords
<1>11. NdefMessage(data) = <<Slice(data, h, h + n)>>
  <2>1. t.offset \in Nat /\ t.start = h /\ t.end = h + n
    BY DEF Record
  <2> HIDE DEF t
  <2>2. \A r \in NdefRecords(data) : r.offset \in Nat
    BY <1>10, <2>1
  <2>3. \/ NdefRecords(data) = {} /\ NdefMessage(data) = <<>>
        \/ \E r \in NdefRecords(data) : NdefMessage(data) = <<Slice(data, r.start, r.end)>>
    BY <2>2, FirstIsRead, Zenon
  <2> QED
    BY <1>10, <2>1, <2>3
<1>12. Slice(data, h, h + n) = ndef
  <2>1. h + n <= Len(data)
    BY <1>1, <1>3
  <2>2. h \in Nat /\ HoldsAt(data, h, ndef)
    BY <1>1, <1>3, <2>1 DEF HoldsAt
  <2> QED
    BY <1>1, <1>3, <2>2, SliceIs
<1> QED
  BY <1>11, <1>12 DEF ReadsBack, data, Wrapped
-----------------------------------------------------------------------------
(* A record of a type of one byte: the header, the lengths, the type and   *)
(* the payload.                                                            *)
RecordHead(n) == IF n <= 255 THEN 4 ELSE 7
IsCode(code, header, type, payload, n) ==
  /\ code \in Seq(Nat) /\ Len(code) = RecordHead(n) + n
  /\ n <= 255 => code[1] = header + 16 /\ code[2] = 1 /\ code[3] = n /\ code[4] = type
  /\ ~ (n <= 255) => /\ code[1] = header /\ code[2] = 1 /\ code[3] = 0 /\ code[4] = 0
                     /\ code[5] = n \div 256 /\ code[6] = n % 256 /\ code[7] = type
  /\ \A i \in 1..n : code[RecordHead(n) + i] = payload[i]

LEMMA Four ==
  ASSUME NEW S, NEW a \in S, NEW b \in S, NEW c \in S, NEW d \in S
  PROVE  /\ <<a, b, c, d>> \in Seq(S) /\ Len(<<a, b, c, d>>) = 4
         /\ <<a, b, c, d>>[1] = a /\ <<a, b, c, d>>[2] = b
         /\ <<a, b, c, d>>[3] = c /\ <<a, b, c, d>>[4] = d
OBVIOUS

LEMMA Seven ==
  ASSUME NEW S, NEW a \in S, NEW b \in S, NEW c \in S, NEW d \in S,
         NEW e \in S, NEW f \in S, NEW g \in S
  PROVE  LET s == <<a, b, c, d, e, f, g>>
         IN  /\ s \in Seq(S) /\ Len(s) = 7
             /\ s[1] = a /\ s[2] = b /\ s[3] = c /\ s[4] = d
             /\ s[5] = e /\ s[6] = f /\ s[7] = g
OBVIOUS

LEMMA CodeShape ==
  ASSUME NEW header \in Nat, NEW type \in Nat, NEW payload \in Seq(Nat)
  PROVE  IsCode(Encode(header, type, payload), header, type, payload, Len(payload))
<1> DEFINE n == Len(payload)
           code == Encode(header, type, payload)
<1>1. n \in Nat /\ Len(payload) = n
  OBVIOUS
<1> HIDE DEF n
<1>2. CASE n <= 255
  <2> DEFINE head == <<header + 16, 1, n, type>>
  <2>1. /\ head \in Seq(Nat) /\ Len(head) = 4
        /\ head[1] = header + 16 /\ head[2] = 1 /\ head[3] = n /\ head[4] = type
    <3>1. header + 16 \in Nat /\ 1 \in Nat
      OBVIOUS
    <3> QED
      BY <1>1, <3>1, Four, Zenon
  <2>2. code = head \o payload
    BY <1>1, <1>2 DEF Encode, n
  <2> HIDE DEF head
  <2>3. IsJoin(Nat, head \o payload, head, Len(head), payload, Len(payload))
    BY <2>1, Joined, Zenon
  <2>4. IsJoin(Nat, code, head, 4, payload, n)
    BY <1>1, <2>1, <2>2, <2>3, Zenon
  <2> HIDE DEF code
  <2>5. code \in Seq(Nat) /\ Len(code) = 4 + n /\ RecordHead(n) = 4
    BY <1>2, <2>4 DEF IsJoin, RecordHead
  <2>6. code[1] = head[1] /\ code[2] = head[2] /\ code[3] = head[3] /\ code[4] = head[4]
    BY <2>4 DEF IsJoin
  <2>7. \A i \in 1..n : code[4 + i] = payload[i]
    BY <2>4 DEF IsJoin
  <2> QED
    BY <1>2, <2>1, <2>5, <2>6, <2>7 DEF IsCode, code, n
<1>3. CASE ~ (n <= 255)
  <2> DEFINE p == n \div 256
             q == n % 256
             head == <<header, 1, 0, 0, p, q, type>>
  <2>1. p \in Nat /\ q \in Nat /\ 0 \in Nat /\ 1 \in Nat
    BY <1>1
  <2>2. code = head \o payload
    BY <1>1, <1>3 DEF Encode, n
  <2> HIDE DEF p, q
  <2>3. /\ head \in Seq(Nat) /\ Len(head) = 7
        /\ head[1] = header /\ head[2] = 1 /\ head[3] = 0 /\ head[4] = 0
        /\ head[5] = p /\ head[6] = q /\ head[7] = type
    BY <2>1, Seven
  <2> HIDE DEF head
  <2>4. IsJoin(Nat, head \o payload, head, Len(head), payload, Len(payload))
    BY <2>3, Joined, Zenon
  <2>5. IsJoin(Nat, code, head, 7, payload, n)
    BY <1>1, <2>2, <2>3, <2>4, Zenon
  <2> HIDE DEF code
  <2>6. code \in Seq(Nat) /\ Len(code) = 7 + n /\ RecordHead(n) = 7
    BY <1>3, <2>5 DEF IsJoin, RecordHead
  <2>7. \A i \in 1..7 : code[i] = head[i]
    BY <2>5 DEF IsJoin
  <2>8. /\ code[1] = head[1] /\ code[2] = head[2] /\ code[3] = head[3] /\ code[4] = head[4]
        /\ code[5] = head[5] /\ code[6] = head[6] /\ code[7] = head[7]
    BY <2>7
  <2>9. \A i \in 1..n : code[7 + i] = payload[i]
    BY <2>5 DEF IsJoin
  <2> QED
    BY <1>3, <2>3, <2>6, <2>8, <2>9 DEF IsCode, code, n, p, q
<1> QED
  BY <1>2, <1>3

(* The four headers the encoder uses, in both forms of the length.         *)
Headers == {1, 65, 129, 193}
LEMMA HeaderBits ==
  ASSUME NEW h \in Headers
  PROVE  /\ ~ Chunked(h) /\ ~ Chunked(h + 16) /\ ~ HasId(h) /\ ~ HasId(h + 16)
         /\ ~ Short(h) /\ Short(h + 16) /\ Tnf(h) = 1 /\ Tnf(h + 16) = 1
         /\ (Begins(h) <=> h >= 129) /\ (Begins(h + 16) <=> h >= 129)
         /\ (Ends(h) <=> h \in {65, 193}) /\ (Ends(h + 16) <=> h \in {65, 193})
<1>1. CASE h = 1
  BY <1>1 DEF Chunked, HasId, Short, Tnf, Begins, Ends
<1>2. CASE h = 65
  BY <1>2 DEF Chunked, HasId, Short, Tnf, Begins, Ends
<1>3. CASE h = 129
  BY <1>3 DEF Chunked, HasId, Short, Tnf, Begins, Ends
<1>4. CASE h = 193
  BY <1>4 DEF Chunked, HasId, Short, Tnf, Begins, Ends
<1> QED
  BY <1>1, <1>2, <1>3, <1>4 DEF Headers

(* Where a record stands as it was encoded, it is read, with its type and  *)
(* its payload, and the next one behind it.                                *)
Reads(record, header, type, payload) ==
  /\ record.header \in {header, header + 16}
  /\ record.type = <<type>> /\ record.payload = payload
ReadRecord == [header : Nat, type : Seq(Nat), payload : Seq(Nat)]

LEMMA CodeReads ==
  ASSUME NEW data \in Seq(Nat), NEW c \in Nat, NEW header \in Headers, NEW type \in Nat,
         NEW payload \in Seq(Nat), Len(payload) < 256 * 256,
         HoldsAt(data, c, Encode(header, type, payload))
  PROVE  /\ Readable(data, c) /\ c < Len(data)
         /\ NextAt(data, c) = c + Len(Encode(header, type, payload))
         /\ Reads(RecordAt(data, c), header, type, payload)
         /\ RecordAt(data, c) \in ReadRecord
<1> DEFINE n == Len(payload)
           code == Encode(header, type, payload)
           k == RecordHead(n)
           h == At(data, c)
<1>1. n \in Nat /\ Len(payload) = n /\ n < 256 * 256
  OBVIOUS
<1>2. header \in Nat
  BY DEF Headers
<1>3. IsCode(code, header, type, payload, n)
  BY <1>2, CodeShape, Zenon
<1>4. HoldsAt(data, c, code)
  OBVIOUS
<1> HIDE DEF n, code
<1>5. k \in {4, 7} /\ (n <= 255 <=> k = 4)
  BY <1>1 DEF RecordHead
<1>6. Len(code) = k + n /\ c + Len(code) <= Len(data)
  BY <1>3, <1>4 DEF IsCode, HoldsAt
<1> HIDE DEF k
<1>7. \A i \in 1..(k + n) : data[c + i] = code[i]
  BY <1>4, <1>6 DEF HoldsAt
<1>8. /\ c + 1 + 1 = c + 2 /\ c + 2 + 1 = c + 3 /\ c + 3 + 1 = c + 4
      /\ c + 4 + 1 = c + 5 /\ c + 5 + 1 = c + 6
  OBVIOUS
<1>9. At(data, c) = code[1] /\ At(data, c + 1) = code[2] /\ At(data, c + 2) = code[3]
      /\ At(data, c + 3) = code[4] /\ data[c + 4] = code[4]
  BY <1>1, <1>5, <1>7, <1>8 DEF At
<1>10. k = 7 => At(data, c + 4) = code[5] /\ At(data, c + 5) = code[6] /\ data[c + 7] = code[7]
  BY <1>1, <1>5, <1>7, <1>8 DEF At
<1>11. /\ h \in {header, header + 16} /\ (k = 4 => h = header + 16) /\ (k = 7 => h = header)
       /\ At(data, c + 1) = 1
  <2>1. code[2] = 1 /\ (n <= 255 => code[1] = header + 16) /\ (~ (n <= 255) => code[1] = header)
    BY <1>3 DEF IsCode
  <2>2. h = code[1]
    BY <1>9
  <2> HIDE DEF h
  <2>3. At(data, c + 1) = 1
    BY <1>9, <2>1
  <2>4. CASE k = 4
    BY <1>5, <2>1, <2>2, <2>3, <2>4
  <2>5. CASE k = 7
    BY <1>5, <2>1, <2>2, <2>3, <2>5
  <2> QED
    BY <1>5, <2>4, <2>5
<1>12. ~ Chunked(h) /\ ~ HasId(h) /\ (Short(h) <=> k = 4)
  BY <1>5, <1>11, HeaderBits
<1>13. IdAt(data, c) = c + k - 1 /\ BodyAt(data, c) = c + k - 1
  BY <1>5, <1>12 DEF IdAt, BodyAt
<1>14. PayloadLength(data, c) = n
  <2>1. CASE k = 4
    <3>1. code[3] = n
      BY <1>3, <1>5, <2>1 DEF IsCode
    <3>2. Short(h)
      BY <1>5, <1>12, <2>1
    <3> QED
      BY <1>9, <3>1, <3>2 DEF PayloadLength
  <2>2. CASE k = 7
    <3>1. /\ At(data, c + 2) = 0 /\ At(data, c + 3) = 0
          /\ At(data, c + 4) = n \div 256 /\ At(data, c + 5) = n % 256
      <4>1. code[3] = 0 /\ code[4] = 0 /\ code[5] = n \div 256 /\ code[6] = n % 256
        <5>1. ~ (n <= 255)
          BY <1>5, <2>2
        <5> QED
          BY <1>3, <5>1 DEF IsCode
      <4> QED
        BY <1>9, <1>10, <2>2, <4>1, Zenon
    <3>2. 256 * (256 * (256 * 0 + 0) + n \div 256) + (n % 256) = n
      BY <1>1
    <3>3. ~ Short(h)
      BY <1>5, <1>12, <2>2
    <3> QED
      BY <3>1, <3>2, <3>3 DEF PayloadLength
  <2> QED
    BY <1>5, <2>1, <2>2
<1>15. PayloadAt(data, c) = c + k
  BY <1>5, <1>11, <1>12, <1>13 DEF PayloadAt
<1>16. NextAt(data, c) = c + k + n
  BY <1>14, <1>15 DEF NextAt
<1>17. Readable(data, c) /\ c < Len(data)
  <2>1. c + k - 1 <= Len(data) /\ c + k + n <= Len(data) /\ c < Len(data)
    BY <1>1, <1>5, <1>6
  <2> QED
    BY <1>12, <1>13, <1>16, <2>1 DEF Readable
<1>18. Slice(data, c + k - 1, c + k) = <<type>>
  <2>1. data[c + k] = type
    <3>1. (n <= 255 => code[4] = type) /\ (~ (n <= 255) => code[7] = type)
      BY <1>3 DEF IsCode
    <3>2. CASE k = 4
      BY <1>5, <1>9, <3>1, <3>2
    <3>3. CASE k = 7
      BY <1>5, <1>10, <3>1, <3>3
    <3> QED
      BY <1>5, <3>2, <3>3
  <2>2. <<type>> \in Seq(Nat) /\ Len(<<type>>) = 1 /\ <<type>>[1] = type
    OBVIOUS
  <2> DEFINE s == <<type>>
             d == c + k - 1
  <2>3. d \in Nat /\ d + 1 = c + k /\ d + 1 <= Len(data)
    BY <1>1, <1>5, <1>6
  <2> HIDE DEF s, d
  <2>4. HoldsAt(data, d, s)
    BY <2>1, <2>2, <2>3 DEF HoldsAt, s
  <2>5. Slice(data, d, d + Len(s)) = s
    BY <2>2, <2>3, <2>4, SliceIs DEF s
  <2> QED
    BY <2>2, <2>3, <2>5 DEF s, d
<1>19. Slice(data, c + k, c + k + n) = payload
  <2> DEFINE d == c + k
  <2>1. d \in Nat /\ d + n <= Len(data)
    BY <1>1, <1>5, <1>6
  <2>2. ASSUME NEW i \in 1..n PROVE data[d + i] = payload[i]
    <3>1. k + i \in 1..(k + n) /\ c + (k + i) = d + i
      BY <1>1, <1>5
    <3>2. code[k + i] = payload[i]
      BY <1>3 DEF IsCode, k
    <3> QED
      BY <1>7, <3>1, <3>2
  <2> HIDE DEF d
  <2>3. HoldsAt(data, d, payload)
    BY <1>1, <2>1, <2>2 DEF HoldsAt
  <2>4. Slice(data, d, d + Len(payload)) = payload
    BY <2>1, <2>3, SliceIs
  <2> QED
    BY <1>1, <2>4 DEF d
<1>20. RecordAt(data, c) = [header |-> h, type |-> <<type>>, payload |-> payload]
  <2>1. BodyAt(data, c) + At(data, c + 1) = c + k
    BY <1>5, <1>11, <1>13
  <2> QED
    BY <1>13, <1>15, <1>16, <1>18, <1>19, <2>1 DEF RecordAt
<1>21. h \in Nat /\ <<type>> \in Seq(Nat)
  BY <1>2, <1>11
<1> HIDE DEF h
<1>22. Reads(RecordAt(data, c), header, type, payload) /\ RecordAt(data, c) \in ReadRecord
  BY <1>11, <1>20, <1>21 DEF Reads, ReadRecord
<1>23. NextAt(data, c) = c + Len(code)
  BY <1>1, <1>5, <1>6, <1>16
<1> QED
  BY <1>17, <1>22, <1>23 DEF code
-----------------------------------------------------------------------------
(* Records the encoder can be given, and those whose payload is not longer *)
(* than it can say.                                                        *)
Encodable(records) == records \in Seq([type : Nat, payload : Seq(Nat)])
Sendable(records) ==
  /\ Encodable(records)
  /\ \A n \in 1..Len(records) : Len(records[n].payload) < 256 * 256
RecordHeader(records, n) ==
  1 + (IF n = 1 THEN 128 ELSE 0) + (IF n = Len(records) THEN 64 ELSE 0)

LEMMA RecordHeaderIs ==
  ASSUME NEW records, NEW n
  PROVE  /\ RecordHeader(records, n) \in Headers
         /\ RecordHeader(records, n) \in {65, 193} <=> n = Len(records)
         /\ RecordHeader(records, n) >= 129 <=> n = 1
         /\ Coded(records, n)
              = Encode(RecordHeader(records, n), records[n].type, records[n].payload)
BY DEF RecordHeader, Headers, Coded

LEMMA RecordOf ==
  ASSUME NEW records, Encodable(records), NEW n \in 1..Len(records)
  PROVE  /\ records[n].type \in Nat /\ records[n].payload \in Seq(Nat)
         /\ Coded(records, n) \in Seq(Nat)
         /\ Len(records[n].payload) <= Len(Coded(records, n))
<1>1. records[n] \in [type : Nat, payload : Seq(Nat)]
  <2> DEFINE R == [type : Nat, payload : Seq(Nat)]
  <2>1. records \in Seq(R)
    BY DEF Encodable
  <2> HIDE DEF R
  <2>2. records[n] \in R
    BY <2>1
  <2> QED
    BY <2>2 DEF R
<1> DEFINE h == RecordHeader(records, n)
           t == records[n].type
           p == records[n].payload
<1>2. h \in Nat /\ Coded(records, n) = Encode(h, t, p)
  BY RecordHeaderIs DEF Headers
<1>3. t \in Nat /\ p \in Seq(Nat) /\ Len(p) \in Nat
  BY <1>1
<1> HIDE DEF h, t, p
<1>4. IsCode(Encode(h, t, p), h, t, p, Len(p))
  BY <1>2, <1>3, CodeShape, Zenon
<1>5. Encode(h, t, p) \in Seq(Nat) /\ Len(Encode(h, t, p)) = RecordHead(Len(p)) + Len(p)
  BY <1>4 DEF IsCode
<1>6. Len(p) <= Len(Encode(h, t, p))
  BY <1>3, <1>5 DEF RecordHead
<1> QED
  BY <1>2, <1>3, <1>5, <1>6 DEF t, p

(* The parts of a message, each the one before and a record: they exist.   *)
PartAt(records, P, n) == IF n = 0 THEN <<>> ELSE P[n - 1] \o Coded(records, n)

LEMMA PartsExist ==
  ASSUME NEW records, Len(records) \in Nat
  PROVE  \E P : P = [n \in 0..Len(records) |-> PartAt(records, P, n)]
<1> DEFINE N == Len(records)
           S == {m \in 0..N : \E P : \A n \in 0..m : P[n] = PartAt(records, P, n)}
<1>1. N \in Nat
  OBVIOUS
<1>2. 0 \in S
  <2> DEFINE P == [n \in {0} |-> <<>>]
  <2>1. \A n \in 0..0 : P[n] = PartAt(records, P, n)
    BY DEF PartAt
  <2> HIDE DEF P
  <2> QED
    BY <1>1, <2>1
<1>3. ASSUME NEW m \in 1..N, m - 1 \in S PROVE m \in S
  <2>1. PICK P : \A n \in 0..(m - 1) : P[n] = PartAt(records, P, n)
    BY <1>3
  <2> DEFINE Q == [n \in 0..N |-> IF n = m THEN PartAt(records, P, m) ELSE P[n]]
  <2>2. \A n \in 0..(m - 1) : Q[n] = P[n]
    BY <1>1
  <2>3. Q[m] = PartAt(records, P, m)
    BY <1>1
  <2> HIDE DEF Q
  <2>4. ASSUME NEW n \in 0..m PROVE Q[n] = PartAt(records, Q, n)
    <3>1. n # 0 => Q[n - 1] = P[n - 1]
      BY <1>1, <2>2
    <3>2. PartAt(records, P, n) = PartAt(records, Q, n)
      BY <3>1 DEF PartAt
    <3> QED
      BY <1>1, <2>1, <2>2, <2>3, <3>2
  <2> QED
    BY <1>1, <2>4
<1>4. N \in S
  <2> HIDE DEF S, N
  <2> QED
    BY <1>1, <1>2, <1>3, Ascent
<1>5. PICK P : \A n \in 0..N : P[n] = PartAt(records, P, n)
  BY <1>4
<1> DEFINE Q == [n \in 0..N |-> P[n]]
<1>6. \A n \in 0..N : Q[n] = P[n]
  OBVIOUS
<1> HIDE DEF Q
<1>7. ASSUME NEW n \in 0..N PROVE PartAt(records, P, n) = PartAt(records, Q, n)
  <2>1. n # 0 => Q[n - 1] = P[n - 1]
    BY <1>1, <1>6
  <2> QED
    BY <2>1 DEF PartAt
<1>8. Q = [n \in 0..N |-> PartAt(records, Q, n)]
  <2>1. Q = [n \in 0..N |-> P[n]]
    BY DEF Q
  <2> QED
    BY <1>5, <1>7, <2>1
<1> QED
  BY <1>8

LEMMA MessageUnfolds ==
  ASSUME NEW records, Len(records) \in Nat
  PROVE  \E P : /\ EncodeMessage(records) = P[Len(records)]
                /\ \A n \in 0..Len(records) : P[n] = PartAt(records, P, n)
<1> DEFINE P == CHOOSE f : f = [n \in 0..Len(records) |-> PartAt(records, f, n)]
<1>1. P = [n \in 0..Len(records) |-> PartAt(records, P, n)]
  BY PartsExist, Zenon
<1>2. EncodeMessage(records) = P[Len(records)]
  BY DEF EncodeMessage, PartAt
<1> HIDE DEF P
<1>3. \A n \in 0..Len(records) : P[n] = PartAt(records, P, n)
  BY <1>1
<1> QED
  BY <1>2, <1>3

(* Parts of members of S are sequences of them.                            *)
LEMMA PartsOf ==
  ASSUME NEW S, NEW records, NEW N \in Nat, NEW P, P[0] = <<>>,
         \A n \in 1..N : P[n] = P[n - 1] \o Coded(records, n),
         \A n \in 1..N : Coded(records, n) \in Seq(S)
  PROVE  \A n \in 0..N : P[n] \in Seq(S)
<1> SUFFICES ASSUME NEW k \in 0..N PROVE P[k] \in Seq(S)
  OBVIOUS
<1> DEFINE T == {n \in 0..k : P[n] \in Seq(S)}
<1>1. k \in Nat /\ 0 \in T
  <2>1. k \in Nat /\ 0 \in 0..k
    OBVIOUS
  <2>2. <<>> \in Seq(S)
    OBVIOUS
  <2> QED
    BY <2>1, <2>2
<1>2. ASSUME NEW n \in 1..k, n - 1 \in T PROVE n \in T
  <2>1. P[n - 1] \in Seq(S) /\ n \in 1..N
    BY <1>2
  <2>2. P[n] = P[n - 1] \o Coded(records, n) /\ Coded(records, n) \in Seq(S)
    BY <2>1
  <2>3. P[n] \in Seq(S)
    BY <2>1, <2>2
  <2> QED
    BY <1>1, <2>3
<1>3. k \in T
  <2> HIDE DEF T
  <2> QED
    BY <1>1, <1>2, Ascent
<1> QED
  BY <1>3

(* Where the records of a message stand: record n from at[n - 1] to at[n]. *)
Laid(data, at, records) ==
  /\ data \in Seq(Nat)
  /\ \A n \in 0..Len(records) : at[n] \in Nat
  /\ at[0] = 0 /\ at[Len(records)] = Len(data)
  /\ \A n \in 1..Len(records) : /\ HoldsAt(data, at[n - 1], Coded(records, n))
                                /\ at[n] = at[n - 1] + Len(Coded(records, n))

LEMMA MessageLaid ==
  ASSUME NEW records, Encodable(records)
  PROVE  \E at : Laid(EncodeMessage(records), at, records)
<1> DEFINE N == Len(records)
<1>1. N \in Nat /\ Len(records) = N
  BY DEF Encodable
<1>2. PICK P : /\ EncodeMessage(records) = P[N]
               /\ \A n \in 0..N : P[n] = PartAt(records, P, n)
  BY <1>1, MessageUnfolds
<1>3. \A n \in 1..N : Coded(records, n) \in Seq(Nat)
  BY RecordOf
<1> HIDE DEF N
<1>4. P[0] = <<>> /\ \A n \in 1..N : P[n] = P[n - 1] \o Coded(records, n)
  <2>1. 0 \in 0..N
    BY <1>1
  <2>2. P[0] = <<>>
    BY <1>2, <2>1 DEF PartAt
  <2>3. \A n \in 1..N : n # 0 /\ n \in 0..N
    BY <1>1
  <2> QED
    BY <1>2, <2>2, <2>3 DEF PartAt
<1>5. \A n \in 0..N : P[n] \in Seq(Nat)
  BY <1>1, <1>3, <1>4, PartsOf
<1>6. ASSUME NEW n \in 1..N
      PROVE  IsJoin(Nat, P[n], P[n - 1], Len(P[n - 1]), Coded(records, n), Len(Coded(records, n)))
  <2>1. P[n - 1] \in Seq(Nat) /\ Coded(records, n) \in Seq(Nat)
    BY <1>1, <1>3, <1>5
  <2> QED
    BY <1>4, <2>1, Joined, Zenon
<1> DEFINE at == [n \in 0..N |-> Len(P[n])]
<1>7. \A n \in 0..N : at[n] \in Nat /\ at[n] = Len(P[n])
  BY <1>5
<1> HIDE DEF at
<1>8. \A n \in 1..N : at[n] = at[n - 1] + Len(Coded(records, n))
  <2> SUFFICES ASSUME NEW n \in 1..N PROVE at[n] = at[n - 1] + Len(Coded(records, n))
    OBVIOUS
  <2>1. at[n] = Len(P[n]) /\ at[n - 1] = Len(P[n - 1])
    BY <1>1, <1>7
  <2> QED
    BY <1>6, <2>1 DEF IsJoin
    (* Every part begins the message. *)
<1>9. \A n \in 0..N : HoldsAt(P[N], 0, P[n])
  <2> SUFFICES ASSUME NEW k \in 0..N PROVE HoldsAt(P[N], 0, P[k])
    OBVIOUS
  <2> DEFINE T == {n \in 0..(N - k) : HoldsAt(P[N], 0, P[n + k])}
  <2>1. N - k \in Nat /\ N - k \in T
    <3>1. N - k + k = N /\ N - k \in Nat
      BY <1>1
    <3>2. HoldsAt(P[N], 0, P[N])
      <4>1. P[N] \in Seq(Nat)
        BY <1>1, <1>5
      <4> QED
        BY <4>1 DEF HoldsAt
    <3> QED
      BY <3>1, <3>2
  <2>2. ASSUME NEW m \in 1..(N - k), m \in T PROVE m - 1 \in T
    <3> DEFINE n == m + k
    <3>1. n \in 1..N /\ n - 1 \in 0..N /\ n - 1 = (m - 1) + k
      BY <1>1
    <3>2. HoldsAt(P[N], 0, P[n])
      BY <2>2
    <3> HIDE DEF n
    <3>3. P[n - 1] \in Seq(Nat) /\ P[n] \in Seq(Nat) /\ P[N] \in Seq(Nat)
          /\ Coded(records, n) \in Seq(Nat)
      BY <1>1, <1>3, <1>5, <3>1
    <3>4. Len(P[n - 1]) <= Len(P[n]) /\ \A i \in 1..Len(P[n - 1]) : P[n][i] = P[n - 1][i]
      BY <1>6, <3>1, <3>3 DEF IsJoin
    <3>5. HoldsAt(P[N], 0, P[n - 1])
      <4>1. Len(P[n - 1]) \in Nat /\ Len(P[n]) \in Nat /\ Len(P[N]) \in Nat
        BY <3>3
      <4>2. Len(P[n]) <= Len(P[N]) /\ \A i \in 1..Len(P[n]) : P[N][0 + i] = P[n][i]
        BY <3>2, <4>1 DEF HoldsAt
      <4>3. ASSUME NEW i \in 1..Len(P[n - 1]) PROVE P[N][0 + i] = P[n - 1][i]
        <5>1. i \in 1..Len(P[n])
          BY <3>4, <4>1
        <5> QED
          BY <3>4, <4>2, <5>1
      <4> QED
        BY <3>4, <4>1, <4>2, <4>3 DEF HoldsAt
    <3>6. m - 1 \in 0..(N - k)
      BY <2>1
    <3> QED
      BY <3>1, <3>5, <3>6
  <2>3. 0 \in T
    <3> HIDE DEF T
    <3> QED
      BY <2>1, <2>2, Descent
  <2> QED
    BY <2>3
<1>10. ASSUME NEW n \in 1..N PROVE HoldsAt(P[N], at[n - 1], Coded(records, n))
  <2> DEFINE c == Coded(records, n)
             a == at[n - 1]
  <2>1. a \in Nat /\ a = Len(P[n - 1])
    BY <1>1, <1>7
  <2>2. IsJoin(Nat, P[n], P[n - 1], a, c, Len(c))
    BY <1>6, <2>1
  <2>3. HoldsAt(P[N], 0, P[n])
    BY <1>1, <1>9
  <2>4. Len(c) \in Nat
    BY <1>3
  <2> HIDE DEF c, a
  <2>5. Len(P[n]) = a + Len(c) /\ \A i \in 1..Len(c) : P[n][a + i] = c[i]
    BY <2>2 DEF IsJoin
  <2>6. a + Len(c) <= Len(P[N])
    BY <2>1, <2>3, <2>4, <2>5 DEF HoldsAt
  <2>7. \A j \in 1..(a + Len(c)) : P[N][j] = P[n][j]
    BY <2>3, <2>5 DEF HoldsAt
  <2>8. \A i \in 1..Len(c) : P[N][a + i] = c[i]
    <3> DEFINE m == Len(c)
    <3>1. m \in Nat /\ m = Len(c)
      BY <2>4
    <3> HIDE DEF m
    <3>2. ASSUME NEW i \in 1..m PROVE a + i \in 1..(a + m)
      BY <2>1, <3>1
    <3>3. ASSUME NEW i \in 1..m PROVE P[N][a + i] = c[i]
      BY <2>5, <2>7, <3>1, <3>2
    <3> QED
      BY <3>1, <3>3
  <2>9. HoldsAt(P[N], a, c)
    BY <2>6, <2>8 DEF HoldsAt
  <2> QED
    BY <2>9 DEF c, a
<1>11. at[0] = 0 /\ at[N] = Len(P[N]) /\ P[N] \in Seq(Nat)
  BY <1>1, <1>4, <1>5, <1>7
<1>12. Laid(P[N], at, records)
  BY <1>1, <1>7, <1>8, <1>10, <1>11 DEF Laid
<1> QED
  BY <1>2, <1>12
-----------------------------------------------------------------------------
(* A record that can be read ends behind its start and inside the data.    *)
LEMMA NextIsLater ==
  ASSUME NEW data \in Seq(Nat), NEW c \in 0..(Len(data) - 1), Readable(data, c)
  PROVE  NextAt(data, c) \in (c + 1)..Len(data)
<1> DEFINE n == Len(data)
<1>1. n \in Nat /\ \A i \in 1..n : data[i] \in Nat
  OBVIOUS
<1>2. BodyAt(data, c) <= n /\ NextAt(data, c) <= n /\ c \in Nat
  BY DEF Readable
<1> HIDE DEF n
<1>3. \A i \in 0..(n - 1) : At(data, i) \in Nat
  BY <1>1 DEF At
<1>4. IdAt(data, c) \in Nat /\ IdAt(data, c) >= c + 3
      /\ (~ Short(At(data, c)) => IdAt(data, c) = c + 6)
  BY <1>2 DEF IdAt
<1>5. BodyAt(data, c) \in Nat /\ BodyAt(data, c) >= IdAt(data, c)
      /\ (HasId(At(data, c)) => BodyAt(data, c) = IdAt(data, c) + 1)
  BY <1>4 DEF BodyAt
<1>6. At(data, c + 1) \in Nat /\ At(data, c + 2) \in Nat
  BY <1>1, <1>2, <1>3, <1>4, <1>5
<1>7. ~ Short(At(data, c)) =>
        At(data, c + 3) \in Nat /\ At(data, c + 4) \in Nat /\ At(data, c + 5) \in Nat
  BY <1>1, <1>2, <1>3, <1>4, <1>5
<1>8. HasId(At(data, c)) => At(data, IdAt(data, c)) \in Nat
  BY <1>1, <1>2, <1>3, <1>4, <1>5
<1>9. PayloadLength(data, c) \in Nat
  <2>1. CASE Short(At(data, c))
    BY <1>6, <2>1 DEF PayloadLength
  <2>2. CASE ~ Short(At(data, c))
    <3> DEFINE p == At(data, c + 2)
               q == At(data, c + 3)
               r == At(data, c + 4)
               s == At(data, c + 5)
    <3>1. p \in Nat /\ q \in Nat /\ r \in Nat /\ s \in Nat
      BY <1>6, <1>7, <2>2
    <3>2. PayloadLength(data, c) = 256 * (256 * (256 * p + q) + r) + s
      BY <2>2 DEF PayloadLength
    <3> HIDE DEF p, q, r, s
    <3> QED
      BY <3>1, <3>2
  <2> QED
    BY <2>1, <2>2
<1>10. PayloadAt(data, c) \in Nat /\ PayloadAt(data, c) >= BodyAt(data, c)
  <2>1. CASE HasId(At(data, c))
    BY <1>5, <1>6, <1>8, <2>1 DEF PayloadAt
  <2>2. CASE ~ HasId(At(data, c))
    BY <1>5, <1>6, <2>2 DEF PayloadAt
  <2> QED
    BY <2>1, <2>2
<1>11. NextAt(data, c) \in Nat /\ NextAt(data, c) >= PayloadAt(data, c)
  BY <1>9, <1>10 DEF NextAt
<1>12. NextAt(data, c) \in (c + 1)..n
  BY <1>1, <1>2, <1>4, <1>5, <1>10, <1>11
<1> QED
  BY <1>12 DEF n

(* So the records from an offset on depend on those behind it only.        *)
LEMMA MessageAtLater ==
  ASSUME NEW data \in Seq(Nat), NEW c \in 0..Len(data), NEW f, NEW g,
         \A d \in (c + 1)..Len(data) : f[d] = g[d]
  PROVE  MessageAt(data, f, c) = MessageAt(data, g, c)
<1>1. CASE c = Len(data)
  BY <1>1 DEF MessageAt
<1>2. CASE c # Len(data) /\ ~ Readable(data, c)
  BY <1>2 DEF MessageAt
<1>3. CASE c # Len(data) /\ Readable(data, c)
  <2>1. c \in 0..(Len(data) - 1)
    BY <1>3
  <2>2. NextAt(data, c) \in (c + 1)..Len(data)
    BY <1>3, <2>1, NextIsLater
  <2>3. f[NextAt(data, c)] = g[NextAt(data, c)]
    BY <2>2
  <2> QED
    BY <1>3, <2>3 DEF MessageAt
<1> QED
  BY <1>1, <1>2, <1>3

LEMMA MessageSolvable ==
  ASSUME NEW data \in Seq(Nat)
  PROVE  \E f : f = [c \in 0..Len(data) |-> MessageAt(data, f, c)]
<1> DEFINE n == Len(data)
           S == {m \in 0..n : \E f : \A c \in m..n : f[c] = MessageAt(data, f, c)}
<1>1. n \in Nat
  OBVIOUS
<1>2. n \in S
  <2> DEFINE f == [c \in {n} |-> [ok |-> TRUE, records |-> <<>>]]
  <2>1. f[n] = [ok |-> TRUE, records |-> <<>>]
    OBVIOUS
  <2> HIDE DEF f
  <2>2. \A c \in n..n : f[c] = MessageAt(data, f, c)
    BY <1>1, <2>1 DEF MessageAt
  <2>3. n \in 0..n
    BY <1>1
  <2> QED
    BY <2>2, <2>3
<1>3. ASSUME NEW m \in 1..n, m \in S PROVE m - 1 \in S
  <2>1. PICK f : \A c \in m..n : f[c] = MessageAt(data, f, c)
    BY <1>3
  <2> DEFINE g == [c \in 0..n |-> IF c = m - 1 THEN MessageAt(data, f, m - 1) ELSE f[c]]
  <2>2. \A c \in m..n : g[c] = f[c]
    BY <1>1
  <2>3. g[m - 1] = MessageAt(data, f, m - 1)
    BY <1>1
  <2> HIDE DEF g
  <2>4. ASSUME NEW c \in (m - 1)..n PROVE g[c] = MessageAt(data, g, c)
    <3>1. c \in 0..n /\ \A d \in (c + 1)..n : f[d] = g[d]
      BY <1>1, <2>2
    <3>2. MessageAt(data, f, c) = MessageAt(data, g, c)
      BY <3>1, MessageAtLater
    <3> QED
      BY <1>1, <2>1, <2>2, <2>3, <3>2
  <2> QED
    BY <1>1, <2>4
<1>4. 0 \in S
  <2> HIDE DEF S, n
  <2> QED
    BY <1>1, <1>2, <1>3, Descent
<1>5. PICK f : \A c \in 0..n : f[c] = MessageAt(data, f, c)
  BY <1>4
<1> DEFINE g == [c \in 0..n |-> f[c]]
<1>6. \A c \in 0..n : g[c] = f[c]
  OBVIOUS
<1> HIDE DEF g
<1>7. ASSUME NEW c \in 0..n PROVE MessageAt(data, f, c) = MessageAt(data, g, c)
  <2>1. \A d \in (c + 1)..n : f[d] = g[d]
    BY <1>1, <1>6
  <2> QED
    BY <2>1, MessageAtLater
<1>8. g = [c \in 0..n |-> MessageAt(data, g, c)]
  <2>1. g = [c \in 0..n |-> f[c]]
    BY DEF g
  <2> QED
    BY <1>5, <1>7, <2>1
<1> QED
  BY <1>8

(* What the parser makes of the records it finds from offset 0 on.         *)
Parsed(found) ==
  [ok |-> /\ found.ok /\ found.records # <<>>
          /\ Begins(found.records[1].header)
          /\ Ends(found.records[Len(found.records)].header),
   records |-> found.records]

LEMMA ParseMessageUnfolds ==
  ASSUME NEW data \in Seq(Nat)
  PROVE  \E f : /\ ParseMessage(data) = Parsed(f[0])
                /\ \A c \in 0..Len(data) : f[c] = MessageAt(data, f, c)
<1> DEFINE F == CHOOSE f : f = [c \in 0..Len(data) |-> MessageAt(data, f, c)]
<1>1. F = [c \in 0..Len(data) |-> MessageAt(data, F, c)]
  BY MessageSolvable, Zenon
<1>2. ParseMessage(data) = Parsed(F[0])
  BY DEF ParseMessage, Parsed
<1> HIDE DEF F
<1>3. \A c \in 0..Len(data) : F[c] = MessageAt(data, F, c)
  BY <1>1
<1> QED
  BY <1>2, <1>3
-----------------------------------------------------------------------------
(* found is what is read of the records behind the first n of them.        *)
Rest(found, records, n) ==
  /\ found.ok
  /\ found.records \in Seq(ReadRecord)
  /\ Len(found.records) = Len(records) - n
  /\ \A i \in 1..(Len(records) - n) :
       Reads(found.records[i], RecordHeader(records, n + i),
             records[n + i].type, records[n + i].payload)

(* Reading record n and what is behind it, where the rest has been read.   *)
LEMMA OneRecordMore ==
  ASSUME NEW data, NEW at, NEW records, Sendable(records), Laid(data, at, records),
         NEW f, \A c \in 0..Len(data) : f[c] = MessageAt(data, f, c),
         NEW n \in 1..Len(records), n < Len(records) => Rest(f[at[n]], records, n)
  PROVE  Rest(f[at[n - 1]], records, n - 1)
<1> DEFINE N == Len(records)
           c == at[n - 1]
           h == RecordHeader(records, n)
           t == records[n].type
           p == records[n].payload
           r == RecordAt(data, c)
<1>1. N \in Nat /\ n \in 1..N /\ Len(records) = N
  BY DEF Sendable, Encodable
<1>2. data \in Seq(Nat) /\ c \in Nat /\ at[N] = Len(data)
      /\ HoldsAt(data, c, Coded(records, n)) /\ at[n] = c + Len(Coded(records, n))
  <2>1. n - 1 \in 0..N
    BY <1>1
  <2> QED
    BY <2>1 DEF Laid
<1>3. h \in Headers /\ (h \in {65, 193} <=> n = N) /\ Coded(records, n) = Encode(h, t, p)
  BY RecordHeaderIs
<1>4. t \in Nat /\ p \in Seq(Nat) /\ Len(p) < 256 * 256
  BY RecordOf DEF Sendable
<1> HIDE DEF h, t, p, c, N
<1>5. /\ Readable(data, c) /\ c < Len(data)
      /\ NextAt(data, c) = at[n]
      /\ Reads(r, h, t, p) /\ r \in ReadRecord
  <2>1. HoldsAt(data, c, Encode(h, t, p)) /\ at[n] = c + Len(Encode(h, t, p))
    BY <1>2, <1>3
  <2>2. data \in Seq(Nat) /\ c \in Nat /\ h \in Headers
    BY <1>2, <1>3
  <2>3. /\ Readable(data, c) /\ c < Len(data)
        /\ NextAt(data, c) = c + Len(Encode(h, t, p))
        /\ Reads(RecordAt(data, c), h, t, p) /\ RecordAt(data, c) \in ReadRecord
    BY <1>4, <2>1, <2>2, CodeReads
  <2> QED
    BY <2>1, <2>3
<1>6. r.header \in {h, h + 16} /\ (Ends(r.header) <=> n = N)
  <2>1. (Ends(h) <=> h \in {65, 193}) /\ (Ends(h + 16) <=> h \in {65, 193})
    BY <1>3, HeaderBits
  <2>2. r.header \in {h, h + 16}
    BY <1>5 DEF Reads
  <2> HIDE DEF r
  <2> QED
    BY <1>3, <2>1, <2>2
<1>7. f[c] = MessageAt(data, f, c) /\ c # Len(data)
  <2>1. Len(data) \in Nat
    BY <1>2
  <2> QED
    BY <1>2, <1>5, <2>1
<1>8. Reads(r, RecordHeader(records, n - 1 + 1), records[n - 1 + 1].type, records[n - 1 + 1].payload)
  <2>1. n - 1 + 1 = n
    BY <1>1
  <2> QED
    BY <1>5, <2>1 DEF h, t, p
<1>9. CASE n = N
  <2>1. f[c] = [ok |-> at[n] = Len(data), records |-> <<r>>]
    BY <1>5, <1>6, <1>7, <1>9 DEF MessageAt
  <2> HIDE DEF r
  <2>2. f[c].ok /\ f[c].records = <<r>>
    <3>1. at[n] = Len(data)
      BY <1>2, <1>9
    <3>2. f[c] = [ok |-> TRUE, records |-> <<r>>]
      BY <2>1, <3>1
    <3> QED
      BY <3>2
  <2>3. <<r>> \in Seq(ReadRecord) /\ Len(<<r>>) = 1 /\ <<r>>[1] = r
    BY <1>5
  <2>4. N - (n - 1) = 1
    BY <1>1, <1>9
  <2>5. \A i \in 1..(N - (n - 1)) : i = 1
    BY <2>4
  <2>6. Rest(f[c], records, n - 1)
    BY <1>1, <1>8, <2>2, <2>3, <2>4, <2>5 DEF Rest
  <2> QED
    BY <2>6 DEF c
<1>10. CASE n # N
  <2> DEFINE rest == f[at[n]]
  <2>1. f[c] = [ok |-> rest.ok, records |-> <<r>> \o rest.records]
    BY <1>5, <1>6, <1>7, <1>10 DEF MessageAt
  <2>2. Rest(rest, records, n)
    BY <1>1, <1>10
  <2> HIDE DEF r, rest
  <2> DEFINE s == rest.records
             j == <<r>> \o s
  <2>3. rest.ok /\ s \in Seq(ReadRecord) /\ Len(s) = N - n
        /\ \A i \in 1..(N - n) :
             Reads(s[i], RecordHeader(records, n + i), records[n + i].type, records[n + i].payload)
    BY <1>1, <2>2 DEF Rest
  <2>4. f[c].ok /\ f[c].records = j
    BY <2>1, <2>3
  <2> HIDE DEF s
  <2>5. <<r>> \in Seq(ReadRecord) /\ Len(<<r>>) = 1 /\ <<r>>[1] = r
    BY <1>5
  <2>6. IsJoin(ReadRecord, j, <<r>>, 1, s, N - n)
    BY <2>3, <2>5, Joined, Zenon
  <2> HIDE DEF j
  <2>7. j \in Seq(ReadRecord) /\ Len(j) = N - (n - 1) /\ j[1] = r
    BY <1>1, <2>5, <2>6 DEF IsJoin
  <2>8. ASSUME NEW i \in 1..(N - (n - 1))
        PROVE  Reads(j[i], RecordHeader(records, n - 1 + i),
                     records[n - 1 + i].type, records[n - 1 + i].payload)
    <3>1. CASE i = 1
      BY <1>8, <2>7, <3>1
    <3>2. CASE i # 1
      <4>1. i - 1 \in 1..(N - n) /\ 1 + (i - 1) = i /\ n + (i - 1) = n - 1 + i
        BY <1>1, <3>2
      <4>2. j[i] = s[i - 1]
        BY <2>6, <4>1 DEF IsJoin
      <4> QED
        BY <2>3, <4>1, <4>2
    <3> QED
      BY <3>1, <3>2
  <2>9. Rest(f[c], records, n - 1)
    BY <1>1, <2>4, <2>7, <2>8 DEF Rest
  <2> QED
    BY <2>9 DEF c
<1> QED
  BY <1>9, <1>10

(* MESSAGE.  What the editor encodes the reader reads: whatever records a  *)
(* message is made of (build_type2_ndef, _encode_record), however long     *)
(* their payloads below 64 KiB, parse_ndef_message accepts it and finds as *)
(* many records, in the same order, each with its type and its payload.    *)
THEOREM MessageReadsBack ==
  ASSUME NEW records \in Seq([type : Nat, payload : Seq(Nat)]), records # <<>>,
         \A n \in 1..Len(records) : Len(records[n].payload) < 256 * 256
  PROVE  LET read == ParseMessage(EncodeMessage(records))
         IN  /\ read.ok /\ read.records \in Seq(ReadRecord)
             /\ Len(read.records) = Len(records)
             /\ \A n \in 1..Len(records) :
                  /\ Tnf(read.records[n].header) = 1
                  /\ read.records[n].type = <<records[n].type>>
                  /\ read.records[n].payload = records[n].payload
<1> DEFINE data == EncodeMessage(records)
           N == Len(records)
<1>1. N \in Nat /\ N # 0 /\ Len(records) = N
  OBVIOUS
<1>2. Sendable(records) /\ Encodable(records)
  BY DEF Sendable, Encodable
<1>3. PICK at : Laid(data, at, records)
  BY <1>2, MessageLaid
<1> HIDE DEF data
<1>4. data \in Seq(Nat) /\ at[0] = 0
  BY <1>3 DEF Laid
<1>5. PICK f : /\ ParseMessage(data) = Parsed(f[0])
               /\ \A c \in 0..Len(data) : f[c] = MessageAt(data, f, c)
  BY <1>4, ParseMessageUnfolds
<1> HIDE DEF N
<1>6. Rest(f[0], records, 0)
  <2> DEFINE S == {n \in 0..N : n < N => Rest(f[at[n]], records, n)}
  <2>1. N \in S
    BY <1>1
  <2>2. ASSUME NEW n \in 1..N, n \in S PROVE n - 1 \in S
    <3>1. n \in 1..Len(records) /\ (n < Len(records) => Rest(f[at[n]], records, n))
      BY <1>1, <2>2
    <3>2. Rest(f[at[n - 1]], records, n - 1)
      BY <1>2, <1>3, <1>5, <3>1, OneRecordMore
    <3> QED
      BY <1>1, <3>2
  <2>3. 0 \in S
    <3> HIDE DEF S
    <3> QED
      BY <1>1, <2>1, <2>2, Descent
  <2> QED
    BY <1>1, <1>4, <2>3
<1> DEFINE rs == f[0].records
<1>7. f[0].ok /\ rs \in Seq(ReadRecord) /\ Len(rs) = N
      /\ \A n \in 1..N : Reads(rs[n], RecordHeader(records, n), records[n].type, records[n].payload)
  <2>1. Len(rs) = N - 0 /\ N - 0 = N
    BY <1>1, <1>6 DEF Rest
  <2>2. \A n \in 1..N : 0 + n = n
    BY <1>1
  <2> QED
    BY <1>1, <1>6, <2>1, <2>2 DEF Rest
<1> HIDE DEF rs
<1>8. ASSUME NEW n \in 1..N
      PROVE  /\ Tnf(rs[n].header) = 1
             /\ Begins(rs[n].header) <=> n = 1
             /\ Ends(rs[n].header) <=> n = N
  <2> DEFINE h == RecordHeader(records, n)
             g == rs[n].header
  <2>1. h \in Headers /\ (h \in {65, 193} <=> n = N) /\ (h >= 129 <=> n = 1)
    BY <1>1, RecordHeaderIs
  <2>2. g \in {h, h + 16}
    BY <1>7 DEF Reads
  <2> HIDE DEF h, g
  <2>3. /\ Tnf(h) = 1 /\ Tnf(h + 16) = 1
        /\ (Begins(h) <=> h >= 129) /\ (Begins(h + 16) <=> h >= 129)
        /\ (Ends(h) <=> h \in {65, 193}) /\ (Ends(h + 16) <=> h \in {65, 193})
    BY <2>1, HeaderBits
  <2>4. Tnf(g) = 1 /\ (Begins(g) <=> n = 1) /\ (Ends(g) <=> n = N)
    BY <2>1, <2>2, <2>3
  <2> QED
    BY <2>4 DEF g
<1>9. ParseMessage(data).ok /\ ParseMessage(data).records = rs
  <2>1. 1 \in 1..N /\ N \in 1..N /\ rs # <<>>
    BY <1>1, <1>7
  <2>2. Begins(rs[1].header) /\ Ends(rs[Len(rs)].header)
    BY <1>7, <1>8, <2>1
  <2> QED
    BY <1>5, <1>7, <2>1, <2>2 DEF Parsed, rs
<1>10. \A n \in 1..N : /\ Tnf(rs[n].header) = 1
                       /\ rs[n].type = <<records[n].type>>
                       /\ rs[n].payload = records[n].payload
  BY <1>7, <1>8 DEF Reads
<1> QED
  BY <1>1, <1>7, <1>9, <1>10 DEF data
-----------------------------------------------------------------------------
(* TEXT.  The reader shows the text of a text record as it was given to    *)
(* the editor (NdefRecord.decoded_value): the language before it, of       *)
(* fewer than 64 bytes, is skipped.                                        *)
THEOREM TextIsShown ==
  ASSUME NEW language \in Seq(Nat), Len(language) < 64, NEW text \in Seq(Nat),
         NEW record, Tnf(record.header) = 1, record.type = <<TextType>>,
         record.payload = TextPayload(language, text)
  PROVE  Decoded(record) = <<text>>
<1> DEFINE p == record.payload
           l == Len(language)
           n == Len(text)
           s == <<l>> \o language
<1>1. l \in Nat /\ l < 64 /\ n \in Nat /\ Len(language) = l /\ Len(text) = n
  OBVIOUS
<1>2. <<l>> \in Seq(Nat) /\ Len(<<l>>) = 1 /\ <<l>>[1] = l
  OBVIOUS
<1>3. p = s \o text
  BY DEF TextPayload
<1> HIDE DEF p, l, n
<1>4. IsJoin(Nat, s, <<l>>, 1, language, l)
  BY <1>1, <1>2, Joined, Zenon
<1> HIDE DEF s
<1>5. s \in Seq(Nat) /\ Len(s) = 1 + l /\ s[1] = l
  BY <1>1, <1>2, <1>4 DEF IsJoin
<1>6. IsJoin(Nat, p, s, 1 + l, text, n)
  BY <1>1, <1>3, <1>5, Joined, Zenon
<1>7. p \in Seq(Nat) /\ Len(p) = 1 + l + n /\ p[1] = l /\ HoldsAt(p, 1 + l, text)
  BY <1>1, <1>5, <1>6 DEF IsJoin, HoldsAt
<1>8. Slice(p, 1 + l, Len(p)) = text
  <2>1. Slice(p, 1 + l, 1 + l + Len(text)) = text
    <3>1. 1 + l \in Nat
      BY <1>1
    <3> QED
      BY <1>7, <3>1, SliceIs
  <2> QED
    BY <1>1, <1>7, <2>1
<1>9. p # <<>> /\ 1 + (p[1] % 64) = 1 + l /\ 1 + l <= Len(p)
  <2>1. l % 64 = l
    BY <1>1
  <2>2. Len(p) # 0 /\ 1 + l <= Len(p)
    BY <1>1, <1>7
  <2> QED
    BY <1>7, <2>1, <2>2
<1>10. record.type # <<UriType>> /\ record.type = <<TextType>>
  BY DEF TextType, UriType
<1> QED
  BY <1>8, <1>9, <1>10 DEF Decoded, p
-----------------------------------------------------------------------------
LEMMA Prefixes ==
  /\ UriPrefix[0] = <<>> /\ UriPrefix[1] = <<Http, Www>> /\ UriPrefix[2] = <<Https, Www>>
  /\ UriPrefix[3] = <<Http>> /\ UriPrefix[4] = <<Https>>
  /\ DOMAIN UriPrefix = 0..4
  /\ \A code \in 0..4 : UriPrefix[code] \in Seq(Nat) /\ Len(UriPrefix[code]) \in 0..2
<1>1. /\ UriPrefix[0] = <<>> /\ UriPrefix[1] = <<Http, Www>> /\ UriPrefix[2] = <<Https, Www>>
      /\ UriPrefix[3] = <<Http>> /\ UriPrefix[4] = <<Https>>
      /\ DOMAIN UriPrefix = 0..4
  BY DEF UriPrefix
<1>2. /\ <<>> \in Seq(Nat) /\ <<Http, Www>> \in Seq(Nat) /\ <<Https, Www>> \in Seq(Nat)
      /\ <<Http>> \in Seq(Nat) /\ <<Https>> \in Seq(Nat)
      /\ Len(<<>>) = 0 /\ Len(<<Http, Www>>) = 2 /\ Len(<<Https, Www>>) = 2
      /\ Len(<<Http>>) = 1 /\ Len(<<Https>>) = 1
  BY DEF Http, Https, Www
<1>3. \A code \in 0..4 : code = 0 \/ code = 1 \/ code = 2 \/ code = 3 \/ code = 4
  OBVIOUS
<1>4. 0 \in 0..2 /\ 1 \in 0..2 /\ 2 \in 0..2
  OBVIOUS
<1>5. ASSUME NEW code \in 0..4
      PROVE  UriPrefix[code] \in Seq(Nat) /\ Len(UriPrefix[code]) \in 0..2
  <2>1. CASE code = 0
    BY <1>1, <1>2, <1>4, <2>1, Zenon
  <2>2. CASE code = 1
    BY <1>1, <1>2, <1>4, <2>2, Zenon
  <2>3. CASE code = 2
    BY <1>1, <1>2, <1>4, <2>3, Zenon
  <2>4. CASE code = 3
    BY <1>1, <1>2, <1>4, <2>4, Zenon
  <2>5. CASE code = 4
    BY <1>1, <1>2, <1>4, <2>5, Zenon
  <2> QED
    BY <1>3, <2>1, <2>2, <2>3, <2>4, <2>5
<1> QED
  BY <1>1, <1>5

(* _compress_uri finds a longest prefix: the empty one always fits.        *)
LEMMA CompressFits ==
  ASSUME NEW url \in Seq(Nat)
  PROVE  /\ Compress(url) \in 0..4 /\ StartsWith(url, UriPrefix[Compress(url)])
         /\ \A code \in 0..4 :
              StartsWith(url, UriPrefix[code]) =>
                Len(UriPrefix[code]) <= Len(UriPrefix[Compress(url)])
<1> DEFINE S == {c \in 0..4 : StartsWith(url, UriPrefix[c])}
           Longest(c) == \A other \in S : Len(UriPrefix[other]) <= Len(UriPrefix[c])
<1>1. 0 \in S
  <2>1. Len(<<>>) <= Len(url) /\ DOMAIN <<>> = {}
    OBVIOUS
  <2> QED
    BY <2>1, Prefixes DEF StartsWith
<1>2. \E c \in S : Longest(c)
  <2> DEFINE T == {2 - Len(UriPrefix[c]) : c \in S}
  <2>1. T \subseteq Nat /\ T # {}
    <3>1. \A c \in S : Len(UriPrefix[c]) \in 0..2
      BY Prefixes
    <3> HIDE DEF S
    <3>2. \A c \in S : 2 - Len(UriPrefix[c]) \in Nat
      <4>1. \A x \in 0..2 : 2 - x \in Nat
        OBVIOUS
      <4> QED
        BY <3>1, <4>1, Zenon
    <3>3. 2 - Len(UriPrefix[0]) \in T
      BY <1>1
    <3> QED
      BY <3>2, <3>3
  <2>2. PICK x \in T : \A y \in T : x <= y
    BY <2>1, Least
  <2>3. PICK c \in S : x = 2 - Len(UriPrefix[c])
    BY <2>2
  <2>4. ASSUME NEW other \in S PROVE Len(UriPrefix[other]) <= Len(UriPrefix[c])
    <3>1. 2 - Len(UriPrefix[c]) <= 2 - Len(UriPrefix[other])
      BY <2>2, <2>3
    <3>2. Len(UriPrefix[c]) \in Int /\ Len(UriPrefix[other]) \in Int
      BY Prefixes
    <3> QED
      BY <3>1, <3>2
  <2> QED
    BY <2>4
<1>3. Compress(url) = CHOOSE c \in S : Longest(c)
  BY DEF Compress
<1> HIDE DEF Longest
<1>4. Compress(url) \in S /\ Longest(Compress(url))
  BY <1>2, <1>3
<1> QED
  BY <1>4 DEF Longest

(* URI.  The reader shows the URL of a URI record, at its full length:     *)
(* only what the prefix stood for (_compress_uri, decoded_value) comes     *)
(* back in small letters, and every other character as it was.             *)
THEOREM UriIsShown ==
  ASSUME NEW url \in Seq(Nat),
         NEW record, Tnf(record.header) = 1, record.type = <<UriType>>,
         record.payload = UriPayload(url)
  PROVE  \E shown \in Seq(Nat) :
           /\ Decoded(record) = <<shown>>
           /\ Len(shown) = Len(url)
           /\ \A i \in 1..Len(url) :
                shown[i] = IF i <= Len(UriPrefix[Compress(url)]) THEN Lower(url[i]) ELSE url[i]
<1> DEFINE p == record.payload
           n == Len(url)
           code == Compress(url)
           prefix == UriPrefix[code]
           k == Len(prefix)
           rest == SubSeq(url, k + 1, n)
<1>1. n \in Nat /\ Len(url) = n /\ \A i \in 1..n : url[i] \in Nat
  OBVIOUS
<1>2. code \in 0..4 /\ StartsWith(url, prefix)
  BY CompressFits
<1>3. p = <<code>> \o rest
  BY DEF UriPayload
<1>4. code \in DOMAIN UriPrefix /\ prefix \in Seq(Nat) /\ k \in 0..2 /\ Len(prefix) = k
  BY <1>2, Prefixes
<1>5. k <= n /\ \A i \in 1..k : Lower(url[i]) = prefix[i]
  BY <1>2, <1>4 DEF StartsWith
<1> HIDE DEF p, code, prefix, k, n
<1>6. rest \in Seq(Nat) /\ Len(rest) = n - k /\ \A i \in 1..(n - k) : rest[i] = url[k + i]
  <2> DEFINE lo == k + 1
  <2>1. lo \in Int /\ n \in Int /\ n - lo + 1 = n - k /\ (lo <= n \/ n - k = 0)
        /\ \A i \in 1..(n - k) : lo + i - 1 = k + i
    BY <1>1, <1>4, <1>5
  <2>2. \A i \in lo..n : url[i] \in Nat
    BY <1>1, <1>4
  <2> HIDE DEF lo
  <2> DEFINE t == SubSeq(url, lo, n)
  <2>3. /\ t \in Seq(Nat) /\ Len(t) = IF lo <= n THEN n - lo + 1 ELSE 0
        /\ \A i \in 1..(n - lo + 1) : t[i] = url[lo + i - 1]
    BY <2>1, <2>2, SubSeqProperties
  <2>4. rest = t
    BY DEF lo
  <2> HIDE DEF t, rest
  <2> QED
    BY <1>1, <1>4, <1>5, <2>1, <2>3, <2>4
<1> HIDE DEF rest
<1>7. <<code>> \in Seq(Nat) /\ Len(<<code>>) = 1 /\ <<code>>[1] = code
  BY <1>2
<1>8. IsJoin(Nat, p, <<code>>, 1, rest, n - k)
  BY <1>3, <1>6, <1>7, Joined, Zenon
<1>9. p \in Seq(Nat) /\ Len(p) = 1 + (n - k) /\ p[1] = code
      /\ \A i \in 1..(n - k) : p[1 + i] = rest[i]
  BY <1>7, <1>8 DEF IsJoin
<1>10. p # <<>> /\ Tail(p) = rest
  <2>1. p # <<>>
    BY <1>1, <1>4, <1>5, <1>9
  <2>2. Tail(p) \in Seq(Nat) /\ Len(Tail(p)) = n - k
    BY <1>1, <1>4, <1>5, <1>9, <2>1
  <2>3. ASSUME NEW i \in 1..(n - k) PROVE Tail(p)[i] = rest[i]
    <3>1. Tail(p)[i] = p[i + 1] /\ i + 1 = 1 + i
      BY <1>1, <1>4, <1>5, <1>9, <2>1
    <3> QED
      BY <1>9, <3>1
  <2> QED
    BY <1>6, <2>1, <2>2, <2>3, SeqEqual
<1> DEFINE shown == prefix \o rest
<1>11. Decoded(record) = <<shown>>
  <2>1. p[1] \in DOMAIN UriPrefix /\ UriPrefix[p[1]] = prefix
    BY <1>4, <1>9 DEF prefix
  <2>2. record.payload = p /\ record.type = <<UriType>> /\ record.type # <<TextType>>
    BY DEF p, TextType, UriType
  <2>3. Decoded(record) = <<UriPrefix[p[1]] \o Tail(p)>>
    BY <1>10, <2>1, <2>2 DEF Decoded
  <2> QED
    BY <1>10, <2>1, <2>3
<1>12. IsJoin(Nat, shown, prefix, k, rest, n - k)
  BY <1>4, <1>6, Joined, Zenon
<1> HIDE DEF shown
<1>13. shown \in Seq(Nat) /\ Len(shown) = n
  BY <1>1, <1>4, <1>12 DEF IsJoin
<1>14. ASSUME NEW i \in 1..n
       PROVE  shown[i] = IF i <= k THEN Lower(url[i]) ELSE url[i]
  <2>1. CASE i <= k
    <3>1. i \in 1..k
      BY <1>1, <1>4, <2>1
    <3>2. shown[i] = prefix[i]
      BY <1>12, <3>1 DEF IsJoin
    <3> QED
      BY <1>5, <2>1, <3>1, <3>2
  <2>2. CASE ~ (i <= k)
    <3>1. i - k \in 1..(n - k) /\ k + (i - k) = i
      BY <1>1, <1>4, <2>2
    <3>2. shown[i] = rest[i - k]
      BY <1>12, <3>1 DEF IsJoin
    <3>3. rest[i - k] = url[i]
      BY <1>6, <3>1
    <3> QED
      BY <2>2, <3>2, <3>3
  <2> QED
    BY <2>1, <2>2
<1> QED
  BY <1>1, <1>11, <1>13, <1>14 DEF k, prefix, code
-----------------------------------------------------------------------------
(* A record of bytes is encoded in bytes.                                  *)
LEMMA CodeBytes ==
  ASSUME NEW header \in Headers, NEW type \in Byte, NEW payload \in Seq(Byte),
         Len(payload) < 256 * 256
  PROVE  Encode(header, type, payload) \in Seq(Byte)
<1> DEFINE n == Len(payload)
<1>1. n \in Nat /\ n < 256 * 256
  OBVIOUS
<1>2. 0 \in Byte /\ 1 \in Byte /\ header \in Byte /\ header + 16 \in Byte
  BY DEF Byte, Headers
<1> HIDE DEF n
<1>3. CASE n <= 255
  <2>1. n \in Byte
    BY <1>1, <1>3 DEF Byte
  <2>2. <<header + 16, 1, n, type>> \in Seq(Byte)
    BY <1>2, <2>1, Four, Zenon
  <2> DEFINE head == <<header + 16, 1, n, type>>
  <2>3. Encode(header, type, payload) = head \o payload
    BY <1>3 DEF Encode, n
  <2> HIDE DEF head
  <2> QED
    BY <2>2, <2>3 DEF head
<1>4. CASE ~ (n <= 255)
  <2> DEFINE p == n \div 256
             q == n % 256
             head == <<header, 1, 0, 0, p, q, type>>
  <2>1. p \in 0..255 /\ q \in 0..255
    BY <1>1
  <2>2. Encode(header, type, payload) = head \o payload
    BY <1>4 DEF Encode, n
  <2> HIDE DEF p, q
  <2>3. p \in Byte /\ q \in Byte
    BY <2>1 DEF Byte
  <2>4. head \in Seq(Byte)
    BY <1>2, <2>3, Seven, Zenon
  <2> HIDE DEF head
  <2> QED
    BY <2>2, <2>4
<1> QED
  BY <1>3, <1>4

LEMMA MessageBytes ==
  ASSUME NEW records \in Seq([type : Byte, payload : Seq(Byte)]),
         \A n \in 1..Len(records) : Len(records[n].payload) < 256 * 256
  PROVE  EncodeMessage(records) \in Seq(Byte)
<1> DEFINE N == Len(records)
           R == [type : Byte, payload : Seq(Byte)]
<1>1. N \in Nat /\ Len(records) = N
  OBVIOUS
<1>2. \A n \in 1..N : records[n] \in R
  <2>1. records \in Seq(R)
    OBVIOUS
  <2> HIDE DEF R
  <2> QED
    BY <2>1
<1>3. ASSUME NEW n \in 1..N PROVE Coded(records, n) \in Seq(Byte)
  <2>1. /\ records[n].type \in Byte /\ records[n].payload \in Seq(Byte)
        /\ Len(records[n].payload) < 256 * 256
    BY <1>2
  <2>2. /\ RecordHeader(records, n) \in Headers
        /\ Coded(records, n)
             = Encode(RecordHeader(records, n), records[n].type, records[n].payload)
    BY RecordHeaderIs
  <2> QED
    BY <2>1, <2>2, CodeBytes, Zenon
<1>4. PICK P : /\ EncodeMessage(records) = P[N]
               /\ \A n \in 0..N : P[n] = PartAt(records, P, n)
  BY <1>1, MessageUnfolds
<1> HIDE DEF N
<1>5. P[0] = <<>> /\ \A n \in 1..N : P[n] = P[n - 1] \o Coded(records, n)
  <2>1. 0 \in 0..N
    BY <1>1
  <2>2. P[0] = <<>>
    BY <1>4, <2>1 DEF PartAt
  <2>3. \A n \in 1..N : n # 0 /\ n \in 0..N
    BY <1>1
  <2> QED
    BY <1>4, <2>2, <2>3 DEF PartAt
<1>6. P[N] \in Seq(Byte)
  <2>1. \A n \in 0..N : P[n] \in Seq(Byte)
    BY <1>1, <1>3, <1>5, PartsOf
  <2> QED
    BY <1>1, <2>1
<1> QED
  BY <1>4, <1>6

(* Sequences of members of S are sequences of members of a larger set.     *)
LEMMA Members ==
  ASSUME NEW S, NEW T, S \subseteq T
  PROVE  Seq(S) \subseteq Seq(T)
<1> SUFFICES ASSUME NEW s \in Seq(S) PROVE s \in Seq(T)
  OBVIOUS
<1>1. \A i \in 1..Len(s) : s[i] \in S
  OBVIOUS
<1>2. s = [i \in 1..Len(s) |-> s[i]] /\ Len(s) \in Nat
  OBVIOUS
<1> QED
  BY <1>1, <1>2

(* No payload of a message is longer than the message.                     *)
LEMMA PayloadFits ==
  ASSUME NEW records, Encodable(records), NEW n \in 1..Len(records)
  PROVE  Len(records[n].payload) <= Len(EncodeMessage(records))
<1>1. PICK at : Laid(EncodeMessage(records), at, records)
  BY MessageLaid
<1>2. Len(records) \in Nat
  BY DEF Encodable
<1>3. n - 1 \in 0..Len(records)
  BY <1>2
<1>4. at[n - 1] \in Nat /\ EncodeMessage(records) \in Seq(Nat)
      /\ at[n - 1] + Len(Coded(records, n)) <= Len(EncodeMessage(records))
  BY <1>1, <1>3 DEF Laid, HoldsAt
<1>5. /\ Len(records[n].payload) \in Nat /\ Len(Coded(records, n)) \in Nat
      /\ Len(records[n].payload) <= Len(Coded(records, n))
      /\ Len(EncodeMessage(records)) \in Nat
  BY <1>4, RecordOf
<1> QED
  BY <1>4, <1>5

(* ON THE TAG.  What build_type2_ndef writes to a tag is what a scan reads *)
(* back: of records of bytes, in a message that two bytes of length can    *)
(* name, followed by any number of zeros, the NDEF message the reader      *)
(* finds is accepted, with the same records.                               *)
THEOREM TagReadsBack ==
  ASSUME NEW records \in Seq([type : Byte, payload : Seq(Byte)]), records # <<>>,
         Len(EncodeMessage(records)) < 256 * 256, NEW pad \in Nat
  PROVE  LET found == NdefMessage(WrapTlv(EncodeMessage(records)) \o Zeros(pad))
             read == ParseMessage(found[1])
         IN  /\ found # <<>> /\ read.ok /\ read.records \in Seq(ReadRecord)
             /\ Len(read.records) = Len(records)
             /\ \A n \in 1..Len(records) :
                  /\ Tnf(read.records[n].header) = 1
                  /\ read.records[n].type = <<records[n].type>>
                  /\ read.records[n].payload = records[n].payload
<1> DEFINE message == EncodeMessage(records)
           found == NdefMessage(WrapTlv(message) \o Zeros(pad))
<1>1. records \in Seq([type : Nat, payload : Seq(Nat)])
  <2> DEFINE R == [type : Byte, payload : Seq(Byte)]
             Q == [type : Nat, payload : Seq(Nat)]
  <2>1. Byte \subseteq Nat
    BY DEF Byte
  <2>2. Seq(Byte) \subseteq Seq(Nat)
    BY <2>1, Members
  <2>3. R \subseteq Q
    BY <2>1, <2>2
  <2>4. records \in Seq(R)
    OBVIOUS
  <2> HIDE DEF R, Q
  <2>5. records \in Seq(Q)
    BY <2>3, <2>4, Members
  <2> QED
    BY <2>5 DEF Q
<1>2. \A n \in 1..Len(records) : Len(records[n].payload) < 256 * 256
  <2>1. Encodable(records) /\ Len(EncodeMessage(records)) \in Nat
    <3>1. Encodable(records)
      BY <1>1 DEF Encodable
    <3>2. PICK at : Laid(EncodeMessage(records), at, records)
      BY <3>1, MessageLaid
    <3> QED
      BY <3>1, <3>2 DEF Laid
  <2>2. ASSUME NEW n \in 1..Len(records) PROVE Len(records[n].payload) < 256 * 256
    <3>1. Len(records[n].payload) <= Len(EncodeMessage(records))
      BY <2>1, PayloadFits
    <3>2. Len(records[n].payload) \in Nat
      BY <2>1, RecordOf
    <3> QED
      BY <2>1, <3>1, <3>2
  <2> QED
    BY <2>2
<1>3. message \in Seq(Byte) /\ Len(message) < 256 * 256
  BY <1>2, MessageBytes
<1>4. found = <<message>> /\ found # <<>> /\ found[1] = message
  <2>1. ReadsBack(message, pad)
    BY <1>3, WrappedReadsBack
  <2>2. found = <<message>>
    BY <2>1 DEF ReadsBack
  <2> HIDE DEF found, message
  <2> QED
    BY <2>2
<1>5. LET read == ParseMessage(message)
      IN  /\ read.ok /\ read.records \in Seq(ReadRecord)
          /\ Len(read.records) = Len(records)
          /\ \A n \in 1..Len(records) :
               /\ Tnf(read.records[n].header) = 1
               /\ read.records[n].type = <<records[n].type>>
               /\ read.records[n].payload = records[n].payload
  BY <1>1, <1>2, MessageReadsBack
<1> HIDE DEF found, message
<1> QED
  BY <1>4, <1>5 DEF found, message
-----------------------------------------------------------------------------
(* U has a value for each count to N, each found by G from the one before. *)
Steps(G, N, S) == \A n \in 1..N : \A x \in S : G[n][x] \in S
Iterates(U, G, e, N, S) ==
  /\ \A n \in 0..N : U[n] \in S
  /\ U[0] = e
  /\ \A n \in 1..N : U[n] = G[n][U[n - 1]]

LEMMA Iterated ==
  ASSUME NEW S, NEW N \in Nat, NEW e \in S, NEW G, Steps(G, N, S)
  PROVE  \E U : Iterates(U, G, e, N, S)
<1> DEFINE Good(U, m) == Iterates(U, G, e, m, S)
           T == {m \in 0..N : \E U : Good(U, m)}
<1>1. 0 \in T
  <2> DEFINE U == [n \in 0..0 |-> e]
  <2>1. Good(U, 0)
    BY DEF Iterates
  <2> HIDE DEF Good, U
  <2> QED
    BY <2>1
<1>2. ASSUME NEW m \in 1..N, m - 1 \in T PROVE m \in T
  <2>1. PICK U : Good(U, m - 1)
    BY <1>2
  <2> DEFINE V == [n \in 0..m |-> IF n = m THEN G[m][U[m - 1]] ELSE U[n]]
  <2>2. /\ \A n \in 0..(m - 1) : U[n] \in S
        /\ U[0] = e /\ \A n \in 1..(m - 1) : U[n] = G[n][U[n - 1]]
    BY <2>1 DEF Iterates
  <2>3. U[m - 1] \in S /\ G[m][U[m - 1]] \in S
    <3>1. m - 1 \in 0..(m - 1)
      OBVIOUS
    <3> QED
      BY <2>2, <3>1 DEF Steps
  <2>4. V[m] = G[m][U[m - 1]] /\ \A n \in 0..(m - 1) : V[n] = U[n]
    OBVIOUS
  <2> HIDE DEF V
  <2>5. ASSUME NEW n \in 0..m PROVE V[n] \in S
    <3>1. n # m => n \in 0..(m - 1)
      OBVIOUS
    <3> QED
      BY <2>2, <2>3, <2>4, <3>1
  <2>6. ASSUME NEW n \in 1..m PROVE V[n] = G[n][V[n - 1]]
    <3>1. n - 1 \in 0..(m - 1) /\ V[n - 1] = U[n - 1]
      BY <2>4
    <3>2. CASE n = m
      BY <2>4, <3>1, <3>2
    <3>3. CASE n # m
      <4>1. n \in 1..(m - 1) /\ n \in 0..(m - 1)
        BY <3>3
      <4> QED
        BY <2>2, <2>4, <3>1, <4>1
    <3> QED
      BY <3>2, <3>3
  <2>7. V[0] = e
    BY <2>2, <2>4
  <2>8. Good(V, m)
    BY <2>5, <2>6, <2>7 DEF Iterates
  <2> HIDE DEF Good
  <2> QED
    BY <2>8
<1>3. N \in T
  <2> HIDE DEF T
  <2> QED
    BY <1>1, <1>2, Ascent
<1> QED
  BY <1>3

(* Stripped of white space, a text of bytes is one, and has none at its    *)
(* ends.                                                                   *)
LEMMA StripShape ==
  ASSUME NEW text \in Seq(Byte)
  PROVE  /\ Strip(text) \in Seq(Byte)
         /\ Strip(text) # <<>> => /\ ~ White(Strip(text)[1])
                                  /\ ~ White(Strip(text)[Len(Strip(text))])
<1> DEFINE n == Len(text)
           solid == {i \in DOMAIN text : ~ White(text[i])}
           First(i) == \A j \in 1..(i - 1) : White(text[j])
           Last(i) == \A j \in (i + 1)..n : White(text[j])
           first == CHOOSE i \in solid : First(i)
           last == CHOOSE i \in solid : Last(i)
<1>1. n \in Nat /\ DOMAIN text = 1..n /\ \A i \in 1..n : text[i] \in Byte
  OBVIOUS
<1>2. Strip(text) = IF solid = {} THEN <<>> ELSE SubSeq(text, first, last)
  BY DEF Strip
<1>3. CASE solid = {}
  BY <1>2, <1>3
<1>4. CASE solid # {}
  <2>1. solid \subseteq 1..n /\ \A i \in 1..n : i \in solid <=> ~ White(text[i])
    BY <1>1
  <2> HIDE DEF n, solid
  <2>2. \E i \in solid : First(i)
    <3>1. PICK x \in solid : \A y \in solid : x <= y
      <4>1. solid \subseteq Nat
        BY <1>1, <2>1
      <4> QED
        BY <1>4, <4>1, Least
    <3>2. ASSUME NEW j \in 1..(x - 1) PROVE White(text[j])
      BY <1>1, <2>1, <3>1
    <3> QED
      BY <3>2
  <2>3. \E i \in solid : Last(i)
    <3> DEFINE T == {n - i : i \in solid}
    <3>1. T \subseteq Nat /\ T # {}
      <4>1. \A i \in 1..n : n - i \in Nat
        BY <1>1
      <4>2. \A i \in solid : n - i \in Nat
        BY <2>1, <4>1
      <4> QED
        BY <1>4, <4>2
    <3>2. PICK z \in T : \A y \in T : z <= y
      BY <3>1, Least
    <3>3. PICK x \in solid : z = n - x
      BY <3>2
    <3>4. ASSUME NEW j \in (x + 1)..n PROVE White(text[j])
      <4>1. x \in 1..n /\ j \in 1..n /\ n - j < n - x
        BY <1>1, <2>1
      <4>2. j \notin solid
        <5>1. j \in solid => n - x <= n - j
          BY <3>2, <3>3
        <5>2. ~ (n - x <= n - j)
          BY <1>1, <4>1
        <5> QED
          BY <5>1, <5>2
      <4> QED
        BY <2>1, <4>1, <4>2
    <3> QED
      BY <3>4
  <2>4. first \in solid /\ First(first)
    BY <2>2
  <2>5. last \in solid /\ Last(last)
    BY <2>3
  <2> HIDE DEF first, last
  <2>6. first \in 1..n /\ last \in 1..n /\ first <= last
    <3>1. first \in 1..n /\ last \in 1..n
      BY <2>1, <2>4, <2>5
    <3>2. ~ (last < first)
      <4>1. last < first => first \in (last + 1)..n
        BY <1>1, <3>1
      <4> QED
        BY <2>1, <2>4, <2>5, <4>1
    <3> QED
      BY <1>1, <3>1, <3>2
  <2> DEFINE t == SubSeq(text, first, last)
  <2>7. \A i \in first..last : text[i] \in Byte
    BY <1>1, <2>6
  <2>8. /\ t \in Seq(Byte) /\ Len(t) = last - first + 1
        /\ \A i \in 1..(last - first + 1) : t[i] = text[first + i - 1]
    <3>1. first \in Int /\ last \in Int
      BY <1>1, <2>6
    <3> QED
      BY <2>6, <2>7, <3>1, SubSeqProperties
  <2> HIDE DEF t
  <2>9. t[1] = text[first] /\ t[Len(t)] = text[last]
    <3>1. /\ 1 \in 1..(last - first + 1) /\ first + 1 - 1 = first
          /\ last - first + 1 \in 1..(last - first + 1)
          /\ first + (last - first + 1) - 1 = last
      BY <1>1, <2>6
    <3>2. t[1] = text[first + 1 - 1] /\ t[last - first + 1] = text[first + (last - first + 1) - 1]
      BY <2>8, <3>1
    <3> QED
      BY <2>8, <3>1, <3>2
  <2>10. Strip(text) = t
    BY <1>2, <1>4 DEF t
  <2> QED
    BY <2>1, <2>4, <2>5, <2>6, <2>8, <2>9, <2>10
<1> QED
  BY <1>3, <1>4

(* What has no white space at its ends is not changed.                     *)
LEMMA StripFixed ==
  ASSUME NEW text \in Seq(Byte), text # <<>>, ~ White(text[1]), ~ White(text[Len(text)])
  PROVE  Strip(text) = text
<1> DEFINE n == Len(text)
           solid == {i \in DOMAIN text : ~ White(text[i])}
           First(i) == \A j \in 1..(i - 1) : White(text[j])
           Last(i) == \A j \in (i + 1)..n : White(text[j])
           first == CHOOSE i \in solid : First(i)
           last == CHOOSE i \in solid : Last(i)
<1>1. n \in Nat /\ n >= 1 /\ DOMAIN text = 1..n
  OBVIOUS
<1>2. Strip(text) = IF solid = {} THEN <<>> ELSE SubSeq(text, first, last)
  BY DEF Strip
<1>3. 1 \in solid /\ n \in solid /\ solid \subseteq 1..n
  BY <1>1
<1> HIDE DEF n, solid
<1>4. first = 1
  <2>1. First(1)
    BY <1>1
  <2>2. \A i \in 1..n : First(i) => i = 1
    <3>1. \A i \in 1..n : i # 1 => 1 \in 1..(i - 1)
      BY <1>1
    <3> QED
      BY <3>1
  <2>3. first \in solid /\ First(first)
    BY <1>3, <2>1
  <2> HIDE DEF first, First
  <2> QED
    BY <1>3, <2>2, <2>3
<1>5. last = n
  <2>1. Last(n)
    BY <1>1
  <2>2. \A i \in 1..n : Last(i) => i = n
    <3>1. \A i \in 1..n : i # n => n \in (i + 1)..n
      BY <1>1
    <3>2. ~ White(text[n])
      BY DEF n
    <3> QED
      BY <3>1, <3>2
  <2>3. last \in solid /\ Last(last)
    BY <1>3, <2>1
  <2> HIDE DEF last, Last
  <2> QED
    BY <1>3, <2>2, <2>3
<1> HIDE DEF first, last
<1>6. Strip(text) = SubSeq(text, 1, n)
  BY <1>2, <1>3, <1>4, <1>5
<1> QED
  BY <1>6, SubSeqFull DEF n

LEMMA StripTwice ==
  ASSUME NEW text \in Seq(Byte)
  PROVE  Strip(Strip(text)) = Strip(text)
<1>1. CASE Strip(text) = <<>>
  <2>1. DOMAIN <<>> = {}
    OBVIOUS
  <2>2. Strip(<<>>) = <<>>
    BY <2>1 DEF Strip
  <2> QED
    BY <1>1, <2>2
<1>2. CASE Strip(text) # <<>>
  BY <1>2, StripShape, StripFixed
<1> QED
  BY <1>1, <1>2
-----------------------------------------------------------------------------
(***************************************************************************)
(* The fields there can be: those of the program have their own name and   *)
(* kind, and the name of a URI is never written.                           *)
(***************************************************************************)
BuiltinIds == {Layout[i] : i \in DOMAIN Layout}
Field == [id : BuiltinIds \cup {"custom"}, name : Seq(Byte), kind : Kinds,
          value : Seq(Byte), write : BOOLEAN]
Proper == {f \in Field : /\ f.kind = "uri" => ~ f.write
                         /\ f.id # "custom" => f.name = Label[f.id] /\ f.kind = KindOf(f.id)}

LEMMA KindOfType == \A id : KindOf(id) \in Kinds
BY DEF KindOf, Kinds

LEMMA BuiltinProper ==
  ASSUME NEW id \in BuiltinIds, NEW value \in Seq(Byte), NEW write \in BOOLEAN
  PROVE  Builtin(id, value, write) \in Proper
<1>1. id # "custom" /\ Label[id] \in Seq(Byte)
  BY EditorConstants DEF BuiltinIds
<1> DEFINE w == write /\ KindOf(id) # "uri"
           k == KindOf(id)
           name == Label[id]
<1>2. w \in BOOLEAN /\ (k = "uri" => ~ w) /\ k \in Kinds
  BY KindOfType
<1>3. Builtin(id, value, write) = [id |-> id, name |-> name, kind |-> k, value |-> value, write |-> w]
  BY DEF Builtin
<1> HIDE DEF w, k
<1>4. Builtin(id, value, write) \in Field
  BY <1>1, <1>2, <1>3 DEF Field
<1>5. k = KindOf(id)
  BY DEF k
<1> QED
  BY <1>1, <1>2, <1>3, <1>4, <1>5 DEF Proper

LEMMA CustomProper ==
  ASSUME NEW name \in Seq(Byte), NEW kind \in Kinds, NEW value \in Seq(Byte), NEW write \in BOOLEAN
  PROVE  Custom(name, kind, value, write) \in Proper
<1> DEFINE w == write /\ kind # "uri"
<1>1. w \in BOOLEAN /\ (kind = "uri" => ~ w)
  OBVIOUS
<1>2. Custom(name, kind, value, write)
        = [id |-> "custom", name |-> name, kind |-> kind, value |-> value, write |-> w]
  BY DEF Custom
<1> HIDE DEF w
<1>3. Custom(name, kind, value, write) \in Field
  BY <1>1, <1>2 DEF Field
<1> QED
  BY <1>1, <1>2, <1>3 DEF Proper

(* What a list of fields holds.                                            *)
LEMMA ProperFields ==
  ASSUME NEW list \in Seq(Proper)
  PROVE  /\ Len(list) \in Nat /\ DOMAIN list = 1..Len(list)
         /\ \A i \in 1..Len(list) : list[i] \in Proper
OBVIOUS

(* What is stored of a field: the name only of those the user has added.   *)
LEMMA StoredFields ==
  ASSUME NEW list \in Seq(Proper)
  PROVE  /\ Serialized(list) \in Seq(Field) /\ Len(Serialized(list)) = Len(list)
         /\ \A i \in 1..Len(list) :
              /\ Serialized(list)[i].id = list[i].id
              /\ Serialized(list)[i].name = IF list[i].id = "custom" THEN list[i].name ELSE <<>>
              /\ Serialized(list)[i].kind = list[i].kind
              /\ Serialized(list)[i].value = list[i].value
              /\ Serialized(list)[i].write = list[i].write
<1> DEFINE n == Len(list)
           Stored1(f) == [f EXCEPT !.name = IF f.id = "custom" THEN f.name ELSE <<>>]
<1>1. n \in Nat /\ DOMAIN list = 1..n /\ \A i \in 1..n : list[i] \in Proper
  BY ProperFields
<1>2. <<>> \in Seq(Byte)
  OBVIOUS
<1>3. ASSUME NEW f \in Proper
      PROVE  /\ Stored1(f) \in Field
             /\ Stored1(f).name = IF f.id = "custom" THEN f.name ELSE <<>>
             /\ Stored1(f).id = f.id /\ Stored1(f).kind = f.kind
             /\ Stored1(f).value = f.value /\ Stored1(f).write = f.write
  <2>1. f \in Field
    BY DEF Proper
  <2>2. (IF f.id = "custom" THEN f.name ELSE <<>>) \in Seq(Byte)
    BY <1>2, <2>1 DEF Field
  <2> QED
    BY <2>1, <2>2 DEF Field
<1>4. Serialized(list) = [i \in 1..n |-> Stored1(list[i])]
  BY <1>1 DEF Serialized
<1> HIDE DEF n, Stored1
<1>5. Serialized(list) \in Seq(Field) /\ Len(Serialized(list)) = n
  <2>1. \A i \in 1..n : Stored1(list[i]) \in Field
    BY <1>1, <1>3
  <2> QED
    BY <1>1, <1>4, <2>1
<1> QED
  BY <1>1, <1>3, <1>4, <1>5 DEF n

LEMMA LoadedProper ==
  ASSUME NEW item \in Field
  PROVE  Loaded(item) \in Proper
<1>1. item.id \in BuiltinIds \cup {"custom"} /\ item.name \in Seq(Byte) /\ item.kind \in Kinds
      /\ item.value \in Seq(Byte) /\ item.write \in BOOLEAN
  BY DEF Field
<1>2. CASE item.id # "custom"
  BY <1>1, <1>2, BuiltinProper DEF Loaded
<1>3. CASE item.id = "custom"
  <2>1. Strip(item.name) \in Seq(Byte)
    BY <1>1, StripShape
  <2> QED
    BY <1>1, <1>3, <2>1, CustomProper DEF Loaded
<1> QED
  BY <1>2, <1>3

(* _load_type2_fields goes through what was stored, item by item.          *)
LEMMA LoadUnfolds ==
  ASSUME NEW data \in Seq(Field)
  PROVE  \E U : /\ Load(data) = U[Len(data)]
                /\ U[0] = <<>>
                /\ \A n \in 1..Len(data) :
                     U[n] = IF Named(data[n]) THEN Append(U[n - 1], Loaded(data[n])) ELSE U[n - 1]
<1> DEFINE N == Len(data)
           Next1(list, n) == IF Named(data[n]) THEN Append(list, Loaded(data[n])) ELSE list
           Solves(f) == f = [n \in 0..N |-> IF n = 0 THEN <<>> ELSE Next1(f[n - 1], n)]
           G == [n \in 1..N |-> [list \in Seq(Proper) |-> Next1(list, n)]]
<1>1. N \in Nat /\ \A n \in 1..N : data[n] \in Field
  OBVIOUS
<1>2. ASSUME NEW list \in Seq(Proper), NEW n \in 1..N PROVE Next1(list, n) \in Seq(Proper)
  <2>1. Loaded(data[n]) \in Proper
    BY <1>1, LoadedProper
  <2> QED
    BY <2>1
<1> HIDE DEF Next1, N
<1>3. \A n \in 1..N : \A list \in Seq(Proper) : G[n][list] = Next1(list, n)
  OBVIOUS
<1> HIDE DEF G
<1>4. PICK U : Iterates(U, G, <<>>, N, Seq(Proper))
  <2>1. Steps(G, N, Seq(Proper))
    BY <1>2, <1>3 DEF Steps
  <2>2. <<>> \in Seq(Proper)
    OBVIOUS
  <2> QED
    BY <1>1, <2>1, <2>2, Iterated
<1> DEFINE V == [n \in 0..N |-> U[n]]
<1>5. Solves(V)
  <2>1. ASSUME NEW n \in 0..N PROVE V[n] = IF n = 0 THEN <<>> ELSE Next1(V[n - 1], n)
    <3>1. n # 0 => n \in 1..N /\ n - 1 \in 0..N
      BY <1>1
    <3> QED
      BY <1>3, <1>4, <3>1 DEF Iterates
  <2> QED
    BY <2>1
<1> DEFINE C == CHOOSE f : Solves(f)
<1>6. Solves(C)
  BY <1>5, Zenon
<1>7. Load(data) = C[N]
  BY DEF Load, Next1, N
<1> HIDE DEF C
<1>8. C = [n \in 0..N |-> IF n = 0 THEN <<>> ELSE Next1(C[n - 1], n)]
  BY <1>6
<1>9. C[0] = <<>> /\ \A n \in 1..N : C[n] = Next1(C[n - 1], n)
  BY <1>1, <1>8
<1> QED
  BY <1>7, <1>9 DEF Next1, N

LEMMA LoadProper ==
  ASSUME NEW data \in Seq(Field)
  PROVE  Load(data) \in Seq(Proper)
<1> DEFINE N == Len(data)
<1>1. N \in Nat /\ \A n \in 1..N : data[n] \in Field
  OBVIOUS
<1>2. PICK U : /\ Load(data) = U[N]
               /\ U[0] = <<>>
               /\ \A n \in 1..N :
                    U[n] = IF Named(data[n]) THEN Append(U[n - 1], Loaded(data[n])) ELSE U[n - 1]
  BY LoadUnfolds
<1> HIDE DEF N
<1> DEFINE T == {n \in 0..N : U[n] \in Seq(Proper)}
<1>3. 0 \in T
  <2>1. <<>> \in Seq(Proper) /\ 0 \in 0..N
    BY <1>1
  <2> QED
    BY <1>2, <2>1
<1>4. ASSUME NEW n \in 1..N, n - 1 \in T PROVE n \in T
  <2>1. U[n - 1] \in Seq(Proper)
    BY <1>4
  <2>2. Loaded(data[n]) \in Proper
    BY <1>1, LoadedProper
  <2>3. Append(U[n - 1], Loaded(data[n])) \in Seq(Proper)
    BY <2>1, <2>2
  <2>4. U[n] \in Seq(Proper)
    BY <1>2, <2>1, <2>3
  <2> QED
    BY <1>1, <2>4
<1>5. N \in T
  <2> HIDE DEF T
  <2> QED
    BY <1>1, <1>3, <1>4, Ascent
<1> QED
  BY <1>2, <1>5
-----------------------------------------------------------------------------
(* Whatever the user does in the editor, and whatever a restart finds, the *)
(* list holds proper fields.                                               *)
LEMMA EditorProper ==
  ASSUME fields \in Seq(Proper), EditorNext
  PROVE  fields' \in Seq(Proper)
<1> DEFINE n == Len(fields)
<1>1. n \in Nat /\ DOMAIN fields = 1..n /\ \A i \in 1..n : fields[i] \in Proper
  BY ProperFields
<1>2. ASSUME NEW kind \in Kinds, AddField(kind) PROVE fields' \in Seq(Proper)
  <2> DEFINE f == Custom(FirstName, kind, <<>>, TRUE)
  <2>1. f \in Proper
    <3>1. FirstName \in Seq(Byte) /\ <<>> \in Seq(Byte) /\ TRUE \in BOOLEAN
      BY EditorConstants
    <3> QED
      BY <3>1, CustomProper
  <2>2. fields' = Append(fields, f)
    BY <1>2 DEF AddField
  <2> HIDE DEF f
  <2>3. Append(fields, f) \in Seq(Proper)
    BY <2>1
  <2> QED
    BY <2>2, <2>3
<1>3. ASSUME NEW i \in 1..n, RemoveField(i) PROVE fields' \in Seq(Proper)
  <2>1. SubSeq(fields, 1, i - 1) \in Seq(Proper)
    <3>1. \A j \in 1..(i - 1) : fields[j] \in Proper
      BY <1>1
    <3>2. 1 \in Int /\ i - 1 \in Int
      BY <1>1
    <3> QED
      BY <3>1, <3>2, SubSeqProperties
  <2>2. SubSeq(fields, i + 1, n) \in Seq(Proper)
    <3>1. \A j \in (i + 1)..n : fields[j] \in Proper
      BY <1>1
    <3>2. i + 1 \in Int /\ n \in Int
      BY <1>1
    <3> HIDE DEF n
    <3> QED
      BY <3>1, <3>2, SubSeqProperties
  <2> QED
    BY <1>3, <2>1, <2>2 DEF RemoveField
<1>4. ASSUME NEW i \in 1..n, NEW f \in Proper, fields' = [fields EXCEPT ![i] = f]
      PROVE  fields' \in Seq(Proper)
  BY <1>4, ExceptSeq
<1>5. ASSUME NEW i \in 1..n, MoveDown(i) PROVE fields' \in Seq(Proper)
  <2>1. i + 1 \in 1..n /\ fields' = [fields EXCEPT ![i] = fields[i + 1], ![i + 1] = fields[i]]
    BY <1>1, <1>5 DEF MoveDown
  <2>2. fields[i] \in Proper /\ fields[i + 1] \in Proper
    BY <1>1, <2>1
  <2> DEFINE list == [fields EXCEPT ![i] = fields[i + 1]]
  <2>3. list \in Seq(Proper) /\ Len(list) = n
    BY <2>2, ExceptSeq
  <2>4. fields' = [list EXCEPT ![i + 1] = fields[i]]
    BY <2>1
  <2> HIDE DEF list, n
  <2> QED
    BY <2>1, <2>2, <2>3, <2>4, ExceptSeq
<1>6. ASSUME NEW i \in 1..n
      PROVE  /\ fields[i].id \in BuiltinIds \cup {"custom"} /\ fields[i].name \in Seq(Byte)
             /\ fields[i].kind \in Kinds /\ fields[i].value \in Seq(Byte)
             /\ fields[i].write \in BOOLEAN /\ fields[i] \in Field
             /\ fields[i].kind = "uri" => ~ fields[i].write
             /\ fields[i].id # "custom" => /\ fields[i].name = Label[fields[i].id]
                                           /\ fields[i].kind = KindOf(fields[i].id)
  <2>1. fields[i] \in Proper
    BY <1>1
  <2> QED
    BY <2>1 DEF Proper, Field
<1>7. ASSUME NEW i \in 1..n, TypeValue(i) PROVE fields' \in Seq(Proper)
  <2>1. PICK value \in Urls \cup Texts : fields' = [fields EXCEPT ![i].value = value]
    BY <1>7 DEF TypeValue
  <2> DEFINE f == [fields[i] EXCEPT !.value = value]
  <2>2. value \in Seq(Byte)
    BY EditorConstants
  <2>3. f \in Field /\ f.id = fields[i].id /\ f.name = fields[i].name
        /\ f.kind = fields[i].kind /\ f.write = fields[i].write
    BY <1>6, <2>2 DEF Field
  <2>4. fields' = [fields EXCEPT ![i] = f]
    BY <2>1
  <2> HIDE DEF f
  <2>5. f \in Proper
    BY <1>6, <2>3 DEF Proper
  <2> QED
    BY <1>4, <2>4, <2>5
<1>8. ASSUME NEW i \in 1..n, TypeName(i) PROVE fields' \in Seq(Proper)
  <2>1. PICK name \in Names : fields[i].id = "custom" /\ fields' = [fields EXCEPT ![i].name = name]
    BY <1>8 DEF TypeName
  <2> DEFINE f == [fields[i] EXCEPT !.name = name]
  <2>2. name \in Seq(Byte)
    BY EditorConstants
  <2>3. f \in Field /\ f.id = "custom" /\ f.kind = fields[i].kind /\ f.write = fields[i].write
    BY <1>6, <2>1, <2>2 DEF Field
  <2>4. fields' = [fields EXCEPT ![i] = f]
    BY <2>1
  <2> HIDE DEF f
  <2>5. f \in Proper
    BY <1>6, <2>3 DEF Proper
  <2> QED
    BY <1>4, <2>4, <2>5
<1>9. ASSUME NEW i \in 1..n, TickWrite(i) PROVE fields' \in Seq(Proper)
  <2> DEFINE w == ~ fields[i].write
             f == [fields[i] EXCEPT !.write = w]
  <2>1. fields[i].kind = "text" /\ fields' = [fields EXCEPT ![i] = f]
    BY <1>9 DEF TickWrite
  <2>2. w \in BOOLEAN
    OBVIOUS
  <2> HIDE DEF w
  <2>3. f \in Field /\ f.id = fields[i].id /\ f.name = fields[i].name /\ f.kind = "text"
    BY <1>6, <2>1, <2>2 DEF Field
  <2> HIDE DEF f
  <2>4. f \in Proper
    BY <1>6, <2>1, <2>3 DEF Proper
  <2> QED
    BY <1>4, <2>1, <2>4
<1>10. CASE Restart
  <2>1. Serialized(fields) \in Seq(Field)
    BY StoredFields
  <2> QED
    BY <1>10, <2>1, LoadProper DEF Restart
<1> QED
  BY <1>1, <1>2, <1>3, <1>5, <1>7, <1>8, <1>9, <1>10 DEF EditorNext

LEMMA FirstProper == FirstFields \in Seq(Proper)
<1>1. Len(Layout) \in Nat /\ DOMAIN Layout = 1..Len(Layout)
  BY EditorConstants
<1>2. ASSUME NEW i \in 1..Len(Layout)
      PROVE  Builtin(Layout[i], FirstValue[Layout[i]], Layout[i] = "purchase") \in Proper
  <2>1. Layout[i] \in BuiltinIds /\ FirstValue[Layout[i]] \in Seq(Byte)
    BY <1>1, EditorConstants DEF BuiltinIds
  <2>2. (Layout[i] = "purchase") \in BOOLEAN
    OBVIOUS
  <2> QED
    BY <2>1, <2>2, BuiltinProper
<1> QED
  BY <1>1, <1>2 DEF FirstFields

(***************************************************************************)
(* TYPES.  The bytes are bytes, the lengths two bytes can name, and every  *)
(* field is one that the editor can hold, whatever the user types and      *)
(* however often the program is started again.                             *)
(***************************************************************************)
ContentInvariant == /\ bytes \in Seq(Byte)
                    /\ size \in 0..(256 * 256 - 1)
                    /\ fields \in Seq(Proper)

THEOREM ContentTypes == ContentSpec => []ContentInvariant
<1>1. ContentInit => ContentInvariant
  <2> SUFFICES ASSUME ContentInit PROVE ContentInvariant
    OBVIOUS
  <2>1. bytes = <<>> /\ size = 0 /\ fields = FirstFields
    BY DEF ContentInit, EditorInit
  <2>2. <<>> \in Seq(Byte) /\ 0 \in 0..(256 * 256 - 1)
    OBVIOUS
  <2> QED
    BY <2>1, <2>2, FirstProper DEF ContentInvariant
<1>2. ContentInvariant /\ [ContentNext]_content => ContentInvariant'
  <2> SUFFICES ASSUME ContentInvariant, [ContentNext]_content PROVE ContentInvariant'
    OBVIOUS
  <2>1. CASE Grow
    <3>1. PICK b \in Alphabet : bytes' = Append(bytes, b)
      BY <2>1 DEF Grow
    <3>2. b \in Byte /\ bytes \in Seq(Byte)
      BY ContentConstants DEF ContentInvariant
    <3>3. bytes' \in Seq(Byte)
      BY <3>1, <3>2
    <3> QED
      BY <2>1, <3>3 DEF Grow, ContentInvariant
  <2>2. CASE Wrap
    <3>1. size' \in 0..(256 * 256 - 1)
      BY <2>2, ContentConstants DEF Wrap
    <3> QED
      BY <2>2, <3>1 DEF Wrap, ContentInvariant
  <2>3. CASE Edit
    <3>1. fields' \in Seq(Proper)
      BY <2>3, EditorProper DEF Edit, ContentInvariant
    <3> QED
      BY <2>3, <3>1 DEF Edit, ContentInvariant
  <2>4. CASE UNCHANGED content
    BY <2>4 DEF content, ContentInvariant
  <2> QED
    BY <2>1, <2>2, <2>3, <2>4 DEF ContentNext
<1> QED
  BY <1>1, <1>2, PTL DEF ContentSpec

(***************************************************************************)
(* CLEARING.  Whatever bytes stand in the area, if they parse, clearing    *)
(* them in place takes the NDEF messages away and nothing else             *)
(* (clear_ndef_tlv_area).                                                  *)
(***************************************************************************)
THEOREM ClearingCorrect == ContentSpec => []ClearKeepsOthers
<1>1. ContentInvariant => ClearKeepsOthers
  BY ClearingKeepsOthers DEF ContentInvariant, ClearKeepsOthers
<1> QED
  BY <1>1, ContentTypes, PTL

(***************************************************************************)
(* WRAPPING.  A message of any length that two bytes can name is found     *)
(* again as it was wrapped (_wrap_tlv, extract_ndef_tlv).                  *)
(***************************************************************************)
THEOREM WrappingCorrect == ContentSpec => []WrapReadsBack
<1>1. ContentInvariant => WrapReadsBack
  <2> SUFFICES ASSUME ContentInvariant, NEW pad \in {0, 1, 3}
               PROVE  ReadsBack([i \in 1..size |-> i % 256], pad)
    BY DEF WrapReadsBack
  <2> DEFINE message == [i \in 1..size |-> i % 256]
  <2>1. size \in Nat /\ size < 256 * 256 /\ pad \in Nat
    BY DEF ContentInvariant
  <2>2. \A i \in 1..size : i % 256 \in Byte
    BY <2>1 DEF Byte
  <2>3. message \in Seq(Byte) /\ Len(message) = size
    BY <2>1, <2>2
  <2> HIDE DEF message
  <2>4. ReadsBack(message, pad)
    BY <2>1, <2>3, WrappedReadsBack
  <2> QED
    BY <2>4 DEF message
<1> QED
  BY <1>1, ContentTypes, PTL
-----------------------------------------------------------------------------
(* Where a record that starts at c may end (EndsAfter): where the TLV      *)
(* there ends, nowhere if it is a terminator, and outside the bytes if it  *)
(* is not inside them.                                                     *)
LEMMA EndsAre ==
  ASSUME bytes \in Seq(Byte), NEW c \in 0..(Len(bytes) - 1)
  PROVE  LET t == TlvAt(bytes, c)
         IN  /\ Framed(bytes, c) /\ t.type = Terminator => EndsAfter(c) = {}
             /\ Framed(bytes, c) /\ t.type # Terminator => EndsAfter(c) = {t.end}
             /\ ~ Framed(bytes, c) =>
                  \E x \in Nat : x > Len(bytes) /\ EndsAfter(c) = {x}
<1> DEFINE n == Len(bytes)
           a == bytes[c + 1]
           b == bytes[c + 2]
           t == TlvAt(bytes, c)
<1>1. n \in Nat /\ c \in Nat /\ c < n /\ \A i \in 1..n : bytes[i] \in 0..255
  <2>1. n \in Nat /\ \A i \in 1..n : bytes[i] \in Byte
    OBVIOUS
  <2>2. c \in Nat /\ c < n
    BY <2>1
  <2> QED
    BY <2>1, <2>2 DEF Byte
<1>2. At(bytes, c) = a /\ At(bytes, c + 1) = b /\ t.type = a
  <2>1. c + 1 + 1 = c + 2
    OBVIOUS
  <2>2. At(bytes, c) = a /\ At(bytes, c + 1) = b
    BY <2>1 DEF At
  <2> QED
    BY <2>2 DEF TlvAt, Record
<1>3. CASE a = 0
  <2>1. EndsAfter(c) = {c + 1}
    BY <1>3 DEF EndsAfter
  <2>2. Framed(bytes, c) /\ t = Record(a, c, c + 1, c + 1)
    BY <1>2, <1>3 DEF Framed, TlvAt, NullType
  <2>3. t.end = c + 1 /\ t.type # Terminator
    BY <1>3, <2>2 DEF Record, Terminator
  <2> QED
    BY <2>1, <2>2, <2>3
<1>4. CASE a = 254
  <2>1. EndsAfter(c) = {}
    BY <1>4 DEF EndsAfter
  <2>2. Framed(bytes, c) /\ t.type = Terminator
    BY <1>2, <1>4 DEF Framed, Terminator
  <2> QED
    BY <2>1, <2>2
<1>5. CASE a \notin {0, 254}
  <2>1. /\ t.type # Terminator
        /\ t.end = ValueStart(bytes, c) + ValueLength(bytes, c)
        /\ Framed(bytes, c) <=> WellFramed(bytes, c)
    BY <1>2, <1>5 DEF TlvAt, Record, Framed, NullType, Terminator
  <2>2. CASE n - c >= 2 /\ b # 255
    <3>1. EndsAfter(c) = {c + 2 + b}
      BY <1>5, <2>2 DEF EndsAfter
    <3>2. ~ IsLong(bytes, c) /\ ValueStart(bytes, c) = c + 2 /\ ValueLength(bytes, c) = b
      BY <1>2, <2>2 DEF IsLong, ValueStart, ValueLength, LongLength
    <3>3. b \in 0..255
      <4>1. c + 2 \in 1..n
        BY <1>1, <2>2
      <4> QED
        BY <1>1, <4>1
    <3>4. WellFramed(bytes, c) <=> c + 2 + b <= n
      BY <1>1, <2>2, <3>2 DEF WellFramed
    <3> HIDE DEF n, a, b, t
    <3>5. c + 2 + b \in Nat /\ (~ (c + 2 + b <= n) => c + 2 + b > n)
      BY <1>1, <3>3
    <3> QED
      BY <2>1, <3>1, <3>2, <3>4, <3>5 DEF n, t
  <2>3. CASE n - c >= 4 /\ b = 255
    <3> DEFINE x == c + 4 + 256 * bytes[c + 3] + bytes[c + 4]
    <3>1. EndsAfter(c) = {x}
      BY <1>5, <2>3 DEF EndsAfter
    <3>2. IsLong(bytes, c) /\ ValueStart(bytes, c) = c + 4
          /\ ValueLength(bytes, c) = 256 * bytes[c + 3] + bytes[c + 4]
      <4>1. c + 2 + 1 = c + 3 /\ c + 3 + 1 = c + 4
        OBVIOUS
      <4> QED
        BY <1>2, <2>3, <4>1 DEF IsLong, ValueStart, ValueLength, LongLength, At
    <3>3. bytes[c + 3] \in 0..255 /\ bytes[c + 4] \in 0..255
      <4>1. c + 3 \in 1..n /\ c + 4 \in 1..n
        BY <1>1, <2>3
      <4> QED
        BY <1>1, <4>1
    <3>4. ValueStart(bytes, c) + ValueLength(bytes, c) = x /\ x \in Nat
      <4> DEFINE p == bytes[c + 3]
                 q == bytes[c + 4]
      <4>1. p \in 0..255 /\ q \in 0..255
        BY <3>3
      <4>2. ValueStart(bytes, c) + ValueLength(bytes, c) = (c + 4) + (256 * p + q)
            /\ x = c + 4 + 256 * p + q
        BY <3>2
      <4> HIDE DEF p, q, x
      <4> QED
        BY <1>1, <4>1, <4>2
    <3> HIDE DEF x
    <3>5. WellFramed(bytes, c) <=> x <= n
      BY <1>1, <2>3, <3>2, <3>4 DEF WellFramed
    <3> HIDE DEF n, a, b, t
    <3>6. ~ (x <= n) => x > n
      BY <1>1, <3>4
    <3> QED
      BY <2>1, <3>1, <3>4, <3>5, <3>6 DEF n, t
  <2>4. CASE ~ (n - c >= 2 /\ b # 255) /\ ~ (n - c >= 4 /\ b = 255)
    <3>1. EndsAfter(c) = {n + 1}
      BY <1>5, <2>4 DEF EndsAfter
    <3>2. ~ WellFramed(bytes, c)
      BY <1>1, <1>2, <2>4 DEF WellFramed, IsLong, LongLength
    <3>3. n + 1 \in Nat /\ n + 1 > n
      BY <1>1
    <3> QED
      BY <2>1, <3>1, <3>2, <3>3
  <2> QED
    BY <2>2, <2>3, <2>4
<1> QED
  BY <1>3, <1>4, <1>5

(* Tiles in the sense of Tiles, which gives only their offsets, do not     *)
(* overlap, and none is behind a terminator.                               *)
LEMMA TilesAreApart ==
  ASSUME bytes \in Seq(Byte), NEW S \in SUBSET (0..(Len(bytes) - 1)), Tiles(S)
  PROVE  /\ \A c \in S : Framed(bytes, c)
         /\ \A c, d \in S : c < d => /\ TlvAt(bytes, c).type # Terminator
                                     /\ TlvAt(bytes, c).end <= d
<1> DEFINE n == Len(bytes)
           End(c) == TlvAt(bytes, c).end
           Last(c) == TlvAt(bytes, c).type = Terminator
<1>1. n \in Nat /\ S \subseteq 0..(n - 1) /\ S \subseteq Nat
  OBVIOUS
<1>2. ASSUME NEW c \in S
      PROVE  /\ Framed(bytes, c) /\ End(c) \in Nat /\ c < End(c)
             /\ EndsAfter(c) = IF Last(c) THEN {} ELSE {End(c)}
  <2>1. EndsAfter(c) \subseteq S \cup {n}
    BY DEF Tiles
  <2>2. Framed(bytes, c)
    <3>1. SUFFICES ASSUME ~ Framed(bytes, c) PROVE FALSE
      OBVIOUS
    <3>2. PICK x \in Nat : x > n /\ EndsAfter(c) = {x}
      BY <3>1, EndsAre
    <3>3. x \in S \cup {n}
      BY <2>1, <3>2
    <3> QED
      BY <1>1, <3>2, <3>3
  <2>3. End(c) \in Nat /\ c < End(c)
    <3>1. /\ TlvAt(bytes, c).start \in Nat /\ TlvAt(bytes, c).end \in Nat
          /\ c < TlvAt(bytes, c).start /\ TlvAt(bytes, c).start <= TlvAt(bytes, c).end
      BY <2>2, TlvShape
    <3> QED
      BY <1>1, <3>1
  <2> QED
    BY <2>2, <2>3, EndsAre
<1>3. \A d \in S \ {0} : \E e \in S : ~ Last(e) /\ End(e) = d
  <2> SUFFICES ASSUME NEW d \in S \ {0} PROVE \E e \in S : ~ Last(e) /\ End(e) = d
    OBVIOUS
  <2>1. PICK e \in S : d \in EndsAfter(e)
    BY DEF Tiles
  <2>2. EndsAfter(e) = IF Last(e) THEN {} ELSE {End(e)}
    BY <1>2
  <2> HIDE DEF End, Last
  <2> QED
    BY <2>1, <2>2
<1> HIDE DEF n, End, Last
    (* The least tile that another one reaches beyond. *)
<1>4. \A c, d \in S : c < d => End(c) <= d
  <2> DEFINE T == {d \in S : \E c \in S : c < d /\ d < End(c)}
  <2>1. T = {}
    <3> SUFFICES ASSUME T # {} PROVE FALSE
      OBVIOUS
    <3>1. T \subseteq Nat
      BY <1>1
    <3>2. PICK d \in T : \A y \in T : d <= y
      BY <3>1, Least
    <3>3. PICK c \in S : c < d /\ d < End(c)
      BY <3>2
    <3>4. d \in S /\ d \in Nat /\ c \in Nat /\ d # 0
      BY <1>1, <3>2, <3>3
    <3>5. PICK e \in S : ~ Last(e) /\ End(e) = d
      BY <1>3, <3>4
    <3>6. e \in Nat /\ e < d /\ End(c) \in Nat
      BY <1>1, <1>2, <3>5
    <3>7. CASE e = c
      BY <3>3, <3>4, <3>5, <3>7
    <3>8. CASE c < e
      <4>1. e < End(c)
        BY <3>3, <3>4, <3>6
      <4>2. e \in T
        BY <3>3, <3>8, <4>1
      <4> QED
        BY <3>2, <3>4, <3>6, <4>2
    <3>9. CASE e < c
      <4>1. c \in T
        BY <3>3, <3>5, <3>9
      <4> QED
        BY <3>2, <3>3, <3>4, <4>1
    <3> QED
      BY <3>4, <3>6, <3>7, <3>8, <3>9
  <2>2. ASSUME NEW c \in S, NEW d \in S, c < d PROVE End(c) <= d
    <3>1. c \in Nat /\ d \in Nat /\ End(c) \in Nat
      BY <1>1, <1>2
    <3>2. ~ (d < End(c))
      BY <2>1, <2>2
    <3> QED
      BY <3>1, <3>2
  <2> QED
    BY <2>2
    (* The least tile behind a terminator. *)
<1>5. \A c, d \in S : c < d => ~ Last(c)
  <2> SUFFICES ASSUME NEW c \in S, Last(c) PROVE \A d \in S : ~ (c < d)
    OBVIOUS
  <2> DEFINE T == {d \in S : c < d}
  <2>1. T = {}
    <3> SUFFICES ASSUME T # {} PROVE FALSE
      OBVIOUS
    <3>1. T \subseteq Nat
      BY <1>1
    <3>2. PICK d \in T : \A y \in T : d <= y
      BY <3>1, Least
    <3>3. d \in S /\ c < d /\ d \in Nat /\ c \in Nat /\ d # 0
      BY <1>1, <3>2
    <3>4. PICK e \in S : ~ Last(e) /\ End(e) = d
      BY <1>3, <3>3
    <3>5. e \in Nat /\ e < d /\ e # c
      BY <1>1, <1>2, <3>4
    <3>6. CASE c < e
      <4>1. e \in T
        BY <3>6
      <4> QED
        BY <3>2, <3>3, <3>5, <4>1
    <3>7. CASE e < c
      <4>1. End(e) <= c
        BY <1>4, <3>7
      <4> QED
        BY <3>3, <3>4, <4>1
    <3> QED
      BY <3>3, <3>5, <3>6, <3>7
  <2> QED
    BY <2>1
<1> QED
  BY <1>2, <1>4, <1>5 DEF End, Last
(* The TLVs at given offsets.                                              *)
TlvsAt(S) == {TlvAt(bytes, c) : c \in S}

LEMMA TilesTile ==
  ASSUME bytes \in Seq(Byte), NEW S \in SUBSET (0..(Len(bytes) - 1)), Tiles(S)
  PROVE  Tiling(bytes, 0, TlvsAt(S)) /\ {r.offset : r \in TlvsAt(S)} = S
<1> DEFINE n == Len(bytes)
           R == TlvsAt(S)
<1>1. n \in Nat /\ S \subseteq 0..(n - 1) /\ S \subseteq Nat
  OBVIOUS
<1>2. /\ \A c \in S : Framed(bytes, c)
      /\ \A c, d \in S : c < d => /\ TlvAt(bytes, c).type # Terminator
                                  /\ TlvAt(bytes, c).end <= d
  BY TilesAreApart
<1>3. \A r \in R : /\ r.offset \in S /\ r.offset \in 0..(n - 1) /\ r.offset \in Nat
                   /\ r = TlvAt(bytes, r.offset) /\ Framed(bytes, r.offset)
  <2> SUFFICES ASSUME NEW c \in S
               PROVE  TlvAt(bytes, c).offset = c /\ c \in 0..(n - 1) /\ c \in Nat
    BY <1>2 DEF TlvsAt
  <2>1. c \in 0..(Len(bytes) - 1) /\ Framed(bytes, c)
    BY <1>2
  <2> QED
    BY <1>1, <2>1, TlvShape
<1>4. \A c \in S : TlvAt(bytes, c) \in R /\ TlvAt(bytes, c).offset = c
  <2> SUFFICES ASSUME NEW c \in S PROVE TlvAt(bytes, c) \in R /\ TlvAt(bytes, c).offset = c
    OBVIOUS
  <2>1. c \in 0..(Len(bytes) - 1) /\ Framed(bytes, c)
    BY <1>2
  <2> QED
    BY <2>1, TlvShape DEF TlvsAt
<1>5. {r.offset : r \in R} = S
  <2> HIDE DEF R
  <2>1. \A c \in S : c \in {r.offset : r \in R}
    BY <1>4
  <2> QED
    BY <1>3, <2>1
<1>6. \A r, q \in R : r = q \/ r.end <= q.offset \/ q.end <= r.offset
  <2> SUFFICES ASSUME NEW r \in R, NEW q \in R, r.offset # q.offset
               PROVE  r.end <= q.offset \/ q.end <= r.offset
    BY <1>3
  <2> HIDE DEF R, n
  <2>1. r.offset < q.offset \/ q.offset < r.offset
    BY <1>3
  <2> QED
    BY <1>2, <1>3, <2>1
<1>7. \A r, q \in R : r.type = Terminator => q.offset <= r.offset
  <2> SUFFICES ASSUME NEW r \in R, NEW q \in R, r.type = Terminator, ~ (q.offset <= r.offset)
               PROVE  FALSE
    OBVIOUS
  <2> HIDE DEF R, n
  <2>1. r.offset < q.offset
    BY <1>3
  <2> QED
    BY <1>2, <1>3, <2>1
<1>8. \A r \in R : r.type # Terminator => r.end \in S \cup {n}
  <2> SUFFICES ASSUME NEW r \in R, r.type # Terminator PROVE r.end \in S \cup {n}
    OBVIOUS
  <2> DEFINE c == r.offset
  <2>1. c \in S /\ c \in 0..(Len(bytes) - 1) /\ Framed(bytes, c) /\ r = TlvAt(bytes, c)
    BY <1>3
  <2>2. EndsAfter(c) = {r.end}
    BY <2>1, EndsAre
  <2>3. EndsAfter(c) \subseteq S \cup {n}
    BY <2>1 DEF Tiles
  <2> QED
    BY <2>2, <2>3
<1>9. \A r \in R : r.offset # 0 => \E q \in R : q.type # Terminator /\ q.end = r.offset
  <2> SUFFICES ASSUME NEW r \in R, r.offset # 0
               PROVE  \E q \in R : q.type # Terminator /\ q.end = r.offset
    OBVIOUS
  <2>1. PICK d \in S : r.offset \in EndsAfter(d)
    BY <1>3 DEF Tiles
  <2>2. d \in 0..(Len(bytes) - 1) /\ Framed(bytes, d)
    BY <1>2
  <2>3. TlvAt(bytes, d).type # Terminator /\ TlvAt(bytes, d).end = r.offset
    BY <2>1, <2>2, EndsAre
  <2> QED
    BY <1>4, <2>3
<1>10. 0 = n \/ \E r \in R : r.offset = 0
  BY <1>4 DEF Tiles
<1>11. \A r \in R : \/ r.type = Terminator \/ r.end = n
                    \/ \E q \in R : q.offset = r.end
  BY <1>4, <1>8
<1>12. \A r \in R : 0 <= r.offset
  BY <1>3
<1>13. Tiling(bytes, 0, R)
  <2> HIDE DEF R
  <2> QED
    BY <1>3, <1>6, <1>7, <1>9, <1>10, <1>11, <1>12 DEF Tiling
<1> QED
  BY <1>5, <1>13

LEMMA TilingTiles ==
  ASSUME bytes \in Seq(Byte), NEW R, Tiling(bytes, 0, R)
  PROVE  LET S == {r.offset : r \in R}
         IN  S \in SUBSET (0..(Len(bytes) - 1)) /\ Tiles(S)
<1> DEFINE n == Len(bytes)
           S == {r.offset : r \in R}
<1>1. \A r \in R : /\ r.offset \in 0..(n - 1) /\ r.offset \in S
                   /\ Framed(bytes, r.offset) /\ r = TlvAt(bytes, r.offset)
  BY DEF Tiling
<1>2. \A c \in S : \E r \in R : r.offset = c
  OBVIOUS
<1> HIDE DEF S
<1>3. S \in SUBSET (0..(n - 1))
  BY <1>1, <1>2
<1>4. 0 \in S \cup {n}
  BY <1>1 DEF Tiling
<1>5. \A c \in S : EndsAfter(c) \subseteq S \cup {n}
  <2> SUFFICES ASSUME NEW c \in S PROVE EndsAfter(c) \subseteq S \cup {n}
    OBVIOUS
  <2>1. PICK r \in R : r.offset = c
    BY <1>2
  <2>2. c \in 0..(Len(bytes) - 1) /\ Framed(bytes, c) /\ r = TlvAt(bytes, c)
    BY <1>1, <2>1
  <2>3. r.type = Terminator \/ r.end = n \/ \E q \in R : q.offset = r.end
    BY DEF Tiling
  <2>4. r.type = Terminator \/ r.end \in S \cup {n}
    BY <1>1, <2>3
  <2> QED
    BY <2>2, <2>4, EndsAre
<1>6. \A c \in S \ {0} : \E d \in S : c \in EndsAfter(d)
  <2> SUFFICES ASSUME NEW c \in S \ {0} PROVE \E d \in S : c \in EndsAfter(d)
    OBVIOUS
  <2>1. PICK r \in R : r.offset = c
    BY <1>2
  <2>2. PICK q \in R : q.type # Terminator /\ q.end = r.offset
    BY <2>1 DEF Tiling
  <2> DEFINE d == q.offset
  <2>3. d \in 0..(Len(bytes) - 1) /\ Framed(bytes, d) /\ q = TlvAt(bytes, d) /\ d \in S
    BY <1>1
  <2>4. EndsAfter(d) = {q.end}
    BY <2>2, <2>3, EndsAre
  <2> QED
    BY <2>1, <2>2, <2>3, <2>4
<1> QED
  BY <1>3, <1>4, <1>5, <1>6 DEF Tiles, S

(***************************************************************************)
(* PARSING.  Whatever bytes stand on a tag, parse_type2_tlvs accepts them  *)
(* exactly if they can be cut into TLVs, and then in the only way there    *)
(* is, with a definition of where a TLV may end that is not the parser's.  *)
(***************************************************************************)
THEOREM ParsingCorrect == ContentSpec => []ParseIsTheTiling
<1>1. ContentInvariant => ParseIsTheTiling
  <2> SUFFICES ASSUME ContentInvariant PROVE ParseIsTheTiling
    OBVIOUS
  <2> DEFINE tilings == {S \in SUBSET (0..(Len(bytes) - 1)) : Tiles(S)}
             R == Parse(bytes).records
             parsed == {r.offset : r \in R}
  <2>1. bytes \in Seq(Byte)
    BY DEF ContentInvariant
  <2>2. ASSUME NEW S \in tilings PROVE Parse(bytes).ok /\ S = parsed
    <3>1. Tiling(bytes, 0, TlvsAt(S)) /\ {r.offset : r \in TlvsAt(S)} = S
      BY <2>1, TilesTile
    <3>2. Parse(bytes).ok /\ TlvsAt(S) = R
      BY <2>1, <3>1, ParseIsTheOnlyTiling
    <3> QED
      BY <3>1, <3>2
  <2>3. ASSUME Parse(bytes).ok PROVE parsed \in tilings
    <3>1. Tiling(bytes, 0, R)
      BY <2>1, <2>3, ParseIsTheOnlyTiling
    <3> QED
      BY <2>1, <3>1, TilingTiles
  <2> HIDE DEF tilings, parsed
  <2>4. CASE Parse(bytes).ok
    <3>1. tilings = {parsed}
      BY <2>2, <2>3, <2>4
    <3> QED
      BY <2>4, <3>1 DEF ParseIsTheTiling, tilings, parsed
  <2>5. CASE ~ Parse(bytes).ok
    <3>1. tilings = {}
      BY <2>2, <2>5
    <3> QED
      BY <2>5, <3>1 DEF ParseIsTheTiling, tilings
  <2> QED
    BY <2>4, <2>5
<1> QED
  BY <1>1, ContentTypes, PTL
-----------------------------------------------------------------------------
(* Texts one below the other (JoinLines), text by text.                    *)
LEMMA JoinUnfolds ==
  ASSUME NEW texts \in Seq(Seq(Byte))
  PROVE  \E U : /\ JoinLines(texts) = U[Len(texts)]
                /\ \A n \in 0..Len(texts) : U[n] \in Seq(Byte)
                /\ U[0] = <<>>
                /\ \A n \in 1..Len(texts) : U[n] = U[n - 1] \o <<Break>> \o texts[n]
<1> DEFINE N == Len(texts)
           B == Seq(Byte)
           Next1(line, n) == line \o <<Break>> \o texts[n]
           Solves(f) == f = [n \in 0..N |-> IF n = 0 THEN <<>> ELSE Next1(f[n - 1], n)]
           G == [n \in 1..N |-> [line \in B |-> Next1(line, n)]]
<1>1. N \in Nat /\ \A n \in 1..N : texts[n] \in B
  <2>1. texts \in Seq(B)
    OBVIOUS
  <2> HIDE DEF B
  <2> QED
    BY <2>1
<1>2. ASSUME NEW line \in B, NEW n \in 1..N PROVE Next1(line, n) \in B
  <2>1. <<Break>> \in Seq(Byte) /\ texts[n] \in Seq(Byte)
    BY <1>1 DEF Break, Byte
  <2>2. line \o <<Break>> \in Seq(Byte)
    BY <2>1, ConcatProperties
  <2> QED
    BY <2>1, <2>2, ConcatProperties
<1> HIDE DEF Next1, N, B
<1>3. \A n \in 1..N : \A line \in B : G[n][line] = Next1(line, n)
  OBVIOUS
<1> HIDE DEF G
<1>4. PICK U : Iterates(U, G, <<>>, N, B)
  <2>1. Steps(G, N, B)
    BY <1>2, <1>3 DEF Steps
  <2>2. <<>> \in B
    BY DEF B
  <2> QED
    BY <1>1, <2>1, <2>2, Iterated
<1> DEFINE V == [n \in 0..N |-> U[n]]
<1>5. Solves(V)
  <2>1. ASSUME NEW n \in 0..N PROVE V[n] = IF n = 0 THEN <<>> ELSE Next1(V[n - 1], n)
    <3>1. n # 0 => n \in 1..N /\ n - 1 \in 0..N
      BY <1>1
    <3> QED
      BY <1>3, <1>4, <3>1 DEF Iterates
  <2> QED
    BY <2>1
<1> DEFINE C == CHOOSE f : Solves(f)
<1>6. Solves(C)
  BY <1>5, Zenon
<1>7. JoinLines(texts) = C[N]
  BY DEF JoinLines, Next1, N
<1> HIDE DEF C
<1>8. C = [n \in 0..N |-> IF n = 0 THEN <<>> ELSE Next1(C[n - 1], n)]
  BY <1>6
<1>9. C[0] = <<>> /\ \A n \in 1..N : C[n] = Next1(C[n - 1], n)
  BY <1>1, <1>8
<1>10. \A n \in 0..N : C[n] \in B
  <2> SUFFICES ASSUME NEW k \in 0..N PROVE C[k] \in B
    OBVIOUS
  <2> DEFINE T == {n \in 0..k : C[n] \in B}
  <2>1. k \in Nat /\ 0 \in T
    <3>1. <<>> \in B
      BY DEF B
    <3> QED
      BY <1>1, <1>9, <3>1
  <2>2. ASSUME NEW n \in 1..k, n - 1 \in T PROVE n \in T
    <3>1. n \in 1..N /\ n \in 0..k
      BY <1>1
    <3> QED
      BY <1>2, <1>9, <2>2, <3>1
  <2>3. k \in T
    <3> HIDE DEF T
    <3> QED
      BY <2>1, <2>2, Ascent
  <2> QED
    BY <2>3
<1> QED
  BY <1>7, <1>9, <1>10 DEF Next1, N, B

LEMMA JoinGrows ==
  ASSUME NEW texts \in Seq(Seq(Byte)), NEW x \in Seq(Byte)
  PROVE  /\ JoinLines(texts) \in Seq(Byte)
         /\ JoinLines(Append(texts, x)) = JoinLines(texts) \o <<Break>> \o x
<1> DEFINE B == Seq(Byte)
           N == Len(texts)
           more == Append(texts, x)
<1>1. N \in Nat /\ more \in Seq(B) /\ Len(more) = N + 1
      /\ more[N + 1] = x /\ \A i \in 1..N : more[i] = texts[i]
  <2>1. texts \in Seq(B) /\ x \in B
    OBVIOUS
  <2> HIDE DEF B
  <2> QED
    BY <2>1
<1> HIDE DEF more
<1>2. PICK U : /\ JoinLines(texts) = U[N]
               /\ \A n \in 0..N : U[n] \in Seq(Byte)
               /\ U[0] = <<>>
               /\ \A n \in 1..N : U[n] = U[n - 1] \o <<Break>> \o texts[n]
  BY JoinUnfolds
<1>3. PICK V : /\ JoinLines(more) = V[N + 1]
               /\ V[0] = <<>>
               /\ \A n \in 1..(N + 1) : V[n] = V[n - 1] \o <<Break>> \o more[n]
  <2>1. PICK V : /\ JoinLines(more) = V[Len(more)]
                 /\ V[0] = <<>>
                 /\ \A n \in 1..Len(more) : V[n] = V[n - 1] \o <<Break>> \o more[n]
    BY <1>1, JoinUnfolds
  <2> QED
    BY <1>1, <2>1
<1> HIDE DEF N, B
<1> DEFINE T == {n \in 0..N : V[n] = U[n]}
<1>4. 0 \in T
  BY <1>1, <1>2, <1>3
<1>5. ASSUME NEW n \in 1..N, n - 1 \in T PROVE n \in T
  <2>1. n \in 1..(N + 1) /\ n \in 0..N
    BY <1>1
  <2> QED
    BY <1>1, <1>2, <1>3, <1>5, <2>1
<1>6. N \in T
  <2> HIDE DEF T
  <2> QED
    BY <1>1, <1>4, <1>5, Ascent
<1>7. V[N] = U[N] /\ U[N] \in Seq(Byte)
  BY <1>1, <1>2, <1>6
<1>8. N + 1 \in 1..(N + 1) /\ N + 1 - 1 = N
  BY <1>1
<1>9. V[N + 1] = U[N] \o <<Break>> \o x
  <2> DEFINE m == N + 1
  <2>1. m \in 1..(N + 1) /\ m - 1 = N /\ more[m] = x
    BY <1>1, <1>8
  <2> HIDE DEF m
  <2>2. V[m] = V[m - 1] \o <<Break>> \o more[m]
    BY <1>3, <2>1
  <2>3. V[m] = U[N] \o <<Break>> \o x
    BY <1>7, <2>1, <2>2
  <2> QED
    BY <2>3 DEF m
<1> QED
  BY <1>2, <1>3, <1>7, <1>9 DEF more

LEMMA JoinNothing == JoinLines(<<>>) = <<>>
<1>1. <<>> \in Seq(Seq(Byte)) /\ Len(<<>>) = 0
  OBVIOUS
<1> QED
  BY <1>1, JoinUnfolds
-----------------------------------------------------------------------------
(* Lines and payloads are bytes.                                           *)
LineOf(f) == IF f.kind = "uri" THEN ShownUrl(f.value) ELSE Line(f)

LEMMA LineBytes ==
  ASSUME NEW f \in Field
  PROVE  Line(f) \in Seq(Byte) /\ ShownUrl(f.value) \in Seq(Byte) /\ LineOf(f) \in Seq(Byte)
<1>1. f.name \in Seq(Byte) /\ f.value \in Seq(Byte)
  BY DEF Field
<1>2. Line(f) \in Seq(Byte)
  <2>1. <<Space>> \in Seq(Byte)
    BY DEF Space, Byte
  <2>2. f.name \o <<Space>> \in Seq(Byte)
    BY <1>1, <2>1, ConcatProperties
  <2>3. f.name \o <<Space>> \o f.value \in Seq(Byte)
    BY <1>1, <2>2, ConcatProperties
  <2> QED
    BY <1>1, <2>3 DEF Line
<1>3. ShownUrl(f.value) \in Seq(Byte)
  <2> DEFINE url == f.value
             n == Len(url)
  <2>1. url \in Seq(Byte) /\ n \in Nat /\ DOMAIN url = 1..n /\ \A i \in 1..n : url[i] \in Byte
    BY <1>1
  <2>2. \A c \in Byte : Lower(c) \in Byte
    BY DEF Byte, Lower
  <2>3. ShownUrl(url) = [i \in 1..n |-> IF i = 1 \/ (i = 2 /\ Lower(url[2]) = Www)
                                        THEN Lower(url[i]) ELSE url[i]]
    BY <2>1 DEF ShownUrl
  <2> HIDE DEF url, n
  <2>4. \A i \in 1..n : Lower(url[i]) \in Byte /\ url[i] \in Byte
    BY <2>1, <2>2
  <2>5. ShownUrl(url) \in Seq(Byte)
    BY <2>1, <2>3, <2>4
  <2> QED
    BY <2>5 DEF url
<1> QED
  BY <1>2, <1>3 DEF LineOf

LEMMA TextBytes ==
  ASSUME NEW text \in Seq(Byte)
  PROVE  TextPayload(Language, text) \in Seq(Byte)
<1>1. Language \in Seq(Byte) /\ Len(Language) < 64
  BY EditorConstants
<1>2. <<Len(Language)>> \in Seq(Byte)
  <2> DEFINE n == Len(Language)
  <2>1. n \in Nat /\ n < 64
    BY <1>1
  <2> HIDE DEF n
  <2>2. n \in Byte
    BY <2>1 DEF Byte
  <2> QED
    BY <2>2 DEF n
<1>3. <<Len(Language)>> \o Language \in Seq(Byte)
  BY <1>1, <1>2, ConcatProperties
<1> QED
  BY <1>3, ConcatProperties DEF TextPayload

LEMMA UriBytes ==
  ASSUME NEW url \in Seq(Byte)
  PROVE  UriPayload(url) \in Seq(Byte)
<1> DEFINE k == Len(UriPrefix[Compress(url)])
           rest == SubSeq(url, k + 1, Len(url))
<1>1. url \in Seq(Nat)
  <2>1. Byte \subseteq Nat
    BY DEF Byte
  <2> QED
    BY <2>1, SeqMonotonic
<1>2. Compress(url) \in 0..4 /\ k \in Nat
  <2>1. Compress(url) \in 0..4
    BY <1>1, CompressFits
  <2>2. k \in 0..2
    BY <2>1, Prefixes
  <2> QED
    BY <2>1, <2>2
<1>3. rest \in Seq(Byte)
  <2> DEFINE n == Len(url)
  <2>1. n \in Nat /\ \A i \in 1..n : url[i] \in Byte
    OBVIOUS
  <2> HIDE DEF k, n
  <2>2. k + 1 \in Int /\ n \in Int /\ \A i \in (k + 1)..n : url[i] \in Byte
    BY <1>2, <2>1
  <2> QED
    BY <2>2, SubSeqProperties DEF n
<1>4. <<Compress(url)>> \in Seq(Byte)
  <2>1. Compress(url) \in Byte
    BY <1>2 DEF Byte
  <2> QED
    BY <2>1
<1> HIDE DEF rest
<1>5. <<Compress(url)>> \o rest \in Seq(Byte)
  BY <1>3, <1>4, ConcatProperties
<1> QED
  BY <1>5 DEF UriPayload, rest, k
-----------------------------------------------------------------------------
(* A record of a message, and what the reader has to show of it.           *)
MessageRecord == [type : Byte, payload : Seq(Byte)]
ShowsText(r, shown) == r.type = TextType /\ r.payload = TextPayload(Language, shown)
ShowsUri(r, shown) ==
  /\ r.type = UriType
  /\ \E url \in Seq(Byte) : ValidUrl(url) /\ r.payload = UriPayload(url) /\ shown = ShownUrl(url)
ShowAs(records, texts) ==
  /\ records \in Seq(MessageRecord)
  /\ texts \in Seq(Seq(Byte)) /\ Len(texts) = Len(records)
  /\ \A i \in 1..Len(records) : ShowsText(records[i], texts[i]) \/ ShowsUri(records[i], texts[i])

LEMMA NewRecord ==
  ASSUME NEW f \in Field
  PROVE  /\ [type |-> UriType, payload |-> UriPayload(f.value)] \in MessageRecord
         /\ [type |-> TextType, payload |-> TextPayload(Language, Line(f))] \in MessageRecord
<1>1. f.value \in Seq(Byte) /\ Line(f) \in Seq(Byte)
  BY LineBytes DEF Field
<1>2. UriType \in Byte /\ TextType \in Byte
  BY DEF UriType, TextType, Byte
<1>3. UriPayload(f.value) \in Seq(Byte) /\ TextPayload(Language, Line(f)) \in Seq(Byte)
  BY <1>1, UriBytes, TextBytes
<1> QED
  BY <1>2, <1>3 DEF MessageRecord

(* A line below the text of a text record (flush_text).                    *)
LEMMA LineBelow ==
  ASSUME NEW text \in Seq(Byte), NEW line \in Seq(Byte)
  PROVE  /\ text \o <<Break>> \o line \in Seq(Byte)
         /\ TextPayload(Language, text) \o <<Break>> \o line
              = TextPayload(Language, text \o <<Break>> \o line)
         /\ \A above \in Seq(Byte) :
              above \o <<Break>> \o (text \o <<Break>> \o line)
                = (above \o <<Break>> \o text) \o <<Break>> \o line
<1>1. <<Break>> \in Seq(Byte)
  BY DEF Break, Byte
<1> DEFINE b == <<Break>>
<1>2. b \in Seq(Byte)
  BY <1>1
<1> HIDE DEF b
<1>3. text \o b \in Seq(Byte) /\ text \o b \o line \in Seq(Byte)
  BY <1>2, ConcatProperties
<1>4. ASSUME NEW head \in Seq(Byte)
      PROVE  head \o (text \o b \o line) = (head \o text) \o b \o line
  <2>1. head \o ((text \o b) \o line) = (head \o (text \o b)) \o line
    <3> DEFINE c == text \o b
    <3>1. c \in Seq(Byte)
      BY <1>3
    <3> HIDE DEF c
    <3>2. (head \o c) \o line = head \o (c \o line)
      BY <3>1, ConcatAssociative
    <3> QED
      BY <3>2 DEF c
  <2>2. head \o (text \o b) = (head \o text) \o b
    BY <1>2, ConcatAssociative
  <2> QED
    BY <2>1, <2>2
<1>5. TextPayload(Language, text) \o b \o line = TextPayload(Language, text \o b \o line)
  <2> DEFINE head == <<Len(Language)>> \o Language
  <2>1. head \in Seq(Byte)
    <3>1. Language \in Seq(Byte) /\ Len(Language) < 64
      BY EditorConstants
    <3> DEFINE n == Len(Language)
    <3>2. n \in Nat /\ n < 64
      BY <3>1
    <3> HIDE DEF n
    <3>3. n \in Byte
      BY <3>2 DEF Byte
    <3>4. <<n>> \in Seq(Byte)
      BY <3>3
    <3> QED
      BY <3>1, <3>4, ConcatProperties DEF n
  <2> HIDE DEF head
  <2>2. head \o (text \o b \o line) = (head \o text) \o b \o line
    BY <1>4, <2>1
  <2> QED
    BY <2>2 DEF TextPayload, head
<1>6. ASSUME NEW above \in Seq(Byte)
      PROVE  above \o b \o (text \o b \o line) = (above \o b \o text) \o b \o line
  <2>1. above \o b \in Seq(Byte)
    BY <1>2, ConcatProperties
  <2> QED
    BY <1>4, <2>1
<1> QED
  BY <1>3, <1>5, <1>6 DEF b

(* One more field, in a record of its own or below the text before it: the *)
(* reader shows one more line.                                             *)
LEMMA PutShows ==
  ASSUME NEW records, NEW texts, ShowAs(records, texts),
         NEW f \in Field, f.kind = "uri" => ValidUrl(f.value)
  PROVE  /\ Put(records, f) \in Seq(MessageRecord) /\ Put(records, f) # <<>>
         /\ \E more : /\ ShowAs(Put(records, f), more)
                      /\ JoinLines(more) = JoinLines(texts) \o <<Break>> \o LineOf(f)
<1> DEFINE n == Len(records)
           B == Seq(Byte)
           M == MessageRecord
           put == Put(records, f)
<1>1. records \in Seq(M) /\ texts \in Seq(B) /\ n \in Nat /\ Len(texts) = n
      /\ \A i \in 1..n : ShowsText(records[i], texts[i]) \/ ShowsUri(records[i], texts[i])
  <2>1. records \in Seq(M) /\ texts \in Seq(B) /\ Len(texts) = n
        /\ \A i \in 1..n : ShowsText(records[i], texts[i]) \/ ShowsUri(records[i], texts[i])
    BY DEF ShowAs
  <2> HIDE DEF M
  <2>2. n \in Nat
    BY <2>1
  <2> QED
    BY <2>1, <2>2
<1>2. f.value \in B /\ Line(f) \in B /\ LineOf(f) \in B /\ ShownUrl(f.value) \in B
  BY LineBytes DEF Field
    (* A record of its own. *)
<1>3. ASSUME NEW r \in M, put = Append(records, r),
             ShowsText(r, LineOf(f)) \/ ShowsUri(r, LineOf(f))
      PROVE  /\ put \in Seq(M) /\ put # <<>>
             /\ \E more : ShowAs(put, more)
                          /\ JoinLines(more) = JoinLines(texts) \o <<Break>> \o LineOf(f)
  <2> DEFINE more == Append(texts, LineOf(f))
  <2> HIDE DEF put, M, B
  <2>1. put \in Seq(M) /\ Len(put) = n + 1 /\ put[n + 1] = r
        /\ \A i \in 1..n : put[i] = records[i]
    BY <1>1, <1>3
  <2>2. more \in Seq(B) /\ Len(more) = n + 1 /\ more[n + 1] = LineOf(f)
        /\ \A i \in 1..n : more[i] = texts[i]
    BY <1>1, <1>2
  <2> HIDE DEF more, n
  <2>3. ASSUME NEW i \in 1..(n + 1)
        PROVE  ShowsText(put[i], more[i]) \/ ShowsUri(put[i], more[i])
    <3>1. i \in 1..n \/ i = n + 1
      BY <1>1
    <3> QED
      BY <1>1, <1>3, <2>1, <2>2, <3>1
  <2>4. ShowAs(put, more)
    BY <2>1, <2>2, <2>3 DEF ShowAs, M, B
  <2>5. JoinLines(more) = JoinLines(texts) \o <<Break>> \o LineOf(f)
    BY <1>1, <1>2, JoinGrows DEF more, B
  <2>6. put # <<>>
    BY <1>1, <2>1
  <2> QED
    BY <2>1, <2>4, <2>5, <2>6
<1>4. CASE f.kind = "uri"
  <2> DEFINE r == [type |-> UriType, payload |-> UriPayload(f.value)]
  <2>1. put = Append(records, r)
    BY <1>4 DEF Put
  <2>2. r \in M
    BY NewRecord
  <2>3. ShowsUri(r, LineOf(f))
    <3>1. r.type = UriType /\ r.payload = UriPayload(f.value)
      OBVIOUS
    <3>2. LineOf(f) = ShownUrl(f.value) /\ ValidUrl(f.value) /\ f.value \in Seq(Byte)
      BY <1>2, <1>4 DEF LineOf
    <3> QED
      BY <3>1, <3>2 DEF ShowsUri
  <2> HIDE DEF r, put, M
  <2>4. /\ put \in Seq(M) /\ put # <<>>
        /\ \E more : ShowAs(put, more)
                     /\ JoinLines(more) = JoinLines(texts) \o <<Break>> \o LineOf(f)
    BY <1>3, <2>1, <2>2, <2>3
  <2> QED
    BY <2>4 DEF put, M
<1>5. CASE f.kind # "uri" /\ ~ (n > 0 /\ records[n].type = TextType)
  <2> DEFINE r == [type |-> TextType, payload |-> TextPayload(Language, Line(f))]
  <2>1. put = Append(records, r)
    BY <1>5 DEF Put
  <2>2. r \in M
    BY NewRecord
  <2>3. ShowsText(r, LineOf(f))
    BY <1>5 DEF ShowsText, LineOf
  <2> HIDE DEF r, put, M
  <2>4. /\ put \in Seq(M) /\ put # <<>>
        /\ \E more : ShowAs(put, more)
                     /\ JoinLines(more) = JoinLines(texts) \o <<Break>> \o LineOf(f)
    BY <1>3, <2>1, <2>2, <2>3
  <2> QED
    BY <2>4 DEF put, M
    (* Below the text of the last record. *)
<1>6. CASE f.kind # "uri" /\ n > 0 /\ records[n].type = TextType
  <2> DEFINE line == Line(f)
             text == texts[n]
             payload == records[n].payload \o <<Break>> \o line
             r == [records[n] EXCEPT !.payload = payload]
             below == text \o <<Break>> \o line
             front == SubSeq(texts, 1, n - 1)
             more == Append(front, below)
  <2>1. n \in 1..n /\ records[n] \in M /\ text \in B
    <3> HIDE DEF M, B, n
    <3>1. n \in 1..n
      BY <1>1, <1>6
    <3> QED
      BY <1>1, <3>1 DEF n
  <2>2. records[n].type = TextType /\ records[n].payload = TextPayload(Language, text)
    BY <1>1, <1>6, <2>1 DEF ShowsText, ShowsUri, TextType, UriType
  <2>3. below \in B /\ payload = TextPayload(Language, below)
    <3> HIDE DEF line, text
    <3>1. line \in B /\ text \in B
      BY <1>2, <2>1 DEF line
    <3>2. below \in B /\ TextPayload(Language, text) \o <<Break>> \o line
                            = TextPayload(Language, below)
      BY <3>1, LineBelow
    <3> QED
      BY <2>2, <3>2
  <2>4. r \in M /\ r.type = TextType /\ r.payload = payload
    <3>1. payload \in Seq(Byte)
      BY <2>3, TextBytes
    <3> QED
      BY <2>1, <2>2, <3>1 DEF MessageRecord
  <2>5. put = [records EXCEPT ![n] = r]
    BY <1>6 DEF Put
  <2>6. LineOf(f) = line
    BY <1>6 DEF LineOf
  <2>7. ShowsText(r, below)
    BY <2>3, <2>4 DEF ShowsText
  <2> HIDE DEF r, put, payload
  <2>8. put \in Seq(M) /\ Len(put) = n /\ \A i \in 1..n : put[i] = IF i = n THEN r ELSE records[i]
    BY <1>1, <2>1, <2>4, <2>5, ExceptSeq
  <2> HIDE DEF M, below
  <2>9. front \in Seq(B) /\ Len(front) = n - 1 /\ \A i \in 1..(n - 1) : front[i] = texts[i]
    <3> HIDE DEF B
    <3>1. \A i \in 1..n : texts[i] \in B
      BY <1>1
    <3> HIDE DEF n
    <3>2. \A i \in 1..(n - 1) : texts[i] \in B
      BY <1>1, <3>1
    <3>3. 1 \in Int /\ n - 1 \in Int /\ n - 1 >= 0
      BY <1>1, <2>1
    <3>4. front \in Seq(B) /\ Len(front) = (IF 1 <= n - 1 THEN n - 1 - 1 + 1 ELSE 0)
          /\ \A i \in 1..(n - 1 - 1 + 1) : front[i] = texts[1 + i - 1]
      BY <3>2, <3>3, SubSeqProperties
    <3>5. Len(front) = n - 1 /\ n - 1 - 1 + 1 = n - 1
      BY <3>3, <3>4
    <3>6. \A i \in 1..(n - 1) : 1 + i - 1 = i
      BY <3>3
    <3> QED
      BY <3>4, <3>5, <3>6
  <2> HIDE DEF front
  <2>10. more \in Seq(B) /\ Len(more) = n /\ more[n] = below
         /\ \A i \in 1..(n - 1) : more[i] = texts[i]
    <3> HIDE DEF B
    <3>1. more \in Seq(B) /\ Len(more) = n - 1 + 1 /\ more[n - 1 + 1] = below
          /\ \A i \in 1..(n - 1) : more[i] = front[i]
      BY <2>3, <2>9
    <3>2. n - 1 + 1 = n
      BY <1>1
    <3> QED
      BY <2>9, <3>1, <3>2
  <2>11. JoinLines(more) = JoinLines(texts) \o <<Break>> \o LineOf(f)
    <3>1. texts = Append(front, text)
      <4> DEFINE whole == Append(front, text)
      <4> HIDE DEF B
      <4>1. whole \in Seq(B) /\ Len(whole) = n - 1 + 1 /\ whole[n - 1 + 1] = text
            /\ \A i \in 1..(n - 1) : whole[i] = front[i]
        BY <2>1, <2>9
      <4> HIDE DEF whole, n
      <4>2. n - 1 + 1 = n /\ \A i \in 1..n : i = n \/ i \in 1..(n - 1)
        BY <1>1, <2>1
      <4>3. Len(whole) = n /\ \A i \in 1..n : whole[i] = texts[i]
        BY <2>9, <4>1, <4>2
      <4>4. whole = texts
        BY <1>1, <4>1, <4>3, SeqEqual
      <4> QED
        BY <4>4 DEF whole
    <3>2. JoinLines(front) \in Seq(Byte)
          /\ JoinLines(Append(front, text)) = JoinLines(front) \o <<Break>> \o text
      BY <2>1, <2>9, JoinGrows
    <3>3. JoinLines(more) = JoinLines(front) \o <<Break>> \o below
      BY <2>3, <2>9, JoinGrows
    <3> DEFINE above == JoinLines(front)
    <3>4. above \o <<Break>> \o (text \o <<Break>> \o line)
            = (above \o <<Break>> \o text) \o <<Break>> \o line
      <4>1. line \in Seq(Byte) /\ text \in Seq(Byte) /\ above \in Seq(Byte)
        BY <1>2, <2>1, <3>2
      <4> HIDE DEF line, text, above
      <4> QED
        BY <4>1, LineBelow
    <3> HIDE DEF more, line, text
    <3> QED
      BY <2>6, <3>1, <3>2, <3>3, <3>4 DEF below
  <2> HIDE DEF more, n
  <2>12. ASSUME NEW i \in 1..n
         PROVE  ShowsText(put[i], more[i]) \/ ShowsUri(put[i], more[i])
    <3>1. i = n \/ i \in 1..(n - 1)
      BY <1>1
    <3>2. CASE i = n
      BY <2>7, <2>8, <2>10, <3>2
    <3>3. CASE i \in 1..(n - 1)
      <4>1. i # n
        BY <1>1, <3>3
      <4>2. put[i] = records[i] /\ more[i] = texts[i]
        BY <2>8, <2>10, <3>3, <4>1
      <4> QED
        BY <1>1, <4>2
    <3> QED
      BY <3>1, <3>2, <3>3
  <2>13. ShowAs(put, more)
    BY <2>8, <2>10, <2>12 DEF ShowAs, M, B
  <2>14. put # <<>>
    BY <1>1, <1>6, <2>8
  <2> QED
    BY <2>8, <2>11, <2>13, <2>14 DEF put, M
<1> QED
  BY <1>4, <1>5, <1>6
(* build_type2_ndef goes through the fields in their order.                *)
LEMMA RecordsUnfold ==
  ASSUME NEW list \in Seq(Field),
         \A i \in 1..Len(list) : list[i].kind = "uri" => ValidUrl(list[i].value)
  PROVE  \E U : /\ Records(list) = U[Len(list)]
                /\ U[0] = <<>>
                /\ \A n \in 1..Len(list) : U[n] = Put(U[n - 1], list[n])
<1> DEFINE N == Len(list)
           S == {records \in Seq(MessageRecord) : \E texts : ShowAs(records, texts)}
           Solves(f) == f = [n \in 0..N |-> IF n = 0 THEN <<>> ELSE Put(f[n - 1], list[n])]
           G == [n \in 1..N |-> [records \in S |-> Put(records, list[n])]]
<1>1. N \in Nat /\ \A n \in 1..N : list[n] \in Field
  OBVIOUS
<1>2. ASSUME NEW records \in S, NEW n \in 1..N PROVE Put(records, list[n]) \in S
  <2>1. PICK texts : ShowAs(records, texts)
    OBVIOUS
  <2>2. list[n] \in Field /\ (list[n].kind = "uri" => ValidUrl(list[n].value))
    BY <1>1
  <2>3. /\ Put(records, list[n]) \in Seq(MessageRecord)
        /\ \E more : ShowAs(Put(records, list[n]), more)
    BY <2>1, <2>2, PutShows
  <2> QED
    BY <2>3
<1>3. <<>> \in S
  <2>1. ShowAs(<<>>, <<>>)
    BY DEF ShowAs
  <2> QED
    BY <2>1
<1> HIDE DEF N, S
<1>4. \A n \in 1..N : \A records \in S : G[n][records] = Put(records, list[n])
  OBVIOUS
<1> HIDE DEF G
<1>5. PICK U : Iterates(U, G, <<>>, N, S)
  <2>1. Steps(G, N, S)
    BY <1>2, <1>4 DEF Steps
  <2> QED
    BY <1>1, <1>3, <2>1, Iterated
<1> DEFINE V == [n \in 0..N |-> U[n]]
<1>6. Solves(V)
  <2>1. ASSUME NEW n \in 0..N PROVE V[n] = IF n = 0 THEN <<>> ELSE Put(V[n - 1], list[n])
    <3>1. n # 0 => n \in 1..N /\ n - 1 \in 0..N
      BY <1>1
    <3> QED
      BY <1>4, <1>5, <3>1 DEF Iterates
  <2> QED
    BY <2>1
<1> DEFINE C == CHOOSE f : Solves(f)
<1>7. Solves(C)
  BY <1>6, Zenon
<1>8. Records(list) = C[N]
  BY DEF Records, N
<1> HIDE DEF C
<1>9. C = [n \in 0..N |-> IF n = 0 THEN <<>> ELSE Put(C[n - 1], list[n])]
  BY <1>7
<1>10. C[0] = <<>> /\ \A n \in 1..N : C[n] = Put(C[n - 1], list[n])
  BY <1>1, <1>9
<1> QED
  BY <1>8, <1>10 DEF N

(***************************************************************************)
(* What the records of a list of fields have to show is what the fields    *)
(* say, line by line in their order.                                       *)
(***************************************************************************)
LEMMA RecordsShow ==
  ASSUME NEW list \in Seq(Field), list # <<>>,
         \A i \in 1..Len(list) : list[i].kind = "uri" => ValidUrl(list[i].value)
  PROVE  /\ Records(list) \in Seq(MessageRecord) /\ Records(list) # <<>>
         /\ \E texts : /\ ShowAs(Records(list), texts)
                       /\ JoinLines(texts) = JoinLines([i \in 1..Len(list) |-> LineOf(list[i])])
<1> DEFINE N == Len(list)
           lines == [i \in 1..N |-> LineOf(list[i])]
<1>1. N \in Nat /\ N # 0 /\ \A n \in 1..N : list[n] \in Field
  OBVIOUS
<1>2. PICK U : /\ Records(list) = U[N]
               /\ U[0] = <<>>
               /\ \A n \in 1..N : U[n] = Put(U[n - 1], list[n])
  BY RecordsUnfold
<1>3. \A n \in 1..N : list[n].kind = "uri" => ValidUrl(list[n].value)
  OBVIOUS
<1> HIDE DEF N
<1>4. lines \in Seq(Seq(Byte)) /\ Len(lines) = N /\ \A n \in 1..N : lines[n] = LineOf(list[n])
  <2> DEFINE B == Seq(Byte)
  <2>1. \A n \in 1..N : LineOf(list[n]) \in B
    BY <1>1, LineBytes
  <2> HIDE DEF B
  <2>2. lines \in Seq(B) /\ Len(lines) = N /\ \A n \in 1..N : lines[n] = LineOf(list[n])
    BY <1>1, <2>1
  <2> QED
    BY <2>2 DEF B
<1> HIDE DEF lines
<1>5. PICK L : /\ JoinLines(lines) = L[N]
               /\ L[0] = <<>>
               /\ \A n \in 1..N : L[n] = L[n - 1] \o <<Break>> \o lines[n]
  <2>1. PICK L : /\ JoinLines(lines) = L[Len(lines)]
                 /\ L[0] = <<>>
                 /\ \A n \in 1..Len(lines) : L[n] = L[n - 1] \o <<Break>> \o lines[n]
    BY <1>4, JoinUnfolds
  <2> QED
    BY <1>4, <2>1
<1> DEFINE Good(n) == /\ U[n] \in Seq(MessageRecord)
                      /\ n # 0 => U[n] # <<>>
                      /\ \E texts : ShowAs(U[n], texts) /\ JoinLines(texts) = L[n]
           T == {n \in 0..N : Good(n)}
<1>6. 0 \in T
  <2>1. ShowAs(<<>>, <<>>) /\ <<>> \in Seq(MessageRecord)
    BY DEF ShowAs
  <2>2. Good(0)
    BY <1>2, <1>5, <2>1, JoinNothing
  <2> HIDE DEF Good
  <2> QED
    BY <1>1, <2>2
<1>7. ASSUME NEW n \in 1..N, n - 1 \in T PROVE n \in T
  <2>1. PICK texts : ShowAs(U[n - 1], texts) /\ JoinLines(texts) = L[n - 1]
    BY <1>7
  <2>2. list[n] \in Field /\ (list[n].kind = "uri" => ValidUrl(list[n].value))
    BY <1>1, <1>3
  <2> DEFINE old == U[n - 1]
             put == Put(old, list[n])
  <2> HIDE DEF old
  <2>3. /\ put \in Seq(MessageRecord) /\ put # <<>>
        /\ \E more : ShowAs(put, more) /\ JoinLines(more) = JoinLines(texts) \o <<Break>> \o LineOf(list[n])
    BY <2>1, <2>2, PutShows DEF old
  <2>4. U[n] = put
    BY <1>2 DEF old
  <2>5. L[n] = JoinLines(texts) \o <<Break>> \o LineOf(list[n])
    BY <1>4, <1>5, <2>1
  <2> HIDE DEF put
  <2>6. Good(n)
    BY <2>3, <2>4, <2>5
  <2> HIDE DEF Good
  <2>7. n \in 0..N
    BY <1>1
  <2> QED
    BY <2>6, <2>7
<1>8. Good(N)
  <2>1. N \in T
    <3> HIDE DEF T
    <3> QED
      BY <1>1, <1>6, <1>7, Ascent
  <2> HIDE DEF Good
  <2> QED
    BY <2>1
<1>9. lines = [i \in 1..Len(list) |-> LineOf(list[i])]
  BY DEF lines, N
<1> QED
  BY <1>1, <1>2, <1>5, <1>8, <1>9

(* What is shown of a URL that the editor accepts.                         *)
LEMMA ShownUrlIs ==
  ASSUME NEW url \in Seq(Byte), ValidUrl(url), NEW shown \in Seq(Nat), Len(shown) = Len(url),
         \A i \in 1..Len(url) :
           shown[i] = IF i <= Len(UriPrefix[Compress(url)]) THEN Lower(url[i]) ELSE url[i]
  PROVE  shown = ShownUrl(url)
<1> DEFINE n == Len(url)
           k == Len(UriPrefix[Compress(url)])
<1>1. n \in Nat /\ n > 1 /\ DOMAIN url = 1..n /\ Lower(url[1]) \in {Http, Https}
  BY DEF ValidUrl
<1>2. url \in Seq(Nat)
  <2>1. Byte \subseteq Nat
    BY DEF Byte
  <2> QED
    BY <2>1, SeqMonotonic
<1>3. /\ Compress(url) \in 0..4 /\ StartsWith(url, UriPrefix[Compress(url)])
      /\ \A code \in 0..4 : StartsWith(url, UriPrefix[code]) => Len(UriPrefix[code]) <= k
  BY <1>2, CompressFits
<1>4. k \in 0..2
  BY <1>3, Prefixes
<1> HIDE DEF n
<1>5. k >= 1
  <2>1. \A c : Lower(url[1]) = c => StartsWith(url, <<c>>)
    <3> SUFFICES ASSUME NEW c, Lower(url[1]) = c PROVE StartsWith(url, <<c>>)
      OBVIOUS
    <3>1. Len(<<c>>) = 1 /\ DOMAIN <<c>> = {1} /\ <<c>>[1] = c
      OBVIOUS
    <3> QED
      BY <1>1, <3>1 DEF StartsWith, n
  <2>2. StartsWith(url, UriPrefix[3]) \/ StartsWith(url, UriPrefix[4])
    BY <1>1, <2>1, Prefixes
  <2>3. Len(UriPrefix[3]) = 1 /\ Len(UriPrefix[4]) = 1
    BY Prefixes
  <2>4. 1 <= k
    <3> HIDE DEF k
    <3>1. 3 \in 0..4 /\ 4 \in 0..4
      OBVIOUS
    <3> QED
      BY <1>3, <2>2, <2>3, <3>1
  <2> HIDE DEF k
  <2> QED
    BY <1>4, <2>4
<1>6. Lower(url[2]) = Www => k = 2
  <2> SUFFICES ASSUME Lower(url[2]) = Www PROVE k = 2
    OBVIOUS
  <2>1. \A c : Lower(url[1]) = c => StartsWith(url, <<c, Www>>)
    <3> SUFFICES ASSUME NEW c, Lower(url[1]) = c PROVE StartsWith(url, <<c, Www>>)
      OBVIOUS
    <3>1. Len(<<c, Www>>) = 2 /\ DOMAIN <<c, Www>> = {1, 2} /\ <<c, Www>>[1] = c /\ <<c, Www>>[2] = Www
      OBVIOUS
    <3>2. 2 <= n
      BY <1>1
    <3> QED
      BY <3>1, <3>2 DEF StartsWith, n
  <2>2. StartsWith(url, UriPrefix[1]) \/ StartsWith(url, UriPrefix[2])
    BY <1>1, <2>1, Prefixes
  <2>3. Len(UriPrefix[1]) = 2 /\ Len(UriPrefix[2]) = 2
    BY Prefixes
  <2> HIDE DEF k
  <2>4. 2 <= k
    <3>1. 1 \in 0..4 /\ 2 \in 0..4
      OBVIOUS
    <3> QED
      BY <1>3, <2>2, <2>3, <3>1
  <2> QED
    BY <1>4, <2>4
<1>7. k = 2 => Lower(url[2]) = Www
  <2> SUFFICES ASSUME k = 2 PROVE Lower(url[2]) = Www
    OBVIOUS
  <2>1. Len(<<>>) = 0 /\ Len(<<Http>>) = 1 /\ Len(<<Https>>) = 1
    OBVIOUS
  <2> DEFINE c == Compress(url)
  <2>2. Compress(url) \in {1, 2}
    <3>1. c \in 0..4 /\ Len(UriPrefix[c]) = 2
      BY <1>3
    <3> HIDE DEF c
    <3>2. /\ Len(UriPrefix[0]) = 0 /\ Len(UriPrefix[3]) = 1 /\ Len(UriPrefix[4]) = 1
      BY <2>1, Prefixes
    <3>3. c # 0 /\ c # 3 /\ c # 4
      BY <3>1, <3>2
    <3> QED
      BY <3>1, <3>3 DEF c
  <2>3. UriPrefix[Compress(url)][2] = Www /\ 2 \in DOMAIN UriPrefix[Compress(url)]
    BY <2>2, Prefixes
  <2> QED
    BY <1>3, <2>3 DEF StartsWith
<1>8. ShownUrl(url) = [i \in 1..n |-> IF i = 1 \/ (i = 2 /\ Lower(url[2]) = Www)
                                      THEN Lower(url[i]) ELSE url[i]]
  BY <1>1 DEF ShownUrl
<1> HIDE DEF k
<1>9. \A i \in 1..n : i <= k <=> i = 1 \/ (i = 2 /\ Lower(url[2]) = Www)
  BY <1>1, <1>4, <1>5, <1>6, <1>7
<1>10. shown = [i \in 1..n |-> shown[i]]
  BY DEF n
<1>11. \A i \in 1..n : shown[i] = IF i <= k THEN Lower(url[i]) ELSE url[i]
  BY DEF n, k
<1> QED
  BY <1>8, <1>9, <1>10, <1>11

(* A record is decoded as what it has to show.                             *)
LEMMA DecodedShows ==
  ASSUME NEW r, NEW text \in Seq(Byte), ShowsText(r, text) \/ ShowsUri(r, text),
         NEW read, Tnf(read.header) = 1, read.type = <<r.type>>, read.payload = r.payload
  PROVE  Decoded(read) = <<text>>
<1>1. \A s \in Seq(Byte) : s \in Seq(Nat)
  <2>1. Byte \subseteq Nat
    BY DEF Byte
  <2> QED
    BY <2>1, SeqMonotonic
<1>2. CASE ShowsText(r, text)
  <2>1. Language \in Seq(Nat) /\ Len(Language) < 64 /\ text \in Seq(Nat)
    BY <1>1, EditorConstants
  <2>2. read.type = <<TextType>> /\ read.payload = TextPayload(Language, text)
    BY <1>2 DEF ShowsText
  <2> QED
    BY <2>1, <2>2, TextIsShown
<1>3. CASE ShowsUri(r, text)
  <2>1. PICK url \in Seq(Byte) : ValidUrl(url) /\ r.payload = UriPayload(url) /\ text = ShownUrl(url)
    BY <1>3 DEF ShowsUri
  <2>2. url \in Seq(Nat) /\ read.type = <<UriType>> /\ read.payload = UriPayload(url)
    BY <1>1, <1>3, <2>1 DEF ShowsUri
  <2>3. PICK shown \in Seq(Nat) :
          /\ Decoded(read) = <<shown>>
          /\ Len(shown) = Len(url)
          /\ \A i \in 1..Len(url) :
               shown[i] = IF i <= Len(UriPrefix[Compress(url)]) THEN Lower(url[i]) ELSE url[i]
    BY <2>2, UriIsShown
  <2>4. shown = ShownUrl(url)
    BY <2>1, <2>3, ShownUrlIs
  <2> QED
    BY <2>1, <2>3, <2>4
<1> QED
  BY <1>2, <1>3
-----------------------------------------------------------------------------
(* What the builder takes of the fields: names and values without white    *)
(* space at their ends.                                                    *)
LEMMA NormalizedFields ==
  ASSUME NEW list \in Seq(Field)
  PROVE  /\ Normalized(list) \in Seq(Field) /\ Len(Normalized(list)) = Len(list)
         /\ \A i \in 1..Len(list) :
              /\ Normalized(list)[i].id = list[i].id
              /\ Normalized(list)[i].name = Strip(list[i].name)
              /\ Normalized(list)[i].kind = list[i].kind
              /\ Normalized(list)[i].value = Strip(list[i].value)
              /\ Normalized(list)[i].write = list[i].write
<1> DEFINE n == Len(list)
           Trimmed(f) == [f EXCEPT !.name = Strip(f.name), !.value = Strip(f.value)]
<1>1. n \in Nat /\ DOMAIN list = 1..n /\ \A i \in 1..n : list[i] \in Field
  OBVIOUS
<1>2. ASSUME NEW f \in Field
      PROVE  /\ Trimmed(f) \in Field
             /\ Trimmed(f).name = Strip(f.name) /\ Trimmed(f).value = Strip(f.value)
             /\ Trimmed(f).id = f.id /\ Trimmed(f).kind = f.kind /\ Trimmed(f).write = f.write
  <2>1. f.name \in Seq(Byte) /\ f.value \in Seq(Byte)
    BY DEF Field
  <2> DEFINE name == Strip(f.name)
             value == Strip(f.value)
  <2>2. name \in Seq(Byte) /\ value \in Seq(Byte)
    BY <2>1, StripShape
  <2> HIDE DEF name, value
  <2>3. Trimmed(f) = [f EXCEPT !.name = name, !.value = value]
    BY DEF name, value
  <2>4. /\ [f EXCEPT !.name = name, !.value = value] \in Field
        /\ [f EXCEPT !.name = name, !.value = value].name = name
        /\ [f EXCEPT !.name = name, !.value = value].value = value
        /\ [f EXCEPT !.name = name, !.value = value].id = f.id
        /\ [f EXCEPT !.name = name, !.value = value].kind = f.kind
        /\ [f EXCEPT !.name = name, !.value = value].write = f.write
    BY <2>2 DEF Field
  <2> HIDE DEF Trimmed
  <2> QED
    BY <2>3, <2>4 DEF name, value
<1>3. Normalized(list) = [i \in 1..n |-> Trimmed(list[i])]
  BY <1>1 DEF Normalized
<1> HIDE DEF n, Trimmed
<1>4. Normalized(list) \in Seq(Field) /\ Len(Normalized(list)) = n
  <2>1. \A i \in 1..n : Trimmed(list[i]) \in Field
    BY <1>1, <1>2
  <2> QED
    BY <1>1, <1>3, <2>1
<1> QED
  BY <1>1, <1>2, <1>3, <1>4 DEF n

(* A wrapped message is longer than the message.                           *)
LEMMA WrapGrows ==
  ASSUME NEW ndef \in Seq(Nat)
  PROVE  WrapTlv(ndef) \in Seq(Nat) /\ Len(ndef) <= Len(WrapTlv(ndef))
<1> DEFINE n == Len(ndef)
           head == HeaderOf(n)
           last == <<Terminator>>
<1>1. n \in Nat
  OBVIOUS
<1>2. WrapTlv(ndef) = head \o ndef \o last
  BY DEF WrapTlv, HeaderOf, LengthBytes
<1>3. head \in Seq(Nat) /\ last \in Seq(Nat)
  <2> HIDE DEF n
  <2>1. n \div 256 \in Nat /\ n % 256 \in Nat
    BY <1>1
  <2>2. <<n>> \in Seq(Nat) /\ <<LongLength, n \div 256, n % 256>> \in Seq(Nat)
        /\ <<NdefType>> \in Seq(Nat) /\ last \in Seq(Nat)
    BY <1>1, <2>1 DEF LongLength, NdefType, Terminator
  <2>3. LengthBytes(n) \in Seq(Nat)
    BY <2>2 DEF LengthBytes
  <2> QED
    BY <2>2, <2>3, ConcatProperties DEF HeaderOf
<1> HIDE DEF head, last
<1>4. head \o ndef \in Seq(Nat) /\ Len(head \o ndef) = Len(head) + Len(ndef)
  BY <1>3, ConcatProperties
<1>5. head \o ndef \o last \in Seq(Nat)
      /\ Len(head \o ndef \o last) = Len(head \o ndef) + Len(last)
  BY <1>3, <1>4, ConcatProperties
<1>6. Len(head) \in Nat /\ Len(last) \in Nat
  BY <1>3
<1> HIDE DEF n
<1> QED
  BY <1>1, <1>2, <1>4, <1>5, <1>6 DEF n

(***************************************************************************)
(* EDITOR.  Whatever the fields of the editor hold, and however they are   *)
(* edited, moved and stored: if a message can be built of them for the     *)
(* tag, the reader finds it there, accepts it, decodes every record, and   *)
(* shows the lines of the fields in the order of the editor                *)
(* (build_type2_ndef, parse_ndef_message, decoded_value).                  *)
(***************************************************************************)
THEOREM EditorCorrect == ContentSpec => []EditorReadsBack
<1>1. ContentInvariant => EditorReadsBack
  <2> SUFFICES ASSUME ContentInvariant, Build(fields) # <<>> PROVE EditorReadsBack
    BY DEF EditorReadsBack
  <2> DEFINE list == Normalized(fields)
             n == Len(list)
             records == Records(list)
             message == EncodeMessage(records)
             tlv == WrapTlv(message)
             found == NdefMessage(tlv)
             parsed == ParseMessage(found[1])
             lines == [i \in 1..n |-> LineOf(list[i])]
  <2>1. list \in Seq(Field) /\ n \in Nat /\ DOMAIN list = 1..n
    <3>1. fields \in Seq(Field)
      BY Members DEF ContentInvariant, Proper
    <3>2. list \in Seq(Field)
      BY <3>1, NormalizedFields
    <3> HIDE DEF list
    <3> QED
      BY <3>2
  <2>2. Build(fields) = <<tlv>> /\ Accepted(list) /\ Len(tlv) <= TagCapacity
    BY DEF Build
  <2> HIDE DEF list
  <2>3. list # <<>> /\ \A i \in 1..n : list[i].kind = "uri" => ValidUrl(list[i].value)
    BY <2>1, <2>2 DEF Accepted
  <2>4. /\ records \in Seq(MessageRecord) /\ records # <<>>
        /\ \E texts : ShowAs(records, texts) /\ JoinLines(texts) = JoinLines(lines)
    BY <2>1, <2>3, RecordsShow
  <2> HIDE DEF records, lines
  <2>5. Encodable(records)
    <3>1. MessageRecord \subseteq [type : Nat, payload : Seq(Nat)]
      <4>1. Byte \subseteq Nat
        BY DEF Byte
      <4>2. Seq(Byte) \subseteq Seq(Nat)
        BY <4>1, Members
      <4> QED
        BY <4>1, <4>2 DEF MessageRecord
    <3>2. Seq(MessageRecord) \subseteq Seq([type : Nat, payload : Seq(Nat)])
      BY <3>1, Members
    <3> QED
      BY <2>4, <3>2 DEF Encodable
  <2>6. message \in Seq(Nat)
    BY <2>5, MessageLaid DEF Laid
  <2> HIDE DEF message
  <2>7. tlv \in Seq(Nat) /\ Len(message) <= Len(tlv)
    BY <2>6, WrapGrows
  <2>8. Len(message) < 256 * 256
    <3> HIDE DEF tlv
    <3>1. Len(message) \in Nat /\ Len(tlv) \in Nat
      BY <2>6, <2>7
    <3>2. TagCapacity \in Nat /\ TagCapacity < 256 * 256
      BY EditorConstants
    <3> QED
      BY <2>2, <2>7, <3>1, <3>2
  <2>9. tlv \o Zeros(0) = tlv
    <3>1. Zeros(0) = <<>>
      BY DEF Zeros
    <3> HIDE DEF tlv
    <3> QED
      BY <2>7, <3>1, ConcatEmptySeq
  <2>10. /\ found # <<>> /\ parsed.ok /\ parsed.records \in Seq(ReadRecord)
         /\ Len(parsed.records) = Len(records)
         /\ \A i \in 1..Len(records) :
              /\ Tnf(parsed.records[i].header) = 1
              /\ parsed.records[i].type = <<records[i].type>>
              /\ parsed.records[i].payload = records[i].payload
    <3>1. records \in Seq([type : Byte, payload : Seq(Byte)])
      BY <2>4 DEF MessageRecord
    <3>2. 0 \in Nat
      OBVIOUS
    <3>3. LET at == NdefMessage(WrapTlv(EncodeMessage(records)) \o Zeros(0))
              read == ParseMessage(at[1])
          IN  /\ at # <<>> /\ read.ok /\ read.records \in Seq(ReadRecord)
              /\ Len(read.records) = Len(records)
              /\ \A i \in 1..Len(records) :
                   /\ Tnf(read.records[i].header) = 1
                   /\ read.records[i].type = <<records[i].type>>
                   /\ read.records[i].payload = records[i].payload
      BY <2>4, <2>8, <3>1, <3>2, TagReadsBack DEF message
    <3> QED
      BY <2>9, <3>3 DEF message
  <2> DEFINE shown == [i \in DOMAIN parsed.records |-> Decoded(parsed.records[i])]
             m == Len(records)
  <2> HIDE DEF parsed, found
  <2>11. m \in Nat /\ DOMAIN parsed.records = 1..m
    BY <2>4, <2>10
  <2>12. PICK texts : ShowAs(records, texts) /\ JoinLines(texts) = JoinLines(lines)
    BY <2>4
  <2>13. texts \in Seq(Seq(Byte)) /\ Len(texts) = m
         /\ \A i \in 1..m : texts[i] \in Seq(Byte)
                            /\ (ShowsText(records[i], texts[i]) \/ ShowsUri(records[i], texts[i]))
    <3>1. texts \in Seq(Seq(Byte)) /\ Len(texts) = m
          /\ \A i \in 1..m : ShowsText(records[i], texts[i]) \/ ShowsUri(records[i], texts[i])
      BY <2>12 DEF ShowAs
    <3> DEFINE B == Seq(Byte)
    <3>2. texts \in Seq(B)
      BY <3>1
    <3> HIDE DEF B, m
    <3>3. \A i \in 1..m : texts[i] \in B
      BY <3>1, <3>2
    <3> QED
      BY <3>1, <3>3 DEF B
  <2>14. \A i \in 1..m : shown[i] = <<texts[i]>>
    <3> SUFFICES ASSUME NEW i \in 1..m PROVE shown[i] = <<texts[i]>>
      OBVIOUS
    <3> DEFINE read == parsed.records[i]
    <3>1. Tnf(read.header) = 1 /\ read.type = <<records[i].type>> /\ read.payload = records[i].payload
      BY <2>10
    <3>2. Decoded(read) = <<texts[i]>>
      <4> HIDE DEF read, m
      <4> QED
        BY <2>13, <3>1, DecodedShows
    <3> QED
      BY <2>11, <3>2
  <2> HIDE DEF m
  <2>15. DOMAIN shown = 1..m
    BY <2>11
  <2> HIDE DEF shown
  <2>16. \A i \in DOMAIN shown : shown[i] # <<>>
    BY <2>14, <2>15
  <2>17. [i \in DOMAIN shown |-> shown[i][1]] = texts
    <3>1. \A i \in 1..m : shown[i][1] = texts[i]
      BY <2>14
    <3>2. texts = [i \in 1..m |-> texts[i]]
      <4> DEFINE B == Seq(Byte)
      <4>1. texts \in Seq(B) /\ Len(texts) = m
        BY <2>13
      <4> HIDE DEF B
      <4> QED
        BY <4>1
    <3> QED
      BY <2>15, <3>1, <3>2
  <2>18. lines = [i \in DOMAIN list |->
                    IF list[i].kind = "uri" THEN ShownUrl(list[i].value) ELSE Line(list[i])]
    BY <2>1 DEF lines, LineOf
  <2>19. JoinLines([i \in DOMAIN shown |-> shown[i][1]]) = JoinLines(lines)
    BY <2>12, <2>17
  <2> HIDE DEF lines
  <2>20. Build(fields)[1] = tlv
    BY <2>2
  <2> QED
    BY <2>10, <2>16, <2>18, <2>19, <2>20 DEF EditorReadsBack, shown, parsed, found, list
<1> QED
  BY <1>1, ContentTypes, PTL
-----------------------------------------------------------------------------
(* Where every item has a name, every one is loaded.                       *)
LEMMA LoadAll ==
  ASSUME NEW data \in Seq(Field), \A i \in 1..Len(data) : Named(data[i])
  PROVE  /\ Load(data) \in Seq(Proper) /\ Len(Load(data)) = Len(data)
         /\ \A i \in 1..Len(data) : Load(data)[i] = Loaded(data[i])
<1> DEFINE N == Len(data)
<1>1. N \in Nat /\ \A n \in 1..N : data[n] \in Field /\ Named(data[n])
  OBVIOUS
<1>2. PICK U : /\ Load(data) = U[N]
               /\ U[0] = <<>>
               /\ \A n \in 1..N :
                    U[n] = IF Named(data[n]) THEN Append(U[n - 1], Loaded(data[n])) ELSE U[n - 1]
  BY LoadUnfolds
<1> HIDE DEF N
<1> DEFINE All(list, n) == /\ list \in Seq(Proper) /\ Len(list) = n
                           /\ \A i \in 1..n : list[i] = Loaded(data[i])
           T == {n \in 0..N : All(U[n], n)}
<1>3. 0 \in T
  <2>1. All(<<>>, 0)
    OBVIOUS
  <2> HIDE DEF All
  <2> QED
    BY <1>1, <1>2, <2>1
<1>4. ASSUME NEW n \in 1..N, n - 1 \in T PROVE n \in T
  <2> DEFINE old == U[n - 1]
             item == Loaded(data[n])
             new == Append(old, item)
  <2>1. All(old, n - 1)
    BY <1>4
  <2>2. item \in Proper
    BY <1>1, LoadedProper
  <2>3. U[n] = new
    BY <1>1, <1>2
  <2> HIDE DEF old, item
  <2>4. new \in Seq(Proper) /\ Len(new) = n - 1 + 1 /\ new[n - 1 + 1] = item
        /\ \A i \in 1..(n - 1) : new[i] = old[i]
    BY <2>1, <2>2
  <2>5. n - 1 + 1 = n /\ \A i \in 1..n : i = n \/ i \in 1..(n - 1)
    BY <1>1
  <2> HIDE DEF new
  <2>6. ASSUME NEW i \in 1..n PROVE new[i] = Loaded(data[i])
    <3>1. CASE i = n
      BY <2>4, <2>5, <3>1 DEF item
    <3>2. CASE i \in 1..(n - 1)
      BY <2>1, <2>4, <3>2
    <3> QED
      BY <2>5, <3>1, <3>2
  <2>7. All(new, n)
    BY <2>4, <2>5, <2>6
  <2> HIDE DEF All
  <2>8. n \in 0..N
    BY <1>1
  <2> QED
    BY <2>3, <2>7, <2>8
<1>5. All(U[N], N)
  <2>1. N \in T
    <3> HIDE DEF T
    <3> QED
      BY <1>1, <1>3, <1>4, Ascent
  <2> HIDE DEF All
  <2> QED
    BY <2>1
<1> QED
  BY <1>2, <1>5 DEF N

LEMMA SameField ==
  ASSUME NEW f \in Field, NEW g \in Field, f.id = g.id, f.name = g.name, f.kind = g.kind,
         f.value = g.value, f.write = g.write
  PROVE  f = g
BY DEF Field

(* What a restart makes of a proper field: only its name may be trimmed.   *)
LEMMA Reloaded ==
  ASSUME NEW f \in Proper, NEW item \in Field,
         item.id = f.id, item.name = (IF f.id = "custom" THEN f.name ELSE <<>>),
         item.kind = f.kind, item.value = f.value, item.write = f.write
  PROVE  LET g == Loaded(item)
         IN  /\ g \in Field /\ g.id = f.id /\ g.kind = f.kind /\ g.value = f.value
             /\ g.write = f.write /\ Strip(g.name) = Strip(f.name)
<1> DEFINE g == Loaded(item)
<1>1. /\ f.name \in Seq(Byte) /\ f.write \in BOOLEAN
      /\ f.kind = "uri" => ~ f.write
      /\ f.id # "custom" => f.name = Label[f.id] /\ f.kind = KindOf(f.id)
  BY DEF Proper, Field
<1>2. g \in Field
  BY LoadedProper DEF Proper
<1>3. CASE f.id = "custom"
  <2> DEFINE w == f.write /\ f.kind # "uri"
  <2>1. w = f.write
    BY <1>1
  <2>2. g = [id |-> "custom", name |-> Strip(f.name), kind |-> f.kind, value |-> f.value,
             write |-> w]
    BY <1>3 DEF Loaded, Custom
  <2> HIDE DEF w
  <2>3. Strip(Strip(f.name)) = Strip(f.name)
    BY <1>1, StripTwice
  <2> HIDE DEF g
  <2>4. /\ g.id = f.id /\ g.kind = f.kind /\ g.value = f.value /\ g.write = f.write
        /\ g.name = Strip(f.name)
    BY <1>3, <2>1, <2>2
  <2> QED
    BY <1>2, <2>3, <2>4 DEF g
<1>4. CASE f.id # "custom"
  <2> DEFINE w == f.write /\ KindOf(f.id) # "uri"
  <2>1. w = f.write
    BY <1>1, <1>4
  <2>2. g = [id |-> f.id, name |-> Label[f.id], kind |-> KindOf(f.id), value |-> f.value,
             write |-> w]
    BY <1>4 DEF Loaded, Builtin
  <2> HIDE DEF w, g
  <2>3. /\ g.id = f.id /\ g.kind = f.kind /\ g.value = f.value /\ g.write = f.write
        /\ g.name = f.name
    BY <1>1, <1>4, <2>1, <2>2
  <2> QED
    BY <1>2, <2>3 DEF g
<1> QED
  BY <1>3, <1>4

(***************************************************************************)
(* RESTART.  Whatever fields are stored, a message that can be built of    *)
(* them is the message built of what a restart loads: a field the load     *)
(* drops has no name, and then nothing was built; and the names it trims   *)
(* the builder trims too (_serialize_type2_fields, _load_type2_fields).    *)
(***************************************************************************)
THEOREM RestartCorrect == ContentSpec => []RestartKeepsMessage
<1>1. ContentInvariant => RestartKeepsMessage
  <2> SUFFICES ASSUME ContentInvariant, Build(fields) # <<>>
               PROVE  Build(Load(Serialized(fields))) = Build(fields)
    BY DEF RestartKeepsMessage
  <2> DEFINE n == Len(fields)
             data == Serialized(fields)
             again == Load(data)
             list == Normalized(fields)
  <2>1. fields \in Seq(Proper) /\ n \in Nat /\ DOMAIN fields = 1..n
        /\ \A i \in 1..n : fields[i] \in Proper
    BY ProperFields DEF ContentInvariant
  <2>2. fields \in Seq(Field)
    BY <2>1, Members DEF Proper
  <2>3. /\ data \in Seq(Field) /\ Len(data) = n
        /\ \A i \in 1..n : /\ data[i].id = fields[i].id
                           /\ data[i].name = IF fields[i].id = "custom" THEN fields[i].name ELSE <<>>
                           /\ data[i].kind = fields[i].kind
                           /\ data[i].value = fields[i].value
                           /\ data[i].write = fields[i].write
    BY <2>1, StoredFields
  <2>4. /\ list \in Seq(Field) /\ Len(list) = n
        /\ \A i \in 1..n : /\ list[i].id = fields[i].id
                           /\ list[i].name = Strip(fields[i].name)
                           /\ list[i].kind = fields[i].kind
                           /\ list[i].value = Strip(fields[i].value)
                           /\ list[i].write = fields[i].write
    BY <2>2, NormalizedFields
  <2>5. Accepted(list)
    BY DEF Build
  <2> HIDE DEF data, list, n
  <2>6. \A i \in 1..n : Named(data[i])
    <3>1. DOMAIN list = 1..n
      BY <2>4
    <3>2. \A i \in 1..n : list[i].name # <<>>
      BY <2>5, <3>1 DEF Accepted
    <3>3. \A i \in 1..n : Strip(fields[i].name) # <<>>
      BY <2>4, <3>2
    <3> QED
      BY <2>3, <3>3 DEF Named
  <2>7. /\ again \in Seq(Proper) /\ Len(again) = n
        /\ \A i \in 1..n : again[i] = Loaded(data[i])
    BY <2>3, <2>6, LoadAll
  <2> HIDE DEF again
  <2>8. \A i \in 1..n : data[i] \in Field
    BY <2>3
  <2>9. \A i \in 1..n : /\ again[i].id = fields[i].id
                        /\ Strip(again[i].name) = Strip(fields[i].name)
                        /\ again[i].kind = fields[i].kind
                        /\ again[i].value = fields[i].value
                        /\ again[i].write = fields[i].write
    <3> SUFFICES ASSUME NEW i \in 1..n
                 PROVE  /\ again[i].id = fields[i].id
                        /\ Strip(again[i].name) = Strip(fields[i].name)
                        /\ again[i].kind = fields[i].kind
                        /\ again[i].value = fields[i].value
                        /\ again[i].write = fields[i].write
      OBVIOUS
    <3> DEFINE f == fields[i]
               item == data[i]
               g == Loaded(item)
    <3>1. f \in Proper /\ item \in Field
      BY <2>1, <2>8
    <3>2. /\ item.id = f.id /\ item.name = (IF f.id = "custom" THEN f.name ELSE <<>>)
          /\ item.kind = f.kind /\ item.value = f.value /\ item.write = f.write
      BY <2>3
    <3>3. again[i] = g
      BY <2>7
    <3> HIDE DEF f, item
    <3>4. /\ g.id = f.id /\ g.kind = f.kind /\ g.value = f.value
          /\ g.write = f.write /\ Strip(g.name) = Strip(f.name)
      BY <3>1, <3>2, Reloaded
    <3> HIDE DEF g
    <3> QED
      BY <3>3, <3>4 DEF f
  <2>10. Normalized(again) = list
    <3> DEFINE other == Normalized(again)
    <3>1. again \in Seq(Field)
      BY <2>7, Members DEF Proper
    <3>2. /\ other \in Seq(Field) /\ Len(other) = n
          /\ \A i \in 1..n : /\ other[i].id = again[i].id
                             /\ other[i].name = Strip(again[i].name)
                             /\ other[i].kind = again[i].kind
                             /\ other[i].value = Strip(again[i].value)
                             /\ other[i].write = again[i].write
      BY <2>7, <3>1, NormalizedFields
    <3> HIDE DEF other
    <3>3. ASSUME NEW i \in 1..n PROVE other[i] = list[i]
      <4>1. other[i] \in Field /\ list[i] \in Field
        BY <2>4, <3>2
      <4>2. /\ other[i].id = list[i].id /\ other[i].name = list[i].name
            /\ other[i].kind = list[i].kind /\ other[i].value = list[i].value
            /\ other[i].write = list[i].write
        BY <2>4, <2>9, <3>2
      <4> QED
        BY <4>1, <4>2, SameField
    <3>4. other = list
      BY <2>4, <3>2, <3>3, SeqEqual
    <3> QED
      BY <3>4 DEF other
  <2> QED
    BY <2>10 DEF Build, list, again, data
<1> QED
  BY <1>1, ContentTypes, PTL
-----------------------------------------------------------------------------
(* Pages of the NDEF area are user pages, and these are pages of the tag.  *)
LEMMA PageSets ==
  /\ NdefPage \subseteq UserPage /\ UserPage \subseteq Page
  /\ NdefFirst \in NdefPage
  /\ Page \subseteq Int
BY Geometry DEF NdefPage, UserPage, Page, NdefFirst, CcPage

(* A zero page is four bytes.                                              *)
LEMMA ZeroPageType == ZeroPage \in PageData
BY DEF ZeroPage, PageData, Byte

(* _bytes_to_pages makes pages of four bytes of any message.               *)
LEMMA PageOfType ==
  ASSUME NEW data \in Seq(Byte), NEW p \in NdefPage
  PROVE  PageOf(data, p) \in PageData
<1> DEFINE index(b) == 4 * (p - NdefFirst) + b
<1>1. ASSUME NEW b \in 1..4
      PROVE  (IF index(b) <= Len(data) THEN data[index(b)] ELSE 0) \in Byte
  <2>1. index(b) \in Int /\ index(b) >= 1
    BY Geometry DEF NdefPage, NdefFirst
  <2>2. CASE index(b) <= Len(data)
    <3>1. index(b) \in 1..Len(data)
      BY <2>1, <2>2
    <3>2. data[index(b)] \in Byte
      BY <3>1
    <3> QED
      BY <3>2, <2>2
  <2>3. CASE ~ (index(b) <= Len(data))
    BY <2>3 DEF Byte
  <2> QED
    BY <2>2, <2>3
<1>2. PageOf(data, p) = [b \in 1..4 |-> IF index(b) <= Len(data) THEN data[index(b)] ELSE 0]
  BY DEF PageOf
<1> HIDE DEF index
<1> QED
  BY <1>1, <1>2 DEF PageData

(***************************************************************************)
(* What a page write leaves: the pages written, on one tag, and all other  *)
(* pages and tags as they were.                                            *)
(***************************************************************************)
LEMMA StoredPages ==
  ASSUME NEW memory \in [Tags -> Image], NEW tag \in Tags, NEW pages,
         NEW data, \A p \in pages \cap Page : data[p] \in PageData
  PROVE  /\ Stored(memory, tag, pages, data) \in [Tags -> Image]
         /\ \A t \in Tags \ {tag} : Stored(memory, tag, pages, data)[t] = memory[t]
         /\ \A p \in Page : Stored(memory, tag, pages, data)[tag][p] =
              IF p \in pages THEN data[p] ELSE memory[tag][p]
<1> DEFINE image == [p \in Page |-> IF p \in pages THEN data[p] ELSE memory[tag][p]]
<1>1. image \in Image
  <2>1. memory[tag] \in [Page -> PageData]
    BY DEF Image
  <2> QED
    BY <2>1 DEF Image
<1>2. Stored(memory, tag, pages, data) = [memory EXCEPT ![tag] = image]
  BY DEF Stored
<1>3. \A p \in Page : image[p] = IF p \in pages THEN data[p] ELSE memory[tag][p]
  OBVIOUS
<1> HIDE DEF image
<1> QED
  BY <1>1, <1>2, <1>3

(* Every end of an operation is a report.                                  *)
LEMMA FinishType ==
  ASSUME report \in Report, NEW s \in Summaries, Finish(s)
  PROVE  pc' \in Stages /\ report' \in Report
BY DEF Finish, Report, Stages

(* So is an end by a failed, cancelled or broken command (Fail).           *)
LEMMA FailType ==
  ASSUME report \in Report, NEW s \in Summaries, Fail(s)
  PROVE  pc' \in Stages /\ report' \in Report
<1>1. PICK t \in {s, "cancelled", "stopped"} : Finish(t)
  BY DEF Fail
<1>2. t \in Summaries
  BY DEF Summaries
<1> QED
  BY <1>1, <1>2, FinishType

(* The failures of a command are told from each other and from success.    *)
LEMMA FailEnds ==
  ASSUME report \in Report, NEW s \in Summaries \ {"success"}, Fail(s)
  PROVE  /\ pc' = "done"
         /\ report'.summary \in {s, "cancelled", "stopped"}
         /\ report'.success = report.success
         /\ report'.summary # "success"
BY DEF Fail, Finish, Report

(* An operation that ended by Finish is over and unsuccessful.             *)
LEMMA FinishEnds ==
  ASSUME report \in Report, NEW s \in Summaries \ {"success"}, Finish(s)
  PROVE  /\ pc' = "done"
         /\ report'.summary = s
         /\ report'.success = report.success
BY DEF Finish, Report

(* An end by Fail or Finish leaves everything of the report but its text.  *)
LEMMA EndOf ==
  ASSUME report \in Report, NEW s \in Summaries, Fail(s) \/ Finish(s)
  PROVE  /\ pc' = "done"
         /\ report'.summary \in {s, "cancelled", "stopped"}
         /\ report'.verified = report.verified
BY DEF Fail, Finish, Report

(* The area read back is a sequence of as many bytes as its pages hold.    *)
LEMMA AreaBytes ==
  ASSUME NEW image \in Image
  PROVE  NdefArea(image) \in Seq(Byte) /\ Len(NdefArea(image)) = Capacity
<1>1. Capacity \in Nat
  BY Geometry DEF Capacity, NdefFirst
<1>2. ASSUME NEW i \in 1..Capacity
      PROVE  image[NdefFirst + (i - 1) \div 4][((i - 1) % 4) + 1] \in Byte
  <2>1. /\ (i - 1) \div 4 \in 0..(NdefLast - NdefFirst)
        /\ ((i - 1) % 4) + 1 \in 1..4
    BY Geometry DEF Capacity, NdefFirst
  <2>2. NdefFirst + (i - 1) \div 4 \in Page
    BY <2>1, Geometry DEF Page, CcPage, NdefFirst
  <2> QED
    BY <2>1, <2>2 DEF Image, PageData
<1>3. NdefArea(image) =
        [i \in 1..Capacity |-> image[NdefFirst + (i - 1) \div 4][((i - 1) % 4) + 1]]
  BY DEF NdefArea, Bytes, Capacity
<1> QED
  BY <1>1, <1>2, <1>3

(* A page write on the tag on the antenna, complete or not: some of the    *)
(* pages are written, all else is as it was.                               *)
LEMMA PartOf ==
  ASSUME field \in Tags, mem \in [Tags -> Image], NEW pages \in SUBSET Page, NEW data,
         \A p \in pages : data[p] \in PageData, PartlyStored(pages, data)
  PROVE  /\ mem' \in [Tags -> Image]
         /\ \A t \in Tags \ {field} : mem'[t] = mem[t]
         /\ \E part \in SUBSET pages : \A p \in Page :
              mem'[field][p] = IF p \in part THEN data[p] ELSE mem[field][p]
<1>1. PICK part \in SUBSET pages : mem' = Stored(mem, field, part, data)
  BY DEF PartlyStored
<1>2. \A p \in part \cap Page : data[p] \in PageData
  OBVIOUS
<1> QED
  BY <1>1, <1>2, StoredPages

(* A batch is a write of all its pages, or of some and a failure.          *)
LEMMA BatchOf ==
  ASSUME field \in Tags, mem \in [Tags -> Image], NEW pages \in SUBSET Page, NEW data,
         \A p \in pages : data[p] \in PageData,
         NEW failure, NEW stage, WriteBatch(pages, data, failure, stage)
  PROVE  /\ PartlyStored(pages, data)
         /\ \/ /\ Proceed(stage)
               /\ \A p \in Page :
                    mem'[field][p] = IF p \in pages THEN data[p] ELSE mem[field][p]
            \/ Fail(failure)
<1>1. CASE mem' = Stored(mem, field, pages, data) /\ Proceed(stage)
  <2>1. \A p \in pages \cap Page : data[p] \in PageData
    OBVIOUS
  <2> QED
    BY <1>1, <2>1, StoredPages DEF PartlyStored
<1> QED
  BY <1>1 DEF WriteBatch

(* A failed operation is over, and its report says neither success nor     *)
(* verified if it did not before.                                          *)
LEMMA ReportEnds ==
  ASSUME report \in Report, NEW s \in Summaries \ {"success"}, Fail(s) \/ Finish(s)
  PROVE  /\ pc' = "done" /\ report' \in Report
         /\ report'.summary # "success"
         /\ report'.success = report.success /\ report'.verified = report.verified
BY FailEnds, FinishEnds, FailType, FinishType, EndOf

(* A readback names its tag; it ends the operation or leads to success.    *)
LEMMA ComparedReport ==
  ASSUME report \in Report, field \in Tags, NEW passed \in BOOLEAN,
         NEW s \in Summaries, Compared(passed, s)
  PROVE  /\ pc' = IF passed THEN "success" ELSE "done"
         /\ report' \in Report /\ report'.after = field
         /\ report'.summary = IF passed THEN report.summary ELSE s
         /\ report'.success = report.success /\ report'.verified = report.verified
BY DEF Compared, Report

(* The report of a success.                                                *)
LEMMA SucceedReport ==
  ASSUME report \in Report, options.final_verify \in BOOLEAN, Succeed
  PROVE  /\ pc' = "done" /\ report' \in Report
         /\ report'.summary = "success" /\ report'.success
         /\ report'.verified = options.final_verify /\ report'.after = report.after
BY DEF Succeed, Report, Summaries

(* Each byte of the area is a byte of a page, for every image and for      *)
(* everything cut into pages.                                              *)
LEMMA ByteOfPage ==
  ASSUME NEW i \in 1..Capacity
  PROVE  \E p \in NdefPage, b \in 1..4 :
           /\ \A image : NdefArea(image)[i] = image[p][b]
           /\ \A data \in Seq(Byte) : i <= Len(data) => PageOf(data, p)[b] = data[i]
<1> DEFINE p == NdefFirst + (i - 1) \div 4
           b == ((i - 1) % 4) + 1
<1>1. /\ p \in NdefPage /\ b \in 1..4
      /\ 4 * (p - NdefFirst) + b = i
  BY Geometry DEF Capacity, NdefFirst, NdefPage
<1>2. ASSUME NEW image
      PROVE  NdefArea(image)[i] = image[p][b]
  <2>1. NdefArea(image) =
          [k \in 1..Capacity |-> image[NdefFirst + (k - 1) \div 4][((k - 1) % 4) + 1]]
    BY DEF NdefArea, Bytes, Capacity
  <2> QED
    BY <2>1
<1>3. ASSUME NEW data \in Seq(Byte), i <= Len(data)
      PROVE  PageOf(data, p)[b] = data[i]
  <2> HIDE DEF p, b
  <2> QED
    BY <1>1, <1>3 DEF PageOf
<1> HIDE DEF p, b
<1> QED
  BY <1>1, <1>2, <1>3

(* Data cut into pages and read as an area again is that data.             *)
LEMMA AreaOfPages ==
  ASSUME NEW data \in Seq(Byte), Len(data) = Capacity, NEW image \in Image,
         \A p \in NdefPage : image[p] = PageOf(data, p)
  PROVE  NdefArea(image) = data
<1>1. ASSUME NEW i \in 1..Capacity
      PROVE  NdefArea(image)[i] = data[i]
  <2>1. PICK p \in NdefPage, b \in 1..4 :
          /\ \A other : NdefArea(other)[i] = other[p][b]
          /\ \A any \in Seq(Byte) : i <= Len(any) => PageOf(any, p)[b] = any[i]
    BY ByteOfPage
  <2>2. NdefArea(image)[i] = image[p][b] /\ image[p] = PageOf(data, p)
    BY <2>1
  <2>3. PageOf(data, p)[b] = data[i]
    BY <2>1
  <2> QED
    BY <2>2, <2>3
<1>2. /\ NdefArea(image) \in Seq(Byte) /\ Len(NdefArea(image)) = Capacity
  BY AreaBytes
<1>3. NdefArea(image) = [i \in 1..Capacity |-> NdefArea(image)[i]]
  BY <1>2
<1>4. data = [i \in 1..Capacity |-> data[i]]
  OBVIOUS
<1> QED
  BY <1>1, <1>3, <1>4
=============================================================================
