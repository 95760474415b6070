-------------------------- MODULE Encodings_proofs --------------------------
(***************************************************************************)
(* For every valid text, size of a word and order of calls: the bits of    *)
(* the cache are heads, and a scan finds the head.  For every table of     *)
(* items and all flags, wherever the callback raises: what the iteration   *)
(* over the case foldings reports.                                         *)
(***************************************************************************)
EXTENDS MbcHeads, CaseFold, SequenceTheorems, WellFoundedInduction, TLAPS

Heads == text.heads
Width(head) == ScanWidth(text, head)
RestAt(at) == SubSeq(text.bytes, at + 1, Len(text.bytes))
IsShiftJis == text.encoding = "Shift_JIS"

-----------------------------------------------------------------------------
(* Lemmas on texts and their characters.                                     *)

LEMMA ValidText ==
  ASSUME text \in Texts
  PROVE  /\ IsValid(text) /\ text.encoding \in {"UTF-8", "Shift_JIS", "ISO-8859-1"}
         /\ Length \in Nat /\ text.bytes \in Seq(U!Byte)
         /\ Heads \subseteq 0 .. Length - 1
         /\ \A at \in 0 .. Length - 1 : ByteAt(at) \in U!Byte
<1>1. IsValid(text) /\ text.encoding \in {"UTF-8", "Shift_JIS", "ISO-8859-1"}
  BY HeadsAssumption
<1>2. text.bytes \in Seq(U!Byte) /\ Heads \subseteq 0 .. Length - 1
  BY <1>1 DEF IsValid, Heads, Length
<1>3. Length \in Nat
  BY <1>2 DEF Length
<1>4. \A at \in 0 .. Length - 1 : ByteAt(at) \in U!Byte
  BY <1>2, <1>3 DEF Length, ByteAt
<1> QED BY <1>1, <1>2, <1>3, <1>4

(* What the bytes from a position on are.                                    *)
LEMMA Rest ==
  ASSUME text \in Texts, NEW at \in 0 .. Length - 1
  PROVE  /\ RestAt(at) \in Seq(U!Byte) /\ Len(RestAt(at)) = Length - at
         /\ \A i \in 1 .. Length - at : RestAt(at)[i] = ByteAt(at + i - 1)
         /\ RestAt(at)[1] = ByteAt(at) /\ RestAt(at)[1] \in U!Byte
<1>1. text.bytes \in Seq(U!Byte) /\ Len(text.bytes) = Length /\ Length \in Nat /\ at \in Nat
  BY ValidText DEF Length
<1>2. RestAt(at) \in Seq(U!Byte) /\ Len(RestAt(at)) = Length - at
  BY <1>1 DEF RestAt
<1>3. ASSUME NEW i \in 1 .. Length - at
      PROVE  RestAt(at)[i] = ByteAt(at + i - 1)
  BY <1>1, <1>3 DEF ByteAt, RestAt
<1>4. RestAt(at)[1] = ByteAt(at)
  <2>1. 1 \in 1 .. Length - at /\ at + 1 - 1 = at
    BY <1>1
  <2>2. RestAt(at)[1] = ByteAt(at + 1 - 1)
    BY <1>3, <2>1
  <2> QED BY <2>1, <2>2
<1>5. ByteAt(at) \in U!Byte
  BY ValidText
<1> QED BY <1>2, <1>3, <1>4, <1>5

LEMMA ShiftJisWidth ==
  ASSUME text \in Texts, IsShiftJis, NEW head \in Heads
  PROVE  /\ Width(head) = S!FirstByteWidth(ByteAt(head)) /\ Width(head) \in {1, 2}
         /\ Width(head) = 2 => head + 1 < Length /\ S!IsSecondByte(ByteAt(head + 1))
<1> DEFINE rest == RestAt(head)
<1>1. head \in 0 .. Length - 1 /\ Length \in Nat /\ IsValid(text)
  BY ValidText
<1>2. /\ Len(rest) = Length - head /\ rest[1] = ByteAt(head)
      /\ Length - head >= 2 => rest[2] = ByteAt(head + 1)
  <2>1. /\ Len(rest) = Length - head /\ rest[1] = ByteAt(head)
        /\ \A i \in 1 .. Length - head : rest[i] = ByteAt(head + i - 1)
    BY <1>1, Rest
  <2>2. ASSUME Length - head >= 2 PROVE rest[2] = ByteAt(head + 1)
    <3>1. 2 \in 1 .. Length - head /\ head + 2 - 1 = head + 1
      BY <1>1, <2>2
    <3>2. rest[2] = ByteAt(head + 2 - 1)
      BY <2>1, <3>1
    <3> QED BY <3>1, <3>2
  <2> QED BY <2>1, <2>2
<1>3. Width(head) > 0
  BY <1>1 DEF IsValid, Width, Heads
<1> HIDE DEF rest
<1>4. Width(head) = S!ScanWidth(rest)
  BY DEF Width, ScanWidth, IsShiftJis, RestAt, rest
<1>5. S!FirstByteWidth(rest[1]) \in {0, 1, 2}
  BY DEF S!FirstByteWidth
<1>6. /\ S!FirstByteWidth(rest[1]) = S!ScanWidth(rest) /\ S!ScanWidth(rest) \in {1, 2}
      /\ S!ScanWidth(rest) = 2 => Len(rest) # 1 /\ S!IsSecondByte(rest[2])
  BY <1>3, <1>4, <1>5 DEF S!ScanWidth
<1> QED BY <1>1, <1>2, <1>4, <1>6

LEMMA Utf8Width ==
  ASSUME text \in Texts, IsSelfSync, NEW head \in Heads
  PROVE  /\ Width(head) \in 1 .. 4 /\ head + Width(head) <= Length
         /\ ~U!IsContinuation(ByteAt(head))
         /\ \A at \in head + 1 .. head + Width(head) - 1 : U!IsContinuation(ByteAt(at))
<1> DEFINE rest == RestAt(head)
<1>1. head \in 0 .. Length - 1 /\ Length \in Nat /\ IsValid(text)
  BY ValidText
<1>2. /\ Len(rest) = Length - head /\ rest[1] = ByteAt(head)
      /\ \A i \in 1 .. Length - head : rest[i] = ByteAt(head + i - 1)
  BY <1>1, Rest
<1>3. Width(head) > 0
  BY <1>1 DEF IsValid, Width, Heads
<1>0. rest[1] \in U!Byte
  BY <1>1, Rest
<1> HIDE DEF rest
<1>4. Width(head) = U!ScanWidth(rest)
  BY DEF Width, ScanWidth, IsSelfSync, RestAt, rest
<1>5. /\ U!ExpectedWidth(rest[1]) \in {0, 1, 2, 3, 4}
      /\ U!ExpectedWidth(rest[1]) # 0 => ~U!IsContinuation(rest[1])
  BY <1>0 DEF U!ExpectedWidth, U!IsContinuation, U!Byte
<1>6. /\ U!ScanWidth(rest) = U!ExpectedWidth(rest[1]) /\ U!ScanWidth(rest) # 0
      /\ U!ScanWidth(rest) <= Len(rest)
      /\ \A i \in 2 .. U!ScanWidth(rest) : U!MayFollow(rest[1], i, rest[i])
  BY <1>1, <1>2, <1>3, <1>4, <1>5 DEF U!ScanWidth
<1>7. ASSUME NEW at \in head + 1 .. head + Width(head) - 1
      PROVE  U!IsContinuation(ByteAt(at))
  <2>1. at - head + 1 \in 2 .. U!ScanWidth(rest) /\ at - head + 1 \in 1 .. Length - head
    BY <1>1, <1>2, <1>4, <1>5, <1>6
  <2>2. rest[at - head + 1] = ByteAt(at)
    BY <1>1, <1>2, <2>1
  <2> QED BY <1>6, <2>1, <2>2 DEF U!MayFollow
<1> QED BY <1>1, <1>2, <1>4, <1>5, <1>6, <1>7

LEMMA FixedWidth ==
  ASSUME text \in Texts, HasFixedWidth, NEW head \in Heads
  PROVE  Width(head) = 1
BY DEF Width, ScanWidth, HasFixedWidth

LEMMA Widths ==
  ASSUME text \in Texts, NEW head \in Heads
  PROVE  /\ head \in 0 .. Length - 1 /\ Width(head) \in Nat /\ Width(head) > 0
         /\ head + Width(head) \in Heads \cup {Length}
         /\ \A at \in head + 1 .. head + Width(head) - 1 : at \notin Heads
<1>1. IsValid(text) /\ head \in 0 .. Length - 1
  BY ValidText
<1>2. Width(head) \in Nat
  BY ValidText, ShiftJisWidth, Utf8Width, FixedWidth DEF IsShiftJis, IsSelfSync, HasFixedWidth
<1>3. Width(head) > 0 /\ head + Width(head) \in Heads \cup {Length}
  BY <1>1 DEF IsValid, Width, Heads, Length
<1>4. \A at \in head + 1 .. head + Width(head) - 1 : at \notin Heads
  BY <1>1 DEF IsValid, Width, Heads
<1> QED BY <1>1, <1>2, <1>3, <1>4

LEMMA Least ==
  ASSUME NEW T \in SUBSET Nat, T # {}
  PROVE  \E n \in T : \A k \in T : n <= k
<1> DEFINE R == OpToRel(<, Nat)
<1>1. IsWellFoundedOn(R, Nat)
  BY NatLessThanWellFounded
<1>2. \A i, j \in Nat : i < j => <<i, j>> \in R
  BY DEF OpToRel
<1> HIDE DEF R
<1>3. PICK i \in T : \A j \in T : <<j, i>> \notin R
  BY <1>1, WFMin
<1>4. \A j \in T : ~(j < i)
  BY <1>2, <1>3
<1> QED BY <1>4

(* Every byte belongs to a character.                                        *)
LEMMA Covered ==
  ASSUME text \in Texts, NEW at \in 0 .. Length - 1
  PROVE  \E head \in Heads : head <= at /\ at < head + Width(head)
<1> DEFINE Before == {d \in Nat : at - d \in Heads}
<1>1. Length \in Nat /\ at \in Nat /\ Heads \subseteq 0 .. Length - 1
  BY ValidText
<1>2. 0 \in Heads
  <2>1. text.bytes # <<>>
    BY <1>1, ValidText DEF Length
  <2> QED BY <2>1, ValidText DEF IsValid, Heads
<1>3. at \in Before
  BY <1>1, <1>2
<1>4. PICK d \in Before : \A k \in Before : d <= k
  BY <1>3, Least
<1>5. at - d \in Heads /\ d \in Nat
  BY <1>4
<1>6. /\ at - d \in Nat /\ Width(at - d) \in Nat /\ Width(at - d) > 0
      /\ at - d + Width(at - d) \in Heads \cup {Length}
  BY <1>5, Widths
<1>7. at < at - d + Width(at - d)
  <2> SUFFICES ASSUME at - d + Width(at - d) <= at PROVE FALSE
    BY <1>1, <1>5, <1>6
  <2>1. at - d + Width(at - d) \in Heads
    BY <1>1, <1>6
  <2>2. d - Width(at - d) \in Nat /\ at - (d - Width(at - d)) = at - d + Width(at - d)
    BY <1>1, <1>5, <1>6
  <2>3. d - Width(at - d) \in Before
    BY <2>1, <2>2
  <2> QED BY <1>4, <1>5, <1>6, <2>3
<1> QED BY <1>1, <1>5, <1>6, <1>7

-----------------------------------------------------------------------------
(* Words.                                                                    *)

LEMMA WordIs == Word \in Nat /\ Word >= 2 /\ Word % 2 = 0
BY HeadsAssumption

LEMMA Multiple ==
  ASSUME NEW a \in Nat, NEW b \in Nat, b * Word <= a * Word
  PROVE  ((a * Word - b * Word) \div Word) * Word = a * Word - b * Word
<1>1. Word \in Nat /\ Word > 0
  BY WordIs
<1>2. a * Word - b * Word = (a - b) * Word /\ a - b \in Int
  BY <1>1
<1>3. ((a - b) * Word) \div Word = a - b
  BY <1>1, <1>2
<1> QED BY <1>2, <1>3

LEMMA Monotonic ==
  ASSUME NEW a \in Nat, NEW b \in Nat, a <= b
  PROVE  a * Word <= b * Word
<1>1. PICK d \in Nat : b = a + d
  <2>1. b - a \in Nat /\ b = a + (b - a)
    OBVIOUS
  <2> QED BY <2>1
<1>2. (a + d) * Word = a * Word + d * Word /\ a * Word \in Nat /\ d * Word \in Nat
  BY WordIs
<1> QED BY <1>1, <1>2

LEMMA Rounded ==
  ASSUME NEW x \in Nat
  PROVE  /\ RoundDown(x) \in Nat /\ RoundDown(x) <= x
         /\ \E k \in Nat : RoundDown(x) = k * Word
         /\ RoundUp(x) \in Nat /\ RoundUp(x) >= x
<1>1. Word \in Nat /\ Word > 0
  BY WordIs
<1>2. ASSUME NEW y \in Nat
      PROVE  /\ y \div Word \in Nat /\ (y \div Word) * Word \in Nat
             /\ (y \div Word) * Word <= y /\ y < (y \div Word) * Word + Word
  BY <1>1
<1>3. x + Word - 1 \in Nat
  BY <1>1
<1>4. /\ RoundDown(x) \in Nat /\ RoundDown(x) <= x
      /\ \E k \in Nat : RoundDown(x) = k * Word
  BY <1>2 DEF RoundDown
<1>5. RoundUp(x) \in Nat /\ x + Word - 1 < RoundUp(x) + Word
  BY <1>2, <1>3 DEF RoundUp, RoundDown
<1> QED BY <1>1, <1>4, <1>5

-----------------------------------------------------------------------------
(* The inductive invariant.                                                  *)

Typed ==
  /\ text \in Texts /\ use_cache \in BOOLEAN
  /\ cache_start_offset \in Nat /\ head_bits_capacity \in Nat /\ head_bits \subseteq Nat
  /\ pc \in {"idle", "begin", "back", "ensure", "mark"}
  /\ target \in 0 .. Length /\ bytes \in Nat

(* The window begins at a word, so that its bits move by whole words.        *)
Window ==
  /\ \E k \in Nat : cache_start_offset = k * Word
  /\ head_bits # {} => head_bits_capacity > 0
  /\ HeadBitsAreHeads

IsLead(at) == S!FirstByteWidth(ByteAt(at)) = 2

(* The scan has passed over nothing but first bytes of two, or continuations; *)
(* where it ends is a head.                                                   *)
Scanning ==
  /\ pc \in {"back", "ensure", "mark"} => ~HasFixedWidth /\ target < Length /\ bytes <= target
  /\ pc \in {"ensure", "mark"} =>
       IsShiftJis /\ bytes \in Heads /\ \A at \in bytes + 1 .. target - 1 : IsLead(at)
  /\ pc = "back" /\ IsShiftJis => \A at \in bytes .. target - 1 : IsLead(at)
  /\ pc = "back" /\ IsSelfSync =>
       \A at \in bytes + 1 .. target : U!IsContinuation(ByteAt(at))

HeadsInv == Typed /\ Window /\ Scanning /\ HeadIsRight

LEMMA Encodings ==
  ASSUME text \in Texts
  PROVE  /\ HasFixedWidth \/ IsSelfSync \/ IsShiftJis
         /\ ~(HasFixedWidth /\ IsSelfSync) /\ ~(HasFixedWidth /\ IsShiftJis)
         /\ ~(IsSelfSync /\ IsShiftJis)
BY ValidText DEF HasFixedWidth, IsSelfSync, IsShiftJis

(* A head whose character reaches beyond the byte is the one it belongs to.  *)
LEMMA HeadOf ==
  ASSUME text \in Texts, NEW head \in Heads, NEW at \in 0 .. Length - 1,
         head <= at, at < head + Width(head)
  PROVE  IsHeadOf(head, at)
<1>1. /\ head \in Nat /\ Width(head) \in Nat /\ Length \in Nat /\ Heads \subseteq 0 .. Length - 1
      /\ \A other \in head + 1 .. head + Width(head) - 1 : other \notin Heads
  BY Widths, ValidText
<1>2. ASSUME NEW other \in Heads, other > head PROVE other > at
  BY <1>1, <1>2
<1> QED BY <1>2 DEF IsHeadOf, Heads

(* In Shift_JIS what follows a byte that is not the first of two is a head,  *)
(* and so is a byte that cannot be the second.                               *)
LEMMA AfterNoLead ==
  ASSUME text \in Texts, IsShiftJis, NEW at \in 1 .. Length - 1, ~IsLead(at - 1)
  PROVE  at \in Heads
<1>1. Length \in Nat /\ at - 1 \in 0 .. Length - 1
  BY ValidText
<1>2. PICK head \in Heads : head <= at - 1 /\ at - 1 < head + Width(head)
  BY <1>1, Covered
<1>3. /\ head \in Nat /\ Width(head) \in {1, 2} /\ head + Width(head) \in Heads \cup {Length}
      /\ Width(head) = 2 => IsLead(head)
  BY Widths, ShiftJisWidth DEF IsLead
<1>4. head # at - 1 \/ Width(head) # 2
  BY <1>3
<1>5. head + Width(head) = at
  BY <1>1, <1>2, <1>3, <1>4
<1> QED BY <1>1, <1>3, <1>5

LEMMA NotSecond ==
  ASSUME text \in Texts, IsShiftJis, NEW at \in 0 .. Length - 1, ~S!IsSecondByte(ByteAt(at))
  PROVE  at \in Heads
<1>1. PICK head \in Heads : head <= at /\ at < head + Width(head)
  BY Covered
<1>2. /\ head \in Nat /\ Width(head) \in {1, 2} /\ Length \in Nat
      /\ Width(head) = 2 => S!IsSecondByte(ByteAt(head + 1))
  BY Widths, ShiftJisWidth, ValidText
<1>3. head = at \/ (Width(head) = 2 /\ head + 1 = at)
  BY <1>1, <1>2
<1> QED BY <1>2, <1>3

LEMMA NoContinuation ==
  ASSUME text \in Texts, IsSelfSync, NEW at \in 0 .. Length - 1, ~U!IsContinuation(ByteAt(at))
  PROVE  at \in Heads
<1>1. PICK head \in Heads : head <= at /\ at < head + Width(head)
  BY Covered
<1>2. /\ head \in Nat /\ Width(head) \in 1 .. 4 /\ Length \in Nat
      /\ \A i \in head + 1 .. head + Width(head) - 1 : U!IsContinuation(ByteAt(i))
  BY Widths, Utf8Width, ValidText
<1>3. head = at
  BY <1>1, <1>2
<1> QED BY <1>3

(* From a head on, first bytes of two follow in pairs.                        *)
LEMMA EverySecond ==
  ASSUME text \in Texts, IsShiftJis, NEW from \in Heads, NEW to \in 0 .. Length - 1,
         \A at \in from .. to - 1 : IsLead(at)
  PROVE  \A k \in Nat : from + 2 * k <= to => from + 2 * k \in Heads
<1> DEFINE Bad == {k \in Nat : from + 2 * k <= to /\ from + 2 * k \notin Heads}
<1> SUFFICES ASSUME Bad # {} PROVE FALSE
  OBVIOUS
<1>1. from \in Nat /\ Length \in Nat
  BY Widths, ValidText
<1>2. PICK k \in Bad : \A j \in Bad : k <= j
  BY Least
<1>3. k \in Nat /\ from + 2 * k <= to /\ from + 2 * k \notin Heads
  BY <1>2
<1>4. k # 0
  BY <1>1, <1>3
<1>5. k - 1 \in Nat /\ k - 1 \notin Bad
  BY <1>2, <1>3, <1>4
<1> DEFINE last == from + 2 * (k - 1)
<1>6. last \in Heads /\ last \in from .. to - 1 /\ last + 2 = from + 2 * k
  BY <1>1, <1>3, <1>5
<1> HIDE DEF last
<1>7. Width(last) = 2
  BY <1>6, ShiftJisWidth DEF IsLead
<1>8. last + 2 \in Heads \cup {Length}
  BY <1>6, <1>7, Widths
<1> QED BY <1>1, <1>3, <1>6, <1>8

(* fill_step2 sets every second bit of the range and no other.                *)
LEMMA FilledBits ==
  ASSUME Typed, NEW from \in Nat, NEW to \in Nat, NEW bit \in FillStep2(from, to)
  PROVE  /\ bit \in Nat /\ head_bits_capacity > 0
         /\ \E k \in Nat : cache_start_offset + bit = from + 2 * k /\ from + 2 * k <= to - 1
<1> DEFINE lo == from - cache_start_offset
           hi == to - 1 - cache_start_offset
<1>1. /\ Word \in Nat /\ Word >= 2 /\ Word % 2 = 0
      /\ cache_start_offset \in Nat /\ head_bits_capacity \in Nat
  BY WordIs DEF Typed
<1>2. /\ from < to /\ InWindow(from) /\ InWindow(to - 1)
      /\ \E word \in lo \div Word .. hi \div Word : \E b \in 0 .. Word - 1 :
           /\ bit = word * Word + b
           /\ b % 2 = lo % 2
           /\ word = lo \div Word => b >= lo % Word
           /\ word = hi \div Word => b <= hi % Word
  BY DEF FillStep2
<1>3. lo \in Nat /\ hi \in Nat /\ head_bits_capacity > 0
  BY <1>1, <1>2 DEF InWindow
<1>4. PICK word \in lo \div Word .. hi \div Word, b \in 0 .. Word - 1 :
        /\ bit = word * Word + b
        /\ b % 2 = lo % 2
        /\ word = lo \div Word => b >= lo % Word
        /\ word = hi \div Word => b <= hi % Word
  BY <1>2
<1>5. /\ lo = from - cache_start_offset
      /\ hi = to - 1 - cache_start_offset
  BY <1>1
<1> HIDE DEF lo, hi
<1>6. /\ lo = (lo \div Word) * Word + (lo % Word) /\ hi = (hi \div Word) * Word + (hi % Word)
      /\ lo % Word \in 0 .. Word - 1 /\ hi % Word \in 0 .. Word - 1
      /\ lo \div Word \in Nat /\ hi \div Word \in Nat
  BY <1>1, <1>3
<1>7. word \in Nat /\ b \in Nat /\ bit \in Nat
  <2>1. word \in Nat /\ b \in Nat
    BY <1>1, <1>6
  <2>2. word * Word \in Nat
    BY <1>1, <2>1
  <2> QED BY <1>4, <2>1, <2>2
<1>8. lo <= bit
  <2>1. CASE word = lo \div Word
    <3>1. bit = (lo \div Word) * Word + b /\ b >= lo % Word
      BY <1>4, <2>1
    <3> QED BY <1>1, <1>6, <1>7, <3>1
  <2>2. CASE word >= lo \div Word + 1
    <3>1. (lo \div Word + 1) * Word <= word * Word
      BY <1>6, <1>7, <2>2, Monotonic
    <3>2. (lo \div Word + 1) * Word = (lo \div Word) * Word + Word
      BY <1>1, <1>6
    <3> QED BY <1>1, <1>3, <1>4, <1>6, <1>7, <3>1, <3>2
  <2> QED BY <1>4, <1>6, <1>7, <2>1, <2>2
<1>9. bit <= hi
  <2>1. CASE word = hi \div Word
    <3>1. bit = (hi \div Word) * Word + b /\ b <= hi % Word
      BY <1>4, <2>1
    <3> QED BY <1>1, <1>6, <1>7, <3>1
  <2>2. CASE word + 1 <= hi \div Word
    <3>1. (word + 1) * Word <= (hi \div Word) * Word
      BY <1>6, <1>7, <2>2, Monotonic
    <3>2. (word + 1) * Word = word * Word + Word
      BY <1>1, <1>7
    <3> QED BY <1>1, <1>3, <1>4, <1>6, <1>7, <3>1, <3>2
  <2> QED BY <1>4, <1>6, <1>7, <2>1, <2>2
<1>10. (word * Word) % 2 = 0
  <2>1. PICK half \in Nat : Word = 2 * half
    <3>1. Word \div 2 \in Nat /\ Word = 2 * (Word \div 2)
      BY <1>1
    <3> QED BY <3>1
  <2>2. word * Word = 2 * (word * half) /\ word * half \in Nat
    BY <1>7, <2>1
  <2> QED BY <2>2
<1>11. bit % 2 = lo % 2
  <2> DEFINE w == word * Word
  <2>1. w \in Nat /\ w % 2 = 0 /\ bit = w + b
    BY <1>1, <1>4, <1>7, <1>10
  <2> HIDE DEF w
  <2> QED BY <1>4, <1>7, <2>1
<1>12. PICK k \in Nat : bit = lo + 2 * k
  <2>1. (bit - lo) \div 2 \in Nat /\ bit = lo + 2 * ((bit - lo) \div 2)
    BY <1>3, <1>7, <1>8, <1>11
  <2> QED BY <2>1
<1> QED BY <1>1, <1>3, <1>5, <1>7, <1>9, <1>12

-----------------------------------------------------------------------------
(* Every action preserves the invariant.                                     *)

LEMMA WindowKept ==
  ASSUME Typed, Window, UNCHANGED text, UNCHANGED Cache
  PROVE  Window' /\ cache_start_offset' \in Nat /\ head_bits_capacity' \in Nat /\ head_bits' \subseteq Nat
BY DEF Typed, Window, Cache, HeadBitsAreHeads

LEMMA ReturnKeeps ==
  ASSUME HeadsInv, NEW by, NEW head, Return(by, head), Window',
         cache_start_offset' \in Nat, head_bits_capacity' \in Nat, head_bits' \subseteq Nat,
         by \in {"width", "end", "scan"} => IsHeadOf(head, target),
         by = "cache" /\ cache_start_offset' = 0 => IsHeadOf(head, target)
  PROVE  HeadsInv'
<1>1. Typed'
  BY DEF HeadsInv, Typed, Return, Length
<1>2. Scanning'
  BY DEF Return, Scanning
<1>3. answer'.by = by /\ answer'.head = head /\ text' = text /\ target' = target
  BY DEF Return, Answer
<1>4. HeadIsRight'
  BY <1>3 DEF HeadIsRight, IsHeadOf, Length
<1> QED BY <1>1, <1>2, <1>4 DEF HeadsInv

LEMMA InitHolds == Init => HeadsInv
<1> SUFFICES ASSUME Init PROVE HeadsInv
  OBVIOUS
<1>1. text \in Texts /\ Length \in Nat
  BY ValidText DEF Init
<1>2. Typed
  BY <1>1 DEF Init, Typed
<1>3. Window
  <2>1. cache_start_offset = 0 * Word /\ head_bits = {}
    BY WordIs DEF Init
  <2> QED BY <2>1 DEF Window, HeadBitsAreHeads
<1>4. Scanning /\ HeadIsRight
  BY DEF Init, Scanning, HeadIsRight, Answer
<1> QED BY <1>2, <1>3, <1>4 DEF HeadsInv

LEMMA AdjustKeeps ==
  ASSUME HeadsInv, Adjust
  PROVE  HeadsInv'
<1>1. Window' /\ cache_start_offset' \in Nat /\ head_bits_capacity' \in Nat /\ head_bits' \subseteq Nat
  BY WindowKept DEF HeadsInv, Adjust
<1>2. Typed'
  BY <1>1 DEF HeadsInv, Typed, Adjust, Length
<1>3. Scanning' /\ HeadIsRight'
  BY DEF Adjust, Scanning, HeadIsRight
<1> QED BY <1>1, <1>2, <1>3 DEF HeadsInv

LEMMA FreeContextKeeps ==
  ASSUME HeadsInv, FreeContext
  PROVE  HeadsInv'
<1>1. Typed'
  BY DEF HeadsInv, Typed, FreeContext, Length
<1>2. Window'
  <2>1. cache_start_offset' = 0 * Word /\ head_bits' = {} /\ 0 \in Nat
    BY WordIs DEF FreeContext
  <2> QED BY <2>1 DEF Window, HeadBitsAreHeads
<1>3. Scanning' /\ HeadIsRight'
  BY DEF FreeContext, Scanning, HeadIsRight, Answer
<1> QED BY <1>1, <1>2, <1>3 DEF HeadsInv

LEMMA AdjustFixedWidthKeeps ==
  ASSUME HeadsInv, AdjustFixedWidth
  PROVE  HeadsInv'
<1>1. text \in Texts /\ Length \in Nat /\ target \in 0 .. Length /\ Heads \subseteq 0 .. Length - 1
  BY ValidText DEF HeadsInv, Typed
<1>2. ASSUME target < Length PROVE target \in Heads
  <2>1. PICK head \in Heads : head <= target /\ target < head + Width(head)
    BY <1>1, <1>2, Covered
  <2>2. Width(head) = 1 /\ head \in Nat
    BY <1>1, FixedWidth DEF AdjustFixedWidth
  <2>3. head = target
    BY <1>1, <2>1, <2>2
  <2> QED BY <2>3
<1>3. IsHeadOf(target, target)
  BY <1>1, <1>2 DEF IsHeadOf, Heads
<1>4. Window' /\ cache_start_offset' \in Nat /\ head_bits_capacity' \in Nat /\ head_bits' \subseteq Nat
  BY WindowKept DEF HeadsInv, AdjustFixedWidth, Return
<1> QED BY <1>3, <1>4, ReturnKeeps DEF AdjustFixedWidth

LEMMA AdjustPastEndKeeps ==
  ASSUME HeadsInv, AdjustPastEnd
  PROVE  HeadsInv'
<1>1. Length \in Nat /\ Heads \subseteq 0 .. Length - 1 /\ target = Length
  BY ValidText DEF HeadsInv, Typed, AdjustPastEnd
<1>2. IsHeadOf(target, target)
  BY <1>1 DEF IsHeadOf, Heads
<1>3. Window' /\ cache_start_offset' \in Nat /\ head_bits_capacity' \in Nat /\ head_bits' \subseteq Nat
  BY WindowKept DEF HeadsInv, AdjustPastEnd, Return
<1> QED BY <1>2, <1>3, ReturnKeeps DEF AdjustPastEnd

LEMMA AdjustFromCacheKeeps ==
  ASSUME HeadsInv, AdjustFromCache
  PROVE  HeadsInv'
<1>1. text \in Texts /\ target \in 0 .. Length - 1 /\ Length \in Nat
  BY ValidText DEF HeadsInv, Typed, AdjustFromCache
<1>2. PICK head \in Candidates : Return("cache", head)
  BY DEF AdjustFromCache
<1>3. head \in 0 .. target /\ head \in head_bits /\ head + Width(head) > target
  BY DEF Candidates, IsCandidate, Width
<1>4. ASSUME cache_start_offset' = 0 PROVE IsHeadOf(head, target)
  <2>1. cache_start_offset = 0 /\ cache_start_offset + head = head
    BY <1>1, <1>3, <1>4 DEF AdjustFromCache, Cache
  <2>2. cache_start_offset + head \in Heads
    BY <1>3 DEF HeadsInv, Window, HeadBitsAreHeads, Heads
  <2>3. head \in Heads /\ Width(head) \in Nat
    BY <1>1, <2>1, <2>2, Widths
  <2> QED BY <1>1, <1>3, <2>3, HeadOf
<1>5. Window' /\ cache_start_offset' \in Nat /\ head_bits_capacity' \in Nat /\ head_bits' \subseteq Nat
  BY <1>2, WindowKept DEF HeadsInv, AdjustFromCache, Return
<1> QED BY <1>2, <1>4, <1>5, ReturnKeeps

LEMMA GoToKeeps ==
  ASSUME HeadsInv, NEW point \in {"back", "ensure", "mark"}, NEW at \in Nat, GoTo(point, at),
         Scanning'
  PROVE  HeadsInv'
<1>1. Window' /\ cache_start_offset' \in Nat /\ head_bits_capacity' \in Nat /\ head_bits' \subseteq Nat
  BY WindowKept DEF HeadsInv, GoTo, Cache
<1>2. Typed'
  BY <1>1 DEF HeadsInv, Typed, GoTo, Length
<1>3. HeadIsRight'
  BY DEF GoTo, HeadIsRight
<1> QED BY <1>1, <1>2, <1>3 DEF HeadsInv

LEMMA AdjustByScanKeeps ==
  ASSUME HeadsInv, AdjustByScan
  PROVE  HeadsInv'
<1>1. /\ text \in Texts /\ target \in 0 .. Length - 1 /\ Length \in Nat /\ target \in Nat
      /\ ~HasFixedWidth /\ target < Length /\ (IsSelfSync \/ IsShiftJis)
  BY ValidText, Encodings DEF HeadsInv, Typed, AdjustByScan
<1>2. CASE IsSelfSync \/ S!IsSecondByte(ByteAt(target))
  <2>1. GoTo("back", target)
    BY <1>2 DEF AdjustByScan
  <2>2. /\ text' = text /\ pc' = "back" /\ bytes' = target /\ target' = target
        /\ \A at \in target .. target - 1 : FALSE
        /\ \A at \in target + 1 .. target : FALSE
    BY <1>1, <2>1 DEF GoTo
  <2>3. Scanning'
    BY <1>1, <2>2 DEF Scanning, HasFixedWidth, IsShiftJis, IsSelfSync, Length, ByteAt, IsLead
  <2> QED BY <1>1, <2>1, <2>3, GoToKeeps
<1>3. CASE ~IsSelfSync /\ ~S!IsSecondByte(ByteAt(target))
  <2>1. GoTo("ensure", target)
    BY <1>3 DEF AdjustByScan
  <2>2. target \in Heads /\ IsShiftJis
    BY <1>1, <1>3, NotSecond
  <2>3. /\ text' = text /\ pc' = "ensure" /\ bytes' = target /\ target' = target
        /\ \A at \in target + 1 .. target - 1 : FALSE
    BY <1>1, <2>1 DEF GoTo
  <2>4. Scanning'
    BY <1>1, <2>2, <2>3 DEF Scanning, HasFixedWidth, IsShiftJis, IsSelfSync, Length, Heads
  <2> QED BY <1>1, <2>1, <2>4, GoToKeeps
<1> QED BY <1>2, <1>3

LEMMA BackInUtf8Keeps ==
  ASSUME HeadsInv, BackInUtf8
  PROVE  HeadsInv'
<1>1. /\ text \in Texts /\ Length \in Nat /\ bytes \in Nat /\ target \in Nat
      /\ ~HasFixedWidth /\ target < Length /\ bytes <= target
      /\ pc = "back" /\ IsSelfSync /\ ~IsShiftJis
      /\ \A at \in bytes + 1 .. target : U!IsContinuation(ByteAt(at))
  BY ValidText, Encodings DEF HeadsInv, Typed, Scanning, BackInUtf8
<1>2. CASE bytes > 0 /\ U!IsContinuation(ByteAt(bytes))
  <2>1. GoTo("back", bytes - 1) /\ bytes - 1 \in Nat
    BY <1>1, <1>2 DEF BackInUtf8
  <2>2. text' = text /\ pc' = "back" /\ bytes' = bytes - 1 /\ target' = target
    BY <2>1 DEF GoTo
  <2>3. \A at \in bytes' + 1 .. target' : U!IsContinuation(ByteAt(at))
    <3> SUFFICES ASSUME NEW at \in bytes' + 1 .. target' PROVE U!IsContinuation(ByteAt(at))
      OBVIOUS
    <3>1. at = bytes \/ at \in bytes + 1 .. target
      BY <1>1, <2>2
    <3> QED BY <1>1, <1>2, <3>1
  <2>4. Scanning'
    BY <1>1, <2>2, <2>3 DEF Scanning, HasFixedWidth, IsShiftJis, IsSelfSync, Length, ByteAt
  <2> QED BY <2>1, <2>4, GoToKeeps
<1>3. CASE ~(bytes > 0 /\ U!IsContinuation(ByteAt(bytes)))
  <2>1. Return("scan", bytes) /\ UNCHANGED Cache
    BY <1>3 DEF BackInUtf8
  <2>2. Heads \subseteq 0 .. Length - 1 /\ 0 \in 0 .. Length - 1 /\ bytes \in 0 .. Length - 1
    BY <1>1, ValidText
  <2>3. bytes \in Heads
    <3>1. CASE bytes = 0
      <4>1. PICK head \in Heads : head <= 0 /\ 0 < head + Width(head)
        BY <1>1, <2>2, Covered
      <4> QED BY <2>2, <3>1, <4>1
    <3>2. CASE bytes # 0
      BY <1>1, <1>3, <2>2, <3>2, NoContinuation
    <3> QED BY <3>1, <3>2
  <2>4. \A other \in Heads : ~U!IsContinuation(ByteAt(other))
    BY <1>1, Utf8Width
  <2>5. \A other \in Heads : other > bytes => other > target
    BY <1>1, <2>2, <2>4
  <2>6. IsHeadOf(bytes, target)
    BY <1>1, <2>3, <2>5 DEF IsHeadOf, Heads
  <2>7. Window' /\ cache_start_offset' \in Nat /\ head_bits_capacity' \in Nat /\ head_bits' \subseteq Nat
    BY <2>1, WindowKept DEF HeadsInv, Return
  <2> QED BY <2>1, <2>6, <2>7, ReturnKeeps
<1> QED BY <1>2, <1>3

LEMMA BackKeeps ==
  ASSUME HeadsInv, Back
  PROVE  HeadsInv'
<1>1. /\ text \in Texts /\ Length \in Nat /\ bytes \in Nat /\ target \in Nat
      /\ ~HasFixedWidth /\ target < Length /\ bytes <= target
      /\ IsShiftJis /\ ~IsSelfSync /\ Heads \subseteq 0 .. Length - 1
      /\ \A at \in bytes .. target - 1 : IsLead(at)
  BY ValidText, Encodings DEF HeadsInv, Typed, Scanning, Back
<1>2. ASSUME GoTo("ensure", bytes), bytes \in Heads
      PROVE  HeadsInv'
  <2>1. text' = text /\ pc' = "ensure" /\ bytes' = bytes /\ target' = target
    BY <1>2 DEF GoTo
  <2>2. \A at \in bytes + 1 .. target - 1 : IsLead(at)
    BY <1>1
  <2>3. Scanning'
    BY <1>1, <1>2, <2>1, <2>2 DEF Scanning, HasFixedWidth, IsShiftJis, Length, Heads, IsLead, ByteAt
  <2> QED BY <1>1, <1>2, <2>3, GoToKeeps
<1>3. CASE bytes = 0 /\ GoTo("ensure", bytes)
  <2>1. PICK head \in Heads : head <= 0 /\ 0 < head + Width(head)
    BY <1>1, Covered
  <2>2. bytes \in Heads
    BY <1>1, <1>3, <2>1
  <2> QED BY <1>2, <1>3, <2>2
<1>4. CASE bytes > 0 /\ IsCached(bytes - 1) /\ GoTo("ensure", bytes - 1)
  <2>1. bytes - 1 - cache_start_offset \in head_bits /\ cache_start_offset \in Nat
    BY <1>4 DEF IsCached, HeadsInv, Typed
  <2>2. cache_start_offset + (bytes - 1 - cache_start_offset) \in Heads
    BY <2>1 DEF HeadsInv, Window, HeadBitsAreHeads, Heads
  <2>3. bytes - 1 \in Heads /\ bytes - 1 \in Nat
    BY <1>1, <1>4, <2>1, <2>2
  <2>4. text' = text /\ pc' = "ensure" /\ bytes' = bytes - 1 /\ target' = target
    BY <1>4 DEF GoTo
  <2>5. /\ \A at \in bytes' + 1 .. target - 1 : IsLead(at)
        /\ bytes' <= target
    BY <1>1, <2>4
  <2>6. Scanning'
    BY <1>1, <2>3, <2>4, <2>5 DEF Scanning, HasFixedWidth, IsShiftJis, Length, Heads, IsLead, ByteAt
  <2> QED BY <1>4, <2>3, <2>6, GoToKeeps
<1>5. CASE bytes > 0 /\ IsLead(bytes - 1) /\ GoTo("back", bytes - 1)
  <2>1. text' = text /\ pc' = "back" /\ bytes' = bytes - 1 /\ target' = target /\ bytes - 1 \in Nat
    BY <1>1, <1>5 DEF GoTo
  <2>2. bytes' <= target /\ \A at \in bytes' .. target - 1 : IsLead(at)
    <3>1. ASSUME NEW at \in bytes - 1 .. target - 1 PROVE IsLead(at)
      <4>1. at = bytes - 1 \/ at \in bytes .. target - 1
        BY <1>1
      <4> QED BY <1>1, <1>5, <4>1
    <3> QED BY <1>1, <2>1, <3>1
  <2>3. Scanning'
    BY <1>1, <2>1, <2>2
    DEF Scanning, HasFixedWidth, IsShiftJis, IsSelfSync, Length, Heads, IsLead, ByteAt
  <2> QED BY <1>5, <2>1, <2>3, GoToKeeps
<1>6. CASE bytes > 0 /\ ~IsLead(bytes - 1) /\ GoTo("ensure", bytes)
  <2>1. bytes \in 1 .. Length - 1
    BY <1>1, <1>6
  <2>2. bytes \in Heads
    BY <1>1, <1>6, <2>1, AfterNoLead
  <2> QED BY <1>2, <1>6, <2>2
<1> QED BY <1>3, <1>4, <1>5, <1>6 DEF Back, IsLead

(* A window that grows begins at a word, no later, and is not empty.           *)
LEMMA NewWindow ==
  ASSUME HeadsInv, pc = "ensure"
  PROVE  /\ NewStart \in Nat /\ \E k \in Nat : NewStart = k * Word
         /\ head_bits # {} => NewStart <= cache_start_offset
         /\ (NewEnd - NewStart) \div Word \in Nat /\ (NewEnd - NewStart) \div Word > 0
<1>1. /\ bytes \in Nat /\ target \in Nat /\ bytes <= target /\ Word \in Nat /\ Word >= 2
      /\ cache_start_offset \in Nat /\ head_bits_capacity \in Nat
      /\ head_bits # {} => head_bits_capacity > 0
      /\ \E k \in Nat : cache_start_offset = k * Word
  BY ValidText, WordIs DEF HeadsInv, Typed, Window, Scanning
<1>2. ASSUME NEW diff \in Int PROVE Expansion(diff) \in Nat /\ Expansion(diff) >= Word
  BY <1>1 DEF Expansion, Chunk
<1>3. /\ NewStart \in Nat /\ \E k \in Nat : NewStart = k * Word
      /\ head_bits_capacity = 0 \/ NewStart <= cache_start_offset
  <2>1. CASE head_bits_capacity = 0
    BY <1>1, <2>1, Rounded DEF NewStart
  <2>2. CASE head_bits_capacity # 0 /\ bytes >= cache_start_offset
    BY <1>1, <2>2 DEF NewStart
  <2>3. CASE head_bits_capacity # 0 /\ bytes < cache_start_offset
    <3> DEFINE by == Expansion(cache_start_offset - bytes)
    <3>1. by \in Nat
      BY <1>1, <1>2
    <3>2. NewStart = IF cache_start_offset > by THEN RoundDown(cache_start_offset - by) ELSE 0
      BY <1>1, <2>3 DEF NewStart
    <3> HIDE DEF by
    <3>3. CASE cache_start_offset > by
      <4>1. cache_start_offset - by \in Nat
        BY <1>1, <3>1, <3>3
      <4>2. /\ RoundDown(cache_start_offset - by) \in Nat
            /\ RoundDown(cache_start_offset - by) <= cache_start_offset - by
            /\ \E k \in Nat : RoundDown(cache_start_offset - by) = k * Word
        BY <4>1, Rounded
      <4> QED BY <1>1, <3>1, <3>2, <3>3, <4>2
    <3>4. CASE ~(cache_start_offset > by)
      <4>1. NewStart = 0 * Word /\ NewStart = 0
        BY <1>1, <3>2, <3>4
      <4> QED BY <1>1, <4>1
    <3> QED BY <3>3, <3>4
  <2> QED BY <1>1, <2>1, <2>2, <2>3
<1>4. WindowEnd \in Nat /\ (head_bits_capacity # 0 => WindowEnd >= cache_start_offset + Word)
  <2>1. head_bits_capacity * Word \in Nat
    BY <1>1
  <2>2. ASSUME head_bits_capacity # 0 PROVE head_bits_capacity * Word >= Word
    <3>1. 1 * Word <= head_bits_capacity * Word
      BY <1>1, <2>2, Monotonic
    <3> QED BY <1>1, <3>1
  <2> QED BY <1>1, <2>1, <2>2 DEF WindowEnd
<1>5. NewEnd \in Nat /\ NewEnd >= NewStart + Word
  <2>1. CASE head_bits_capacity = 0
    <3>1. /\ Expansion(target + 1 - NewStart) \in Nat
          /\ Expansion(target + 1 - NewStart) >= Word
      BY <1>1, <1>2, <1>3
    <3>2. NewStart + Expansion(target + 1 - NewStart) \in Nat
      BY <1>3, <3>1
    <3>3. /\ RoundUp(NewStart + Expansion(target + 1 - NewStart)) \in Nat
          /\ RoundUp(NewStart + Expansion(target + 1 - NewStart))
               >= NewStart + Expansion(target + 1 - NewStart)
      BY <3>2, Rounded
    <3> QED BY <1>1, <1>3, <2>1, <3>1, <3>3 DEF NewEnd
  <2>2. CASE head_bits_capacity # 0 /\ target + 1 > WindowEnd
    <3>1. Expansion(target + 1 - WindowEnd) \in Nat
      BY <1>1, <1>2, <1>4
    <3>2. WindowEnd + Expansion(target + 1 - WindowEnd) \in Nat
      BY <1>4, <3>1
    <3>3. /\ RoundUp(WindowEnd + Expansion(target + 1 - WindowEnd)) \in Nat
          /\ RoundUp(WindowEnd + Expansion(target + 1 - WindowEnd))
               >= WindowEnd + Expansion(target + 1 - WindowEnd)
      BY <3>2, Rounded
    <3> QED BY <1>1, <1>3, <1>4, <2>2, <3>1, <3>3 DEF NewEnd
  <2>3. CASE head_bits_capacity # 0 /\ ~(target + 1 > WindowEnd)
    BY <1>1, <1>3, <1>4, <2>3 DEF NewEnd
  <2> QED BY <2>1, <2>2, <2>3
<1>6. (NewEnd - NewStart) \div Word \in Nat /\ (NewEnd - NewStart) \div Word > 0
  BY <1>1, <1>3, <1>5
<1>7. head_bits # {} => NewStart <= cache_start_offset
  BY <1>1, <1>3
<1> QED BY <1>3, <1>6, <1>7

LEMMA EnsureKeeps ==
  ASSUME HeadsInv, Ensure
  PROVE  HeadsInv'
<1>1. /\ bytes \in Nat /\ cache_start_offset \in Nat /\ head_bits \subseteq Nat
      /\ pc = "ensure" /\ ~HasFixedWidth /\ target < Length /\ bytes <= target
      /\ IsShiftJis /\ bytes \in Heads /\ \A at \in bytes + 1 .. target - 1 : IsLead(at)
  BY DEF HeadsInv, Typed, Scanning, Ensure
<1>2. ASSUME UNCHANGED <<text, target, bytes>>, pc' = "mark"
      PROVE  Scanning'
  BY <1>1, <1>2 DEF Scanning, HasFixedWidth, IsShiftJis, Length, Heads, IsLead, ByteAt
<1>3. CASE GoTo("mark", bytes)
  <2>1. Scanning'
    BY <1>2, <1>3 DEF GoTo
  <2> QED BY <1>1, <1>3, <2>1, GoToKeeps
<1>4. CASE /\ head_bits' = Moved
           /\ cache_start_offset' = NewStart
           /\ head_bits_capacity' = (NewEnd - NewStart) \div Word
           /\ pc' = "mark"
           /\ UNCHANGED <<text, use_cache, target, bytes, answer>>
  <2> DEFINE by == ((cache_start_offset - NewStart) \div Word) * Word
  <2>1. /\ NewStart \in Nat /\ \E k \in Nat : NewStart = k * Word
        /\ head_bits # {} => NewStart <= cache_start_offset
        /\ head_bits_capacity' \in Nat /\ head_bits_capacity' > 0
    BY <1>1, <1>4, NewWindow
  <2>2. ASSUME head_bits # {} PROVE by = cache_start_offset - NewStart
    <3>1. PICK a \in Nat : cache_start_offset = a * Word
      BY DEF HeadsInv, Window
    <3>2. PICK b \in Nat : NewStart = b * Word
      BY <2>1
    <3>3. b * Word <= a * Word
      BY <2>1, <2>2, <3>1, <3>2
    <3> QED BY <3>1, <3>2, <3>3, Multiple
  <2>3. \A new \in head_bits' : \E bit \in head_bits : new = bit + by
    BY <1>4 DEF Moved
  <2> HIDE DEF by
  <2>4. ASSUME NEW new \in head_bits'
        PROVE  new \in Nat /\ NewStart + new \in Heads
    <3>1. PICK bit \in head_bits : new = bit + by
      BY <2>3
    <3>2. bit \in Nat /\ cache_start_offset + bit \in Heads
      BY <1>1, <3>1 DEF HeadsInv, Window, HeadBitsAreHeads, Heads
    <3>3. by = cache_start_offset - NewStart /\ NewStart <= cache_start_offset
      BY <2>1, <2>2, <3>1
    <3>4. new \in Nat /\ NewStart + new = cache_start_offset + bit
      BY <1>1, <2>1, <3>1, <3>2, <3>3
    <3> QED BY <3>2, <3>4
  <2>5. Typed'
    BY <1>4, <2>1, <2>4 DEF HeadsInv, Typed, Length
  <2>6. Window'
    BY <1>4, <2>1, <2>4 DEF Window, HeadBitsAreHeads, Heads
  <2>7. Scanning' /\ HeadIsRight'
    BY <1>2, <1>4 DEF HeadIsRight
  <2> QED BY <2>5, <2>6, <2>7 DEF HeadsInv
<1>5. CASE Return("failure", target) /\ UNCHANGED Cache
  <2>1. Window' /\ cache_start_offset' \in Nat /\ head_bits_capacity' \in Nat /\ head_bits' \subseteq Nat
    BY <1>5, WindowKept DEF HeadsInv, Return
  <2> QED BY <1>5, <2>1, ReturnKeeps
<1> QED BY <1>3, <1>4, <1>5 DEF Ensure

LEMMA MarkKeeps ==
  ASSUME HeadsInv, Mark
  PROVE  HeadsInv'
<1> DEFINE width == S!FirstByteWidth(ByteAt(bytes))
           from == bytes + width
           head == from + 2 * ((target - from) \div 2)
           set == IF InWindow(bytes) THEN {bytes - cache_start_offset} ELSE {}
           filled == IF from > target THEN {} ELSE FillStep2(from, target + 1)
           found == IF from > target THEN bytes ELSE head
<1>1. /\ text \in Texts /\ Length \in Nat /\ bytes \in Nat /\ target \in Nat
      /\ target < Length /\ bytes <= target /\ IsShiftJis /\ bytes \in Heads
      /\ \A at \in bytes + 1 .. target - 1 : IsLead(at)
      /\ Typed
      /\ cache_start_offset \in Nat /\ head_bits_capacity \in Nat /\ head_bits \subseteq Nat
  BY ValidText DEF HeadsInv, Typed, Scanning, Mark
<1>2. /\ head_bits' = IF use_cache THEN head_bits \cup set \cup filled ELSE head_bits
      /\ cache_start_offset' = cache_start_offset
      /\ head_bits_capacity' = head_bits_capacity
      /\ text' = text
      /\ found = IF from > target THEN bytes ELSE head
  BY DEF Mark, Return
<1>3. Return("scan", found)
  <2>1. bytes + width + 2 * ((target - bytes - width) \div 2) = head
    <3>1. target - bytes - width = target - (bytes + width)
      BY <1>1, ShiftJisWidth
    <3> QED BY <3>1
  <2> QED BY <2>1 DEF Mark
<1>4. width = Width(bytes) /\ width \in {1, 2}
  BY <1>1, ShiftJisWidth
<1>5. from \in Nat /\ from > bytes
  BY <1>1, <1>4
<1>6. ASSUME ~(from > target)
      PROVE  /\ from \in Heads
             /\ \A k \in Nat : from + 2 * k <= target => from + 2 * k \in Heads
  <2>1. from \in Heads \cup {Length}
    BY <1>1, <1>4, Widths
  <2>2. from \in Heads
    BY <1>1, <1>5, <1>6, <2>1
  <2>3. target \in 0 .. Length - 1 /\ \A at \in from .. target - 1 : IsLead(at)
    BY <1>1, <1>5
  <2> QED BY <1>1, <2>2, <2>3, EverySecond
<1>7. set \subseteq Nat /\ (set # {} => head_bits_capacity > 0)
      /\ \A bit \in set : cache_start_offset + bit \in Heads
  <2>1. CASE InWindow(bytes)
    <3>1. bytes - cache_start_offset \in Nat /\ head_bits_capacity > 0
          /\ cache_start_offset + (bytes - cache_start_offset) = bytes
      BY <1>1, <2>1, WordIs DEF InWindow
    <3> QED BY <1>1, <2>1, <3>1
  <2>2. CASE ~InWindow(bytes)
    BY <2>2
  <2> QED BY <2>1, <2>2
<1>8. filled \subseteq Nat /\ (filled # {} => head_bits_capacity > 0)
      /\ \A bit \in filled : cache_start_offset + bit \in Heads
  <2>1. CASE from > target
    BY <2>1
  <2>2. CASE ~(from > target)
    <3>1. filled = FillStep2(from, target + 1) /\ target + 1 \in Nat
      BY <1>1, <2>2
    <3>2. ASSUME NEW bit \in FillStep2(from, target + 1)
          PROVE  /\ bit \in Nat /\ head_bits_capacity > 0
                 /\ \E k \in Nat : cache_start_offset + bit = from + 2 * k
                                   /\ from + 2 * k <= target + 1 - 1
      BY <1>1, <1>5, <3>1, FilledBits
    <3>3. \A k \in Nat : from + 2 * k <= target => from + 2 * k \in Heads
      BY <1>6, <2>2
    <3>4. target + 1 - 1 = target
      BY <1>1
    <3> QED BY <3>1, <3>2, <3>3, <3>4
  <2> QED BY <2>1, <2>2
<1>9. IsHeadOf(found, target)
  <2>1. target \in 0 .. Length - 1
    BY <1>1
  <2>2. CASE from > target
    BY <1>1, <1>2, <1>4, <2>1, <2>2, HeadOf
  <2>3. CASE ~(from > target)
    <3>1. PICK k \in Nat : k = (target - from) \div 2
      BY <1>1, <1>5, <2>3
    <3>2. head = from + 2 * k /\ (head = target \/ head + 1 = target) /\ head \in Nat
      BY <1>1, <1>5, <2>3, <3>1
    <3>3. head <= target /\ head >= from /\ from + 2 * k <= target
      BY <1>1, <1>5, <3>1, <3>2
    <3>4. head \in Heads
      BY <1>6, <2>3, <3>2, <3>3
    <3> HIDE DEF head
    <3>5. Width(head) \in {1, 2} /\ Width(head) = S!FirstByteWidth(ByteAt(head))
      BY <1>1, <3>4, ShiftJisWidth
    <3>6. ASSUME head + 1 = target PROVE Width(head) = 2
      <4>1. head \in bytes + 1 .. target - 1
        BY <1>1, <1>5, <3>2, <3>3, <3>6
      <4> QED BY <1>1, <3>5, <4>1 DEF IsLead
    <3>7. target < head + Width(head)
      BY <1>1, <3>2, <3>5, <3>6
    <3>8. IsHeadOf(head, target)
      BY <1>1, <2>1, <3>3, <3>4, <3>7, HeadOf
    <3> QED BY <1>2, <2>3, <3>8
  <2> QED BY <2>2, <2>3
<1> HIDE DEF set, filled, found, head, from, width
<1>10. /\ cache_start_offset' \in Nat /\ head_bits_capacity' \in Nat /\ head_bits' \subseteq Nat
       /\ head_bits' # {} => head_bits_capacity' > 0
  <2>1. head_bits # {} => head_bits_capacity > 0
    BY DEF HeadsInv, Window
  <2> QED BY <1>1, <1>2, <1>7, <1>8, <2>1
<1>11. ASSUME NEW bit \in head_bits'
       PROVE  cache_start_offset + bit \in Heads
  <2>1. \A old \in head_bits : cache_start_offset + old \in Heads
    BY DEF HeadsInv, Window, HeadBitsAreHeads, Heads
  <2> QED BY <1>2, <1>7, <1>8, <2>1
<1>12. Window'
  <2>1. \E k \in Nat : cache_start_offset = k * Word
    BY DEF HeadsInv, Window
  <2> QED BY <1>2, <1>10, <1>11, <2>1 DEF Window, HeadBitsAreHeads, Heads
<1> QED BY <1>3, <1>9, <1>10, <1>12, ReturnKeeps

-----------------------------------------------------------------------------

(* The window lies on whole words, its bits are heads and a scan passes over   *)
(* nothing but bytes its encoding allows within a character, in any order of    *)
(* calls and of failures to grow the window.                                    *)
THEOREM HeadsInvariant == Spec => []HeadsInv
<1>1. ASSUME HeadsInv, UNCHANGED vars PROVE HeadsInv'
  <2>1. Window' /\ cache_start_offset' \in Nat /\ head_bits_capacity' \in Nat /\ head_bits' \subseteq Nat
    BY <1>1, WindowKept DEF HeadsInv, vars, Cache
  <2>2. Typed'
    BY <1>1, <2>1 DEF HeadsInv, Typed, vars, Length
  <2>3. Scanning'
    BY <1>1 DEF HeadsInv, Scanning, vars, HasFixedWidth, IsShiftJis, IsSelfSync, Length, Heads, IsLead, ByteAt
  <2>4. HeadIsRight'
    BY <1>1 DEF HeadsInv, HeadIsRight, IsHeadOf, vars, Cache, Length
  <2> QED BY <2>1, <2>2, <2>3, <2>4 DEF HeadsInv
<1>2. HeadsInv /\ Next => HeadsInv'
  BY AdjustKeeps, AdjustFixedWidthKeeps, AdjustPastEndKeeps, AdjustFromCacheKeeps,
     AdjustByScanKeeps, BackInUtf8Keeps, BackKeeps, EnsureKeeps, MarkKeeps, FreeContextKeeps
  DEF Next
<1>3. HeadsInv /\ [Next]_vars => HeadsInv'
  BY <1>1, <1>2
<1> QED BY <1>3, InitHolds, PTL DEF Spec

(* adjust_mbc_head_context.c: a bit of the cache is a head of the text, however *)
(* often the window was moved.                                                  *)
THEOREM BitsAreHeads == Spec => []HeadBitsAreHeads
<1>1. HeadsInv => HeadBitsAreHeads
  BY DEF HeadsInv, Window
<1> QED BY <1>1, HeadsInvariant, PTL

(* nk_enc_adjust_mbc_head: what a scan returns is the head of the character the *)
(* byte belongs to, with or without a cache, in every encoding.                  *)
THEOREM HeadsAreRight == Spec => []HeadIsRight
<1>1. HeadsInv => HeadIsRight
  BY DEF HeadsInv
<1> QED BY <1>1, HeadsInvariant, PTL

-----------------------------------------------------------------------------
(* Case folding: the inductive invariant of the iteration.                   *)

(* The code entry k of the table is about.                                   *)
EntryCode(k) == IF "ascii_only" \in flags THEN 64 + k ELSE FoldItems[k].from

Iterating == stage \in {"iterating", "iterated", "stopped"}

(* What has been reported are the foldings of the entries passed.            *)
ReportedSoFar ==
  /\ \A n \in DOMAIN reported :
       /\ reported[n].codes = GetCaseFold(reported[n].code)
       /\ \E k \in 1 .. reached : reported[n].code = EntryCode(k) /\ ReportAt(k) # <<>>
  /\ \A n \in DOMAIN reported : n > 1 => reported[n - 1].code < reported[n].code
  /\ \A k \in 1 .. reached : ReportAt(k) # <<>> =>
       \E n \in DOMAIN reported : reported[n].code = EntryCode(k)

IterationInv ==
  /\ reported \in Seq([code : Nat, codes : Seq(Nat)]) /\ reached \in Nat
  /\ stage = "writing" => reached = 0
  /\ ~Iterating => reported = <<>>
  /\ Iterating => reached <= LastEntry /\ ReportedSoFar
  /\ stage = "iterated" => reached = LastEntry
  /\ stage = "stopped" => reported # <<>> /\ reported[Len(reported)] = ReportAt(reached)[1]

-----------------------------------------------------------------------------
(* The entries of a table.                                                   *)

LEMMA ItemTypes ==
  /\ Len(FoldItems) \in Nat /\ DOMAIN FoldItems = 1 .. Len(FoldItems)
  /\ \A n \in 1 .. Len(FoldItems) :
       /\ FoldItems[n] \in FoldItem /\ FoldItems[n].from \in Nat
       /\ FoldItems[n].to \in Seq(Nat) /\ FoldItems[n].special \in Seq(Nat)
<1>1. FoldItems \in Seq(FoldItem)
  BY FoldAssumption
<1>2. Len(FoldItems) \in Nat /\ DOMAIN FoldItems = 1 .. Len(FoldItems)
  BY <1>1, LenProperties
<1>3. \A n \in 1 .. Len(FoldItems) : FoldItems[n] \in FoldItem
  BY <1>1, <1>2, ElementOfSeq
<1>4. \A f \in FoldItem : f.from \in Nat /\ f.to \in Seq(Nat) /\ f.special \in Seq(Nat)
  BY DEF FoldItem
<1> QED BY <1>2, <1>3, <1>4

LEMMA Entries ==
  /\ LastEntry \in Nat
  /\ \A k \in 1 .. LastEntry :
       /\ EntryCode(k) \in Nat
       /\ \A j \in 1 .. LastEntry : j < k => EntryCode(j) < EntryCode(k)
<1>1. /\ Len(FoldItems) \in Nat /\ DOMAIN FoldItems = 1 .. Len(FoldItems)
      /\ \A n \in 1 .. Len(FoldItems) : FoldItems[n].from \in Nat
  BY ItemTypes
<1>2. \A m, n \in 1 .. Len(FoldItems) : m < n => FoldItems[m].from < FoldItems[n].from
  BY <1>1, FoldAssumption
<1>3. CASE "ascii_only" \in flags
  BY <1>3 DEF LastEntry, EntryCode
<1>4. CASE "ascii_only" \notin flags
  BY <1>1, <1>2, <1>4 DEF LastEntry, EntryCode
<1> QED BY <1>3, <1>4

(* Only one item is about a code: the lookup finds the item the iteration is  *)
(* at.                                                                       *)
LEMMA ItemFound ==
  ASSUME NEW n \in DOMAIN FoldItems
  PROVE  ItemsOf(FoldItems[n].from) = {n}
<1>1. /\ DOMAIN FoldItems \subseteq Nat
      /\ \A m \in DOMAIN FoldItems : FoldItems[m].from \in Nat
  BY ItemTypes
<1>2. ASSUME NEW m \in DOMAIN FoldItems, FoldItems[m].from = FoldItems[n].from
      PROVE  m = n
  <2>1. m < n \/ n < m \/ m = n
    BY <1>1
  <2> QED BY <1>1, <1>2, <2>1, FoldAssumption
<1> QED BY <1>2 DEF ItemsOf

(* An entry is reported exactly if its code folds, with what it folds to.    *)
LEMMA ReportIsFold ==
  ASSUME NEW k \in 1 .. LastEntry
  PROVE  /\ GetCaseFold(EntryCode(k)) \in Seq(Nat)
         /\ IF GetCaseFold(EntryCode(k)) = <<EntryCode(k)>>
              THEN ReportAt(k) = <<>>
              ELSE ReportAt(k) = Call(EntryCode(k), GetCaseFold(EntryCode(k)))
<1> DEFINE c == EntryCode(k)
<1>1. CASE "ascii_only" \in flags
  <2>1. c = 64 + k /\ c \in 65 .. 90 /\ GetCaseFold(c) = <<c + 32>>
    BY <1>1 DEF EntryCode, LastEntry, GetCaseFold, AsciiFold
  <2>2. ReportAt(k) = Call(64 + k, <<96 + k>>) /\ 96 + k = c + 32
    BY <1>1, <2>1 DEF ReportAt, AsciiReport, LastEntry
  <2>3. <<c + 32>> # <<c>> /\ <<c + 32>> \in Seq(Nat)
    BY <2>1
  <2> QED BY <2>1, <2>2, <2>3
<1>2. CASE "ascii_only" \notin flags
  <2> DEFINE item == FoldItems[k]
  <2>1. k \in DOMAIN FoldItems /\ c = item.from
    BY <1>2, ItemTypes DEF LastEntry, EntryCode
  <2>2. item \in FoldItem /\ item.to # <<c>> /\ item.special # <<c>>
    BY <2>1, ItemTypes, FoldAssumption
  <2>3. ItemsOf(c) = {k} /\ (CHOOSE n \in ItemsOf(c) : TRUE) = k
    BY <2>1, ItemFound
  <2>4. GetCaseFold(c) = IF IsTurkish(c) THEN <<TurkishFold[c]>>
                         ELSE IF TypeFlag \in item.types THEN item.to
                         ELSE IF IsSpecial(item) THEN item.special
                         ELSE <<c>>
    BY <1>2, <2>3 DEF GetCaseFold, UnicodeFold
  <2>5. ReportAt(k) = IF IsTurkish(c) THEN Call(c, <<TurkishFold[c]>>)
                      ELSE IF TypeFlag \in item.types THEN Call(c, item.to)
                      ELSE IF IsSpecial(item) THEN Call(c, item.special)
                      ELSE <<>>
    BY <1>2, <2>1 DEF ReportAt, Report
  <2>6. IsTurkish(c) => TurkishFold[c] \in Nat /\ TurkishFold[c] # c
    BY DEF IsTurkish, TurkishFold, I, SmallI, DottedI, DotlessI
  <2>7. c \in Nat /\ item.to \in Seq(Nat) /\ item.special \in Seq(Nat)
    BY <2>1, ItemTypes
  <2>9. <<c>> \in Seq(Nat) /\ (IsTurkish(c) => <<TurkishFold[c]>> \in Seq(Nat) /\ <<TurkishFold[c]>> # <<c>>)
    BY <2>6, <2>7
  <2> DEFINE t == TypeFlag \in item.types
             sp == IsSpecial(item)
             tu == IsTurkish(c)
             g == GetCaseFold(c)
             r == ReportAt(k)
  <2> SUFFICES g \in Seq(Nat) /\ IF g = <<c>> THEN r = <<>> ELSE r = Call(c, g)
    OBVIOUS
  <2> HIDE DEF t, sp, tu, g, r, item, c
  <2>10. CASE tu
    BY <2>4, <2>5, <2>9, <2>10 DEF t, sp, tu, g, r
  <2>11. CASE ~tu /\ t
    BY <2>2, <2>4, <2>5, <2>7, <2>11 DEF t, sp, tu, g, r
  <2>12. CASE ~tu /\ ~t /\ sp
    BY <2>2, <2>4, <2>5, <2>7, <2>12 DEF t, sp, tu, g, r
  <2>13. CASE ~tu /\ ~t /\ ~sp
    BY <2>4, <2>5, <2>9, <2>13 DEF t, sp, tu, g, r
  <2> QED BY <2>10, <2>11, <2>12, <2>13
<1> QED BY <1>1, <1>2

(* The codes that fold are the codes of the entries that are reported.       *)
LEMMA FoldingIs ==
  Folding = {EntryCode(k) : k \in {j \in 1 .. LastEntry : ReportAt(j) # <<>>}}
<1>1. \A k \in 1 .. LastEntry :
        ReportAt(k) # <<>> <=> GetCaseFold(EntryCode(k)) # <<EntryCode(k)>>
  <2> SUFFICES ASSUME NEW k \in 1 .. LastEntry
               PROVE  ReportAt(k) # <<>> <=> GetCaseFold(EntryCode(k)) # <<EntryCode(k)>>
    OBVIOUS
  <2>1. \A c, s : Call(c, s) # <<>>
    BY DEF Call
  <2> QED BY <2>1, ReportIsFold
<1>2. \A k \in 1 .. LastEntry :
        EntryCode(k) \in {FoldItems[n].from : n \in DOMAIN FoldItems} \cup 65 .. 90
  <2>1. CASE "ascii_only" \in flags
    BY <2>1 DEF LastEntry, EntryCode
  <2>2. CASE "ascii_only" \notin flags
    <3>1. \A k \in 1 .. LastEntry : k \in DOMAIN FoldItems /\ EntryCode(k) = FoldItems[k].from
      BY <2>2, ItemTypes DEF LastEntry, EntryCode
    <3> QED BY <3>1
  <2> QED BY <2>1, <2>2
<1>3. ASSUME NEW c \in {FoldItems[n].from : n \in DOMAIN FoldItems} \cup 65 .. 90,
             GetCaseFold(c) # <<c>>
      PROVE  \E k \in 1 .. LastEntry : c = EntryCode(k)
  <2>1. CASE "ascii_only" \in flags
    <3>1. c \in 65 .. 90
      BY <1>3, <2>1 DEF GetCaseFold, AsciiFold
    <3>2. c - 64 \in 1 .. LastEntry /\ c = EntryCode(c - 64)
      BY <2>1, <3>1 DEF LastEntry, EntryCode
    <3> QED BY <3>2
  <2>2. CASE "ascii_only" \notin flags
    <3>1. ItemsOf(c) # {}
      BY <1>3, <2>2 DEF GetCaseFold, UnicodeFold
    <3>2. PICK n \in DOMAIN FoldItems : FoldItems[n].from = c
      BY <3>1 DEF ItemsOf
    <3> QED BY <2>2, <3>2, ItemTypes DEF LastEntry, EntryCode
  <2> QED BY <2>1, <2>2
<1> QED BY <1>1, <1>2, <1>3 DEF Folding

-----------------------------------------------------------------------------
(* The steps.                                                                *)

LEMMA IterationStarts == FoldInit => IterationInv
BY DEF FoldInit, IterationInv, Iterating

(* What an entry is about and what it folds to depend on the flags only.     *)
LEMMA SameTable ==
  ASSUME UNCHANGED flags
  PROVE  /\ LastEntry' = LastEntry
         /\ \A k : EntryCode(k)' = EntryCode(k) /\ ReportAt(k)' = ReportAt(k)
         /\ \A c : GetCaseFold(c)' = GetCaseFold(c)
BY DEF LastEntry, EntryCode, ReportAt, Report, AsciiReport, GetCaseFold, UnicodeFold, TypeFlag,
   IsTurkish, IsSpecial

(* Nothing is reported of an entry whose code does not fold.                 *)
LEMMA PassesEntry ==
  ASSUME IterationInv, IterateItem, ReportAt(reached + 1) = <<>>
  PROVE  IterationInv'
<1>1. /\ stage = "iterating" /\ reached < LastEntry /\ reached' = reached + 1 /\ stage' = stage
      /\ reported' = reported \o <<>> /\ UNCHANGED flags
  BY DEF IterateItem
<1>2. reported \in Seq([code : Nat, codes : Seq(Nat)]) /\ reached \in Nat /\ ReportedSoFar
  BY <1>1 DEF IterationInv, Iterating
<1>3. reported' = reported
  BY <1>1, <1>2, ConcatEmptySeq
<1>4. LastEntry \in Nat /\ reached + 1 <= LastEntry
  BY <1>1, <1>2, Entries
<1>5. (1 .. reached + 1) = (1 .. reached) \cup {reached + 1}
  BY <1>2
<1>6. ReportedSoFar'
  BY <1>1, <1>2, <1>3, <1>5, SameTable DEF ReportedSoFar
<1> QED BY <1>1, <1>2, <1>3, <1>4, <1>6, SameTable DEF IterationInv, Iterating

(* The entry of a code that folds is reported after all that come before it.  *)
LEMMA ReportsEntry ==
  ASSUME IterationInv, IterateItem, ReportAt(reached + 1) # <<>>
  PROVE  IterationInv'
<1> DEFINE c == EntryCode(reached + 1)
           one == [code |-> c, codes |-> GetCaseFold(c)]
           last == Len(reported) + 1
<1>1. /\ stage = "iterating" /\ reached < LastEntry /\ reached' = reached + 1 /\ stage' \in {"iterating", "stopped"}
      /\ reported' = reported \o ReportAt(reached + 1) /\ UNCHANGED flags
  BY DEF IterateItem
<1>2. reported \in Seq([code : Nat, codes : Seq(Nat)]) /\ reached \in Nat /\ ReportedSoFar
  BY <1>1 DEF IterationInv, Iterating
<1>3. LastEntry \in Nat /\ reached + 1 <= LastEntry /\ reached + 1 \in 1 .. LastEntry
  BY <1>1, <1>2, Entries
<1>4. c \in Nat /\ GetCaseFold(c) \in Seq(Nat) /\ ReportAt(reached + 1) = <<one>>
  BY <1>3, Entries, ReportIsFold DEF Call
<1> HIDE DEF c
<1>5. one \in [code : Nat, codes : Seq(Nat)]
  BY <1>4
<1> HIDE DEF one
<1>6. /\ reported' = Append(reported, one)
      /\ reported' \in Seq([code : Nat, codes : Seq(Nat)])
      /\ Len(reported) \in Nat /\ DOMAIN reported = 1 .. Len(reported)
      /\ Len(reported') = last /\ DOMAIN reported' = 1 .. last
      /\ reported'[last] = one
      /\ \A n \in 1 .. Len(reported) : reported'[n] = reported[n]
  <2>1. reported' = Append(reported, one)
    BY <1>1, <1>2, <1>4, <1>5, AppendIsConcat
  <2> QED BY <1>2, <1>5, <2>1, AppendProperties, LenProperties
<1>7. (1 .. reached + 1) = (1 .. reached) \cup {reached + 1} /\ (1 .. last) = (1 .. Len(reported)) \cup {last}
  BY <1>2, <1>6
<1>8. one.code = c /\ one.codes = GetCaseFold(c)
  BY DEF one
<1>9. \A n \in 1 .. Len(reported) : reported[n].code < c
  <2> SUFFICES ASSUME NEW n \in 1 .. Len(reported) PROVE reported[n].code < c
    OBVIOUS
  <2>1. PICK k \in 1 .. reached : reported[n].code = EntryCode(k)
    BY <1>2, <1>6 DEF ReportedSoFar
  <2> QED BY <1>2, <1>3, <2>1, Entries DEF c
<1>10. ASSUME NEW n \in 1 .. last
       PROVE  /\ reported'[n].codes = GetCaseFold(reported'[n].code)
              /\ \E k \in 1 .. reached + 1 : reported'[n].code = EntryCode(k) /\ ReportAt(k) # <<>>
              /\ n > 1 => reported'[n - 1].code < reported'[n].code
  <2>1. CASE n \in 1 .. Len(reported)
    <3>1. reported'[n] = reported[n] /\ (n > 1 => reported'[n - 1] = reported[n - 1])
      BY <1>6, <2>1
    <3>2. /\ reported[n].codes = GetCaseFold(reported[n].code)
          /\ \E k \in 1 .. reached : reported[n].code = EntryCode(k) /\ ReportAt(k) # <<>>
          /\ n > 1 => reported[n - 1].code < reported[n].code
      BY <1>2, <1>6, <2>1 DEF ReportedSoFar
    <3>3. \E k \in 1 .. reached + 1 : reported[n].code = EntryCode(k) /\ ReportAt(k) # <<>>
      BY <1>7, <3>2
    <3> QED BY <3>1, <3>2, <3>3
  <2>2. CASE n = last
    <3>1. n > 1 => n - 1 \in 1 .. Len(reported)
      BY <1>6, <2>2
    <3> QED BY <1>6, <1>7, <1>8, <1>9, <2>2, <3>1 DEF c
  <2> QED BY <1>7, <2>1, <2>2
<1>11. ASSUME NEW k \in 1 .. reached + 1, ReportAt(k) # <<>>
       PROVE  \E n \in 1 .. last : reported'[n].code = EntryCode(k)
  <2>1. CASE k = reached + 1
    BY <1>6, <1>7, <1>8, <2>1 DEF c
  <2>2. CASE k \in 1 .. reached
    <3>1. PICK n \in DOMAIN reported : reported[n].code = EntryCode(k)
      BY <1>2, <1>11, <2>2 DEF ReportedSoFar
    <3> QED BY <1>6, <1>7, <3>1
  <2> QED BY <1>7, <2>1, <2>2
<1>12. ReportedSoFar'
  <2>1. /\ reached' = reached + 1 /\ DOMAIN reported' = 1 .. last
        /\ \A k : EntryCode(k)' = EntryCode(k) /\ ReportAt(k)' = ReportAt(k)
    BY <1>1, <1>6, SameTable
  <2>2. \A d : GetCaseFold(d)' = GetCaseFold(d)
    BY <1>1, SameTable
  <2>3. ASSUME NEW n, n \in 1 .. last
        PROVE  (reported[n].codes = GetCaseFold(reported[n].code))'
    BY <1>10, <2>2, <2>3
  <2> HIDE DEF last
  <2> QED BY <1>10, <1>11, <2>1, <2>3 DEF ReportedSoFar
<1>13. reported' # <<>> /\ reported'[Len(reported')] = ReportAt(reached + 1)[1]
  BY <1>4, <1>6
<1> QED BY <1>1, <1>2, <1>3, <1>6, <1>12, <1>13, SameTable DEF IterationInv, Iterating

LEMMA OtherStepsKeep ==
  ASSUME IterationInv, Write \/ FoldText \/ FoldCode \/ Expand \/ Iterate \/ IterationEnds
                         \/ UNCHANGED fold_vars
  PROVE  IterationInv'
<1> USE DEF IterationInv, Iterating
<1>1. CASE Write
  BY <1>1 DEF Write
<1>2. CASE FoldText
  BY <1>2 DEF FoldText
<1>3. CASE FoldCode
  BY <1>3 DEF FoldCode
<1>4. CASE Expand
  BY <1>4 DEF Expand
<1>5. CASE Iterate
  <2>1. stage' = "iterating" /\ reached' = 0 /\ reached = 0 /\ reported' = <<>> /\ UNCHANGED <<flags, reported, reached>>
    BY <1>5 DEF Iterate
  <2>2. ReportedSoFar'
    BY <2>1 DEF ReportedSoFar
  <2>3. 0 <= LastEntry'
    BY <2>1, Entries, SameTable
  <2> QED BY <2>1, <2>2, <2>3
<1>6. CASE IterationEnds
  <2>1. stage = "iterating" /\ stage' = "iterated" /\ reached = LastEntry /\ UNCHANGED <<flags, reported, reached>>
    BY <1>6 DEF IterationEnds
  <2>2. ReportedSoFar'
    BY <2>1, SameTable DEF ReportedSoFar
  <2>3. LastEntry' = LastEntry
    BY <2>1, SameTable
  <2> QED BY <2>1, <2>2, <2>3
<1>7. CASE UNCHANGED fold_vars
  <2>1. UNCHANGED <<flags, stage, reported, reached>>
    BY <1>7 DEF fold_vars
  <2>2. ReportedSoFar => ReportedSoFar'
    BY <2>1, SameTable DEF ReportedSoFar
  <2>3. LastEntry' = LastEntry /\ ReportAt(reached)' = ReportAt(reached)
    BY <2>1, SameTable
  <2> QED BY <2>1, <2>2, <2>3
<1> QED BY <1>1, <1>2, <1>3, <1>4, <1>5, <1>6, <1>7

-----------------------------------------------------------------------------
(* At the end all entries have been passed: the codes reported are those that *)
(* fold.                                                                     *)
LEMMA InvReports == IterationInv => IterationReportsFolds
<1> SUFFICES ASSUME IterationInv PROVE IterationReportsFolds
  OBVIOUS
<1>1. CASE ~Iterating
  BY <1>1 DEF IterationInv, IterationReportsFolds, Iterating
<1>2. CASE Iterating
  <2>1. ReportedSoFar /\ reached \in Nat
    BY <1>2 DEF IterationInv
  <2>2. \A n \in DOMAIN reported :
          /\ reported[n].codes = GetCaseFold(reported[n].code)
          /\ n > 1 => reported[n - 1].code < reported[n].code
    BY <2>1 DEF ReportedSoFar
  <2>3. ASSUME stage = "iterated"
        PROVE  {reported[n].code : n \in DOMAIN reported} = Folding
    <3>1. reached = LastEntry
      BY <2>3 DEF IterationInv
    <3>2. \A n \in DOMAIN reported : reported[n].code \in Folding
      BY <2>1, <3>1, FoldingIs DEF ReportedSoFar
    <3>3. \A c \in Folding : \E n \in DOMAIN reported : reported[n].code = c
      BY <2>1, <3>1, FoldingIs DEF ReportedSoFar
    <3> QED BY <3>2, <3>3
  <2>4. stage = "stopped" => reported[Len(reported)] = ReportAt(reached)[1]
    BY DEF IterationInv
  <2> QED BY <2>2, <2>3, <2>4 DEF IterationReportsFolds
<1> QED BY <1>1, <1>2

(* encoding_unicode.c, nk_enc_unicode_iterate_case_fold: for every table of    *)
(* items and all flags, the callback gets every code that folds with what it   *)
(* folds to, in the order of the codes and once, and nothing after the call    *)
(* that failed.                                                              *)
THEOREM FoldsAreReported == FoldSpec => []IterationReportsFolds
<1>1. IterationInv /\ [FoldNext]_fold_vars => IterationInv'
  BY PassesEntry, ReportsEntry, OtherStepsKeep DEF FoldNext
<1> QED BY <1>1, IterationStarts, InvReports, PTL DEF FoldSpec
=============================================================================
