------------------------------ MODULE MbcHeads ------------------------------
(***************************************************************************)
(* Where the character begins that a byte belongs to: nk_enc_adjust_mbc_   *)
(* head of include/naraku_encoding.h, the functions of the encodings it    *)
(* calls, and the cache of src/adjust_mbc_head_context.c, a window of the  *)
(* text with a bit for every byte known to be the first of a character.    *)
(***************************************************************************)
EXTENDS Integers, Sequences

CONSTANTS
  Texts,   \* records of an encoding, the bytes of a text and its heads, the first
           \* bytes of its characters, counted from 0
  Word     \* bits of a word of the cache: 64, a smaller even number for TLC

U == INSTANCE Utf8
S == INSTANCE ShiftJis

ScanWidth(text, at) ==
  LET rest == SubSeq(text.bytes, at + 1, Len(text.bytes))
  IN  CASE text.encoding = "UTF-8" -> U!ScanWidth(rest)
        [] text.encoding = "Shift_JIS" -> S!ScanWidth(rest)
        [] OTHER -> 1

(* Valid text: characters one after the other, each of them complete.         *)
IsValid(text) ==
  LET width(head) == ScanWidth(text, head)
  IN  /\ text.bytes \in Seq(U!Byte)
      /\ text.heads \subseteq 0 .. Len(text.bytes) - 1
      /\ text.bytes # <<>> => 0 \in text.heads
      /\ \A head \in text.heads :
           /\ width(head) > 0
           /\ head + width(head) \in text.heads \cup {Len(text.bytes)}
           /\ \A at \in head + 1 .. head + width(head) - 1 : at \notin text.heads

(* adjust_mbc_head is for valid text only (naraku_encoding.h).                 *)
ASSUME HeadsAssumption ==
  /\ \A text \in Texts : IsValid(text) /\ text.encoding \in {"UTF-8", "Shift_JIS", "ISO-8859-1"}
  /\ Word \in Nat \ {0} /\ Word % 2 = 0

VARIABLES
  text,
  use_cache,
  cache_start_offset, head_bits_capacity,   \* the window, in bytes and in words
  head_bits,                                \* bits that are set, counted from cache_start_offset
  pc,
  target,                                   \* the byte asked for
  bytes,                                    \* where the scan stands
  answer                                    \* the head returned, and what returned it

vars == <<text, use_cache, cache_start_offset, head_bits_capacity, head_bits, pc, target, bytes,
          answer>>
Cache == <<cache_start_offset, head_bits_capacity, head_bits>>

Length == Len(text.bytes)
ByteAt(at) == text.bytes[at + 1]

Answer(by, head) == [by |-> by, head |-> head]

(* nk_enc_adjust_mbc_head_context_init.                                        *)
Init ==
  /\ text \in Texts
  /\ use_cache \in BOOLEAN
  /\ cache_start_offset = 0 /\ head_bits_capacity = 0 /\ head_bits = {}
  /\ pc = "idle"
  /\ target = 0 /\ bytes = 0
  /\ answer = Answer("nothing", 0)

Return(by, head) ==
  /\ pc' = "idle"
  /\ answer' = Answer(by, head)
  /\ bytes' = 0
  /\ UNCHANGED <<text, use_cache, target>>

GoTo(point, at) ==
  /\ pc' = point
  /\ bytes' = at
  /\ UNCHANGED <<text, use_cache, Cache, target, answer>>

-----------------------------------------------------------------------------
(* nk_enc_adjust_mbc_head: what every encoding shares.                         *)

Adjust ==
  /\ pc = "idle"
  /\ target' \in 0 .. Length
  /\ pc' = "begin"
  /\ answer' = Answer("nothing", 0)
  /\ UNCHANGED <<text, use_cache, Cache, bytes>>

(* nk_enc_adjust_mbc_head_context_free: the window is given up, and can be grown *)
(* anew.                                                                         *)
FreeContext ==
  /\ pc = "idle" /\ use_cache
  /\ cache_start_offset' = 0 /\ head_bits_capacity' = 0 /\ head_bits' = {}
  /\ answer' = Answer("nothing", 0)
  /\ UNCHANGED <<text, use_cache, pc, target, bytes>>

HasFixedWidth == text.encoding = "ISO-8859-1"

AdjustFixedWidth == pc = "begin" /\ HasFixedWidth /\ Return("width", target) /\ UNCHANGED Cache

AdjustPastEnd ==
  pc = "begin" /\ ~HasFixedWidth /\ target = Length /\ Return("end", target) /\ UNCHANGED Cache

IsSelfSync == text.encoding = "UTF-8"

MaxWidth == 2

(* The bit is looked up by the offset in the text, not in the window.          *)
IsCandidate(head) ==
  /\ head \in head_bits
  /\ ScanWidth(text, head) > 0
  /\ head + ScanWidth(text, head) > target

Candidates ==
  IF use_cache /\ ~IsSelfSync /\ cache_start_offset <= target
    THEN {head \in 0 .. target :
            head > target - MaxWidth /\ head >= cache_start_offset /\ IsCandidate(head)}
    ELSE {}

AdjustFromCache ==
  /\ pc = "begin" /\ ~HasFixedWidth /\ target < Length
  /\ \E head \in Candidates :
       (\A other \in Candidates : other <= head) /\ Return("cache", head)
  /\ UNCHANGED Cache

AdjustByScan ==
  /\ pc = "begin" /\ ~HasFixedWidth /\ target < Length
  /\ Candidates = {}
  /\ GoTo(IF IsSelfSync \/ S!IsSecondByte(ByteAt(target)) THEN "back" ELSE "ensure", target)

-----------------------------------------------------------------------------
(* utf_8_adjust_mbc_head, and the loop of shift_jis_adjust_mbc_head.           *)

BackInUtf8 ==
  /\ pc = "back" /\ IsSelfSync
  /\ IF bytes > 0 /\ U!IsContinuation(ByteAt(bytes))
       THEN GoTo("back", bytes - 1)
       ELSE Return("scan", bytes) /\ UNCHANGED Cache

InWindow(at) ==
  at \in cache_start_offset .. cache_start_offset + head_bits_capacity * Word - 1

(* Variant: the bit is looked up by the offset in the text.                    *)
IsCachedByOffset(at) == use_cache /\ InWindow(at) /\ at \in head_bits

IsCached(at) == use_cache /\ InWindow(at) /\ at - cache_start_offset \in head_bits

Back ==
  /\ pc = "back" /\ ~IsSelfSync
  /\ \/ bytes = 0 /\ GoTo("ensure", bytes)
     \/ bytes > 0 /\ IsCached(bytes - 1) /\ GoTo("ensure", bytes - 1)
     \/ /\ bytes > 0 /\ ~IsCached(bytes - 1)
        /\ IF S!FirstByteWidth(ByteAt(bytes - 1)) = 2
             THEN GoTo("back", bytes - 1)
             ELSE GoTo("ensure", bytes)

-----------------------------------------------------------------------------
(* adjust_mbc_head_context_cache_ensure: a window over the bytes from bytes to  *)
(* target, in whole words.                                                      *)

Chunk == Word
Expansion(diff) == IF diff > Chunk THEN diff ELSE Chunk
RoundDown(offset) == (offset \div Word) * Word
RoundUp(offset) == RoundDown(offset + Word - 1)

WindowEnd == cache_start_offset + head_bits_capacity * Word

NewStart ==
  LET by == Expansion(cache_start_offset - bytes)
  IN  IF head_bits_capacity = 0 THEN RoundDown(bytes)
      ELSE IF bytes >= cache_start_offset THEN cache_start_offset
      ELSE IF cache_start_offset > by THEN RoundDown(cache_start_offset - by)
      ELSE 0

NewEnd ==
  IF head_bits_capacity = 0 THEN RoundUp(NewStart + Expansion(target + 1 - NewStart))
  ELSE IF target + 1 > WindowEnd THEN RoundUp(WindowEnd + Expansion(target + 1 - WindowEnd))
  ELSE WindowEnd

NeedsExpansion ==
  head_bits_capacity = 0 \/ bytes < cache_start_offset \/ target + 1 > WindowEnd

(* Variant: what was known is copied to the front of the new window.            *)
InFront == head_bits

Moved == {bit + ((cache_start_offset - NewStart) \div Word) * Word : bit \in head_bits}

Ensure ==
  /\ pc = "ensure"
  /\ \/ /\ use_cache => ~NeedsExpansion
        /\ GoTo("mark", bytes)
     \/ /\ use_cache /\ NeedsExpansion
        /\ head_bits' = Moved
        /\ cache_start_offset' = NewStart
        /\ head_bits_capacity' = (NewEnd - NewStart) \div Word
        /\ pc' = "mark"
        /\ UNCHANGED <<text, use_cache, target, bytes, answer>>
     \/ use_cache /\ NeedsExpansion /\ Return("failure", target) /\ UNCHANGED Cache

-----------------------------------------------------------------------------
(* adjust_mbc_head_context_cache_set and _fill_step2: every other bit of the    *)
(* words the bytes lie in, masked in the first of them and in the last.          *)

FillStep2(from, to) ==
  LET lo == from - cache_start_offset
      hi == to - 1 - cache_start_offset
      mask(word) == {bit \in 0 .. Word - 1 :
                       /\ bit % 2 = lo % 2
                       /\ word = lo \div Word => bit >= lo % Word
                       /\ word = hi \div Word => bit <= hi % Word}
  IN  IF from >= to \/ ~InWindow(from) \/ ~InWindow(to - 1) THEN {}
      ELSE UNION {{word * Word + bit : bit \in mask(word)} : word \in lo \div Word .. hi \div Word}

(* From the head found on, the bytes before the target are first bytes of two.   *)
Mark ==
  LET width == S!FirstByteWidth(ByteAt(bytes))
      set == IF InWindow(bytes) THEN {bytes - cache_start_offset} ELSE {}
      is_found == bytes + width > target
      filled == IF is_found THEN {} ELSE FillStep2(bytes + width, target + 1)
  IN  /\ pc = "mark"
      /\ head_bits' = IF use_cache THEN head_bits \cup set \cup filled ELSE head_bits
      /\ Return("scan", IF is_found THEN bytes
                        ELSE bytes + width + 2 * ((target - bytes - width) \div 2))
      /\ UNCHANGED <<cache_start_offset, head_bits_capacity>>

-----------------------------------------------------------------------------

Next ==
  \/ Adjust \/ AdjustFixedWidth \/ AdjustPastEnd \/ AdjustFromCache \/ AdjustByScan
  \/ BackInUtf8 \/ Back \/ Ensure \/ Mark
  \/ FreeContext

Spec == Init /\ [][Next]_vars

-----------------------------------------------------------------------------

TypeOK ==
  /\ cache_start_offset \in Nat /\ head_bits_capacity \in Nat
  /\ head_bits \subseteq 0 .. head_bits_capacity * Word - 1
  /\ pc \in {"idle", "begin", "back", "ensure", "mark"}
  /\ target \in 0 .. Length /\ bytes \in 0 .. Length

(* adjust_mbc_head_context.c: every bit that is set is the first byte of a       *)
(* character, wherever the window lies and however often it has moved; one that  *)
(* is not makes every later scan over it answer wrongly.                          *)
HeadBitsAreHeads == \A bit \in head_bits : cache_start_offset + bit \in text.heads

IsHeadOf(head, at) ==
  /\ head <= at /\ (head \in text.heads \/ head = Length)
  /\ \A other \in text.heads : other > head => other > at

(* A scan, and a window that begins with the text, find the head of the           *)
(* character the byte belongs to, in any order of calls.                           *)
HeadIsRight ==
  /\ pc = "idle" /\ answer.by \in {"width", "end", "scan"} => IsHeadOf(answer.head, target)
  /\ pc = "idle" /\ answer.by = "cache" /\ cache_start_offset = 0 => IsHeadOf(answer.head, target)

(* nk_enc_adjust_mbc_head: an answer from the cache is the head as well.            *)
CachedHeadIsRight == pc = "idle" /\ answer.by = "cache" => IsHeadOf(answer.head, target)
=============================================================================
