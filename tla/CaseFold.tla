------------------------------ MODULE CaseFold ------------------------------
(***************************************************************************)
(* Case folding of the Unicode encodings, src/encoding_unicode.c and the   *)
(* wrappers of include/naraku_encoding.h: a text is folded code by code,   *)
(* the codes that fold to the beginning of it are looked up, and all that  *)
(* fold are gone through with a callback that may stop.  The tables are    *)
(* those tools/gen_case_map.rb makes of the items.                         *)
(***************************************************************************)
EXTENDS Integers, Sequences, FiniteSets

CONSTANTS
  FoldItems,   \* UNICODE_FOLD_ITEMS, in the order of from: what an item folds to,
               \* for which types ("fold", "fold_full"), and special, its full
               \* folding if that is another one, <<>> if not
  Codes,       \* codes a text is written with
  MaxText      \* bound: codes of a text

FoldItem ==
  [from : Nat, types : SUBSET {"fold", "fold_full"}, to : Seq(Nat), special : Seq(Nat)]

(* case_map.rb keeps the items by the code they are of and leaves out what maps a *)
(* code to itself (line 23); gen_case_map.rb writes them sorted (line 125).       *)
ASSUME FoldAssumption ==
  /\ FoldItems \in Seq(FoldItem)
  /\ \A m, n \in DOMAIN FoldItems : m < n => FoldItems[m].from < FoldItems[n].from
  /\ \A n \in DOMAIN FoldItems :
       <<FoldItems[n].from>> \notin {FoldItems[n].to, FoldItems[n].special}

VARIABLES
  flags,      \* a set of "full", "turkish_azeri", "ascii_only"
  written,
  stage,
  reached,    \* codes of the text folded so far, or the item the iteration is at
  folded,
  items,      \* nk_unfold_item_t: [len |-> codes of the folding, code |-> what folds to it]
  reported    \* what the callback was called with

fold_vars == <<flags, written, stage, reached, folded, items, reported>>

Flags == SUBSET {"full", "turkish_azeri"} \cup {{"ascii_only"}}

I == 73                \* LATIN CAPITAL LETTER I
SmallI == 105          \* LATIN SMALL LETTER I
DottedI == 304         \* LATIN CAPITAL LETTER I WITH DOT ABOVE
DotlessI == 305        \* LATIN SMALL LETTER DOTLESS I
MaxUnfoldItems == 5    \* NK_ENC_MAX_UNFOLD_ITEMS
TurkishFold == [code \in {I, DottedI} |-> IF code = I THEN DotlessI ELSE SmallI]

TypeFlag == IF "full" \in flags THEN "fold_full" ELSE "fold"
IsTurkish(code) == "turkish_azeri" \in flags /\ code \in DOMAIN TurkishFold
IsSpecial(item) == "full" \in flags /\ item.special # <<>>

ItemsOf(code) == {n \in DOMAIN FoldItems : FoldItems[n].from = code}

UnicodeFold(code) ==
  IF ItemsOf(code) = {} THEN <<code>>
  ELSE IF IsTurkish(code) THEN <<TurkishFold[code]>>
  ELSE LET item == FoldItems[CHOOSE n \in ItemsOf(code) : TRUE]
       IN  IF TypeFlag \in item.types THEN item.to
           ELSE IF IsSpecial(item) THEN item.special
           ELSE <<code>>

(* nk_enc_ascii_get_case_fold and nk_enc_ascii_expand_case_unfold, generated.   *)
AsciiFold(code) == IF code \in 65 .. 90 THEN <<code + 32>> ELSE <<code>>
AsciiUnfold(codes) ==
  IF codes[1] \in 97 .. 122 THEN <<[len |-> 1, code |-> codes[1] - 32]>> ELSE <<>>

GetCaseFold(code) == IF "ascii_only" \in flags THEN AsciiFold(code) ELSE UnicodeFold(code)

-----------------------------------------------------------------------------
(* nk_enc_unicode_expand_case_unfold.                                          *)

(* The entry of the table for a folding: every item that has it, as the one it  *)
(* folds to or as its special one.                                              *)
UnfoldLookup(codes) ==
  LET has(n) == FoldItems[n].to = codes \/ FoldItems[n].special = codes
  IN  SelectSeq([n \in DOMAIN FoldItems |-> n], has)

(* Variant: the rules for Turkish add to the others and do not replace them.    *)
NoneSkipped(item) == FALSE

Skipped(item) == IsTurkish(item.from)

(* The loop over an entry; an item may be taken for both of its foldings.        *)
UnfoldsOf(codes) ==
  LET entry == UnfoldLookup(codes)
      found(item) == [len |-> Len(codes), code |-> item.from]
      taken(item) ==
        IF Skipped(item) THEN <<>>
        ELSE (IF TypeFlag \in item.types THEN <<found(item)>> ELSE <<>>)
               \o (IF IsSpecial(item) THEN <<found(item)>> ELSE <<>>)
      from[n \in 0 .. Len(entry)] ==
        IF n = 0 THEN <<>> ELSE from[n - 1] \o taken(FoldItems[entry[n]])
  IN  from[Len(entry)]

TurkishUnfold(code) ==
  IF "turkish_azeri" \notin flags THEN <<>>
  ELSE CASE code = DotlessI -> <<[len |-> 1, code |-> I]>>
         [] code = SmallI -> <<[len |-> 1, code |-> DottedI]>>
         [] OTHER -> <<>>

UnicodeUnfold(codes) ==
  LET longer(n) == IF "full" \in flags /\ Len(codes) >= n THEN UnfoldsOf(SubSeq(codes, 1, n)) ELSE <<>>
  IN  TurkishUnfold(codes[1]) \o UnfoldsOf(<<codes[1]>>) \o longer(2) \o longer(3)

ExpandCaseUnfold(codes) ==
  IF "ascii_only" \in flags THEN AsciiUnfold(codes) ELSE UnicodeUnfold(codes)

-----------------------------------------------------------------------------
(* nk_enc_unicode_iterate_case_fold: what the callback is called with for an    *)
(* item, if it is called.                                                        *)

Call(code, codes) == <<[code |-> code, codes |-> codes]>>

(* Variant: the rules for Turkish are left to what an item says.                 *)
ReportOfTable(item) ==
  IF TypeFlag \in item.types THEN Call(item.from, item.to)
  ELSE IF IsSpecial(item) THEN Call(item.from, item.special)
  ELSE <<>>

Report(item) ==
  IF IsTurkish(item.from) THEN Call(item.from, <<TurkishFold[item.from]>>)
  ELSE IF TypeFlag \in item.types THEN Call(item.from, item.to)
  ELSE IF IsSpecial(item) THEN Call(item.from, item.special)
  ELSE <<>>

AsciiReport(n) == Call(64 + n, <<96 + n>>)

LastEntry == IF "ascii_only" \in flags THEN 26 ELSE Len(FoldItems)
ReportAt(n) == IF "ascii_only" \in flags THEN AsciiReport(n) ELSE Report(FoldItems[n])

-----------------------------------------------------------------------------

FoldInit ==
  /\ flags \in Flags
  /\ written = <<>>
  /\ stage = "writing"
  /\ reached = 0 /\ folded = <<>> /\ items = <<>> /\ reported = <<>>

Write ==
  /\ stage = "writing" /\ Len(written) < MaxText
  /\ \E code \in Codes : written' = Append(written, code)
  /\ UNCHANGED <<flags, stage, reached, folded, items, reported>>

FoldText ==
  /\ stage = "writing" /\ written # <<>>
  /\ stage' = "folding"
  /\ UNCHANGED <<flags, written, reached, folded, items, reported>>

FoldCode ==
  /\ stage = "folding" /\ reached < Len(written)
  /\ reached' = reached + 1
  /\ folded' = folded \o GetCaseFold(written[reached + 1])
  /\ UNCHANGED <<flags, written, stage, items, reported>>

Expand ==
  /\ stage = "folding" /\ reached = Len(written)
  /\ items' = ExpandCaseUnfold(folded)
  /\ stage' = "expanded"
  /\ UNCHANGED <<flags, written, reached, folded, reported>>

Iterate ==
  /\ stage = "writing" /\ written = <<>>
  /\ stage' = "iterating"
  /\ UNCHANGED <<flags, written, reached, folded, items, reported>>

(* The callback of the binding raises in the block it calls: the iteration ends. *)
IterateItem ==
  /\ stage = "iterating" /\ reached < LastEntry
  /\ reached' = reached + 1
  /\ reported' = reported \o ReportAt(reached + 1)
  /\ \/ stage' = stage
     \/ ReportAt(reached + 1) # <<>> /\ stage' = "stopped"
  /\ UNCHANGED <<flags, written, folded, items>>

IterationEnds ==
  /\ stage = "iterating" /\ reached = LastEntry
  /\ stage' = "iterated"
  /\ UNCHANGED <<flags, written, reached, folded, items, reported>>

FoldNext == Write \/ FoldText \/ FoldCode \/ Expand \/ Iterate \/ IterateItem \/ IterationEnds

FoldSpec == FoldInit /\ [][FoldNext]_fold_vars

-----------------------------------------------------------------------------

Folding ==
  {c \in {FoldItems[n].from : n \in DOMAIN FoldItems} \cup 65 .. 90 : GetCaseFold(c) # <<c>>}

Begins(short, long) == Len(short) <= Len(long) /\ SubSeq(long, 1, Len(short)) = short

(* naraku_encoding.h, nk_unfold_item_t: the unfoldings of a folded text are the    *)
(* codes that fold, under the same flags, to codes it begins with, with how many    *)
(* they are; every one of them, none twice, and never more than there is room for.  *)
UnfoldInvertsFold ==
  stage = "expanded" =>
    /\ {items[n] : n \in DOMAIN items} =
         {[len |-> Len(GetCaseFold(c)), code |-> c] : c \in {d \in Folding : Begins(GetCaseFold(d), folded)}}
    /\ \A m, n \in DOMAIN items : m # n => items[m] # items[n]
    /\ Len(items) <= MaxUnfoldItems

(* encoding_unicode.c: the iteration reports of every code that folds what it       *)
(* folds to, once and in order, and goes no further than the call that failed.       *)
IterationReportsFolds ==
  /\ \A n \in DOMAIN reported :
       /\ reported[n].codes = GetCaseFold(reported[n].code)
       /\ n > 1 => reported[n - 1].code < reported[n].code
  /\ stage = "iterated" =>
       {reported[n].code : n \in DOMAIN reported} = Folding
  /\ stage = "stopped" => reported[Len(reported)] = ReportAt(reached)[1]
=============================================================================
